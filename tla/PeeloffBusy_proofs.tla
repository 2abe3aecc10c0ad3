------------------------- MODULE PeeloffBusy_proofs -------------------------
(***************************************************************************)
(* What the verdict of peeloffbusy is worth, and when the filter is gone,  *)
(* for every number of sends and size of send buffer, on every kernel.     *)
(***************************************************************************)
EXTENDS PeeloffBusy, TLAPS

\* Where the verdict comes from.
Earned ==
    /\ main = "connect" => assoc = "none"
    /\ assoc = "stolen" => kernel # "deny"
    /\ assoc = "lost" => "lost" \in causes
    /\ PassMeansStolen

\* Who sleeps has a message to send.
InLoop == main = "asleep" => i < Sends

Before == {"connect", "create", "filter"}

\* As long as nothing has gone wrong, the filter is on from the main thread's
\* call to the other thread's flush, which comes later.
Order ==
    causes = {} =>
        /\ thr = "none" <=> main \in {"connect", "create"}
        /\ thr # "failed"
        /\ thr \in {"peeloff", "flush", "done"} => main \notin Before
        /\ main \notin Before => (rule <=> thr # "done")
        /\ main = "exited" => thr = "done"

\* On a kernel that fails a robbed sender, what is sent stays in the buffer
\* until it is full, and the association is taken only then.
Fills ==
    causes = {} /\ kernel = "epipe" =>
        /\ main \in Before => i = 0 /\ queue = 0
        /\ main \in {"create", "filter", "send"} => assoc = "up" /\ queue = i
        /\ main = "send" => thr \in {"asoc_id", "sleep"}
        /\ main = "asleep" =>
            \/ thr \in {"asoc_id", "sleep", "peeloff"} /\ assoc = "up" /\ queue >= sndbuf
            \/ thr \in {"flush", "done"} /\ assoc = "stolen"
        /\ main \in {"join", "exited"} => pass \/ sndbuf >= Sends

IInv == TypeOK /\ InLoop /\ Earned /\ Order /\ Fills

\* The initial states satisfy the invariant.
LEMMA Initially == Init => IInv
<1> SUFFICES ASSUME Init PROVE IInv
  OBVIOUS
<1>1. TypeOK
  <2>1. sndbuf \in Nat BY SndBufsAssumption DEF Init
  <2>2. i \in 0 .. Sends /\ queue \in 0 .. sndbuf BY <2>1, SendsAssumption DEF Init
  <2> QED BY <2>2 DEF Init, TypeOK
<1>2. InLoop /\ Earned /\ Order /\ Fills
  BY DEF Init, InLoop, Earned, PassMeansStolen, Order, Fills, Before
<1> QED BY <1>1, <1>2 DEF IInv

\* The steps of the main thread preserve it.
LEMMA MainKeeps == ASSUME IInv, Main PROVE IInv'
<1> USE SendsAssumption, SndBufsAssumption
    DEF IInv, TypeOK, InLoop, Earned, PassMeansStolen, Order, Fills, Before
<1>1. CASE Connect BY <1>1 DEF Connect
<1>2. CASE ConnectFails BY <1>2 DEF ConnectFails, Failed
<1>3. CASE CreateThread BY <1>3 DEF CreateThread, Failed
<1>4. CASE FilterData BY <1>4 DEF FilterData, Failed
<1>5. CASE SendMsg
  <2>1. TypeOK' BY <1>5 DEF SendMsg, Sending
  <2>2. (InLoop /\ Earned)' BY <1>5 DEF SendMsg, Sending
  <2>3. Order' BY <1>5 DEF SendMsg, Sending
  <2>4. Fills' BY <1>5 DEF SendMsg, Sending
  <2> QED BY <2>1, <2>2, <2>3, <2>4
<1>6. CASE SendSleeps BY <1>6 DEF SendSleeps, Sending
<1>7. CASE SendError
  <2>1. TypeOK'
    <3>1. i' \in 0 .. Sends BY <1>7 DEF SendError, Sending
    <3>2. causes' \in SUBSET {"call", "late", "lost"} BY <1>7 DEF SendError, Failed
    <3> QED BY <1>7, <3>1, <3>2 DEF SendError
  <2>2. (InLoop /\ Earned)' BY <1>7 DEF SendError, Sending, Failed
  <2>3. Order' BY <1>7 DEF SendError, Sending, Failed
  <2>4. Fills' BY <1>7 DEF SendError, Sending, Failed
  <2> QED BY <2>1, <2>2, <2>3, <2>4
<1>8. CASE WakeAndSend
  <2>1. TypeOK' BY <1>8 DEF WakeAndSend
  <2>2. (InLoop /\ Earned)' BY <1>8 DEF WakeAndSend
  <2>3. Order' BY <1>8 DEF WakeAndSend
  <2>4. Fills' BY <1>8 DEF WakeAndSend
  <2> QED BY <2>1, <2>2, <2>3, <2>4
<1>9. CASE WakeToEpipe BY <1>9 DEF WakeToEpipe
<1>10. CASE LoopEnds BY <1>10 DEF LoopEnds
<1>11. CASE JoinAndExit
  <2>1. CASE thr = "done" /\ UNCHANGED pass
    BY <1>11, <2>1 DEF JoinAndExit
  <2>2. CASE thr = "failed" /\ pass' \in {pass, FALSE}
    <3>1. pass' \in BOOLEAN /\ (pass' => pass)
      <4>1. pass \in BOOLEAN OBVIOUS
      <4>2. pass' = pass \/ pass' = FALSE BY <2>2, Zenon
      <4> HIDE DEF IInv, TypeOK, InLoop, Earned, PassMeansStolen, Order, Fills, Before
      <4>3. CASE pass' = pass BY ONLY <4>1, <4>3
      <4>4. CASE pass' = FALSE BY ONLY <4>4
      <4> QED BY ONLY <4>2, <4>3, <4>4
    <3>2. causes # {} BY <2>2
    <3> QED BY <1>11, <3>1, <3>2 DEF JoinAndExit
  <2> QED BY <1>11, <2>1, <2>2 DEF JoinAndExit
<1> HIDE DEF IInv, TypeOK, InLoop, Earned, PassMeansStolen, Order, Fills, Before
<1> QED
  BY <1>1, <1>2, <1>3, <1>4, <1>5, <1>6, <1>7, <1>8, <1>9, <1>10, <1>11 DEF Main

\* The steps of the other thread preserve it.
LEMMA ThreadKeeps == ASSUME IInv, Thread PROVE IInv'
<1> USE SendsAssumption, SndBufsAssumption
    DEF IInv, TypeOK, InLoop, Earned, PassMeansStolen, Order, Fills, Before
<1>1. CASE GetAsocId
  <2>1. causes' \in SUBSET {"call", "late", "lost"} BY <1>1 DEF GetAsocId, Failed
  <2>2. CASE UNCHANGED causes /\ thr' = "sleep" BY <1>1, <2>1, <2>2 DEF GetAsocId
  <2>3. CASE thr' = "flush" /\ causes' # {} /\ causes \subseteq causes' BY <1>1, <2>1, <2>3 DEF GetAsocId
  <2> QED BY <1>1, <2>2, <2>3 DEF GetAsocId, Failed
<1>2. CASE ThreadWakes
  <2>1. causes' \in SUBSET {"call", "late", "lost"} BY <1>2 DEF ThreadWakes
  <2>2. CASE UNCHANGED causes /\ main \in {"asleep", "join"} BY <1>2, <2>1, <2>2 DEF ThreadWakes
  <2>3. CASE causes' # {} /\ causes \subseteq causes' BY <1>2, <2>1, <2>3 DEF ThreadWakes
  <2> QED BY <1>2, <2>2, <2>3 DEF ThreadWakes
<1>3. CASE Peeloff
  <2>1. causes' \in SUBSET {"call", "late", "lost"} BY <1>3 DEF Peeloff, Failed
  <2>2. CASE UNCHANGED causes BY <1>3, <2>1, <2>2 DEF Peeloff, Failed
  <2>3. CASE UNCHANGED assoc /\ causes' # {} /\ causes \subseteq causes'
    BY <1>3, <2>1, <2>3 DEF Peeloff
  <2> QED BY <1>3, <2>2, <2>3 DEF Peeloff, Failed
<1>4. CASE Flush
  <2>1. causes' \in SUBSET {"call", "late", "lost"} BY <1>4 DEF Flush, Failed
  <2>2. CASE UNCHANGED causes /\ rule' = FALSE BY <1>4, <2>1, <2>2 DEF Flush
  <2>3. CASE UNCHANGED rule /\ causes' # {} /\ causes \subseteq causes' BY <1>4, <2>1, <2>3 DEF Flush
  <2> QED BY <1>4, <2>2, <2>3 DEF Flush, Failed
<1> HIDE DEF IInv, TypeOK, InLoop, Earned, PassMeansStolen, Order, Fills, Before
<1> QED
  BY <1>1, <1>2, <1>3, <1>4 DEF Thread

\* The network preserves it.
LEMMA NetworkKeeps == ASSUME IInv, Deliver \/ GiveUp PROVE IInv'
<1> USE SendsAssumption, SndBufsAssumption
    DEF IInv, TypeOK, InLoop, Earned, PassMeansStolen, Order, Fills, Before
<1>1. CASE Deliver BY <1>1 DEF Deliver
<1>2. CASE GiveUp BY <1>2 DEF GiveUp
<1> HIDE DEF IInv, TypeOK, InLoop, Earned, PassMeansStolen, Order, Fills, Before
<1> QED
  BY <1>1, <1>2

\* The invariant holds in every reachable state.
THEOREM InductiveInvariant == Spec => []IInv
<1>1. IInv /\ UNCHANGED vars => IInv'
  BY DEF IInv, TypeOK, InLoop, Earned, PassMeansStolen, Order, Fills, Before, vars
<1>2. IInv /\ [Next]_vars => IInv'
  BY <1>1, MainKeeps, ThreadKeeps, NetworkKeeps DEF Next
<1> QED
  BY Initially, <1>2, PTL DEF Spec

\* Every variable of the client, the kernel and the filter has its type.
THEOREM TypeCorrectness == Spec => []TypeOK
<1>1. IInv => TypeOK BY DEF IInv
<1> QED BY <1>1, InductiveInvariant, PTL

\* The client passes only if the association was taken from under a sleeping
\* sender, or given up by SCTP.
THEOREM PassIsEarned == Spec => []PassMeansStolen
<1>1. IInv => PassMeansStolen BY DEF IInv, Earned
<1> QED BY <1>1, InductiveInvariant, PTL

\* On a kernel that answers EPIPE a failure has a cause outside the kernel, or
\* a buffer that the loop cannot fill.
THEOREM FailureHasCause == Spec => []FailHasCause
<1>1. IInv => FailHasCause BY DEF IInv, Fills, FailHasCause
<1> QED BY <1>1, InductiveInvariant, PTL

\* The client that ends without mishap leaves no filter behind.
THEOREM FilterIsGone == Spec => []NoRuleLeft
<1>1. IInv => NoRuleLeft BY DEF IInv, TypeOK, Order, Before, NoRuleLeft
<1> QED BY <1>1, InductiveInvariant, PTL
=============================================================================
