------------------------ MODULE SctpHashTable_proofs ------------------------
(***************************************************************************)
(* What a verdict of sctphashtable says of the time, for every number of   *)
(* associations and messages and every limit.                              *)
(***************************************************************************)
EXTENDS SctpHashTable, Integers, FiniteSetTheorems, TLAPS

\* The clock of a client's own check runs within that of timeout(1), and the
\* loop of sends is left when it is through.
IInv ==
    /\ TypeOK
    /\ start <= clock
    /\ "slow" \notin why
    /\ pc \in {"check", "close", "pause"} => sent = Loops

-----------------------------------------------------------------------------
\* The initial states satisfy the invariant.
LEMMA Initially == Init => IInv
<1> SUFFICES ASSUME Init PROVE IInv
  OBVIOUS
<1>1. 0 \in 0 .. Limit /\ 0 \in 0 .. Limit + Pause /\ 0 \in 0 .. Loops
  BY TimeAssumption, CntAssumption
<1>2. results \in Seq({"PASS", "FAIL"}) /\ Len(results) = 0 /\ Len(Families) = 2
  BY DEF Init, Families
<1> QED BY <1>1, <1>2 DEF Init, IInv, TypeOK

\* The results after one was logged.
LEMMA Logged ==
    ASSUME IInv, ~Finished, NEW r \in {"PASS", "FAIL"}
    PROVE  /\ Append(results, r) \in Seq({"PASS", "FAIL"})
           /\ Len(Append(results, r)) = Len(results) + 1
           /\ Len(Append(results, r)) <= Len(Families)
<1>1. results \in Seq({"PASS", "FAIL"}) /\ Len(results) <= 2 /\ Len(results) # 2 /\ Len(Families) = 2
  BY DEF IInv, TypeOK, Finished, Families
<1>2. Len(results) \in Nat
  BY <1>1
<1>3. Append(results, r) \in Seq({"PASS", "FAIL"}) /\ Len(Append(results, r)) = Len(results) + 1
  BY <1>1
<1> DEFINE n == Len(results)
<1>4. n + 1 <= 2
  <2>1. n \in Nat /\ n <= 2 /\ n # 2 BY <1>1, <1>2
  <2> HIDE DEF n
  <2> QED BY <2>1
<1> QED BY <1>1, <1>3, <1>4

\* The next client begins in a state of the invariant.
LEMMA ExitKeeps ==
    ASSUME IInv, ~Finished, NEW r \in {"PASS", "FAIL"}, NEW reason \in SUBSET {"call", "timeout"},
           Exit(r, reason)
    PROVE  IInv'
<1>1. 0 \in 0 .. Limit /\ 0 \in 0 .. Limit + Pause /\ 0 \in 0 .. Loops
  BY TimeAssumption, CntAssumption
<1>2. results' \in Seq({"PASS", "FAIL"}) /\ Len(results') <= Len(Families)
  BY Logged DEF Exit
<1>3. why' \in SUBSET {"call", "timeout", "slow"} /\ "slow" \notin why'
  BY DEF Exit, IInv, TypeOK
<1>4. pc' = "connect" /\ fds' = {} /\ sent' = 0 /\ clock' = 0 /\ start' = 0 /\ until' = 0
  BY DEF Exit, NewClient
<1> QED BY <1>1, <1>2, <1>3, <1>4 DEF IInv, TypeOK

\* The entries that create_assocs() fills are those of the table.
LEMMA EntryInTable ==
    ASSUME NEW k \in Nat, k < Cnt * Cnt
    PROVE  Entry(k) \in Entries
<1>1. Cnt \in Nat /\ Cnt > 0
  BY CntAssumption
<1>2. PICK q \in Int, r \in 0 .. Cnt - 1 : k = q * Cnt + r /\ k \div Cnt = q /\ k % Cnt = r
  <2>1. k \div Cnt \in Int /\ k % Cnt \in 0 .. Cnt - 1 /\ k = (k \div Cnt) * Cnt + (k % Cnt)
    BY <1>1, SMT
  <2> QED BY <2>1
<1>3. q >= 0
  <2>1. SUFFICES ASSUME q <= -1 PROVE FALSE BY <1>2
  <2>2. q * Cnt <= -Cnt BY <2>1, <1>1, <1>2, SMT
  <2> QED BY <2>2, <1>1, <1>2
<1>4. q <= Cnt - 1
  <2>1. SUFFICES ASSUME q >= Cnt PROVE FALSE BY <1>1, <1>2
  <2>2. q * Cnt >= Cnt * Cnt BY <2>1, <1>1, <1>2, SMT
  <2> QED BY <2>2, <1>1, <1>2
<1> QED BY <1>1, <1>2, <1>3, <1>4 DEF Entry, Entries

-----------------------------------------------------------------------------
\* Every step preserves the invariant.
LEMMA Preserved == IInv /\ [Next]_vars => IInv'
<1> SUFFICES ASSUME IInv, [Next]_vars PROVE IInv'
  OBVIOUS
<1> USE TimeAssumption, CntAssumption DEF In
<1>1. CASE Connect
  BY <1>1 DEF Connect, IInv, TypeOK
<1>2. CASE CreateAssoc
  <2>1. IsFiniteSet(Entries)
    <3>1. IsFiniteSet(0 .. Cnt - 1) BY FS_Interval
    <3> QED BY <3>1, FS_Product DEF Entries
  <2>2. Cardinality(fds) \in Nat
    BY <2>1, FS_Subset, FS_CardinalityType DEF IInv, TypeOK
  <2>3. Entry(Cardinality(fds)) \in Entries
    BY <1>2, <2>2, EntryInTable DEF CreateAssoc
  <2>4. fds' \in SUBSET Entries
    BY <1>2, <2>3 DEF CreateAssoc, IInv, TypeOK
  <2> QED BY <1>2, <2>4 DEF CreateAssoc, IInv, TypeOK
<1>3. CASE StartClock
  BY <1>3 DEF StartClock, IInv, TypeOK
<1>4. CASE Send
  BY <1>4 DEF Send, IInv, TypeOK
<1>5. CASE StopClock
  BY <1>5 DEF StopClock, IInv, TypeOK
<1>6. CASE CheckTime
  \* What a client measures is less than what timeout(1) does.
  <2>1. ~TooSlow(clock - start)
    <3>1. clock \in 0 .. Limit /\ start \in 0 .. Limit BY DEF IInv, TypeOK
    <3> QED BY <3>1 DEF TooSlow
  <2> QED BY <1>6, <2>1 DEF CheckTime, IInv, TypeOK
<1>7. CASE CloseAll
  BY <1>7 DEF CloseAll, IInv, TypeOK
<1>8. CASE ExitWell
  BY <1>8, ExitKeeps DEF ExitWell
<1>9. CASE CallFails
  BY <1>9, ExitKeeps DEF CallFails
<1>10. CASE Timeout
  BY <1>10, ExitKeeps DEF Timeout
<1>11. CASE Tick
  BY <1>11 DEF Tick, IInv, TypeOK
<1>12. CASE UNCHANGED vars
  BY <1>12 DEF vars, IInv, TypeOK
<1> QED
  BY <1>1, <1>2, <1>3, <1>4, <1>5, <1>6, <1>7, <1>8, <1>9, <1>10, <1>11, <1>12 DEF Next

\* A step that logs a PASS.
LEMMA PassStep ==
    IInv /\ [Next]_vars =>
        \A k \in 1 .. Len(results') :
            k > Len(results) /\ results'[k] = "PASS" => sent = Loops /\ until <= Limit
<1> SUFFICES ASSUME IInv, [Next]_vars, NEW k \in 1 .. Len(results'), k > Len(results),
                    results'[k] = "PASS"
             PROVE  sent = Loops /\ until <= Limit
  OBVIOUS
<1>1. results' # results
  OBVIOUS
<1>2. ~Timeout /\ ~CallFails /\ ~CheckTime
  <2>1. SUFFICES ASSUME Timeout \/ CallFails \/ CheckTime PROVE FALSE
    OBVIOUS
  <2>2. ~Finished /\ results' = Append(results, "FAIL")
    BY <1>1, <2>1 DEF Timeout, CallFails, CheckTime, Exit, In
  <2>3. results \in Seq({"PASS", "FAIL"})
    BY DEF IInv, TypeOK
  <2>4. results'[Len(results) + 1] = "FAIL" /\ k = Len(results) + 1
    BY <2>2, <2>3
  <2> QED BY <2>4
<1>3. ExitWell
  BY <1>1, <1>2 DEF Next, vars, Connect, CreateAssoc, StartClock, Send, StopClock, CloseAll, Tick
<1> QED
  BY <1>3, TimeAssumption, CntAssumption DEF ExitWell, In, IInv, TypeOK

-----------------------------------------------------------------------------
\* The invariant of the case.
THEOREM InductiveInvariant == Spec => []IInv
BY Initially, Preserved, PTL DEF Spec

\* Every variable has its type: no socket is stored outside the client's table,
\* and the pause of a client ends within Pause seconds of the timeout.
THEOREM TypeCorrectness == Spec => []TypeOK
<1>1. IInv => TypeOK BY DEF IInv
<1> QED BY <1>1, InductiveInvariant, PTL

\* The client's own check of the time never fails it.
THEOREM OwnCheckNeverBites == Spec => []OwnCheckIsMoot
<1>1. IInv => OwnCheckIsMoot BY DEF IInv, OwnCheckIsMoot
<1> QED BY <1>1, InductiveInvariant, PTL

\* A PASS is logged for a client that sent everything and closed its last
\* socket Pause seconds before the timeout.
THEOREM PassIsInTime == Spec => PassInTime
<1>1. IInv /\ [Next]_vars =>
        [\A k \in 1 .. Len(results') :
            k > Len(results) /\ results'[k] = "PASS" => sent = Loops /\ until <= Limit]_vars
  BY PassStep
<1> QED BY <1>1, InductiveInvariant, PTL DEF Spec, PassInTime
=============================================================================
