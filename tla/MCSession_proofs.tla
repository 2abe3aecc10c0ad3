------------------------ MODULE MCSession_proofs ------------------------
(***************************************************************************)
(* What the theorems of SnOrder say of the three programs: each suite gets *)
(* from sender and path what its scripts need.                             *)
(***************************************************************************)
EXTENDS MCSession, SnOrder_proofs, FiniteSetTheorems, SequenceTheorems

\* Every message may be taken: the oldest can be, and some message always can.
LEMMA AnyOrderServes ==
    ASSUME NEW c, \A msgs, p, arrived : Turn(c, msgs, p, arrived) = p
    PROVE  OffersOne(c) /\ OffersOldest(c)
<1>1. ASSUME NEW msgs \in Seq(Message), NEW p \in SUBSET (1 .. Len(msgs)), p # {}
      PROVE  \E i \in p : Eligible(msgs, p, i)
  <2>1. p \subseteq Nat
    BY <1>1
  <2>2. PICK i \in p : \A j \in p : i <= j
    BY <1>1, <2>1, Oldest
  <2>3. \A j \in p : ~(j < i)
    BY <2>1, <2>2
  <2> QED BY <2>3 DEF Eligible
<1> QED BY <1>1 DEF OffersOne, OffersOldest

\* Chunks leave in the order of the calls: the oldest message and no other.
LEMMA TsnOrderServes ==
    ASSUME NEW c, NEW d,
           \A msgs, p, arrived : Turn(c, msgs, p, arrived) = TsnOrder(d, msgs, p, arrived)
    PROVE  OffersOne(c) /\ OffersOldest(c) /\ KeepsOrder(c)
<1>1. ASSUME NEW msgs \in Seq(Message), NEW p \in SUBSET (1 .. Len(msgs)), p # {}
      PROVE  \E i \in p : (\A j \in p : i <= j) /\ Eligible(msgs, p, i)
  <2>1. p \subseteq Nat
    BY <1>1
  <2>2. PICK i \in p : \A j \in p : i <= j
    BY <1>1, <2>1, Oldest
  <2>3. \A j \in p : ~(j < i)
    BY <2>1, <2>2
  <2> QED BY <2>2, <2>3 DEF Eligible
<1>2. OffersOne(c)
  <2> SUFFICES ASSUME NEW msgs \in Seq(Message), NEW p \in SUBSET (1 .. Len(msgs)),
                      NEW arrived \in Seq(Nat), p # {}
               PROVE  \E i \in p \cap TsnOrder(d, msgs, p, arrived) : Eligible(msgs, p, i)
    BY DEF OffersOne
  <2> QED BY <1>1 DEF TsnOrder
<1>3. OffersOldest(c)
  <2> SUFFICES ASSUME NEW msgs \in Seq(Message), NEW p \in SUBSET (1 .. Len(msgs)),
                      NEW arrived \in Seq(Nat), NEW i \in p, \A j \in p : i <= j
               PROVE  i \in TsnOrder(d, msgs, p, arrived)
    BY DEF OffersOldest
  <2> QED BY DEF TsnOrder
<1>4. KeepsOrder(c)
  BY DEF KeepsOrder, TsnOrder
<1> QED BY <1>2, <1>3, <1>4

\* The next stream in turn is one of the streams.
LEMMA InTurnIsOne ==
    ASSUME NEW sids, sids \subseteq Nat, sids # {}, NEW last
    PROVE  InTurn(sids, last) \in sids
<1> DEFINE after == {s \in sids : s > last}
           from == IF after # {} THEN after ELSE sids
<1>1. from \subseteq sids /\ from # {}
  OBVIOUS
<1> HIDE DEF from
<1>2. \E s \in from : \A t \in from : s <= t
  BY <1>1, Oldest
<1>3. InTurn(sids, last) = CHOOSE s \in from : \A t \in from : s <= t
  BY DEF InTurn, from
<1> QED BY <1>1, <1>2, <1>3

\* The head of a stream that has messages is eligible.
LEMMA HeadIsEligible ==
    ASSUME NEW msgs \in Seq(Message), NEW p \in SUBSET (1 .. Len(msgs)), NEW k \in p
    PROVE  \E i \in p \cap Heads(msgs, p, msgs[k].sid) : Eligible(msgs, p, i)
<1> DEFINE stream == {i \in p : msgs[i].sid = msgs[k].sid}
<1>1. p \subseteq Nat
  OBVIOUS
<1>2. stream \subseteq Nat /\ k \in stream
  BY <1>1
<1>3. PICK i \in stream : \A j \in stream : i <= j
  BY <1>2, Oldest
<1>4. i \in p \cap Heads(msgs, p, msgs[k].sid)
  BY <1>3 DEF Heads
<1>5. \A j \in p : j < i => msgs[j].sid # msgs[i].sid
  BY <1>1, <1>3
<1> QED BY <1>4, <1>5 DEF Eligible

\* Stream values are integers.
LEMMA SchedValueType ==
    ASSUME NEW c \in 0 .. 20, NEW sid \in Nat
    PROVE  SchedValue(c, sid) \in Nat
<1>1. sid \in 1 .. 3 => (10 - sid) \div 8 + 8 \in Nat /\ 10 - sid \in Nat
  OBVIOUS
<1>2. sid \in 0 .. 9 => 10 - sid \in Nat
  OBVIOUS
<1> QED BY <1>1, <1>2 DEF SchedValue

\* Every scheduler transmits something when there is something.
LEMMA RowServes ==
    ASSUME NEW d \in 0 .. 20, NEW msgs \in Seq(Message),
           NEW p \in SUBSET (1 .. Len(msgs)), NEW arrived \in Seq(Nat), p # {}
    PROVE  \E i \in p \cap TurnUnder(d, msgs, p, arrived) : Eligible(msgs, p, i)
<1> DEFINE sids == {msgs[i].sid : i \in p}
           best == {s \in sids : \A t \in sids : SchedValue(d, s) <= SchedValue(d, t)}
           values == {SchedValue(d, s) : s \in sids}
           last == LastSid(msgs, arrived)
<1>1. ASSUME NEW i \in p PROVE msgs[i].sid \in Nat
  <2>1. msgs[i] \in Message
    OBVIOUS
  <2> QED BY <2>1 DEF Message
<1>2. sids \subseteq Nat /\ sids # {}
  BY <1>1
<1>3. best \subseteq sids /\ best # {}
  <2>1. values \subseteq Nat /\ values # {}
    BY <1>2, SchedValueType
  <2>2. PICK v \in values : \A w \in values : v <= w
    BY <2>1, Oldest
  <2>3. PICK s \in sids : v = SchedValue(d, s)
    OBVIOUS
  <2>4. s \in best
    BY <2>2, <2>3
  <2> QED BY <2>4
<1>4. ASSUME NEW s \in sids
      PROVE  \E i \in p \cap Heads(msgs, p, s) : Eligible(msgs, p, i)
  BY HeadIsEligible
<1>5. CASE NdCase(d).sched = "fcfs"
  <2>1. TurnUnder(d, msgs, p, arrived) = TsnOrder(d, msgs, p, arrived)
    BY <1>5 DEF TurnUnder
  <2>2. p \subseteq Nat
    OBVIOUS
  <2>3. PICK i \in p : \A j \in p : i <= j
    BY <2>2, Oldest
  <2>4. \A j \in p : ~(j < i)
    BY <2>2, <2>3
  <2> QED BY <2>1, <2>3, <2>4 DEF TsnOrder, Eligible
<1>6. CASE NdCase(d).sched = "rr"
  <2>1. TurnUnder(d, msgs, p, arrived) = Heads(msgs, p, InTurn(sids, last))
    BY <1>6 DEF TurnUnder
  <2>2. InTurn(sids, last) \in sids
    BY <1>2, InTurnIsOne
  <2> QED BY <1>4, <2>1, <2>2
<1>7. CASE NdCase(d).sched = "prio"
  <2>1. TurnUnder(d, msgs, p, arrived) = Heads(msgs, p, InTurn(best, last))
    BY <1>7 DEF TurnUnder
  <2>2. best \subseteq Nat
    BY <1>2, <1>3
  <2>3. InTurn(best, last) \in sids
    BY <1>3, <2>2, InTurnIsOne
  <2> QED BY <1>4, <2>1, <2>3
<1>8. NdCase(d).sched \in {"fcfs", "rr", "prio"}
  BY DEF NdCase
<1> QED BY <1>5, <1>6, <1>7, <1>8

LEMMA SchedulerServes ==
    ASSUME NEW c, NEW d \in 0 .. 20,
           \A msgs, p, arrived : Turn(c, msgs, p, arrived) = SchedTurn(d, msgs, p, arrived)
    PROVE  OffersOne(c)
<1> SUFFICES ASSUME NEW msgs \in Seq(Message), NEW p \in SUBSET (1 .. Len(msgs)),
                    NEW arrived \in Seq(Nat), p # {}
             PROVE  \E i \in p \cap SchedTurn(d, msgs, p, arrived) : Eligible(msgs, p, i)
  BY DEF OffersOne
<1>1. PICK i \in p \cap TurnUnder(d, msgs, p, arrived) : Eligible(msgs, p, i)
  BY RowServes
<1>2. TurnUnder(d, msgs, p, arrived) \subseteq SchedTurn(d, msgs, p, arrived)
  BY DEF SchedTurn
<1> QED BY <1>1, <1>2

\* What each suite is promised is what its cases need.
LEMMA PromiseServes ==
    ASSUME \A c, msgs, p, arrived :
               Turn(c, msgs, p, arrived) = PromisedTurn(c, msgs, p, arrived)
    PROVE  \A c \in CaseSet : Serves(c)
<1> SUFFICES ASSUME NEW c \in CaseSet PROVE Serves(c)
  OBVIOUS
<1>1. CASE c.suite = "prsctp" /\ Settles(c)
  <2>1. \A msgs, p, arrived : Turn(c, msgs, p, arrived) = p
    BY <1>1 DEF PromisedTurn
  <2> QED BY <1>1, <2>1, AnyOrderServes DEF Serves
<1>2. CASE c.suite = "strreset"
  <2>1. \A msgs, p, arrived : Turn(c, msgs, p, arrived) = TsnOrder(c, msgs, p, arrived)
    BY <1>2 DEF PromisedTurn
  <2> QED BY <2>1, TsnOrderServes DEF Serves
<1>3. CASE c.suite = "ndatasched" /\ c.number \in 0 .. 20 /\ Settles(c) /\ ResetsFresh(c)
  <2>1. \A msgs, p, arrived : Turn(c, msgs, p, arrived) = SchedTurn(c.number, msgs, p, arrived)
    BY <1>3 DEF PromisedTurn
  <2>2. OffersOne(c)
    BY <1>3, <2>1, SchedulerServes
  <2> QED BY <1>3, <2>2 DEF Serves
<1> QED BY <1>1, <1>2, <1>3, SuiteAssumption

\* In each of the three programs the server leaves its loop behind the last data
\* message, on a kernel that sends prsctp's messages in any order, strreset's in
\* the order of the calls and ndatasched's in that of the stream scheduler.
THEOREM SuitesCloseLast ==
    ASSUME Timely,
           \A c, msgs, p, arrived :
               Turn(c, msgs, p, arrived) = PromisedTurn(c, msgs, p, arrived)
    PROVE  Spec => []CloseIsLast
<1>1. \A c \in CaseSet : Serves(c)
  BY PromiseServes
<1> QED BY <1>1, CloseAlwaysLast

-----------------------------------------------------------------------------
\* The word behind the array, which prsctp's checks add the lengths into.

\* f adds up the first numbers of g.
SumsOf(f, g, n) ==
    /\ f \in [0 .. n -> Nat] /\ f[0] = 0
    /\ \A k \in 1 .. n : f[k] = f[k - 1] + g[k]

\* They do: a sum is the next smaller one and a number.
LEMMA SumsExist ==
    ASSUME NEW n \in Nat, NEW g, \A k \in 1 .. n : g[k] \in Nat
    PROVE  \E f : SumsOf(f, g, n)
<1> DEFINE bad == {m \in 0 .. n : ~\E f : SumsOf(f, g, m)}
<1>1. ASSUME bad # {} PROVE FALSE
  <2>1. bad \subseteq Nat
    OBVIOUS
  <2>2. PICK m \in bad : \A j \in bad : m <= j
    BY <1>1, <2>1, Oldest
  <2>3. m \in 0 .. n /\ ~\E f : SumsOf(f, g, m)
    OBVIOUS
  <2>4. CASE m = 0
    <3>1. SumsOf([k \in 0 .. 0 |-> 0], g, 0)
      BY DEF SumsOf
    <3> QED BY <2>3, <2>4, <3>1
  <2>5. CASE m # 0
    <3>1. m - 1 \in 0 .. n /\ m - 1 \notin bad
      BY <2>2, <2>3, <2>5
    <3>2. PICK f : SumsOf(f, g, m - 1)
      BY <3>1
    <3> DEFINE h == [k \in 0 .. m |-> IF k = m THEN f[m - 1] + g[m] ELSE f[k]]
    <3>3. f \in [0 .. m - 1 -> Nat] /\ f[0] = 0 /\ m - 1 \in 0 .. m - 1 /\ g[m] \in Nat
      BY <2>3, <2>5, <3>2 DEF SumsOf
    <3>4. h \in [0 .. m -> Nat] /\ h[0] = 0
      BY <2>3, <2>5, <3>3
    <3>5. ASSUME NEW k \in 1 .. m PROVE h[k] = h[k - 1] + g[k]
      BY <2>3, <2>5, <3>2, <3>3 DEF SumsOf
    <3> QED BY <2>3, <3>4, <3>5 DEF SumsOf
  <2> QED BY <2>4, <2>5
<1> QED BY <1>1

\* Two sequences of partial sums agree as far as the numbers do.
LEMMA SumsAgree ==
    ASSUME NEW n \in Nat, NEW m \in Nat, n <= m, NEW f, NEW h, NEW g, NEW e,
           SumsOf(f, g, n), SumsOf(h, e, m), \A k \in 1 .. n : g[k] = e[k]
    PROVE  \A k \in 0 .. n : f[k] = h[k]
<1> DEFINE bad == {k \in 0 .. n : f[k] # h[k]}
<1>1. ASSUME bad # {} PROVE FALSE
  <2>1. bad \subseteq Nat
    OBVIOUS
  <2>2. PICK k \in bad : \A j \in bad : k <= j
    BY <1>1, <2>1, Oldest
  <2>3. k \in 1 .. n /\ k - 1 \in 0 .. n /\ k - 1 \notin bad /\ k \in 1 .. m
    BY <2>2 DEF SumsOf
  <2>4. f[k - 1] = h[k - 1] /\ f[k] = f[k - 1] + g[k] /\ h[k] = h[k - 1] + e[k] /\ g[k] = e[k]
    BY <2>3 DEF SumsOf
  <2> QED BY <2>2, <2>4
<1> QED BY <1>1

USE DEF Commands, SN_CMD_SET_STRRESET, SN_CMD_CLOSE_ASOC, ClientType, Protocol

\* The server's context, whatever numbers are in it.
Context == [c0 : Nat, c1 : Nat, c2 : Nat, c3 : Nat, c4 : Nat, sid : Nat]

\* The sums of the messages read are sums.
LEMMA LengthsAreSums ==
    ASSUME IInv
    PROVE  SumsOf(LengthsRead, [k \in 1 .. nread |-> LengthRead(k)], nread)
<1> DEFINE g == [k \in 1 .. nread |-> LengthRead(k)]
<1>1. nread \in Nat /\ \A k \in 1 .. nread : k \in 1 .. Len(rcvq)
  BY DEF IInv, TypeOK
<1>2. \A k \in 1 .. nread : g[k] \in Nat
  <2> SUFFICES ASSUME NEW k \in 1 .. nread PROVE LengthRead(k) \in Nat
    OBVIOUS
  <2>1. rcvq[k] \in 1 .. Len(sent)
    BY <1>1 DEF IInv, TypeOK
  <2>2. sent[rcvq[k]] \in Message
    BY <2>1 DEF IInv, TypeOK
  <2> QED BY <2>2 DEF LengthRead, Message
<1>3. PICK f : SumsOf(f, g, nread)
  <2> HIDE DEF g
  <2> QED BY <1>1, <1>2, SumsExist
<1>4. f = [n \in 0 .. nread |-> IF n = 0 THEN 0 ELSE f[n - 1] + LengthRead(n)]
  <2>1. f \in [0 .. nread -> Nat] /\ f[0] = 0
    BY <1>3 DEF SumsOf
  <2>2. ASSUME NEW n \in 0 .. nread
        PROVE  f[n] = IF n = 0 THEN 0 ELSE f[n - 1] + LengthRead(n)
    <3>1. CASE n = 0
      BY <2>1, <3>1
    <3>2. CASE n # 0
      <4>1. n \in 1 .. nread
        BY <1>1, <3>2
      <4> QED BY <1>3, <3>2, <4>1 DEF SumsOf
    <3> QED BY <3>1, <3>2
  <2> QED BY <2>1, <2>2
<1>5. LengthsRead = [n \in 0 .. nread |-> IF n = 0 THEN 0 ELSE LengthsRead[n - 1] + LengthRead(n)]
  BY <1>4, Zenon DEF LengthsRead
<1>6. LengthsRead[0] = 0
  BY <1>1, <1>5
<1>7. \A n \in 1 .. nread : LengthsRead[n] = LengthsRead[n - 1] + g[n]
  BY <1>1, <1>5
<1> DEFINE bad == {n \in 0 .. nread : LengthsRead[n] # f[n]}
<1>8. ASSUME bad # {} PROVE FALSE
  <2>1. bad \subseteq Nat
    BY <1>1
  <2>2. PICK n \in bad : \A j \in bad : n <= j
    BY <1>8, <2>1, Oldest
  <2>3. n \in 1 .. nread /\ n - 1 \in 0 .. nread /\ n - 1 \notin bad
    BY <1>1, <1>3, <1>6, <2>2 DEF SumsOf
  <2>4. f[n] = f[n - 1] + g[n] /\ LengthsRead[n] = LengthsRead[n - 1] + g[n]
    BY <1>3, <1>7, <2>3 DEF SumsOf
  <2> QED BY <2>2, <2>3, <2>4
<1>9. \A n \in 0 .. nread : LengthsRead[n] = f[n]
  BY <1>8
<1>10. LengthsRead = f
  BY <1>3, <1>5, <1>9 DEF SumsOf
<1> QED BY <1>3, <1>10

\* The cases are those of the three programs.
Programs ==
    /\ \A c \in CaseSet : Script(c) = ScriptOf(c)
    /\ \A c \in CaseSet : \A m : Check(c, m) = CheckOf(c, m)
    /\ \A c \in CaseSet : FirstVerdict(c) = VerdictOf(c)

NoReset == {c \in Calls : c.op = "cmd" => c.len = SN_CMD_CLOSE_ASOC}

\* Up to seven sequences of calls, one after the other.
LEMMA Together ==
    ASSUME NEW S, NEW a \in Seq(S), NEW b \in Seq(S), NEW c \in Seq(S), NEW d \in Seq(S),
           NEW e \in Seq(S), NEW f \in Seq(S), NEW g \in Seq(S)
    PROVE  /\ a \o b \in Seq(S)
           /\ a \o b \o c \in Seq(S)
           /\ a \o b \o c \o d \in Seq(S)
           /\ a \o b \o c \o d \o e \in Seq(S)
           /\ a \o b \o c \o d \o e \o f \in Seq(S)
           /\ a \o b \o c \o d \o e \o f \o g \in Seq(S)
<1> DEFINE ab == a \o b
           abc == ab \o c
           abcd == abc \o d
           abcde == abcd \o e
           abcdef == abcde \o f
<1>1. ab \in Seq(S)
  OBVIOUS
<1> HIDE DEF ab
<1>2. abc \in Seq(S)
  BY <1>1
<1> HIDE DEF abc
<1>3. abcd \in Seq(S)
  BY <1>2
<1> HIDE DEF abcd
<1>4. abcde \in Seq(S)
  BY <1>3
<1> HIDE DEF abcde
<1>5. abcdef \in Seq(S)
  BY <1>4
<1> HIDE DEF abcdef
<1>6. abcdef \o g \in Seq(S)
  BY <1>5
<1> QED BY <1>1, <1>2, <1>3, <1>4, <1>5, <1>6, Zenon DEF ab, abc, abcd, abcde, abcdef

\* The calls of the tests whose checks add up lengths.
LEMMA PrCalls ==
    ASSUME NEW r, r.length \in Nat, r.flags \in Policies, r.value \in Nat, r.value - 1 \in Nat
    PROVE  /\ TestPrC(r) \in Seq(NoReset)
           /\ TestPrCX(r) \in Seq(NoReset)
           /\ \A s \in [1 .. 7 -> Nat] : TestPrCXX(r, s) \in Seq(NoReset)
<1>1. /\ \A n \in Nat : SleepFor(n) \in Seq(NoReset)
      /\ \A o \in {"flush", "sndbuf", "spawn", "join"} : Do(o) \in Seq(NoReset)
      /\ Drop("data") \in Seq(NoReset)
  BY DEF SleepFor, Do, Drop, NoReset, Calls, Rules
<1>2. SleepFor(10) \in Seq(NoReset) /\ SleepFor(3) \in Seq(NoReset)
      /\ Do("sndbuf") \in Seq(NoReset) /\ Do("spawn") \in Seq(NoReset)
      /\ Do("join") \in Seq(NoReset) /\ Do("flush") \in Seq(NoReset)
  BY <1>1
<1>3. Reopen \in Seq(NoReset)
  BY <1>2, Together DEF Reopen
<1>4. ASSUME NEW l \in Nat, NEW s \in Nat, NEW v \in Nat, NEW u \in BOOLEAN, NEW p \in Policies
      PROVE  Send(l, s, u, p, v) \in Seq(NoReset)
  BY DEF Send, NoReset, Calls, Message
<1> DEFINE w == r.value - 1
           long == 1000
           With(l, s, u, v) == Send(l, s, u, r.flags, v)
<1>5. /\ w \in Nat /\ 1 \in Nat /\ 100 \in Nat /\ long \in Nat
      /\ TRUE \in BOOLEAN /\ FALSE \in BOOLEAN /\ "none" \in Policies /\ 0 \in Nat
  BY DEF Policies
<1> HIDE DEF w, long
<1>6. TestPrC(r) \in Seq(NoReset)
  <2> DEFINE a == Send(100, 1, TRUE, r.flags, r.value)
             b == Send(100, 1, TRUE, "none", 0)
             c == Send(100, 1, FALSE, "none", 0)
  <2>1. a \in Seq(NoReset) /\ b \in Seq(NoReset) /\ c \in Seq(NoReset)
    BY <1>4, <1>5, Zenon
  <2>2. TestPrC(r) = Drop("data") \o a \o SleepFor(10) \o b \o c \o Reopen
    BY DEF TestPrC
  <2> HIDE DEF a, b, c
  <2> QED BY <1>1, <1>2, <1>3, <2>1, <2>2, Together
<1>7. TestPrCX(r) \in Seq(NoReset)
  <2> DEFINE a == With(r.length, 1, TRUE, r.value)
             b == With(long, 1, TRUE, w)
             c == With(long, 1, FALSE, w)
  <2>1. a \in Seq(NoReset) /\ b \in Seq(NoReset) /\ c \in Seq(NoReset)
    BY <1>4, <1>5, Zenon
  <2>2. TestPrCX(r) = Do("sndbuf") \o Drop("data") \o a \o b \o c \o Reopen
    BY DEF TestPrCX, w, long
  <2> HIDE DEF a, b, c
  <2> QED BY <1>1, <1>2, <1>3, <2>1, <2>2, Together
<1>8. ASSUME NEW s \in [1 .. 7 -> Nat] PROVE TestPrCXX(r, s) \in Seq(NoReset)
  <2> DEFINE a == With(1, s[1], TRUE, r.value)
             b == With(1, s[2], TRUE, w)
             c == With(1, s[3], TRUE, r.value)
             d == With(1, s[4], TRUE, r.value)
             e == With(1, s[5], TRUE, w)
             f == With(long, s[6], TRUE, w)
             g == With(long, s[7], FALSE, w)
             first == Do("sndbuf") \o Drop("data") \o a \o b \o c \o d \o e
             second == first \o SleepFor(10) \o Do("spawn") \o f \o g \o Do("join") \o SleepFor(3)
  <2>1. s[1] \in Nat /\ s[2] \in Nat /\ s[3] \in Nat /\ s[4] \in Nat
        /\ s[5] \in Nat /\ s[6] \in Nat /\ s[7] \in Nat
    OBVIOUS
  <2>2. a \in Seq(NoReset) /\ b \in Seq(NoReset) /\ c \in Seq(NoReset) /\ d \in Seq(NoReset)
    BY <1>4, <1>5, <2>1, Zenon
  <2>3. e \in Seq(NoReset) /\ f \in Seq(NoReset) /\ g \in Seq(NoReset)
    BY <1>4, <1>5, <2>1, Zenon
  <2>4. TestPrCXX(r, s) = second
    BY DEF TestPrCXX, w, long
  <2> HIDE DEF a, b, c, d, e, f, g
  <2>5. first \in Seq(NoReset)
    BY <1>1, <1>2, <2>2, <2>3, Together
  <2> HIDE DEF first
  <2>6. second \in Seq(NoReset)
    BY <1>2, <2>3, <2>5, Together
  <2> QED BY <2>4, <2>6
<1> QED BY <1>6, <1>7, <1>8

\* No client of a case that adds up lengths asks for the reset.
LEMMA NoResetAsked ==
    ASSUME Programs, NEW c \in CaseSet, Adds(c)
    PROVE  \A k \in 1 .. Len(Script(c)) :
               Script(c)[k].op = "cmd" => Script(c)[k].len = SN_CMD_CLOSE_ASOC
<1> DEFINE r == PrCase(c.number)
<1>1. Script(c) = PrClient(c.number) /\ c.number \in {2, 5, 8, 9, 10}
  BY DEF Programs, ScriptOf, Adds
<1>2. r.length \in Nat /\ r.flags \in Policies /\ r.value \in Nat /\ r.value - 1 \in Nat
  BY <1>1 DEF PrCase, Policies
<1>3. PrTest(c.number) \in Seq(NoReset)
  <2>1. /\ <<1, 1, 1, 1, 1, 1, 1>> \in [1 .. 7 -> Nat]
        /\ <<0, 1, 2, 3, 4, 2, 3>> \in [1 .. 7 -> Nat]
    OBVIOUS
  <2> HIDE DEF r
  <2>2. /\ TestPrC(r) \in Seq(NoReset)
        /\ TestPrCX(r) \in Seq(NoReset)
        /\ TestPrCXX(r, <<1, 1, 1, 1, 1, 1, 1>>) \in Seq(NoReset)
        /\ TestPrCXX(r, <<0, 1, 2, 3, 4, 2, 3>>) \in Seq(NoReset)
    BY <1>2, <2>1, PrCalls
  <2>3. PrTest(c.number) \in {TestPrC(r), TestPrCX(r), TestPrCXX(r, <<1, 1, 1, 1, 1, 1, 1>>),
                              TestPrCXX(r, <<0, 1, 2, 3, 4, 2, 3>>)}
    <3>1. \/ c.number \in {2, 5} /\ PrTest(c.number) = TestPrC(r)
          \/ c.number = 8 /\ PrTest(c.number) = TestPrCX(r)
          \/ c.number = 9 /\ PrTest(c.number) = TestPrCXX(r, <<1, 1, 1, 1, 1, 1, 1>>)
          \/ c.number = 10 /\ PrTest(c.number) = TestPrCXX(r, <<0, 1, 2, 3, 4, 2, 3>>)
      <4>1. CASE c.number = 2
        BY <4>1 DEF PrTest, r
      <4>5. CASE c.number = 5
        BY <4>5 DEF PrTest, r
      <4>2. CASE c.number = 8
        BY <4>2 DEF PrTest, r
      <4>3. CASE c.number = 9
        BY <4>3 DEF PrTest, r
      <4>4. CASE c.number = 10
        BY <4>4 DEF PrTest, r
      <4> QED BY <1>1, <4>1, <4>2, <4>3, <4>4, <4>5
    <3> QED BY <3>1
  <2> QED BY <2>2, <2>3
<1>4. /\ SleepFor(3) \in Seq(NoReset) /\ SleepFor(5) \in Seq(NoReset)
      /\ Do("connect") \in Seq(NoReset) /\ Cmd(SN_CMD_CLOSE_ASOC) \in Seq(NoReset)
      /\ << >> \in Seq(NoReset)
  BY DEF SleepFor, Do, Cmd, NoReset, Calls
<1>5. \A s, t \in Seq(NoReset) : s \o t \in Seq(NoReset)
  OBVIOUS
<1>6. PrClient(c.number) \in Seq(NoReset)
  <2> HIDE DEF NoReset
  <2> QED BY <1>3, <1>4, <1>5 DEF PrClient, AroundTest
<1>7. \A k \in 1 .. Len(Script(c)) : Script(c)[k] \in NoReset
  BY <1>1, <1>6
<1> QED BY <1>7 DEF NoReset

\* The context changes when a message is read that is not the last.
LEMMA WhoReads ==
    ASSUME IInv, [Next]_vars, ~StartCase
    PROVE  \/ UNCHANGED <<nread, mem>> /\ (server' = server \/ ServerListen)
           \/ ServerSetStrreset \/ ServerCheck \/ ServerCloseAsoc
           \/ server \in {"boot", "loop"} /\ server' = "failed" /\ mem' = mem
<1> USE DEF suite, assoc
<1>1. CASE ClientStep \/ ClientFail
  BY <1>1 DEF ClientStep, ClientFail, CreateAsocSk, EnableAsocStrreset, SendAsocCmd, RecvAck,
       SendAsocMsg, CloseAsocStreams, ReopenAsocStreams, Sleep, SetStrreset, CorkStreams,
       SetupSoSndbuf, SpawnCleanup, JoinCleanup, ClientExit
<1>2. CASE ThreadStep \/ ServerStep \/ ServerFail
  BY <1>2 DEF ThreadStep, ThreadSleep, ThreadFlush, ServerStep, ServerListen, ServerFail
<1>3. CASE KernelStep
  BY <1>3 DEF KernelStep, Deliver, Abandon, Lose, Duplicate, ReconfReply
<1>4. CASE FinishCase \/ UNCHANGED vars
  BY <1>4 DEF FinishCase, vars
<1> QED BY <1>1, <1>2, <1>3, <1>4 DEF Next

\* What a check leaves where it adds up lengths.
LEMMA ChecksAdd ==
    ASSUME Programs, NEW c \in CaseSet, Adds(c), NEW m \in Context
    PROVE  Check(c, m) \in Context /\ Check(c, m).c4 = m.c4 + m.c2
<1>1. Check(c, m) = PrCheck(c.number, m) /\ c.number \in {2, 5, 8, 9, 10}
  BY DEF Programs, CheckOf, Adds
<1>2. ASSUME NEW v \in Nat
      PROVE  LET next == [m EXCEPT !.c3 = m.c3 + 1, !.c4 = m.c4 + m.c2, !.c1 = v]
             IN  next \in Context /\ next.c4 = m.c4 + m.c2
  <2>1. m.c3 + 1 \in Nat /\ m.c4 + m.c2 \in Nat
    BY DEF Context
  <2>2. \A n, t \in Nat : /\ [m EXCEPT !.c3 = n, !.c4 = t, !.c1 = v] \in Context
                           /\ [m EXCEPT !.c3 = n, !.c4 = t, !.c1 = v].c4 = t
    BY DEF Context
  <2> QED BY <2>1, <2>2
<1>3. ASSUME NEW unit PROVE CheckPrC(m, unit) \in Context /\ CheckPrC(m, unit).c4 = m.c4 + m.c2
  <2> DEFINE v == Verdict(m.c4 + m.c2 = IF m.c3 + 1 = 1 THEN unit ELSE 2 * unit)
  <2>1. v \in Nat
    BY DEF Verdict
  <2>2. CheckPrC(m, unit) = [m EXCEPT !.c3 = m.c3 + 1, !.c4 = m.c4 + m.c2, !.c1 = v]
    BY DEF CheckPrC
  <2> HIDE DEF v
  <2> QED BY <1>2, <2>1, <2>2
<1>4. CheckPrCXX(m) \in Context /\ CheckPrCXX(m).c4 = m.c4 + m.c2
  <2> DEFINE v == IF m.c3 + 1 \in 1 .. 4
                  THEN Verdict(m.c4 + m.c2 = <<1, 2, 1002, 2002>>[m.c3 + 1]) ELSE m.c1
  <2>1. v \in Nat
    BY DEF Verdict, Context
  <2>2. CheckPrCXX(m) = [m EXCEPT !.c3 = m.c3 + 1, !.c4 = m.c4 + m.c2, !.c1 = v]
    BY DEF CheckPrCXX
  <2> HIDE DEF v
  <2> QED BY <1>2, <2>1, <2>2
<1>5. PrCheck(c.number, m) \in {CheckPrC(m, 100), CheckPrC(m, 1000), CheckPrCXX(m)}
  <2>1. CASE c.number \in {2, 5}
    BY <2>1 DEF PrCheck
  <2>2. CASE c.number = 8
    BY <2>2 DEF PrCheck
  <2>3. CASE c.number \in {9, 10}
    BY <2>3 DEF PrCheck
  <2> QED BY <1>1, <2>1, <2>2, <2>3
<1> QED BY <1>1, <1>3, <1>4, <1>5

\* Before the first case there is no server.
NoneYet == cur = 0 => server = "none"

\* And none appears without one.
LEMMA NoneYetStep ==
    ASSUME IInv, NoneYet, [Next]_vars
    PROVE  NoneYet'
<1> SUFFICES ASSUME cur' = 0 PROVE server' = "none"
  BY DEF NoneYet
<1>1. ~StartCase /\ cur = 0 /\ server = "none"
  <2>1. cur \in Nat
    BY DEF IInv, TypeOK
  <2>2. ~StartCase
    BY <2>1 DEF StartCase
  <2> QED BY <2>2, SameCase DEF NoneYet
<1> QED BY <1>1, WhoReads DEF ServerListen, ServerSetStrreset, ServerCheck, ServerCloseAsoc,
           GetPeerCmd

\* A case begins with an empty context.
LEMMA FreshContext ==
    ASSUME IInv, StartCase
    PROVE  mem' \in Context /\ mem'.c0 = 0 /\ mem'.c4 = 0
<1>1. mem' = NoContext(FirstVerdict(Cases[cur + 1])) /\ cur + 1 \in 1 .. Len(Cases)
  BY DEF StartCase, IInv, TypeOK
<1>2. FirstVerdict(Cases[cur + 1]) \in Nat
  BY <1>1, NumbersAssumption DEF CaseSet
<1> QED BY <1>1, <1>2 DEF NoContext, Context

\* The word behind the array holds the sum, and no command is there to change it.
SumInv ==
    /\ NoneYet
    /\ cur # 0 /\ Adds(Case) =>
           /\ \A i \in 1 .. Len(sent) : sent[i].len # SN_CMD_SET_STRRESET
           /\ mem \in Context
           /\ server \in {"boot", "loop"} => mem.c4 = LengthsRead[nread]

\* What has been read adds up to what it did before.
LEMMA SumsKept ==
    ASSUME IInv, IInv', [Next]_vars, ~StartCase, nread' \in {nread, nread + 1}
    PROVE  /\ LengthsRead[nread] \in Nat
           /\ LengthsRead'[nread] = LengthsRead[nread]
           /\ nread' = nread + 1 =>
                  LengthsRead'[nread'] = LengthsRead'[nread] + LengthRead(nread)'
<1> DEFINE g == [k \in 1 .. nread |-> LengthRead(k)]
           e == [k \in 1 .. nread' |-> LengthRead(k)']
<1>1. SumsOf(LengthsRead, g, nread) /\ nread \in 0 .. Len(rcvq) /\ Len(rcvq) \in Nat
  <2>1. nread \in 0 .. Len(rcvq) /\ Len(rcvq) \in Nat
    BY DEF IInv, TypeOK
  <2> QED BY <2>1, LengthsAreSums
<1>2. SumsOf(LengthsRead', e, nread')
  <2>1. SumsOf(LengthsRead, [k \in 1 .. nread |-> LengthRead(k)], nread)'
    BY LengthsAreSums, PTL
  <2> QED BY <2>1 DEF SumsOf
<1>3. \A k \in 1 .. nread : g[k] = e[k]
  <2> SUFFICES ASSUME NEW k \in 1 .. nread PROVE LengthRead(k) = LengthRead(k)'
    BY <1>1
  <2> HIDE DEF g, e
  <2>1. k \in 1 .. Len(rcvq)
    BY <1>1
  <2>3. rcvq[k] \in 1 .. Len(sent)
    BY <2>1 DEF IInv, TypeOK
  <2>2. rcvq'[k] = rcvq[k] /\ sent'[rcvq[k]] = sent[rcvq[k]]
    BY <2>1, <2>3, LogGrows, QueueGrows
  <2> QED BY <2>2 DEF LengthRead
<1>4. LengthsRead'[nread] = LengthsRead[nread]
  <2> HIDE DEF g, e
  <2>1. nread \in Nat /\ nread' \in Nat /\ nread <= nread' /\ nread \in 0 .. nread
    BY <1>1
  <2> QED BY <1>1, <1>2, <1>3, <2>1, SumsAgree
<1>5. LengthsRead[nread] \in Nat
  BY <1>1 DEF SumsOf
<1>6. nread' = nread + 1 => LengthsRead'[nread'] = LengthsRead'[nread] + LengthRead(nread)'
  <2> SUFFICES ASSUME nread' = nread + 1
               PROVE  LengthsRead'[nread'] = LengthsRead'[nread] + LengthRead(nread)'
    OBVIOUS
  <2>1. nread' \in 1 .. nread' /\ nread' - 1 = nread
    BY <1>1
  <2>2. LengthsRead'[nread'] = LengthsRead'[nread' - 1] + e[nread']
    BY <1>2, <2>1 DEF SumsOf
  <2> QED BY <2>1, <2>2
<1> QED BY <1>4, <1>5, <1>6

\* Every step of a case that adds up lengths keeps the sum.
LEMMA SumStep ==
    ASSUME Programs, IInv, IInv', SumInv, [Next]_vars
    PROVE  SumInv'
<1>1. CASE StartCase
  <2>1. nread' = 0 /\ sent' = << >> /\ cur' # 0
    BY <1>1 DEF StartCase, IInv, TypeOK
  <2>3. mem' \in Context /\ mem'.c4 = 0
    BY <1>1, FreshContext
  <2>4. LengthsRead'[0] = 0
    <3>1. SumsOf(LengthsRead, [k \in 1 .. nread |-> LengthRead(k)], nread)'
      BY LengthsAreSums, PTL
    <3> QED BY <3>1 DEF SumsOf
  <2>5. Len(sent') = 0
    BY <2>1
  <2> QED BY <2>1, <2>3, <2>4, <2>5 DEF SumInv, NoneYet
<1>2. ASSUME ~StartCase, cur' # 0, Adds(Case)'
      PROVE  /\ \A i \in 1 .. Len(sent') : sent'[i].len # SN_CMD_SET_STRRESET
             /\ mem' \in Context
             /\ server' \in {"boot", "loop"} => mem'.c4 = LengthsRead'[nread']
  <2>1. cur' = cur /\ Case' = Case /\ cur # 0 /\ Adds(Case)
    BY <1>2, SameCase DEF Adds
  <2>2. /\ \A i \in 1 .. Len(sent) : sent[i].len # SN_CMD_SET_STRRESET
        /\ mem \in Context
        /\ server \in {"boot", "loop"} => mem.c4 = LengthsRead[nread]
    BY <2>1 DEF SumInv
  <2>3. Case \in CaseSet
    BY <2>1, CaseType DEF IInv, TypeOK
  <2>4. \A i \in 1 .. Len(sent') : sent'[i].len # SN_CMD_SET_STRRESET
    <3>1. CASE sent' = sent
      BY <2>2, <3>1
    <3>2. CASE SendAsocCmd
      <4>1. CallIs("cmd") /\ sent' = Append(sent, CmdMessage(Call.len))
        BY <3>2 DEF SendAsocCmd
      <4>2. client.pc \in 1 .. Len(Script(Case)) /\ Call \in Calls /\ Call.op = "cmd"
        BY <4>1, CallType DEF IInv
      <4>3. Call.len = SN_CMD_CLOSE_ASOC
        BY <2>1, <2>3, <4>2, NoResetAsked DEF Call
      <4>4. CmdMessage(Call.len) \in Message /\ CmdMessage(Call.len).len = SN_CMD_CLOSE_ASOC
        BY <4>3 DEF CmdMessage, Message, Policies
      <4> QED BY <2>2, <4>1, <4>4, Appended DEF IInv
    <3>3. CASE SendAsocMsg
      <4>1. CallIs("send") /\ sent' = Append(sent, Call.msg)
        BY <3>3 DEF SendAsocMsg
      <4>2. client.pc \in 1 .. Len(Script(Case)) /\ Call \in Calls /\ Call.op = "send"
        BY <4>1, CallType DEF IInv
      <4>3. Call.msg.len \notin Commands /\ Call.msg \in Message
        BY <2>3, <4>2, ScriptAssumption DEF Call, Calls
      <4> QED BY <2>2, <4>1, <4>3, Appended DEF IInv
    <3> QED BY <1>2, <3>1, <3>2, <3>3, WhoSends
  <2>5. CASE UNCHANGED <<nread, mem>> /\ (server' = server \/ ServerListen)
    <3>1. LengthsRead'[nread] = LengthsRead[nread]
      BY <1>2, <2>5, SumsKept
    <3> QED BY <2>2, <2>4, <2>5, <3>1 DEF ServerListen
  <2>6. ~ServerSetStrreset
    <3> SUFFICES ASSUME ServerSetStrreset PROVE FALSE
      OBVIOUS
    <3>1. nread + 1 \in 1 .. Len(rcvq) /\ sent[rcvq[nread + 1]].len = SN_CMD_SET_STRRESET
      BY DEF ServerSetStrreset, GetPeerCmd, PeerCmd, IInv, TypeOK
    <3>2. rcvq[nread + 1] \in 1 .. Len(sent)
      BY <3>1 DEF IInv, TypeOK
    <3> QED BY <2>2, <3>1, <3>2
  <2>7. CASE ServerCheck
    <3> DEFINE m == [mem EXCEPT !.c2 = PeerCmd, !.sid = PeerStream]
    <3> HIDE DEF m
    <3>1. /\ server = "loop" /\ nread' = nread + 1 /\ nread + 1 \in 1 .. Len(rcvq)
          /\ PeerCmd \notin Commands /\ mem' = Check(Case, m)
          /\ sent' = sent /\ rcvq' = rcvq
      BY <2>7 DEF ServerCheck, GetPeerCmd, IInv, TypeOK, assoc, m
    <3>2. rcvq[nread + 1] \in 1 .. Len(sent)
      BY <3>1 DEF IInv, TypeOK
    <3>3. sent[rcvq[nread + 1]] \in Message
      <4>1. sent \in Seq(Message)
        BY DEF IInv, TypeOK
      <4> QED BY <3>2, <4>1
    <3>4. PeerCmd \in Nat /\ PeerStream \in Nat /\ ~sent[rcvq[nread + 1]].cmd
      BY <3>1, <3>2, <3>3 DEF PeerCmd, PeerStream, Message, IInv, Distinct
    <3>5. m \in Context /\ m.c4 = mem.c4 /\ m.c2 = PeerCmd
      BY <2>2, <3>4 DEF Context, m
    <3>6. mem' \in Context /\ mem'.c4 = mem.c4 + PeerCmd
      BY <2>1, <2>3, <3>1, <3>5, ChecksAdd
    <3>7. /\ LengthsRead'[nread] = LengthsRead[nread]
          /\ LengthsRead'[nread'] = LengthsRead'[nread] + LengthRead(nread)'
      BY <1>2, <3>1, SumsKept
    <3>8. LengthRead(nread)' = PeerCmd
      BY <3>1, <3>4 DEF LengthRead, PeerCmd
    <3> QED BY <2>2, <2>4, <3>1, <3>6, <3>7, <3>8
  <2>8. CASE ServerCloseAsoc \/ (server' = "failed" /\ mem' = mem)
    BY <2>2, <2>4, <2>8 DEF ServerCloseAsoc
  <2> QED BY <1>2, <2>5, <2>6, <2>7, <2>8, WhoReads
<1>3. NoneYet'
  BY NoneYetStep DEF SumInv
<1> QED BY <1>1, <1>2, <1>3 DEF SumInv

\* So the word is right at every moment.
LEMMA SumInvariant ==
    ASSUME Programs PROVE Spec => []SumInv
<1>1. Init => SumInv
  BY DEF Init, SumInv, NoneYet
<1>2. IInv /\ IInv' /\ SumInv /\ [Next]_vars => SumInv'
  BY SumStep
<1> QED BY <1>1, <1>2, InductiveInvariant, PTL DEF Spec

\* The word behind the array adds up the lengths of the messages read, whatever
\* their order and number, in every case whose check relies on it: in no such
\* case does the client send the command that would store the association id.
THEOREM SumAlwaysExact ==
    ASSUME Programs PROVE Spec => []SumIsExact
<1>1. SumInv => SumIsExact
  <2> SUFFICES ASSUME SumInv, server = "loop", Adds(Case) PROVE mem.c4 = LengthsRead[nread]
    BY DEF SumIsExact
  <2> QED BY DEF SumInv, NoneYet
<1> QED BY <1>1, SumInvariant, PTL

-----------------------------------------------------------------------------
\* The count of a performance case.

\* A performance case, the length of its messages and what a check counts for one.
Performs(c) == c.suite = "ndatasched" /\ c.number \in Range(PerfNumbers)
Unit(c) == IF c.number \in {2, 8, 14, 19, 20} THEN 1 ELSE FloodLength(c.number)

\* The numbers of the performance cases.
LEMMA PerfCases ==
    ASSUME NEW c, Performs(c)
    PROVE  /\ c.suite = "ndatasched"
           /\ c.number \in {2, 3, 4, 8, 9, 10, 14, 15, 16, 19, 20}
           /\ FloodLength(c.number) \in {64, 1024, 10240}
           /\ Unit(c) \in Nat
           /\ PerfTotal(c.number) = Total * Unit(c)
<1>1. Range(PerfNumbers) = {2, 3, 4, 8, 9, 10, 14, 15, 16, 19, 20}
  BY DEF Range, PerfNumbers
<1>2. c.number \in {2, 3, 4, 8, 9, 10, 14, 15, 16, 19, 20}
  BY <1>1 DEF Performs
<1>3. FloodLength(c.number) \in {64, 1024, 10240}
  <2>1. CASE c.number \in {2, 8, 14, 19, 20}
    BY <2>1 DEF FloodLength
  <2>2. CASE c.number \in {3, 9, 15}
    BY <2>2 DEF FloodLength
  <2>3. CASE c.number \in {4, 10, 16}
    BY <2>3 DEF FloodLength
  <2> QED BY <1>2, <2>1, <2>2, <2>3
<1>4. Unit(c) \in Nat
  BY <1>3 DEF Unit
<1> QED BY <1>2, <1>3, <1>4 DEF Performs, PerfTotal, PerfUnit, Unit

\* How often the loops go round.
LEMMA TotalType == Total \in Nat
<1>1. Rounds \in Nat /\ Width \in Nat /\ Count \in Nat
  BY RoundsAssumption
<1>2. Rounds * Width \in Nat
  BY <1>1
<1> QED BY <1>1, <1>2 DEF Total

\* Call k of a performance case.
PerfCall(c, k, call) ==
    /\ k \in {1, Total + 5, Total + 7} => call.op = "sleep"
    /\ k = 2 => call.op = "connect"
    /\ k = 3 => call.op = "enable"
    /\ k = 4 => call.op = "cmd" /\ call.len = SN_CMD_SET_STRRESET
    /\ k \in 5 .. Total + 4 =>
          /\ call.op = "send"
          /\ call.msg.len = FloodLength(c.number) /\ call.msg.pol = "none"
    /\ k = Total + 6 => call.op = "cmd" /\ call.len = SN_CMD_CLOSE_ASOC

\* The n calls of a performance case behind call o.
PerfRun(c, s, o, n) ==
    s \in Seq(Calls) /\ Len(s) = n /\ \A k \in 1 .. n : PerfCall(c, o + k, s[k])

\* Calls that follow others.
LEMMA CallsJoin ==
    ASSUME NEW c, NEW s, NEW t, NEW o \in Nat, NEW l \in Nat, NEW m \in Nat,
           PerfRun(c, s, o, l), PerfRun(c, t, o + l, m)
    PROVE  PerfRun(c, s \o t, o, l + m)
<1>1. /\ s \in Seq(Calls) /\ t \in Seq(Calls) /\ Len(s) = l /\ Len(t) = m
      /\ \A k \in 1 .. l : PerfCall(c, o + k, s[k])
      /\ \A k \in 1 .. m : PerfCall(c, (o + l) + k, t[k])
  BY DEF PerfRun
<1>2. /\ s \o t \in Seq(Calls) /\ Len(s \o t) = l + m
      /\ \A k \in 1 .. l + m : (s \o t)[k] = IF k <= l THEN s[k] ELSE t[k - l]
  BY <1>1, ConcatProperties
<1>3. ASSUME NEW k \in 1 .. l + m PROVE PerfCall(c, o + k, (s \o t)[k])
  <2>1. CASE k <= l
    BY <1>1, <1>2, <2>1
  <2>2. CASE k > l
    <3>1. k - l \in 1 .. m /\ (o + l) + (k - l) = o + k
      BY <2>2
    <3>2. PerfCall(c, (o + l) + (k - l), t[k - l])
      BY <1>1, <3>1
    <3>3. PerfCall(c, o + k, t[k - l])
      BY <3>1, <3>2
    <3> QED BY <1>2, <2>2, <3>3
  <2>3. k <= l \/ k > l
    OBVIOUS
  <2> QED BY <2>1, <2>2, <2>3, Zenon
<1> QED BY <1>2, <1>3 DEF PerfRun

\* One call.
LEMMA OneCall ==
    ASSUME NEW c, NEW call \in Calls, NEW o \in Nat, PerfCall(c, o + 1, call)
    PROVE  PerfRun(c, <<call>>, o, 1)
<1> DEFINE s == <<call>>
<1>1. s \in Seq(Calls) /\ Len(s) = 1 /\ s[1] = call
  OBVIOUS
<1> HIDE DEF s
<1>2. PerfRun(c, s, o, 1)
  BY <1>1 DEF PerfRun
<1> QED BY <1>2 DEF s

\* No call.
LEMMA NoCall ==
    ASSUME NEW c, NEW o \in Nat
    PROVE  PerfRun(c, << >>, o, 0)
  BY DEF PerfRun

\* The cases with a cork.
LEMMA CorkedCases ==
    ASSUME NEW n, n \notin {0, 1, 7, 13} PROVE ~NdCase(n).sched_cork
  BY Zenon DEF NdCase

\* The calls of the loops.
LEMMA FloodIs ==
    ASSUME NEW c, Performs(c), NEW flagged
    PROVE  PerfRun(c, Flood(FloodLength(c.number), flagged), 4, Total + 1)
<1> DEFINE len == FloodLength(c.number)
<1>0. len \in Nat /\ Total \in Nat
  BY PerfCases, TotalType
<1> HIDE DEF len
<1> DEFINE call(k) == SendOn(((k - 1) \div Count) % Width, len, k \in flagged)[1]
           calls == [k \in 1 .. Total |-> call(k)]
<1>1. ASSUME NEW k \in 1 .. Total
      PROVE  /\ call(k) \in Calls /\ call(k).op = "send"
             /\ call(k).msg.len = len /\ call(k).msg.pol = "none"
  <2> DEFINE sid == ((k - 1) \div Count) % Width
             flag == k \in flagged
             msg == [len |-> len, sid |-> sid, unord |-> flag, pol |-> "none",
                     val |-> 0, cmd |-> FALSE]
  <2>1. k - 1 \in Nat /\ Count \in Nat \ {0} /\ Width \in Nat \ {0}
    BY RoundsAssumption, TotalType
  <2>2. (k - 1) \div Count \in Nat
    BY <2>1
  <2>3. sid \in Nat
    BY <2>1, <2>2
  <2>4. flag \in BOOLEAN
    OBVIOUS
  <2> HIDE DEF sid, flag
  <2>5. msg \in Message /\ msg.len = len /\ msg.pol = "none"
    BY <1>0, <2>3, <2>4 DEF Message, Policies
  <2>6. call(k) = [op |-> "send", msg |-> msg]
    BY DEF SendOn, Send, sid, flag
  <2> HIDE DEF msg, call
  <2> QED BY <2>5, <2>6 DEF Calls
<1> HIDE DEF call
<1>2. /\ calls \in Seq(Calls) /\ Len(calls) = Total
      /\ \A k \in 1 .. Total : calls[k] = call(k)
  BY <1>1, TotalType
<1> HIDE DEF calls
<1>3. PerfRun(c, calls, 4, Total)
  BY <1>0, <1>1, <1>2 DEF PerfRun, PerfCall, len
<1>4. PerfRun(c, SleepFor(10), 4 + Total, 1)
  <2> DEFINE call1 == [op |-> "sleep", secs |-> 10]
  <2>1. call1 \in Calls /\ PerfCall(c, (4 + Total) + 1, call1)
    BY <1>0 DEF Calls, PerfCall
  <2> HIDE DEF call1
  <2>2. 4 + Total \in Nat
    BY <1>0
  <2>3. PerfRun(c, <<call1>>, 4 + Total, 1)
    BY <2>1, <2>2, OneCall
  <2> QED BY <2>3 DEF SleepFor, call1
<1>5. PerfRun(c, calls \o SleepFor(10), 4, Total + 1)
  BY <1>0, <1>3, <1>4, CallsJoin
<1>6. Flood(len, flagged) = calls \o SleepFor(10)
  BY DEF Flood, calls, call
<1> QED BY <1>5, <1>6 DEF len

\* What the client of a performance case does.
LEMMA PerfCalls ==
    ASSUME Programs, NEW c \in CaseSet, Performs(c)
    PROVE  PerfRun(c, Script(c), 0, Total + 7)
<1>1. /\ c.suite = "ndatasched"
      /\ c.number \in {2, 3, 4, 8, 9, 10, 14, 15, 16, 19, 20}
      /\ c.number \notin {0, 1, 7, 13}
      /\ Total \in Nat
  BY PerfCases, TotalType
<1>2. ~NdCase(c.number).sched_cork
  BY <1>1, CorkedCases
<1>3. PerfRun(c, NdTest(c.number), 4, Total + 1)
  <2> DEFINE f == NdTest(c.number)
  <2>1. c.number = 19 => f = Flood(FloodLength(c.number), Unordered)
    BY <1>2 DEF NdTest
  <2>2. c.number = 20 => f = Flood(FloodLength(c.number), Alternating)
    BY <1>2 DEF NdTest
  <2>3. c.number \notin {19, 20} => f = Flood(FloodLength(c.number), Ordered)
    BY <1>1, <1>2 DEF NdTest
  <2> HIDE DEF f
  <2>4. PICK flagged : f = Flood(FloodLength(c.number), flagged)
    BY <2>1, <2>2, <2>3
  <2>5. PerfRun(c, f, 4, Total + 1)
    BY <2>4, FloodIs
  <2> QED BY <2>5 DEF f
<1>4. /\ PerfRun(c, SleepFor(3), 0, 1)
      /\ PerfRun(c, Do("connect"), 1, 1)
      /\ PerfRun(c, Do("enable"), 2, 1)
      /\ PerfRun(c, Cmd(SN_CMD_SET_STRRESET), 3, 1)
      /\ PerfRun(c, Cmd(SN_CMD_CLOSE_ASOC), Total + 5, 1)
      /\ PerfRun(c, SleepFor(5), Total + 6, 1)
  <2>2. 0 \in Nat /\ 1 \in Nat /\ 2 \in Nat /\ 3 \in Nat /\ Total + 5 \in Nat /\ Total + 6 \in Nat
    BY <1>1
  <2>3. /\ [op |-> "sleep", secs |-> 3] \in Calls
        /\ [op |-> "connect"] \in Calls /\ [op |-> "enable"] \in Calls
        /\ [op |-> "cmd", len |-> SN_CMD_SET_STRRESET] \in Calls
        /\ [op |-> "cmd", len |-> SN_CMD_CLOSE_ASOC] \in Calls
        /\ [op |-> "sleep", secs |-> 5] \in Calls
    BY DEF Calls
  <2>4. /\ PerfCall(c, 0 + 1, [op |-> "sleep", secs |-> 3])
        /\ PerfCall(c, 1 + 1, [op |-> "connect"])
        /\ PerfCall(c, 2 + 1, [op |-> "enable"])
        /\ PerfCall(c, 3 + 1, [op |-> "cmd", len |-> SN_CMD_SET_STRRESET])
    BY <1>1 DEF PerfCall
  <2>5. /\ PerfCall(c, (Total + 5) + 1, [op |-> "cmd", len |-> SN_CMD_CLOSE_ASOC])
        /\ PerfCall(c, (Total + 6) + 1, [op |-> "sleep", secs |-> 5])
    BY <1>1 DEF PerfCall
  <2>6. PerfRun(c, SleepFor(3), 0, 1)
    BY <2>2, <2>3, <2>4, OneCall, Zenon DEF SleepFor
  <2>7. PerfRun(c, Do("connect"), 1, 1)
    BY <2>2, <2>3, <2>4, OneCall, Zenon DEF Do
  <2>8. PerfRun(c, Do("enable"), 2, 1)
    BY <2>2, <2>3, <2>4, OneCall, Zenon DEF Do
  <2>9. PerfRun(c, Cmd(SN_CMD_SET_STRRESET), 3, 1)
    BY <2>2, <2>3, <2>4, OneCall, Zenon DEF Cmd
  <2>10. PerfRun(c, Cmd(SN_CMD_CLOSE_ASOC), Total + 5, 1)
    BY <2>2, <2>3, <2>5, OneCall, Zenon DEF Cmd
  <2>11. PerfRun(c, SleepFor(5), Total + 6, 1)
    BY <2>2, <2>3, <2>5, OneCall, Zenon DEF SleepFor
  <2> QED BY <2>6, <2>7, <2>8, <2>9, <2>10, <2>11
<1>5. PerfRun(c, SleepFor(3) \o Do("connect"), 0, 2)
  <2>1. 0 + 1 = 1 /\ 1 + 1 = 2
    OBVIOUS
  <2> QED BY <1>4, <2>1, CallsJoin
<1>6. PerfRun(c, Do("enable") \o Cmd(SN_CMD_SET_STRRESET), 2, 2)
  <2>1. 2 + 1 = 3 /\ 1 + 1 = 2
    OBVIOUS
  <2> QED BY <1>4, <2>1, CallsJoin
<1>7. PerfRun(c, Do("enable") \o Cmd(SN_CMD_SET_STRRESET) \o << >>, 2, 2)
  <2>1. PerfRun(c, << >>, 2 + 2, 0) /\ 2 + 0 = 2
    BY NoCall
  <2> QED BY <1>6, <2>1, CallsJoin
<1> DEFINE start == SleepFor(3) \o Do("connect")
                       \o (Do("enable") \o Cmd(SN_CMD_SET_STRRESET) \o << >>)
           s1 == start \o NdTest(c.number)
           s2 == s1 \o << >>
           s3 == s2 \o Cmd(SN_CMD_CLOSE_ASOC)
           s4 == s3 \o SleepFor(5)
<1>8. PerfRun(c, start, 0, 4)
  <2>1. 0 + 2 = 2 /\ 2 + 2 = 4
    OBVIOUS
  <2> QED BY <1>5, <1>7, <2>1, CallsJoin
<1> HIDE DEF start
<1>9. PerfRun(c, s1, 0, Total + 5)
  <2>1. 0 + 4 = 4 /\ 4 + (Total + 1) = Total + 5 /\ Total + 1 \in Nat
    BY <1>1
  <2> QED BY <1>3, <1>8, <2>1, CallsJoin
<1> HIDE DEF s1
<1>10. PerfRun(c, s2, 0, Total + 5)
  <2>1. /\ PerfRun(c, << >>, 0 + (Total + 5), 0)
        /\ (Total + 5) + 0 = Total + 5 /\ Total + 5 \in Nat
    BY <1>1, NoCall
  <2> QED BY <1>9, <2>1, CallsJoin
<1> HIDE DEF s2
<1>11. PerfRun(c, s3, 0, Total + 6)
  <2>1. 0 + (Total + 5) = Total + 5 /\ (Total + 5) + 1 = Total + 6 /\ Total + 5 \in Nat
    BY <1>1
  <2> QED BY <1>4, <1>10, <2>1, CallsJoin
<1> HIDE DEF s3
<1>12. PerfRun(c, s4, 0, Total + 7)
  <2>1. 0 + (Total + 6) = Total + 6 /\ (Total + 6) + 1 = Total + 7 /\ Total + 6 \in Nat
    BY <1>1
  <2> QED BY <1>4, <1>11, <2>1, CallsJoin
<1>13. Script(c) = s4
  <2>1. Script(c) = NdClient(c.number)
    BY <1>1 DEF Programs, ScriptOf
  <2>2. Cork(c.number) = << >>
    BY <1>2 DEF Cork
  <2>3. Uncork(c.number) = << >>
    BY <1>1, <1>2 DEF Uncork, FuzzB
  <2> QED BY <2>1, <2>2, <2>3 DEF NdClient, AroundTest, s4, s3, s2, s1, start
<1> QED BY <1>12, <1>13

-----------------------------------------------------------------------------

\* Message i of a performance case is the reset command, one of the flood, or
\* CLOSE; the calls before call q send so many.
PerfLen(c, i) ==
    IF i = 1 THEN SN_CMD_SET_STRRESET
    ELSE IF i = Total + 2 THEN SN_CMD_CLOSE_ASOC ELSE FloodLength(c.number)

Before(q) ==
    IF q <= 4 THEN 0
    ELSE IF q <= Total + 5 THEN q - 4
    ELSE IF q = Total + 6 THEN Total + 1 ELSE Total + 2

Reached == client.pc + (IF client.wait = 0 THEN 0 ELSE 1)

\* The messages are those of the calls reached, and none may be given up.
PerfSent ==
    /\ Len(sent) = Before(Reached)
    /\ \A i \in 1 .. Len(sent) : sent[i].pol = "none" /\ sent[i].len = PerfLen(Case, i)

\* None is lost or repeated.
PerfQueues == Len(rcvq) + Cardinality(pend) = Len(sent)

\* The reset command is the first to arrive, and has been read before the flood.
PerfFirst ==
    /\ \A k \in 1 .. Len(rcvq) : rcvq[k] = 1 <=> k = 1
    /\ 1 \in pend => rcvq = << >>
    /\ client.pc >= 5 => nread >= 1

\* What has been counted: every message read that is no command.
PerfRead ==
    /\ mem \in Context
    /\ server \in {"boot", "loop"} =>
           mem.c0 = Unit(Case) * (IF nread = 0 THEN 0 ELSE nread - 1)
    /\ server = "exited" => nread >= 2 /\ mem.c0 = Unit(Case) * (nread - 2)

PerfInv ==
    /\ NoneYet
    /\ cur # 0 /\ Performs(Case) =>
           PerfSent /\ PerfQueues /\ PerfFirst /\ PerfRead

\* The call a client is at.
LEMMA WhichCall ==
    ASSUME NEW c, NEW k \in 1 .. Total + 7, NEW call, PerfCall(c, k, call)
    PROVE  /\ call.op = "cmd" =>
                  \/ k = 4 /\ call.len = SN_CMD_SET_STRRESET
                  \/ k = Total + 6 /\ call.len = SN_CMD_CLOSE_ASOC
           /\ call.op = "send" =>
                  /\ k \in 5 .. Total + 4
                  /\ call.msg.len = FloodLength(c.number) /\ call.msg.pol = "none"
           /\ call.op \notin {"cmd", "send"} => k \in {1, 2, 3, Total + 5, Total + 7}
<1>1. k \in 1 .. 4 \/ k \in 5 .. Total + 4 \/ k \in {Total + 5, Total + 6, Total + 7}
  BY TotalType
<1>2. CASE k \in 1 .. 4
  BY <1>2, TotalType DEF PerfCall
<1>3. CASE k \in 5 .. Total + 4
  BY <1>3, TotalType DEF PerfCall
<1>4. CASE k \in {Total + 5, Total + 6, Total + 7}
  BY <1>4, TotalType DEF PerfCall
<1> QED BY <1>1, <1>2, <1>3, <1>4

\* What a step may do to calls and queues when nothing is lost or given up.
PerfMove ==
    \/ /\ client'.pc = client.pc /\ client'.wait = client.wait
       /\ UNCHANGED <<sent, pend, rcvq>>
    \/ /\ UNCHANGED <<nread, mem, server, rcvq>>
       /\ \/ SendAsocCmd
          \/ SendAsocMsg /\ pend' = pend \cup {Len(sent) + 1}
          \/ RecvAck
          \/ /\ client.wait = 0 /\ client'.wait = 0 /\ client'.pc = client.pc + 1
             /\ client.pc \in 1 .. Len(Script(Case)) /\ Call.op \notin {"cmd", "send"}
             /\ UNCHANGED <<sent, pend>>
    \/ \E i \in pend : Deliver(i)

\* No other step touches them.
LEMMA PerfMoves ==
    ASSUME IInv, [Next]_vars, ~StartCase, KernelBugs(Case) \cap {"lose", "dup"} = {},
           \A i \in 1 .. Len(sent) : sent[i].pol = "none",
           CallIs("send") => Call.msg.pol = "none"
    PROVE  PerfMove
<1> USE DEF PerfMove
<1> USE DEF suite, assoc
<1>1. client \in ClientType
  BY DEF IInv, TypeOK
<1>2. ASSUME NEW o \in {"connect", "enable", "flush", "sndbuf", "spawn", "join", "drop",
                        "sleep", "reset", "cork"},
             CallIs(o), Return
      PROVE  /\ client.wait = 0 /\ client'.wait = 0 /\ client'.pc = client.pc + 1
             /\ client.pc \in 1 .. Len(Script(Case)) /\ Call.op \notin {"cmd", "send"}
  BY <1>1, <1>2, CallType DEF CallIs, Return, IInv
<1>3. ASSUME Die PROVE client'.pc = client.pc /\ client'.wait = client.wait
  BY <1>1, <1>3 DEF Die
<1>4. CASE CreateAsocSk
  <2>1. CallIs("connect") /\ (Return \/ Die)
    BY <1>4 DEF CreateAsocSk
  <2> QED BY <1>4, <2>1, <1>2, <1>3 DEF CreateAsocSk
<1>5. CASE EnableAsocStrreset
  BY <1>5, <1>2 DEF EnableAsocStrreset
<1>6. CASE SendAsocCmd
  BY <1>6 DEF SendAsocCmd
<1>7. CASE RecvAck
  BY <1>7 DEF RecvAck
<1>8. CASE SendAsocMsg
  <2>1. Call.msg.pol = "none"
    BY <1>8 DEF SendAsocMsg
  <2>2. Pruned(Call.msg) = {{}}
    BY <2>1 DEF Pruned
  <2>3. pend' = pend \cup {Len(sent) + 1}
    BY <1>8, <2>2 DEF SendAsocMsg
  <2> QED BY <1>8, <2>3 DEF SendAsocMsg
<1>9. CASE CloseAsocStreams
  BY <1>9, <1>2 DEF CloseAsocStreams
<1>10. CASE ReopenAsocStreams
  BY <1>10, <1>2 DEF ReopenAsocStreams
<1>11. CASE Sleep
  BY <1>11, <1>2 DEF Sleep
<1>12. CASE SetStrreset
  BY <1>12, <1>2 DEF SetStrreset
<1>13. CASE CorkStreams
  <2>1. CallIs("cork") /\ (Return \/ Die)
    BY <1>13 DEF CorkStreams
  <2> QED BY <1>13, <2>1, <1>2, <1>3 DEF CorkStreams
<1>14. CASE SetupSoSndbuf
  BY <1>14, <1>2 DEF SetupSoSndbuf
<1>15. CASE SpawnCleanup
  BY <1>15, <1>2 DEF SpawnCleanup
<1>16. CASE JoinCleanup
  BY <1>16, <1>2 DEF JoinCleanup
<1>17. CASE ClientExit
  BY <1>17, <1>1 DEF ClientExit
<1>18. CASE ClientFail
  BY <1>18, <1>3 DEF ClientFail
<1>19. CASE ThreadStep \/ ServerStep \/ ServerFail
  BY <1>19 DEF ThreadStep, ThreadSleep, ThreadFlush, ServerStep, ServerListen,
       ServerSetStrreset, ServerCloseAsoc, ServerCheck, ServerFail
<1>20. CASE KernelStep
  <2>1. CASE ReconfReply
    BY <2>1 DEF ReconfReply
  <2>2. ASSUME NEW i \in pend, Abandon(i) \/ Lose(i) \/ Duplicate(i) PROVE FALSE
    <3>1. sent[i].pol = "none"
      BY DEF IInv, TypeOK
    <3> QED BY <2>2, <3>1 DEF Abandon, CanExpire, Lose, Duplicate
  <2> QED BY <1>20, <2>1, <2>2 DEF KernelStep
<1>21. CASE FinishCase \/ UNCHANGED vars
  BY <1>21 DEF FinishCase, vars
<1> QED BY <1>4, <1>5, <1>6, <1>7, <1>8, <1>9, <1>10, <1>11, <1>12, <1>13, <1>14, <1>15,
           <1>16, <1>17, <1>18, <1>19, <1>20, <1>21 DEF Next, ClientStep

\* A check counts one message.
LEMMA ChecksCount ==
    ASSUME Programs, NEW c \in CaseSet, Performs(c), NEW m \in Context,
           m.c2 = FloodLength(c.number)
    PROVE  Check(c, m) \in Context /\ Check(c, m).c0 = m.c0 + Unit(c)
<1>1. /\ c.number \in {2, 3, 4, 8, 9, 10, 14, 15, 16, 19, 20}
      /\ c.suite = "ndatasched" /\ c.number \notin {0, 1, 7, 13}
  BY PerfCases
<1>2. Check(c, m) = NdCheck(c.number, m) /\ ~NdCase(c.number).sched_cork
  BY <1>1, CorkedCases DEF Programs, CheckOf
<1>3. Check(c, m) = [m EXCEPT !.c0 = m.c0 + Unit(c)]
  <2>1. CASE c.number \in {2, 8, 14, 19, 20}
    BY <1>2, <2>1 DEF NdCheck, Unit
  <2>2. CASE c.number \notin {2, 8, 14, 19, 20}
    BY <1>2, <2>2 DEF NdCheck, Unit
  <2> QED BY <2>1, <2>2
<1> DEFINE n == m.c0 + Unit(c)
<1>4. n \in Nat
  BY PerfCases DEF Context
<1> HIDE DEF n
<1>5. [m EXCEPT !.c0 = n] \in Context /\ [m EXCEPT !.c0 = n].c0 = n
  BY <1>4 DEF Context
<1> QED BY <1>3, <1>5 DEF n

\* A performance case whose client is at a call.
Performing ==
    /\ cur # 0 /\ Case \in CaseSet /\ Performs(Case)
    /\ Len(Script(Case)) = Total + 7
    /\ \A k \in 1 .. Total + 7 : PerfCall(Case, k, Script(Case)[k])

\* What that call may be.
LEMMA AtCall ==
    ASSUME Performing, client.pc \in 1 .. Len(Script(Case))
    PROVE  /\ Call.op = "cmd" =>
                  \/ client.pc = 4 /\ Call.len = SN_CMD_SET_STRRESET
                  \/ client.pc = Total + 6 /\ Call.len = SN_CMD_CLOSE_ASOC
           /\ Call.op = "send" =>
                  /\ client.pc \in 5 .. Total + 4
                  /\ Call.msg.len = FloodLength(Case.number) /\ Call.msg.pol = "none"
           /\ Call.op \notin {"cmd", "send"} =>
                  client.pc \in {1, 2, 3, Total + 5, Total + 7}
<1> DEFINE k == client.pc
           call == Call
<1>1. k \in 1 .. Total + 7 /\ PerfCall(Case, k, call)
  BY DEF Performing, Call
<1> HIDE DEF k, call
<1>2. /\ call.op = "cmd" =>
             \/ k = 4 /\ call.len = SN_CMD_SET_STRRESET
             \/ k = Total + 6 /\ call.len = SN_CMD_CLOSE_ASOC
      /\ call.op = "send" =>
             /\ k \in 5 .. Total + 4
             /\ call.msg.len = FloodLength(Case.number) /\ call.msg.pol = "none"
      /\ call.op \notin {"cmd", "send"} => k \in {1, 2, 3, Total + 5, Total + 7}
  BY <1>1, WhichCall
<1> QED BY <1>2 DEF k, call

\* The log grows by the message of the call.
LEMMA PerfSentStep ==
    ASSUME IInv, Performing, PerfSent, PerfMove, Case' = Case
    PROVE  PerfSent'
<1> DEFINE n == Len(sent)
           F == FloodLength(Case.number)
           T == Total
<1>1. /\ client.pc \in Nat \ {0} /\ client.wait \in Nat /\ n \in Nat /\ T \in Nat
      /\ client \in ClientType /\ TypeOK /\ Running
  BY TotalType DEF IInv, TypeOK
<1>2. /\ n = Before(Reached)
      /\ \A i \in 1 .. n : sent[i].pol = "none" /\ sent[i].len = PerfLen(Case, i)
  BY DEF PerfSent
<1>3. CASE sent' = sent /\ Reached' = Reached
  BY <1>2, <1>3 DEF PerfSent, PerfLen, Before
<1>4. ASSUME NEW m \in Message, sent' = Append(sent, m), m.pol = "none",
             m.len = PerfLen(Case, n + 1), n + 1 = Before(Reached')
      PROVE  PerfSent'
  <2>1. /\ Len(sent') = n + 1 /\ \A i \in 1 .. n : sent'[i] = sent[i] /\ sent'[n + 1] = m
    BY <1>1, <1>4, Appended
  <2>2. ASSUME NEW i \in 1 .. n + 1
        PROVE  sent'[i].pol = "none" /\ sent'[i].len = PerfLen(Case, i)
    <3>1. CASE i = n + 1
      BY <1>1, <1>4, <3>1, Appended
    <3>2. CASE i # n + 1
      <4>1. i \in 1 .. n
        BY <1>1, <3>2
      <4> QED BY <1>2, <2>1, <4>1
    <3> QED BY <3>1, <3>2
  <2> HIDE DEF n
  <2> QED BY <1>4, <2>1, <2>2 DEF PerfSent, PerfLen, Before
<1>5. CASE SendAsocCmd
  <2>1. /\ CallIs("cmd") /\ sent' = Append(sent, CmdMessage(Call.len))
        /\ client' = [client EXCEPT !.wait = n + 1] /\ client.wait = 0
    BY <1>5 DEF SendAsocCmd, CallIs
  <2>2. client.pc \in 1 .. Len(Script(Case)) /\ Call.op = "cmd"
    BY <1>1, <2>1, CallType
  <2>3. /\ Reached = client.pc /\ client'.pc = client.pc /\ client'.wait = n + 1
        /\ Reached' = client.pc + 1
    BY <1>1, <2>1 DEF Reached
  <2>4. \/ client.pc = 4 /\ Call.len = SN_CMD_SET_STRRESET
        \/ client.pc = T + 6 /\ Call.len = SN_CMD_CLOSE_ASOC
    BY <2>2, AtCall
  <2>5. n + 1 = Before(Reached') /\ Call.len = PerfLen(Case, n + 1)
    BY <1>1, <1>2, <2>3, <2>4 DEF Before, PerfLen
  <2>6. CmdMessage(Call.len) \in Message
    BY <2>4 DEF CmdMessage, Message, Policies
  <2>7. CmdMessage(Call.len).pol = "none" /\ CmdMessage(Call.len).len = Call.len
    BY DEF CmdMessage
  <2> QED BY <1>4, <2>1, <2>5, <2>6, <2>7
<1>6. CASE SendAsocMsg
  <2>1. /\ CallIs("send") /\ sent' = Append(sent, Call.msg) /\ client.wait = 0
        /\ client' = [client EXCEPT !.pc = client.pc + 1]
    BY <1>6 DEF SendAsocMsg, CallIs, Return
  <2>2. client.pc \in 1 .. Len(Script(Case)) /\ Call.op = "send" /\ Call \in Calls
    BY <1>1, <2>1, CallType
  <2>3. Reached = client.pc /\ Reached' = client.pc + 1
    BY <1>1, <2>1 DEF Reached
  <2>4. client.pc \in 5 .. T + 4 /\ Call.msg.len = F /\ Call.msg.pol = "none"
    BY <2>2, AtCall
  <2>5. n + 1 = Before(Reached') /\ Call.msg.len = PerfLen(Case, n + 1)
    BY <1>1, <1>2, <2>3, <2>4 DEF Before, PerfLen
  <2>6. Call.msg \in Message
    BY <2>2 DEF Calls
  <2> QED BY <1>4, <2>1, <2>4, <2>5, <2>6
<1>7. CASE RecvAck
  <2>1. sent' = sent /\ client' = [client EXCEPT !.pc = client.pc + 1, !.wait = 0] /\ client.wait # 0
    BY <1>7 DEF RecvAck, assoc
  <2>2. Reached' = Reached
    BY <1>1, <2>1 DEF Reached
  <2> QED BY <1>3, <2>1, <2>2
<1>8. CASE /\ client.wait = 0 /\ client'.wait = 0 /\ client'.pc = client.pc + 1
           /\ client.pc \in 1 .. Len(Script(Case)) /\ Call.op \notin {"cmd", "send"}
           /\ UNCHANGED <<sent, pend>>
  <2>2. client.pc \in {1, 2, 3, T + 5, T + 7}
    BY <1>8, AtCall
  <2>3. Reached = client.pc /\ Reached' = client.pc + 1
    BY <1>1, <1>8 DEF Reached
  <2>4. Before(Reached') = Before(Reached)
    BY <1>1, <2>2, <2>3 DEF Before
  <2> QED BY <1>2, <1>8, <2>4 DEF PerfSent, PerfLen, Before
<1>9. CASE client'.pc = client.pc /\ client'.wait = client.wait /\ UNCHANGED <<sent, pend, rcvq>>
  BY <1>3, <1>9 DEF Reached
<1>10. CASE \E i \in pend : Deliver(i)
  BY <1>3, <1>10 DEF Deliver, Reached
<1> QED BY <1>5, <1>6, <1>7, <1>8, <1>9, <1>10 DEF PerfMove

\* Nothing leaves the queues but by delivery.
LEMMA PerfQueuesStep ==
    ASSUME IInv, PerfQueues, PerfMove
    PROVE  PerfQueues'
<1>1. /\ Len(sent) \in Nat /\ pend \subseteq 1 .. Len(sent) /\ TypeOK
      /\ rcvq \in Seq(Nat) /\ Len(rcvq) \in Nat
  BY DEF IInv, TypeOK
<1>2. IsFiniteSet(pend) /\ Cardinality(pend) \in Nat
  <2>1. IsFiniteSet(1 .. Len(sent))
    BY <1>1, FS_Interval
  <2>2. IsFiniteSet(pend)
    BY <1>1, <2>1, FS_Subset
  <2> QED BY <2>2, FS_CardinalityType
<1>3. ASSUME NEW m \in Message, sent' = Append(sent, m), pend' = pend \cup {Len(sent) + 1},
             rcvq' = rcvq
      PROVE  PerfQueues'
  <2>1. Len(sent') = Len(sent) + 1
    BY <1>1, <1>3, Appended
  <2>2. Len(sent) + 1 \notin pend
    BY <1>1
  <2>3. Cardinality(pend') = Cardinality(pend) + 1
    BY <1>2, <1>3, <2>2, FS_AddElement
  <2> QED BY <1>1, <1>2, <1>3, <2>1, <2>3 DEF PerfQueues
<1>4. CASE UNCHANGED rcvq /\ (SendAsocCmd \/ (SendAsocMsg /\ pend' = pend \cup {Len(sent) + 1}))
  <2>1. CASE SendAsocCmd
    <3>1. CallIs("cmd") /\ sent' = Append(sent, CmdMessage(Call.len)) /\ Call \in Calls
          /\ Call.op = "cmd"
      BY <2>1, CallType DEF SendAsocCmd, IInv
    <3>2. CmdMessage(Call.len) \in Message
      BY <3>1 DEF CmdMessage, Message, Policies, Calls
    <3> QED BY <1>3, <1>4, <2>1, <3>1, <3>2 DEF SendAsocCmd
  <2>2. CASE SendAsocMsg /\ pend' = pend \cup {Len(sent) + 1}
    <3>1. CallIs("send") /\ sent' = Append(sent, Call.msg) /\ Call \in Calls
          /\ Call.op = "send"
      BY <2>2, CallType DEF SendAsocMsg, IInv
    <3>2. Call.msg \in Message
      BY <3>1 DEF Calls
    <3> QED BY <1>3, <1>4, <2>2, <3>1, <3>2
  <2> QED BY <1>4, <2>1, <2>2
<1>5. CASE UNCHANGED <<sent, pend, rcvq>>
  BY <1>5 DEF PerfQueues
<1>6. CASE RecvAck
  BY <1>6 DEF PerfQueues, RecvAck, assoc
<1>7. ASSUME NEW i \in pend, Deliver(i) PROVE PerfQueues'
  <2>1. rcvq' = Append(rcvq, i) /\ pend' = pend \ {i} /\ sent' = sent
    BY <1>7 DEF Deliver
  <2>2. Cardinality(pend') = Cardinality(pend) - 1
    BY <1>2, <2>1, FS_RemoveElement
  <2>3. Len(rcvq') = Len(rcvq) + 1
    BY <1>1, <2>1
  <2> QED BY <1>1, <1>2, <2>1, <2>2, <2>3 DEF PerfQueues
<1> QED BY <1>4, <1>5, <1>6, <1>7 DEF PerfMove

\* The reset command keeps its place.
LEMMA PerfFirstStep ==
    ASSUME IInv, IInv', Performing, PerfSent, PerfQueues, PerfFirst, PerfMove,
           nread' \in {nread, nread + 1}
    PROVE  PerfFirst'
<1>1. /\ client.pc \in Nat \ {0} /\ client.wait \in 0 .. Len(sent) /\ Len(sent) \in Nat
      /\ Total \in Nat /\ client \in ClientType /\ TypeOK /\ Running
      /\ pend \subseteq 1 .. Len(sent) /\ Len(rcvq) \in Nat /\ rcvq \in Seq(Nat)
      /\ nread \in Nat /\ nread <= Len(rcvq) /\ nread <= nread'
      /\ \A k \in 1 .. Len(rcvq) : rcvq[k] \in 1 .. Len(sent)
  <2>1. /\ client \in ClientType /\ sent \in Seq(Message) /\ TypeOK /\ Running
        /\ pend \subseteq 1 .. Len(sent) /\ rcvq \in Seq(Nat) /\ nread \in 0 .. Len(rcvq)
        /\ \A k \in 1 .. Len(rcvq) : rcvq[k] \in 1 .. Len(sent)
    BY DEF IInv, TypeOK
  <2>2. /\ client.pc \in Nat \ {0} /\ client.wait \in 0 .. Len(sent) /\ Len(sent) \in Nat
        /\ Len(rcvq) \in Nat
    BY <2>1
  <2>3. nread \in Nat /\ nread <= Len(rcvq) /\ nread <= nread'
    BY <2>1, <2>2
  <2> QED BY <2>1, <2>2, <2>3, TotalType
<1>2. /\ \A k \in 1 .. Len(rcvq) : rcvq[k] = 1 <=> k = 1
      /\ 1 \in pend => rcvq = << >>
      /\ client.pc >= 5 => nread >= 1
  BY DEF PerfFirst
<1>3. CASE client'.pc = client.pc /\ UNCHANGED <<pend, rcvq>>
  BY <1>1, <1>2, <1>3 DEF PerfFirst
<1>4. ASSUME client'.pc = client.pc + 1 /\ client.pc # 4,
             rcvq' = rcvq, pend' \subseteq pend \cup {Len(sent) + 1},
             1 \in pend' => 1 \in pend \/ rcvq = << >>
      PROVE  PerfFirst'
  BY <1>1, <1>2, <1>4 DEF PerfFirst
<1>5. CASE SendAsocCmd /\ rcvq' = rcvq
  <2>1. /\ CallIs("cmd") /\ pend' = pend \cup {Len(sent) + 1} /\ client'.pc = client.pc
    BY <1>1, <1>5 DEF SendAsocCmd
  <2>2. 1 \in pend' => 1 \in pend \/ rcvq = << >>
    <3>1. Len(sent) = 0 => Len(rcvq) = 0
      BY <1>1
    <3> QED BY <1>1, <2>1, <3>1
  <2> QED BY <1>1, <1>2, <1>5, <2>1, <2>2 DEF PerfFirst
<1>6. CASE SendAsocMsg /\ pend' = pend \cup {Len(sent) + 1} /\ rcvq' = rcvq
  <2>1. CallIs("send") /\ client' = [client EXCEPT !.pc = client.pc + 1]
    BY <1>6 DEF SendAsocMsg, Return
  <2>2. client.pc \in 1 .. Len(Script(Case)) /\ Call.op = "send"
    BY <1>1, <2>1, CallType
  <2>3. client.pc \in 5 .. Total + 4
    BY <2>2, AtCall
  <2>4. Len(rcvq) >= 1
    BY <1>1, <1>2, <2>3
  <2>5. Len(sent) + 1 # 1
    <3>1. rcvq[1] \in 1 .. Len(sent)
      BY <1>1, <2>4
    <3> QED BY <1>1, <3>1
  <2> QED BY <1>1, <1>4, <1>6, <2>1, <2>3, <2>5
<1>7. CASE RecvAck /\ UNCHANGED <<rcvq, nread>>
  <2>1. /\ client' = [client EXCEPT !.pc = client.pc + 1, !.wait = 0] /\ client.wait # 0
        /\ acks > 0 /\ UNCHANGED <<sent, pend>> /\ client.st = "run"
    BY <1>7 DEF RecvAck, assoc
  <2>2. client'.pc = client.pc + 1
    BY <1>1, <2>1
  <2>3. CASE client.pc = 4
    <3>1. Reached = 5 /\ Len(sent) = 1
      <4>1. Reached = 5
        BY <1>1, <2>1, <2>3 DEF Reached
      <4> QED BY <4>1, TotalType DEF PerfSent, Before
    <3>2. client.wait = 1 /\ acks = 1 /\ Outstanding = {}
      <4>1. client.wait \in 0 .. Len(sent) /\ acks \in Nat /\ acks <= 1
        BY DEF IInv, TypeOK, Rendezvous
      <4>2. client.wait = 1 /\ acks = 1
        BY <2>1, <3>1, <4>1
      <4> QED BY <4>2 DEF IInv, Rendezvous
    <3>3. sent[1].len \in Commands
      BY <3>1 DEF PerfSent, PerfLen
    <3>4. 1 \in 1 .. Len(sent)
      BY <3>1
    <3>5. sent[1].cmd
      BY <3>3, <3>4 DEF IInv, Distinct
    <3>6. 1 \notin pend /\ ~Unread(1)
      BY <3>2, <3>4, <3>5 DEF Outstanding
    <3>7. pend = {}
      BY <1>1, <3>1, <3>6
    <3>8. Len(rcvq) = 1
      <4>1. Cardinality(pend) = 0
        BY <3>7, FS_EmptySet
      <4> QED BY <1>1, <3>1, <4>1 DEF PerfQueues
    <3>9. rcvq[1] = 1
      BY <1>2, <3>8
    <3>10. nread >= 1
      <4> SUFFICES ASSUME nread = 0 PROVE FALSE
        BY <1>1
      <4>1. 1 \in nread + 1 .. Len(rcvq)
        BY <3>8
      <4> QED BY <3>6, <3>9, <4>1 DEF Unread
    <3> QED BY <1>2, <1>7, <2>1, <3>10 DEF PerfFirst
  <2>4. CASE client.pc # 4
    BY <1>4, <1>7, <2>1, <2>2, <2>4
  <2> QED BY <2>3, <2>4
<1>8. CASE /\ client'.pc = client.pc + 1 /\ UNCHANGED <<pend, rcvq>>
           /\ client.pc \in 1 .. Len(Script(Case)) /\ Call.op \notin {"cmd", "send"}
  <2>1. client.pc \in {1, 2, 3, Total + 5, Total + 7}
    BY <1>8, AtCall
  <2>2. client.pc # 4
    BY <1>1, <2>1
  <2> QED BY <1>4, <1>8, <2>2
<1>9. ASSUME NEW i \in pend, Deliver(i) PROVE PerfFirst'
  <2>1. rcvq' = Append(rcvq, i) /\ pend' = pend \ {i} /\ client' = client
    BY <1>9 DEF Deliver
  <2>2. /\ Len(rcvq') = Len(rcvq) + 1 /\ rcvq'[Len(rcvq) + 1] = i
        /\ \A k \in 1 .. Len(rcvq) : rcvq'[k] = rcvq[k]
    BY <1>1, <2>1
  <2>3. i = 1 <=> Len(rcvq) + 1 = 1
    <3>1. CASE i = 1
      BY <1>2, <3>1
    <3>2. CASE i # 1
      <4> SUFFICES ASSUME Len(rcvq) = 0 PROVE FALSE
        BY <1>1, <3>2
      <4>1. Len(sent) >= 2
        BY <1>1, <3>2
      <4>2. client.pc < 5
        BY <1>1, <1>2
      <4>3. Reached <= 5
        BY <1>1, <4>2 DEF Reached
      <4> QED BY <1>1, <4>1, <4>3 DEF PerfSent, Before, Reached
    <3> QED BY <3>1, <3>2
  <2>4. ASSUME NEW k \in 1 .. Len(rcvq') PROVE rcvq'[k] = 1 <=> k = 1
    <3>1. CASE k \in 1 .. Len(rcvq)
      BY <1>2, <2>2, <3>1
    <3>2. CASE k = Len(rcvq) + 1
      BY <2>2, <2>3, <3>2
    <3> QED BY <1>1, <2>2, <3>1, <3>2
  <2>5. 1 \notin pend'
    BY <1>1, <1>2, <2>1, <2>3
  <2> QED BY <1>1, <1>2, <2>1, <2>4, <2>5 DEF PerfFirst
<1> QED BY <1>3, <1>5, <1>6, <1>7, <1>8, <1>9 DEF PerfMove

\* A check counts its message, and no command is counted.
LEMMA PerfReadStep ==
    ASSUME Programs, IInv, IInv', Performing, PerfSent, PerfFirst, PerfRead, [Next]_vars,
           ~StartCase, Case' = Case
    PROVE  PerfRead'
<1> DEFINE u == Unit(Case)
           n == nread + 1
<1>1. /\ nread \in Nat /\ Len(rcvq) \in Nat /\ Total \in Nat /\ u \in Nat
      /\ \A k \in 1 .. Len(rcvq) : rcvq[k] \in 1 .. Len(sent)
      /\ mem \in Context /\ Unit(Case)' = u /\ Case \in CaseSet
  <2>1. nread \in Nat /\ Len(rcvq) \in Nat /\ \A k \in 1 .. Len(rcvq) : rcvq[k] \in 1 .. Len(sent)
    BY DEF IInv, TypeOK
  <2>2. Total \in Nat /\ u \in Nat /\ mem \in Context /\ Case \in CaseSet
    BY PerfCases, TotalType DEF PerfRead, Performing
  <2>3. Unit(Case)' = u
    BY DEF Unit
  <2> QED BY <2>1, <2>2, <2>3
<1>2. /\ server \in {"boot", "loop"} => mem.c0 = u * (IF nread = 0 THEN 0 ELSE nread - 1)
      /\ server = "exited" => nread >= 2 /\ mem.c0 = u * (nread - 2)
  BY DEF PerfRead
<1> HIDE DEF u
<1>3. ASSUME n \in 1 .. Len(rcvq)
      PROVE  /\ n = 1 <=> PeerCmd = SN_CMD_SET_STRRESET
             /\ PeerCmd \notin Commands => PeerCmd = FloodLength(Case.number)
  <2>1. rcvq[n] \in 1 .. Len(sent) /\ (rcvq[n] = 1 <=> n = 1)
    BY <1>1, <1>3 DEF PerfFirst
  <2>2. PeerCmd = PerfLen(Case, rcvq[n])
    BY <2>1 DEF PerfSent, PeerCmd
  <2>3. FloodLength(Case.number) # SN_CMD_SET_STRRESET
    BY PerfCases DEF Performing
  <2> QED BY <2>1, <2>2, <2>3 DEF PerfLen
<1>4. CASE UNCHANGED <<nread, mem>> /\ (server' = server \/ ServerListen)
  BY <1>1, <1>2, <1>4 DEF PerfRead, ServerListen
<1>5. CASE ServerSetStrreset
  <2>1. /\ server = "loop" /\ server' = server /\ n \in 1 .. Len(rcvq) /\ nread' = n
        /\ PeerCmd = SN_CMD_SET_STRRESET /\ mem' = [mem EXCEPT !.c4 = AssocId]
    BY <1>1, <1>5 DEF ServerSetStrreset, GetPeerCmd
  <2>2. n = 1 /\ nread = 0
    BY <1>1, <1>3, <2>1
  <2>3. AssocId \in Nat
    BY NumbersAssumption
  <2>4. mem' \in Context /\ mem'.c0 = mem.c0
    BY <1>1, <2>1, <2>3 DEF Context
  <2> QED BY <1>1, <1>2, <2>1, <2>2, <2>4 DEF PerfRead
<1>6. CASE ServerCheck
  <2> DEFINE m == [mem EXCEPT !.c2 = PeerCmd, !.sid = PeerStream]
  <2> HIDE DEF m
  <2>1. /\ server = "loop" /\ server' = server /\ n \in 1 .. Len(rcvq) /\ nread' = n
        /\ PeerCmd \notin Commands /\ mem' = Check(Case, m)
    BY <1>1, <1>6 DEF ServerCheck, GetPeerCmd, m
  <2>2. PeerCmd = FloodLength(Case.number) /\ n # 1
    BY <1>3, <2>1
  <2>3. sent[rcvq[n]] \in Message
    <3>1. sent \in Seq(Message) /\ rcvq[n] \in 1 .. Len(sent)
      BY <1>1, <2>1 DEF IInv, TypeOK
    <3> QED BY <3>1
  <2>4. PeerCmd \in Nat /\ PeerStream \in Nat
    BY <2>3 DEF PeerCmd, PeerStream, Message
  <2>5. m \in Context /\ m.c0 = mem.c0 /\ m.c2 = PeerCmd
    BY <1>1, <2>4 DEF Context, m
  <2>6. mem' \in Context /\ mem'.c0 = mem.c0 + u
    BY <1>1, <2>1, <2>2, <2>5, ChecksCount DEF Performing, u
  <2>7. mem.c0 = u * (nread - 1) /\ nread - 1 \in Nat
    BY <1>1, <1>2, <2>1, <2>2
  <2>8. \A k \in Nat : u * k + u = u * (k + 1)
    BY <1>1
  <2>9. mem'.c0 = u * (n - 1)
    <3> DEFINE k == nread - 1
    <3>1. n - 1 = k + 1
      BY <1>1
    <3> QED BY <2>6, <2>7, <2>8, <3>1
  <2> QED BY <1>1, <2>1, <2>2, <2>6, <2>9 DEF PerfRead
<1>7. CASE ServerCloseAsoc
  <2>1. /\ server = "loop" /\ server' = "exited" /\ n \in 1 .. Len(rcvq) /\ nread' = n
        /\ PeerCmd = SN_CMD_CLOSE_ASOC /\ mem' = mem
    BY <1>1, <1>7 DEF ServerCloseAsoc, GetPeerCmd
  <2>2. n # 1
    BY <1>3, <2>1
  <2>3. n - 2 = nread - 1
    BY <1>1
  <2> QED BY <1>1, <1>2, <2>1, <2>2, <2>3 DEF PerfRead
<1>8. CASE server' = "failed" /\ mem' = mem
  BY <1>1, <1>8 DEF PerfRead
<1> QED BY <1>4, <1>5, <1>6, <1>7, <1>8, WhoReads

\* Reading a message is the only way to have read one more.
LEMMA WhoCounts ==
    ASSUME IInv, [Next]_vars, ~StartCase
    PROVE  nread' = nread \/ GetPeerCmd
<1> USE DEF suite, assoc
<1>1. CASE ClientStep \/ ClientFail
  BY <1>1 DEF ClientStep, ClientFail, CreateAsocSk, EnableAsocStrreset, SendAsocCmd, RecvAck,
       SendAsocMsg, CloseAsocStreams, ReopenAsocStreams, Sleep, SetStrreset, CorkStreams,
       SetupSoSndbuf, SpawnCleanup, JoinCleanup, ClientExit
<1>2. CASE ThreadStep \/ ServerStep \/ ServerFail
  BY <1>2 DEF ThreadStep, ThreadSleep, ThreadFlush, ServerStep, ServerListen, ServerFail,
       ServerSetStrreset, ServerCheck, ServerCloseAsoc
<1>3. CASE KernelStep
  BY <1>3 DEF KernelStep, Deliver, Abandon, Lose, Duplicate, ReconfReply
<1>4. CASE FinishCase \/ UNCHANGED vars
  BY <1>4 DEF FinishCase, vars
<1> QED BY <1>1, <1>2, <1>3, <1>4 DEF Next

\* A kernel that neither loses nor repeats what the floods send.
Conforms == \A c \in CaseSet : Performs(c) => KernelBugs(c) \cap {"lose", "dup"} = {}

\* Every step of a performance case keeps the count.
LEMMA PerfStep ==
    ASSUME Programs, Conforms, IInv, IInv', PerfInv, [Next]_vars
    PROVE  PerfInv'
<1>1. CASE StartCase
  <2>1. /\ sent' = << >> /\ pend' = {} /\ rcvq' = << >> /\ nread' = 0 /\ server' = "boot"
        /\ client' = [st |-> "run", pc |-> 1, wait |-> 0]
    BY <1>1 DEF StartCase
  <2>2. mem' \in Context /\ mem'.c0 = 0
    BY <1>1, FreshContext
  <2>3. Total \in Nat
    BY TotalType
  <2>4. PerfSent'
    BY <2>1, <2>3 DEF PerfSent, Reached, Before
  <2>5. PerfQueues'
    BY <2>1, FS_EmptySet DEF PerfQueues
  <2>6. PerfFirst'
    BY <2>1 DEF PerfFirst
  <2>7. Performs(Case)' => PerfRead'
    <3> SUFFICES ASSUME Performs(Case') PROVE PerfRead'
      BY DEF Performs
    <3>1. Unit(Case') \in Nat
      BY PerfCases
    <3>2. Unit(Case') * 0 = 0
      BY <3>1
    <3>3. Unit(Case)' = Unit(Case')
      BY DEF Unit
    <3> QED BY <2>1, <2>2, <3>2, <3>3 DEF PerfRead
  <2>8. NoneYet'
    BY NoneYetStep DEF PerfInv
  <2> QED BY <2>4, <2>5, <2>6, <2>7, <2>8 DEF PerfInv
<1>2. ASSUME ~StartCase, cur' # 0, Performs(Case)'
      PROVE  PerfSent' /\ PerfQueues' /\ PerfFirst' /\ PerfRead'
  <2>1. cur # 0 /\ Case' = Case /\ Performs(Case)
    BY <1>2, SameCase DEF Performs
  <2>2. PerfSent /\ PerfQueues /\ PerfFirst /\ PerfRead /\ Case \in CaseSet
    BY <2>1, CaseType DEF PerfInv, IInv, TypeOK
  <2>3. Performing
    BY <2>1, <2>2, PerfCalls DEF Performing, PerfRun
  <2>4. PerfMove
    <3>1. KernelBugs(Case) \cap {"lose", "dup"} = {}
      BY <2>1, <2>2 DEF Conforms
    <3>2. CallIs("send") => Call.msg.pol = "none"
      <4> SUFFICES ASSUME CallIs("send") PROVE Call.msg.pol = "none"
        OBVIOUS
      <4>1. client.pc \in 1 .. Len(Script(Case)) /\ Call.op = "send"
        BY CallType DEF IInv
      <4> QED BY <2>3, <4>1, AtCall
    <3>3. \A i \in 1 .. Len(sent) : sent[i].pol = "none"
      BY <2>2 DEF PerfSent
    <3> QED BY <1>2, <3>1, <3>2, <3>3, PerfMoves
  <2>5. nread' \in {nread, nread + 1}
    <3>1. CASE nread' = nread
      BY <3>1
    <3>2. CASE GetPeerCmd
      BY <3>2 DEF GetPeerCmd
    <3> QED BY <1>2, <3>1, <3>2, WhoCounts
  <2> QED BY <1>2, <2>1, <2>2, <2>3, <2>4, <2>5, PerfSentStep, PerfQueuesStep, PerfFirstStep,
             PerfReadStep
<1>3. NoneYet'
  BY NoneYetStep DEF PerfInv
<1> QED BY <1>1, <1>2, <1>3 DEF PerfInv

\* A performance case has counted what its result is computed from when its
\* server ends: the threshold is met exactly, so that the result is printed.
THEOREM PerfAlwaysReported ==
    ASSUME Timely, Programs, Conforms,
           \A c, msgs, p, arrived :
               Turn(c, msgs, p, arrived) = PromisedTurn(c, msgs, p, arrived)
    PROVE  Spec => []PerfReported
<1>1. Init => PerfInv
  BY DEF Init, PerfInv, NoneYet
<1>2. IInv /\ CloseInv /\ PerfInv => PerfReported
  <2> SUFFICES ASSUME IInv, CloseInv, PerfInv, server = "exited", Performs(Case), cur # 0
               PROVE  mem.c0 = PerfTotal(Case.number)
    BY DEF PerfReported, Performs, PerfInv, NoneYet
  <2>1. /\ nread > 0 /\ nread = Len(rcvq) /\ pend = {} /\ Len(rcvq) \in Nat
        /\ sent[rcvq[nread]].len = SN_CMD_CLOSE_ASOC
        /\ rcvq[nread] \in 1 .. Len(sent)
    BY AllRead DEF IInv, TypeOK
  <2>2. PerfSent /\ PerfQueues /\ PerfRead /\ Total \in Nat
    BY TotalType DEF PerfInv
  <2>3. Len(sent) = nread
    BY <2>1, <2>2, FS_EmptySet DEF PerfQueues
  <2>4. rcvq[nread] = Total + 2
    <3>1. PerfLen(Case, rcvq[nread]) = SN_CMD_CLOSE_ASOC
      BY <2>1, <2>2 DEF PerfSent
    <3>2. FloodLength(Case.number) # SN_CMD_CLOSE_ASOC
      BY PerfCases
    <3> QED BY <3>1, <3>2 DEF PerfLen
  <2>5. Len(sent) = Total + 2
    <3>1. client.pc \in Nat /\ client.wait \in Nat
      BY DEF IInv, TypeOK
    <3> QED BY <2>1, <2>2, <2>4, <3>1 DEF PerfSent, Before, Reached
  <2>6. mem.c0 = Unit(Case) * Total
    BY <2>2, <2>3, <2>5 DEF PerfRead
  <2>7. Unit(Case) \in Nat /\ PerfTotal(Case.number) = Total * Unit(Case)
    BY PerfCases
  <2> QED BY <2>2, <2>6, <2>7
<1>3. IInv /\ IInv' /\ PerfInv /\ [Next]_vars => PerfInv'
  BY PerfStep
<1>4. \A c \in CaseSet : Serves(c)
  BY PromiseServes
<1> QED BY <1>1, <1>2, <1>3, <1>4, InductiveInvariant, CloseInvariant, PTL DEF Spec

-----------------------------------------------------------------------------
\* What the server has read, and what it has made of it.

\* The data read has places behind one another in the server's queue.
LEMMA DataRead ==
    ASSUME IInv
    PROVE  /\ nread \in Nat /\ nread <= Len(rcvq) /\ Len(rcvq) \in Nat
           /\ DataAt \subseteq 1 .. nread /\ IsFiniteSet(DataAt) /\ Cardinality(DataAt) \in Nat
           /\ \A k \in 1 .. Len(rcvq) :
                  rcvq[k] \in 1 .. Len(sent) /\ sent[rcvq[k]] \in Message
<1>1. nread \in Nat /\ nread <= Len(rcvq) /\ Len(rcvq) \in Nat /\ DataAt \subseteq 1 .. nread
  BY DEF IInv, TypeOK, DataAt
<1>2. IsFiniteSet(DataAt) /\ Cardinality(DataAt) \in Nat
  <2>1. IsFiniteSet(1 .. nread)
    BY <1>1, FS_Interval
  <2> QED BY <1>1, <2>1, FS_Subset, FS_CardinalityType
<1>3. ASSUME NEW k \in 1 .. Len(rcvq)
      PROVE  rcvq[k] \in 1 .. Len(sent) /\ sent[rcvq[k]] \in Message
  <2>1. rcvq[k] \in 1 .. Len(sent) /\ sent \in Seq(Message)
    BY <1>3 DEF IInv, TypeOK
  <2> QED BY <2>1
<1> QED BY <1>1, <1>2, <1>3

\* What is known of the data read stays, and one more message of data is judged.
Rests ==
    /\ DataAt' = DataAt
    /\ mem' = mem \/ (ServerSetStrreset /\ mem' = [mem EXCEPT !.c4 = AssocId])

Judges ==
    /\ DataAt' = DataAt \cup {nread + 1} /\ nread + 1 \notin DataAt
    /\ sent'[rcvq'[nread + 1]].len = PeerCmd /\ sent'[rcvq'[nread + 1]].sid = PeerStream
    /\ PeerCmd \in Nat /\ PeerStream \in Nat
    /\ mem' = Check(Case, [mem EXCEPT !.c2 = PeerCmd, !.sid = PeerStream])

\* Which it is depends on the message.
LEMMA WhatIsRead ==
    ASSUME IInv, [Next]_vars, ~StartCase
    PROVE  /\ Rests \/ Judges
           /\ \A k \in DataAt : sent'[rcvq'[k]] = sent[rcvq[k]]
<1> DEFINE n == nread + 1
<1>1. /\ nread \in Nat /\ nread <= Len(rcvq) /\ Len(rcvq) \in Nat
      /\ DataAt \subseteq 1 .. nread /\ n \notin DataAt
      /\ \A k \in 1 .. Len(rcvq) : rcvq[k] \in 1 .. Len(sent) /\ sent[rcvq[k]] \in Message
  BY DataRead
<1>2. \A k \in 1 .. Len(rcvq) : rcvq'[k] = rcvq[k] /\ sent'[rcvq'[k]] = sent[rcvq[k]]
  BY <1>1, LogGrows, QueueGrows
<1>3. ASSUME nread' = nread PROVE DataAt' = DataAt
  BY <1>1, <1>2, <1>3 DEF DataAt
<1>4. ASSUME GetPeerCmd
      PROVE  /\ nread' = n /\ n \in 1 .. Len(rcvq)
             /\ PeerCmd = sent[rcvq[n]].len /\ PeerStream = sent[rcvq[n]].sid
             /\ sent[rcvq[n]].cmd <=> PeerCmd \in Commands
             /\ PeerCmd \in Nat /\ PeerStream \in Nat
             /\ DataAt' = IF PeerCmd \in Commands THEN DataAt ELSE DataAt \cup {n}
  <2>1. nread' = n /\ n \in 1 .. Len(rcvq)
    BY <1>1, <1>4 DEF GetPeerCmd
  <2>2. PeerCmd = sent[rcvq[n]].len /\ PeerStream = sent[rcvq[n]].sid
    BY DEF PeerCmd, PeerStream
  <2>3. sent[rcvq[n]].cmd <=> PeerCmd \in Commands
    BY <1>1, <2>1, <2>2 DEF IInv, Distinct
  <2>4. PeerCmd \in Nat /\ PeerStream \in Nat
    BY <1>1, <2>1, <2>2 DEF Message
  <2>5. 1 .. n = (1 .. nread) \cup {n}
    BY <1>1
  <2>6. \A k \in 1 .. n : sent'[rcvq'[k]] = sent[rcvq[k]]
    BY <1>1, <1>2, <2>1
  <2>7. DataAt' = {k \in 1 .. n : ~sent[rcvq[k]].cmd}
    BY <2>1, <2>6 DEF DataAt
  <2>8. DataAt' = IF PeerCmd \in Commands THEN DataAt ELSE DataAt \cup {n}
    BY <2>3, <2>5, <2>7 DEF DataAt
  <2> QED BY <2>1, <2>2, <2>3, <2>4, <2>8
<1>5. ASSUME UNCHANGED <<nread, mem>> PROVE Rests \/ Judges
  BY <1>3, <1>5 DEF Rests
<1>6. ASSUME ServerSetStrreset PROVE Rests \/ Judges
  <2>1. GetPeerCmd /\ PeerCmd \in Commands /\ mem' = [mem EXCEPT !.c4 = AssocId]
    BY <1>6 DEF ServerSetStrreset
  <2>2. DataAt' = DataAt
    BY <1>4, <2>1
  <2> QED BY <1>6, <2>1, <2>2 DEF Rests
<1>7. ASSUME ServerCheck PROVE Rests \/ Judges
  BY <1>1, <1>2, <1>4, <1>7 DEF Judges, ServerCheck
<1>8. ASSUME ServerCloseAsoc PROVE Rests \/ Judges
  <2>1. GetPeerCmd /\ PeerCmd \in Commands /\ mem' = mem
    BY <1>8 DEF ServerCloseAsoc
  <2>2. DataAt' = DataAt
    BY <1>4, <2>1
  <2> QED BY <2>1, <2>2 DEF Rests
<1>9. ASSUME ServerFail PROVE Rests \/ Judges
  <2>1. (nread' = nread \/ (GetPeerCmd /\ PeerCmd \in Commands)) /\ mem' = mem
    BY <1>9 DEF ServerFail
  <2>2. DataAt' = DataAt
    BY <1>3, <1>4, <2>1
  <2> QED BY <2>1, <2>2 DEF Rests
<1>10. \A k \in DataAt : sent'[rcvq'[k]] = sent[rcvq[k]]
  BY <1>1, <1>2
<1>11. UNCHANGED <<nread, mem>> \/ ServerSetStrreset \/ ServerCheck \/ ServerCloseAsoc \/ ServerFail
  <2> USE DEF suite, assoc
  <2>1. CASE ClientStep \/ ClientFail
    BY <2>1 DEF ClientStep, ClientFail, CreateAsocSk, EnableAsocStrreset, SendAsocCmd, RecvAck,
       SendAsocMsg, CloseAsocStreams, ReopenAsocStreams, Sleep, SetStrreset, CorkStreams,
       SetupSoSndbuf, SpawnCleanup, JoinCleanup, ClientExit
  <2>2. CASE ThreadStep \/ ServerStep
    BY <2>2 DEF ThreadStep, ThreadSleep, ThreadFlush, ServerStep, ServerListen
  <2>3. CASE KernelStep
    BY <2>3 DEF KernelStep, Deliver, Abandon, Lose, Duplicate, ReconfReply
  <2>4. CASE FinishCase \/ UNCHANGED vars
    BY <2>4 DEF FinishCase, vars
  <2> QED BY <2>1, <2>2, <2>3, <2>4 DEF Next
<1> QED BY <1>5, <1>6, <1>7, <1>8, <1>9, <1>10, <1>11

\* The data read of one length, and whether it is all the data read.
LenOf(k) == sent[rcvq[k]].len
SidOf(k) == sent[rcvq[k]].sid
OfLength(u) == {k \in DataAt : LenOf(k) = u}
AllOf(u) == \A k \in DataAt : LenOf(k) = u

\* A message more, of whatever length, and at the end.
LEMMA OneMore ==
    ASSUME IInv, [Next]_vars, ~StartCase, Judges, NEW n, n = nread + 1
    PROVE  /\ DataAt' = DataAt \cup {n} /\ n \notin DataAt
           /\ Cardinality(DataAt') = Cardinality(DataAt) + 1
           /\ \A k \in DataAt : SidOf(k)' = SidOf(k) /\ Rank(k)' = Rank(k)
           /\ SidOf(n)' = PeerStream /\ Rank(n)' = Cardinality(DataAt) + 1
           /\ \A u : AllOf(u)' <=> AllOf(u) /\ PeerCmd = u
           /\ \A u : OfLength(u)' = IF PeerCmd = u THEN OfLength(u) \cup {n} ELSE OfLength(u)
           /\ \A u : Cardinality(OfLength(u)') = IF PeerCmd = u THEN Cardinality(OfLength(u)) + 1
                                                  ELSE Cardinality(OfLength(u))
           /\ \A u : Cardinality(OfLength(u)) \in Nat
<1>1. /\ nread \in Nat /\ DataAt \subseteq 1 .. nread /\ IsFiniteSet(DataAt)
      /\ Cardinality(DataAt) \in Nat
  BY DataRead
<1>2. /\ DataAt' = DataAt \cup {n} /\ n \notin DataAt
      /\ \A k \in DataAt : LenOf(k)' = LenOf(k) /\ SidOf(k)' = SidOf(k)
      /\ LenOf(n)' = PeerCmd /\ SidOf(n)' = PeerStream
  <2>1. \A k \in DataAt : sent'[rcvq'[k]] = sent[rcvq[k]]
    BY WhatIsRead
  <2>2. \A k \in DataAt : LenOf(k)' = LenOf(k) /\ SidOf(k)' = SidOf(k)
    BY <2>1 DEF LenOf, SidOf
  <2>3. LenOf(n)' = PeerCmd /\ SidOf(n)' = PeerStream
    BY DEF Judges, LenOf, SidOf
  <2> QED BY <2>2, <2>3 DEF Judges
<1>3. Cardinality(DataAt') = Cardinality(DataAt) + 1
  BY <1>1, <1>2, FS_AddElement
<1>4. ASSUME NEW u
      PROVE  /\ AllOf(u)' <=> AllOf(u) /\ PeerCmd = u
             /\ OfLength(u)' = IF PeerCmd = u THEN OfLength(u) \cup {n} ELSE OfLength(u)
             /\ Cardinality(OfLength(u)') = IF PeerCmd = u THEN Cardinality(OfLength(u)) + 1
                                            ELSE Cardinality(OfLength(u))
             /\ Cardinality(OfLength(u)) \in Nat
  <2>1. AllOf(u)' <=> AllOf(u) /\ PeerCmd = u
    BY <1>2 DEF AllOf
  <2>2. OfLength(u)' = IF PeerCmd = u THEN OfLength(u) \cup {n} ELSE OfLength(u)
    BY <1>2 DEF OfLength
  <2>3. OfLength(u) \subseteq DataAt /\ n \notin OfLength(u)
    BY <1>2 DEF OfLength
  <2>4. IsFiniteSet(OfLength(u)) /\ Cardinality(OfLength(u)) \in Nat
    <3>1. IsFiniteSet(OfLength(u))
      BY <1>1, <2>3, FS_Subset
    <3> QED BY <3>1, FS_CardinalityType
  <2>5. Cardinality(OfLength(u) \cup {n}) = Cardinality(OfLength(u)) + 1
    BY <2>3, <2>4, FS_AddElement
  <2> QED BY <2>1, <2>2, <2>4, <2>5
<1>5. ASSUME NEW k \in DataAt PROVE Rank(k)' = Rank(k)
  <2>1. {j \in DataAt' : j <= k} = {j \in DataAt : j <= k}
    BY <1>1, <1>2
  <2> QED BY <2>1 DEF Rank
<1>6. Rank(n)' = Cardinality(DataAt) + 1
  <2>1. \A j \in DataAt' : j <= n
    BY <1>1, <1>2
  <2>2. {j \in DataAt' : j <= n} = DataAt'
    BY <2>1
  <2> QED BY <1>3, <2>2 DEF Rank
<1>7. /\ \A k \in DataAt : SidOf(k)' = SidOf(k) /\ Rank(k)' = Rank(k)
      /\ SidOf(n)' = PeerStream /\ Rank(n)' = Cardinality(DataAt) + 1
  BY <1>2, <1>5, <1>6
<1>8. \A u : AllOf(u)' <=> AllOf(u) /\ PeerCmd = u
  BY <1>4
<1>9. \A u : OfLength(u)' = IF PeerCmd = u THEN OfLength(u) \cup {n} ELSE OfLength(u)
  BY <1>4
<1>10. \A u : Cardinality(OfLength(u)') = IF PeerCmd = u THEN Cardinality(OfLength(u)) + 1
                                          ELSE Cardinality(OfLength(u))
  BY <1>4
<1>11. \A u : Cardinality(OfLength(u)) \in Nat
  BY <1>4
<1> QED BY <1>2, <1>3, <1>7, <1>8, <1>9, <1>10, <1>11

\* A word that adds up lengths holds a multiple of the length where there is one.
SumOf(word) == \A u \in Nat : AllOf(u) => word = u * Cardinality(DataAt)

\* The word that adds up lengths grows by the length of the message a check reads,
\* so it stays the multiple where all the data has one length.
LEMMA SumGrows ==
    ASSUME IInv, [Next]_vars, ~StartCase, Judges,
           NEW w \in Nat, \A u \in Nat : AllOf(u) => w = u * Cardinality(DataAt)
    PROVE  \A u \in Nat : AllOf(u)' => w + PeerCmd = u * Cardinality(DataAt')
<1> SUFFICES ASSUME NEW u \in Nat, AllOf(u)' PROVE w + PeerCmd = u * Cardinality(DataAt')
  OBVIOUS
<1>1. AllOf(u) /\ PeerCmd = u /\ Cardinality(DataAt') = Cardinality(DataAt) + 1
  BY OneMore
<1>2. w = u * Cardinality(DataAt) /\ Cardinality(DataAt) \in Nat
  BY <1>1, DataRead DEF SumOf
<1>3. \A k \in Nat : u * (k + 1) = u * k + u
  OBVIOUS
<1> QED BY <1>1, <1>2, <1>3

\* The rank of a message is at most the number of messages.
LEMMA RankBounded ==
    ASSUME IInv, NEW k \in DataAt
    PROVE  Rank(k) \in Nat /\ Rank(k) <= Cardinality(DataAt)
<1>1. IsFiniteSet(DataAt)
  BY DataRead
<1>2. {j \in DataAt : j <= k} \in SUBSET DataAt
  OBVIOUS
<1> QED BY <1>1, <1>2, FS_Subset, FS_CardinalityType DEF Rank

\* A prefix of four with two messages of 1000 bytes.
TwoLarge ==
    \E k, l \in DataAt :
        k < l /\ Rank(l) <= 4 /\ LenOf(k) = 1000 /\ LenOf(l) = 1000

\* Four messages of 1 and of 1000 bytes that add up to 2002 are two of each.
TwoAndTwo ==
    /\ Cardinality(DataAt) = 4 /\ DataAt = OfLength(1) \cup OfLength(1000)
    /\ Cardinality(OfLength(1)) + 1000 * Cardinality(OfLength(1000)) = 2002

\* So two of the first four messages are large ones.
LEMMA FourShow == IInv /\ TwoAndTwo => TwoLarge
<1> SUFFICES ASSUME IInv, TwoAndTwo PROVE TwoLarge
  OBVIOUS
<1> DEFINE S == OfLength(1)
           L == OfLength(1000)
<1>1. S \subseteq DataAt /\ L \subseteq DataAt /\ S \cap L = {} /\ DataAt = S \cup L
  BY DEF OfLength, TwoAndTwo
<1>8. Cardinality(S) + 1000 * Cardinality(L) = 2002
  BY DEF TwoAndTwo
<1>9. \A k \in L : k \in DataAt /\ LenOf(k) = 1000
  BY DEF OfLength
<1> HIDE DEF S, L
<1>2. IsFiniteSet(DataAt) /\ DataAt \subseteq Nat
  BY DataRead
<1>3. IsFiniteSet(S) /\ IsFiniteSet(L) /\ Cardinality(S) \in Nat /\ Cardinality(L) \in Nat
  BY <1>1, <1>2, FS_Subset, FS_CardinalityType
<1>4. Cardinality(S \cup L) = Cardinality(S) + Cardinality(L)
  <2>1. Cardinality(S \cap L) = 0
    BY <1>1, FS_EmptySet
  <2>2. Cardinality(S \cup L) = Cardinality(S) + Cardinality(L) - Cardinality(S \cap L)
    BY <1>3, FS_Union
  <2> QED BY <1>3, <2>1, <2>2
<1>5. Cardinality(L) = 2
  <2>1. Cardinality(S) + Cardinality(L) = 4
    <3>1. Cardinality(DataAt) = 4
      BY DEF TwoAndTwo
    <3> QED BY <1>1, <1>4, <3>1
  <2>2. \A a, b \in Nat : a + b = 4 /\ a + 1000 * b = 2002 => b = 2
    OBVIOUS
  <2> QED BY <1>3, <1>8, <2>1, <2>2
<1>6. PICK k, l \in L : k < l
  <2>1. PICK i \in L : TRUE
    BY <1>3, <1>5, FS_EmptySet
  <2>2. Cardinality(L \ {i}) = 1
    <3>1. i \in L /\ IsFiniteSet(L)
      BY <1>3, <2>1
    <3>2. Cardinality(L \ {i}) = Cardinality(L) - 1
      BY <3>1, FS_RemoveElement
    <3> QED BY <1>5, <3>2
  <2>3. PICK j \in L \ {i} : TRUE
    <3>1. L \ {i} # {}
      BY <2>2, FS_EmptySet
    <3> QED BY <3>1
  <2>4. i \in Nat /\ j \in Nat /\ i # j
    BY <1>1, <1>2, <2>3
  <2> QED BY <2>3, <2>4
<1>7. Rank(l) <= 4
  BY <1>1, RankBounded DEF TwoAndTwo
<1> QED BY <1>6, <1>7, <1>9 DEF TwoLarge

(***************************************************************************)
(* What the context is worth after so many messages, check by check: the   *)
(* bursts of strreset, the one message, the two and the four messages of   *)
(* prsctp, and the tables of ndatasched.                                   *)
(***************************************************************************)
JudgedBurst(n) ==
    /\ SumOf(mem.c3)
    /\ DataAt # {} /\ mem.c3 = ExpectedCount(n) * RstCase(n).value => mem.c1 = 0
    /\ mem.c1 = 0 /\ AllOf(RstCase(n).value) => Cardinality(DataAt) >= ExpectedCount(n)

JudgedOne == DataAt # {} /\ AllOf(1000) => mem.c1 = 0

JudgedTwo(unit) ==
    /\ mem.c3 = Cardinality(DataAt) /\ SumOf(mem.c4)
    /\ DataAt # {} => mem.c1 = Verdict(mem.c4 = IF mem.c3 = 1 THEN unit ELSE 2 * unit)

JudgedFour ==
    /\ mem.c3 = Cardinality(DataAt)
    /\ DataAt = OfLength(1) \cup OfLength(1000) =>
           mem.c4 = Cardinality(OfLength(1)) + 1000 * Cardinality(OfLength(1000))
    /\ mem.c3 \in 1 .. 4 => mem.c1 = Verdict(mem.c4 = <<1, 2, 1002, 2002>>[mem.c3])
    /\ mem.c1 = 0 /\ mem.c3 >= 4 /\ DataAt = OfLength(1) \cup OfLength(1000) => TwoLarge

JudgedTable(sids) ==
    /\ mem.c0 = Cardinality(DataAt)
    /\ mem.c1 = 0 <=> \A k \in DataAt : Rank(k) <= 9 /\ SidOf(k) = sids[Rank(k)]

Judged(c) ==
    /\ mem \in Context
    /\ c.suite = "strreset" => JudgedBurst(c.number)
    /\ c.suite = "prsctp" =>
           /\ c.number \in {0, 1, 3, 4, 6, 7} => JudgedOne
           /\ c.number \in {2, 5} => JudgedTwo(100)
           /\ c.number = 8 => JudgedTwo(1000)
           /\ c.number \in {9, 10} => JudgedFour
    /\ c.suite = "ndatasched" =>
           IF NdCase(c.number).sched_cork THEN JudgedTable(SchedSids(c.number)) ELSE mem.c1 = 0

JudgeInv == NoneYet /\ (cur # 0 => Judged(Case))

\* Where nothing has been read, a context is worth what a case begins with.
LEMMA JudgedFirst ==
    \A c : DataAt = {} /\ mem = NoContext(VerdictOf(c)) => Judged(c)
<1> SUFFICES ASSUME NEW c, DataAt = {}, mem = NoContext(VerdictOf(c)) PROVE Judged(c)
  OBVIOUS
<1>1. /\ mem \in Context /\ mem.c0 = 0 /\ mem.c1 = VerdictOf(c) /\ mem.c3 = 0 /\ mem.c4 = 0
      /\ Cardinality(DataAt) = 0
  BY FS_EmptySet DEF NoContext, Context, VerdictOf
<1>2. SumOf(0)
  <2>1. \A u \in Nat : 0 = u * 0
    OBVIOUS
  <2> QED BY <1>1, <2>1 DEF SumOf
<1>3. c.suite = "strreset" => \A n : JudgedBurst(n)
  BY <1>1, <1>2 DEF JudgedBurst, VerdictOf
<1>4. JudgedOne /\ \A unit : JudgedTwo(unit)
  BY <1>1, <1>2 DEF JudgedOne, JudgedTwo
<1>5. JudgedFour
  <2>1. OfLength(1) = {} /\ OfLength(1000) = {}
    BY DEF OfLength
  <2>2. Cardinality(OfLength(1)) = 0 /\ Cardinality(OfLength(1000)) = 0
    BY <2>1, FS_EmptySet
  <2> QED BY <1>1, <2>2 DEF JudgedFour
<1>6. c.suite = "ndatasched" => mem.c1 = 0 /\ \A sids : JudgedTable(sids)
  BY <1>1 DEF JudgedTable, VerdictOf
<1> QED BY <1>1, <1>3, <1>4, <1>5, <1>6 DEF Judged

\* The context of which a check speaks is the one before the message, with the
\* message in it.
Shown == [mem EXCEPT !.c2 = PeerCmd, !.sid = PeerStream]

\* The message changes the words c2 and sid of the context, and no other.
LEMMA ShownType ==
    ASSUME mem \in Context, PeerCmd \in Nat, PeerStream \in Nat
    PROVE  /\ Shown \in Context
           /\ Shown.c0 = mem.c0 /\ Shown.c1 = mem.c1 /\ Shown.c2 = PeerCmd
           /\ Shown.c3 = mem.c3 /\ Shown.c4 = mem.c4 /\ Shown.sid = PeerStream
BY DEF Shown, Context

\* A message of a burst.
LEMMA BurstJudges ==
    ASSUME IInv, [Next]_vars, ~StartCase, Judges, NEW n \in 0 .. 6, mem \in Context,
           JudgedBurst(n), mem' = RstCheck(n, Shown)
    PROVE  mem' \in Context /\ JudgedBurst(n)'
<1>1. PeerCmd \in Nat /\ PeerStream \in Nat
  BY DEF Judges
<1> DEFINE sum == mem.c3 + PeerCmd
           goal == ExpectedCount(n) * RstCase(n).value
           v == IF sum = goal THEN 0 ELSE mem.c1
<1>2. mem' = [Shown EXCEPT !.c3 = sum, !.c1 = v]
  BY <1>1, ShownType DEF RstCheck
<1>3. sum \in Nat /\ v \in Nat
  BY <1>1 DEF Context
<1> HIDE DEF v, sum
<1>4. mem' \in Context /\ mem'.c3 = sum /\ mem'.c1 = v
  BY <1>1, <1>2, <1>3, ShownType DEF Context
<1>5. \A u \in Nat : AllOf(u)' => sum = u * Cardinality(DataAt')
  BY SumGrows DEF JudgedBurst, SumOf, Context, sum
<1>6. SumOf(mem.c3)'
  BY <1>4, <1>5 DEF SumOf
<1>7. ASSUME v = 0, AllOf(RstCase(n).value)'
      PROVE  Cardinality(DataAt') >= ExpectedCount(n)
  <2> DEFINE u == RstCase(n).value
             e == ExpectedCount(n)
             w == Cardinality(DataAt')
  <2>1. u \in {100, 6000} /\ e \in Nat
    BY BurstAssumption DEF RstCase, ExpectedCount
  <2>2. /\ w = Cardinality(DataAt) + 1 /\ Cardinality(DataAt) \in Nat
        /\ AllOf(u)
    BY <1>7, DataRead, OneMore
  <2>3. CASE sum = goal
    <3>1. sum = u * w /\ sum = e * u
      BY <1>5, <1>7, <2>1, <2>3
    <3> HIDE DEF u, e, w
    <3>2. w \in Nat
      BY <2>2
    <3>3. CASE u = 100
      BY <2>1, <3>1, <3>2, <3>3 DEF e, w
    <3>4. CASE u = 6000
      BY <2>1, <3>1, <3>2, <3>4 DEF e, w
    <3> QED BY <2>1, <3>3, <3>4 DEF u
  <2>4. CASE sum # goal
    <3>1. mem.c1 = 0
      BY <1>7, <2>4 DEF v
    <3>2. Cardinality(DataAt) >= e
      BY <2>2, <3>1 DEF JudgedBurst
    <3> HIDE DEF u, e, w
    <3>3. w >= e
      BY <2>1, <2>2, <3>2
    <3> QED BY <3>3 DEF e, w
  <2> QED BY <2>3, <2>4
<1> QED BY <1>4, <1>6, <1>7 DEF JudgedBurst, v

\* A message that is to be the only one.
LEMMA OneJudges ==
    ASSUME IInv, [Next]_vars, ~StartCase, Judges, mem \in Context, mem' = CheckPr(Shown)
    PROVE  mem' \in Context /\ JudgedOne'
<1>1. PeerCmd \in Nat /\ PeerStream \in Nat
  BY DEF Judges
<1> DEFINE v == Verdict(PeerCmd = 1000)
<1>2. mem' = [Shown EXCEPT !.c1 = v] /\ v \in Nat
  BY <1>1, ShownType DEF CheckPr, Verdict
<1>3. mem' \in Context /\ mem'.c1 = v
  BY <1>1, <1>2, ShownType DEF Context, Verdict
<1>4. \A u : AllOf(u)' => PeerCmd = u
  BY OneMore
<1>5. AllOf(1000)' => mem'.c1 = 0
  BY <1>3, <1>4 DEF Verdict
<1> QED BY <1>3, <1>5 DEF JudgedOne

\* One of two messages.
LEMMA TwoJudges ==
    ASSUME IInv, [Next]_vars, ~StartCase, Judges, NEW unit \in Nat, mem \in Context,
           JudgedTwo(unit), mem' = CheckPrC(Shown, unit)
    PROVE  mem' \in Context /\ JudgedTwo(unit)'
<1>1. PeerCmd \in Nat /\ PeerStream \in Nat
  BY DEF Judges
<1> DEFINE n == mem.c3 + 1
           sum == mem.c4 + PeerCmd
           v == Verdict(sum = IF n = 1 THEN unit ELSE 2 * unit)
<1>2. mem' = [Shown EXCEPT !.c3 = n, !.c4 = sum, !.c1 = v]
  BY <1>1, ShownType DEF CheckPrC
<1>3. n \in Nat /\ sum \in Nat /\ v \in Nat
  BY <1>1 DEF Context, Verdict
<1> HIDE DEF n, sum, v
<1>4. mem' \in Context /\ mem'.c3 = n /\ mem'.c4 = sum /\ mem'.c1 = v
  BY <1>1, <1>2, <1>3, ShownType DEF Context
<1>5. n = Cardinality(DataAt')
  BY OneMore DEF JudgedTwo, n
<1>6. \A u \in Nat : AllOf(u)' => sum = u * Cardinality(DataAt')
  BY SumGrows DEF JudgedTwo, SumOf, Context, sum
<1>7. SumOf(mem.c4)'
  BY <1>4, <1>6 DEF SumOf
<1> QED BY <1>4, <1>5, <1>7 DEF JudgedTwo, v

\* One of four messages.
LEMMA FourJudges ==
    ASSUME IInv, IInv', [Next]_vars, ~StartCase, Judges, mem \in Context,
           JudgedFour, mem' = CheckPrCXX(Shown)
    PROVE  mem' \in Context /\ JudgedFour'
<1>1. PeerCmd \in Nat /\ PeerStream \in Nat
  BY DEF Judges
<1> DEFINE n == Shown.c3 + 1
           sum == Shown.c4 + Shown.c2
           v == IF n \in 1 .. 4 THEN Verdict(sum = <<1, 2, 1002, 2002>>[n]) ELSE Shown.c1
<1>2. mem' = [Shown EXCEPT !.c3 = n, !.c4 = sum, !.c1 = v]
  BY DEF CheckPrCXX
<1>3. n \in Nat /\ sum \in Nat /\ v \in Nat
  <2>1. n \in Nat /\ sum \in Nat
    BY <1>1, ShownType DEF Context
  <2>2. v \in Nat
    BY <1>1, ShownType DEF Verdict, Context
  <2> QED BY <2>1, <2>2
<1>10. n = mem.c3 + 1 /\ sum = mem.c4 + PeerCmd
  BY <1>1, ShownType
<1> HIDE DEF n, sum, v
<1>4. mem' \in Context /\ mem'.c3 = n /\ mem'.c4 = sum /\ mem'.c1 = v
  BY <1>1, <1>2, <1>3, ShownType DEF Context
<1>5. n = Cardinality(DataAt')
  BY <1>10, OneMore DEF JudgedFour
<1>6. ASSUME (DataAt = OfLength(1) \cup OfLength(1000))'
      PROVE  sum = Cardinality(OfLength(1)') + 1000 * Cardinality(OfLength(1000)')
  <2> DEFINE k == nread + 1
  <2>1. /\ DataAt' = DataAt \cup {k} /\ k \notin DataAt
        /\ OfLength(1)' = IF PeerCmd = 1 THEN OfLength(1) \cup {k} ELSE OfLength(1)
        /\ OfLength(1000)' = IF PeerCmd = 1000 THEN OfLength(1000) \cup {k} ELSE OfLength(1000)
        /\ Cardinality(OfLength(1)') = IF PeerCmd = 1 THEN Cardinality(OfLength(1)) + 1
                                       ELSE Cardinality(OfLength(1))
        /\ Cardinality(OfLength(1000)') = IF PeerCmd = 1000 THEN Cardinality(OfLength(1000)) + 1
                                          ELSE Cardinality(OfLength(1000))
        /\ Cardinality(OfLength(1)) \in Nat /\ Cardinality(OfLength(1000)) \in Nat
    BY OneMore
  <2>2. OfLength(1) \subseteq DataAt /\ OfLength(1000) \subseteq DataAt
    BY DEF OfLength
  <2>3. PeerCmd \in {1, 1000}
    BY <1>6, <2>1, <2>2
  <2>4. DataAt = OfLength(1) \cup OfLength(1000)
    BY <1>6, <2>1, <2>2
  <2>5. mem.c4 = Cardinality(OfLength(1)) + 1000 * Cardinality(OfLength(1000))
    BY <2>4 DEF JudgedFour
  <2> QED BY <1>10, <2>1, <2>3, <2>5
<1>7. (DataAt = OfLength(1) \cup OfLength(1000) =>
           mem.c4 = Cardinality(OfLength(1)) + 1000 * Cardinality(OfLength(1000)))'
  BY <1>4, <1>6
<1>8. (mem.c3 \in 1 .. 4 => mem.c1 = Verdict(mem.c4 = <<1, 2, 1002, 2002>>[mem.c3]))'
  BY <1>4 DEF v
<1>9. (mem.c3 = Cardinality(DataAt))'
  BY <1>4, <1>5
<1>11. ASSUME v = 0, n >= 4, (DataAt = OfLength(1) \cup OfLength(1000))'
       PROVE  TwoLarge'
  <2>1. CASE n = 4
    <3>1. sum = 2002
      BY <1>11, <2>1 DEF v, Verdict
    <3>2. IInv' /\ TwoAndTwo' => TwoLarge'
      BY FourShow, PTL
    <3>3. TwoAndTwo'
      BY <1>5, <1>6, <1>11, <2>1, <3>1 DEF TwoAndTwo
    <3> QED BY <3>2, <3>3
  <2>2. CASE n # 4
    <3> DEFINE j == nread + 1
    <3>1. DataAt = OfLength(1) \cup OfLength(1000)
      BY <1>11, OneMore DEF OfLength
    <3>2. mem.c3 >= 4 /\ mem.c1 = 0
      BY <1>1, <1>3, <1>10, <1>11, <2>2, ShownType DEF v, Context
    <3>3. PICK k, l \in DataAt :
              k < l /\ Rank(l) <= 4 /\ LenOf(k) = 1000 /\ LenOf(l) = 1000
      BY <3>1, <3>2 DEF JudgedFour, TwoLarge
    <3>4. /\ k \in DataAt' /\ l \in DataAt' /\ Rank(l)' = Rank(l)
          /\ LenOf(k)' = LenOf(k) /\ LenOf(l)' = LenOf(l)
      BY OneMore, WhatIsRead DEF LenOf
    <3> QED BY <3>3, <3>4 DEF TwoLarge
  <2> QED BY <2>1, <2>2
<1> QED BY <1>4, <1>7, <1>8, <1>9, <1>11 DEF JudgedFour

\* A message that is to come from a stream.
LEMMA TableJudges ==
    ASSUME IInv, [Next]_vars, ~StartCase, Judges, NEW c, mem \in Context,
           JudgedTable(SchedSids(c)), mem' = AssertSid(c, Shown)
    PROVE  mem' \in Context /\ JudgedTable(SchedSids(c))'
<1>1. PeerCmd \in Nat /\ PeerStream \in Nat
  BY DEF Judges
<1> DEFINE n == mem.c0 + 1
           v == IF mem.c0 < 9 /\ PeerStream = SchedSids(c)[mem.c0 + 1] THEN mem.c1 ELSE 1
           k == nread + 1
<1>2. mem' = [Shown EXCEPT !.c0 = n, !.c1 = v]
  BY <1>1, ShownType DEF AssertSid
<1>3. n \in Nat /\ v \in Nat
  BY <1>1 DEF Context
<1> HIDE DEF n, v
<1>4. mem' \in Context /\ mem'.c0 = n /\ mem'.c1 = v
  BY <1>1, <1>2, <1>3, ShownType DEF Context
<1>5. /\ DataAt' = DataAt \cup {k} /\ k \notin DataAt
      /\ n = Cardinality(DataAt')
      /\ \A j \in DataAt : SidOf(j)' = SidOf(j) /\ Rank(j)' = Rank(j)
  BY OneMore DEF JudgedTable, n
<1>10. \A j : j = k => SidOf(j)' = PeerStream /\ Rank(j)' = n
  BY OneMore DEF JudgedTable, n
<1>6. (\A j \in DataAt' : Rank(j)' <= 9 /\ SidOf(j)' = SchedSids(c)[Rank(j)'])
      <=> /\ \A j \in DataAt : Rank(j) <= 9 /\ SidOf(j) = SchedSids(c)[Rank(j)]
          /\ n <= 9 /\ PeerStream = SchedSids(c)[n]
  BY <1>5, <1>10
<1>7. v = 0 <=> mem.c1 = 0 /\ n <= 9 /\ PeerStream = SchedSids(c)[n]
  BY DEF v, n, Context
<1>8. mem.c1 = 0 <=> \A j \in DataAt : Rank(j) <= 9 /\ SidOf(j) = SchedSids(c)[Rank(j)]
  BY DEF JudgedTable
<1>9. mem'.c1 = 0 <=> \A j \in DataAt' : Rank(j)' <= 9 /\ SidOf(j)' = SchedSids(c)[Rank(j)']
  BY <1>4, <1>6, <1>7, <1>8
<1> QED BY <1>4, <1>5, <1>9 DEF JudgedTable

\* Where no message of data is read, what is known of the context stays.
LEMMA Resting ==
    ASSUME IInv, [Next]_vars, ~StartCase, Rests, NEW c, Judged(c),
           Adds(c) => ~ServerSetStrreset
    PROVE  Judged(c)'
<1>1. DataAt' = DataAt /\ \A k \in DataAt : sent'[rcvq'[k]] = sent[rcvq[k]]
  BY WhatIsRead DEF Rests
<1>2. /\ mem' \in Context /\ mem'.c0 = mem.c0 /\ mem'.c1 = mem.c1 /\ mem'.c3 = mem.c3
      /\ Adds(c) => mem'.c4 = mem.c4
  <2>1. mem \in Context /\ AssocId \in Nat
    BY NumbersAssumption DEF Judged
  <2>2. CASE mem' = mem
    BY <2>1, <2>2
  <2>3. CASE ServerSetStrreset /\ mem' = [mem EXCEPT !.c4 = AssocId]
    BY <2>1, <2>3 DEF Context
  <2> QED BY <2>2, <2>3 DEF Rests
<1>3. /\ \A k \in DataAt : SidOf(k)' = SidOf(k) /\ LenOf(k)' = LenOf(k)
      /\ \A k : Rank(k)' = Rank(k)
  BY <1>1 DEF SidOf, LenOf, Rank
<1>4. /\ \A u : AllOf(u)' <=> AllOf(u)
      /\ \A u : OfLength(u)' = OfLength(u)
  BY <1>1, <1>3 DEF AllOf, OfLength
<1>5. \A u : Cardinality(OfLength(u))' = Cardinality(OfLength(u))
  BY <1>4
<1>6. ASSUME NEW n, JudgedBurst(n) PROVE JudgedBurst(n)'
  BY <1>1, <1>2, <1>4, <1>6 DEF JudgedBurst, SumOf
<1>7. ASSUME JudgedOne PROVE JudgedOne'
  BY <1>1, <1>2, <1>4, <1>7 DEF JudgedOne
<1>8. ASSUME NEW unit, JudgedTwo(unit), Adds(c) PROVE JudgedTwo(unit)'
  BY <1>1, <1>2, <1>4, <1>8 DEF JudgedTwo, SumOf
<1>9. ASSUME JudgedFour, Adds(c) PROVE JudgedFour'
  <2>1. TwoLarge => TwoLarge'
    BY <1>1, <1>3 DEF TwoLarge
  <2> QED BY <1>1, <1>2, <1>4, <1>5, <1>9, <2>1 DEF JudgedFour
<1>10. ASSUME NEW sids, JudgedTable(sids) PROVE JudgedTable(sids)'
  BY <1>1, <1>2, <1>3, <1>10 DEF JudgedTable
<1>11. c.suite = "strreset" => JudgedBurst(c.number)'
  BY <1>6 DEF Judged
<1>12. c.suite = "prsctp" =>
           /\ c.number \in {0, 1, 3, 4, 6, 7} => JudgedOne'
           /\ c.number \in {2, 5} => JudgedTwo(100)'
           /\ c.number = 8 => JudgedTwo(1000)'
           /\ c.number \in {9, 10} => JudgedFour'
  BY <1>7, <1>8, <1>9 DEF Judged, Adds
<1>13. c.suite = "ndatasched" =>
           IF NdCase(c.number).sched_cork THEN JudgedTable(SchedSids(c.number))' ELSE mem'.c1 = 0
  BY <1>2, <1>10 DEF Judged
<1> QED BY <1>2, <1>11, <1>12, <1>13 DEF Judged

\* The check of a case keeps what is known of the context.
LEMMA Judging ==
    ASSUME Programs, IInv, IInv', [Next]_vars, ~StartCase, Judges, NEW c \in CaseSet, Case = c,
           Judged(c)
    PROVE  Judged(c)'
<1>1. mem \in Context /\ mem' = CheckOf(c, Shown)
  BY DEF Judged, Judges, Programs, Shown
<1>2. /\ c.suite = "prsctp" => c.number \in 0 .. 10
      /\ c.suite = "strreset" => c.number \in 0 .. 6
      /\ c.suite \in {"prsctp", "strreset", "ndatasched"}
  BY SuiteAssumption
<1>3. CASE c.suite = "strreset"
  <2>1. mem' = RstCheck(c.number, Shown)
    BY <1>1, <1>3 DEF CheckOf
  <2> QED BY <1>1, <1>2, <1>3, <2>1, BurstJudges DEF Judged
<1>4. CASE c.suite = "prsctp"
  <2>1. mem' = PrCheck(c.number, Shown)
    BY <1>1, <1>4 DEF CheckOf
  <2>2. CASE c.number \in {0, 1, 3, 4, 6, 7}
    <3>1. mem' = CheckPr(Shown)
      BY <2>1, <2>2 DEF PrCheck
    <3> QED BY <1>1, <1>4, <2>2, <3>1, OneJudges DEF Judged
  <2>3. CASE c.number \in {2, 5}
    <3>1. mem' = CheckPrC(Shown, 100)
      BY <2>1, <2>3 DEF PrCheck
    <3> QED BY <1>1, <1>4, <2>3, <3>1, TwoJudges DEF Judged
  <2>4. CASE c.number = 8
    <3>1. mem' = CheckPrC(Shown, 1000)
      BY <2>1, <2>4 DEF PrCheck
    <3> QED BY <1>1, <1>4, <2>4, <3>1, TwoJudges DEF Judged
  <2>5. CASE c.number \in {9, 10}
    <3>1. mem' = CheckPrCXX(Shown)
      BY <2>1, <2>5 DEF PrCheck
    <3> QED BY <1>1, <1>4, <2>5, <3>1, FourJudges DEF Judged
  <2> QED BY <1>2, <1>4, <2>2, <2>3, <2>4, <2>5
<1>5. CASE c.suite = "ndatasched"
  <2>1. mem' = NdCheck(c.number, Shown)
    BY <1>1, <1>5 DEF CheckOf
  <2>2. CASE NdCase(c.number).sched_cork
    <3>1. c.number \in {0, 1, 7, 13}
      BY <2>2, CorkedCases
    <3>2. mem' = AssertSid(c.number, Shown)
      BY <2>1, <2>2, <3>1 DEF NdCheck
    <3> QED BY <1>1, <1>5, <2>2, <3>2, TableJudges DEF Judged
  <2>3. CASE ~NdCase(c.number).sched_cork
    <3>1. \E v \in Nat : mem' = [Shown EXCEPT !.c0 = v]
      <4>1. /\ PeerCmd \in Nat
            /\ Shown.c0 + 1 \in Nat /\ Shown.c0 + Shown.c2 \in Nat
        BY <1>1, ShownType DEF Judges, Context
      <4>2. mem' \in {[Shown EXCEPT !.c0 = Shown.c0 + 1], [Shown EXCEPT !.c0 = Shown.c0 + Shown.c2]}
        BY <2>1, <2>3 DEF NdCheck
      <4> QED BY <4>1, <4>2
    <3>2. mem.c1 = 0
      BY <1>5, <2>3 DEF Judged
    <3>3. mem' \in Context /\ mem'.c1 = 0
      BY <1>1, <3>1, <3>2, ShownType DEF Context, Judges
    <3> QED BY <1>5, <2>3, <3>3 DEF Judged
  <2> QED BY <2>2, <2>3
<1> QED BY <1>2, <1>3, <1>4, <1>5

\* A client of prsctp asks for no reset.
LEMMA NoResetServed ==
    ASSUME IInv, SumInv, cur # 0, Adds(Case)
    PROVE  ~ServerSetStrreset
<1> SUFFICES ASSUME ServerSetStrreset PROVE FALSE
  OBVIOUS
<1>1. nread + 1 \in 1 .. Len(rcvq) /\ sent[rcvq[nread + 1]].len = SN_CMD_SET_STRRESET
  <2>1. nread < Len(rcvq) /\ sent[rcvq[nread + 1]].len = SN_CMD_SET_STRRESET
    BY DEF ServerSetStrreset, GetPeerCmd, PeerCmd
  <2> QED BY <2>1, DataRead
<1>2. rcvq[nread + 1] \in 1 .. Len(sent)
  BY <1>1 DEF IInv, TypeOK
<1> QED BY <1>1, <1>2 DEF SumInv

\* Every step keeps what is known of the context.
LEMMA JudgeStep ==
    ASSUME Programs, IInv, IInv', SumInv, JudgeInv, [Next]_vars
    PROVE  JudgeInv'
<1>1. NoneYet'
  BY NoneYetStep DEF JudgeInv
<1>2. CASE StartCase
  <2>1. /\ nread' = 0 /\ Case' = Cases[cur + 1] /\ Case' \in CaseSet
        /\ mem' = NoContext(VerdictOf(Case'))
    <3>1. nread' = 0 /\ Case' = Cases[cur + 1] /\ mem' = NoContext(FirstVerdict(Case'))
      BY <1>2 DEF StartCase, Case
    <3>2. Cases[cur + 1] \in CaseSet
      BY <1>2 DEF StartCase, IInv, TypeOK, CaseSet
    <3> QED BY <3>1, <3>2 DEF Programs
  <2>2. DataAt' = {}
    BY <2>1 DEF DataAt
  <2>3. (\A c : DataAt = {} /\ mem = NoContext(VerdictOf(c)) => Judged(c))'
    BY JudgedFirst, PTL
  <2>4. Judged(Case)'
    BY <2>1, <2>2, <2>3
  <2> QED BY <1>1, <2>4 DEF JudgeInv
<1>3. ASSUME ~StartCase, cur' # 0 PROVE Judged(Case)'
  <2>1. Case' = Case /\ cur # 0 /\ Case \in CaseSet /\ Judged(Case)
    <3>1. Case' = Case /\ cur # 0
      BY <1>3, SameCase
    <3>2. cur \in 1 .. Len(Cases)
      <4>1. cur \in 0 .. Len(Cases) /\ Len(Cases) \in Nat
        BY CasesAssumption DEF IInv, TypeOK
      <4> QED BY <3>1, <4>1
    <3>3. Case \in CaseSet
      BY <3>2, CaseType
    <3> QED BY <3>1, <3>3 DEF JudgeInv
  <2>2. CASE Rests
    <3>1. Judged(Case) /\ (Adds(Case) => ~ServerSetStrreset)
      BY <2>1, NoResetServed
    <3> QED BY <1>3, <2>1, <2>2, <3>1, Resting
  <2>3. CASE Judges
    BY <1>3, <2>1, <2>3, Judging
  <2> QED BY <1>3, <2>2, <2>3, WhatIsRead
<1> QED BY <1>1, <1>2, <1>3 DEF JudgeInv

\* What is known of the context holds throughout.
LEMMA JudgeInvariant ==
    ASSUME Programs PROVE Spec => []JudgeInv
<1>1. Init => JudgeInv
  BY DEF Init, JudgeInv, NoneYet
<1>2. IInv /\ IInv' /\ SumInv /\ JudgeInv /\ [Next]_vars => JudgeInv'
  BY JudgeStep
<1> QED BY <1>1, <1>2, InductiveInvariant, SumInvariant, PTL DEF Spec

-----------------------------------------------------------------------------
\* What a script says: its messages, in the order of the calls that send them.
Speaks(call) == call.op \in {"cmd", "send"}
MessageOf(call) == IF call.op = "cmd" THEN CmdMessage(call.len) ELSE call.msg

\* Message i of m is the one of call f[i] of s, and the other calls send none.
Numbers(f, s, m) ==
    /\ s \in Seq(Calls) /\ m \in Seq(Message)
    /\ f \in [1 .. Len(m) -> 1 .. Len(s)]
    /\ \A i, j \in 1 .. Len(m) : i < j => f[i] < f[j]
    /\ \A i \in 1 .. Len(m) : Speaks(s[f[i]]) /\ m[i] = MessageOf(s[f[i]])
    /\ \A k \in 1 .. Len(s) : Speaks(s[k]) => \E i \in 1 .. Len(m) : f[i] = k

Says(s, m) == \E f : Numbers(f, s, m)

\* Scripts that follow one another say what they say one after the other.
LEMMA SaysJoin ==
    ASSUME NEW s, NEW t, NEW m, NEW n, Says(s, m), Says(t, n)
    PROVE  Says(s \o t, m \o n)
<1>1. PICK f : Numbers(f, s, m)
  BY DEF Says
<1>2. PICK g : Numbers(g, t, n)
  BY DEF Says
<1> DEFINE h == [i \in 1 .. Len(m) + Len(n) |->
                     IF i <= Len(m) THEN f[i] ELSE Len(s) + g[i - Len(m)]]
<1>3. /\ s \in Seq(Calls) /\ t \in Seq(Calls) /\ m \in Seq(Message) /\ n \in Seq(Message)
      /\ s \o t \in Seq(Calls) /\ m \o n \in Seq(Message)
      /\ Len(s \o t) = Len(s) + Len(t) /\ Len(m \o n) = Len(m) + Len(n)
      /\ Len(s) \in Nat /\ Len(t) \in Nat /\ Len(m) \in Nat /\ Len(n) \in Nat
  BY <1>1, <1>2 DEF Numbers
<1>4. /\ \A k \in 1 .. Len(s) : (s \o t)[k] = s[k]
      /\ \A k \in 1 .. Len(t) : (s \o t)[Len(s) + k] = t[k]
      /\ \A i \in 1 .. Len(m) : (m \o n)[i] = m[i]
      /\ \A i \in 1 .. Len(n) : (m \o n)[Len(m) + i] = n[i]
  BY <1>3
<1>5. /\ \A i \in 1 .. Len(m) : h[i] = f[i] /\ f[i] \in 1 .. Len(s)
      /\ \A i \in 1 .. Len(n) : h[Len(m) + i] = Len(s) + g[i] /\ g[i] \in 1 .. Len(t)
  <2>1. /\ \A i \in 1 .. Len(m) : f[i] \in 1 .. Len(s)
        /\ \A i \in 1 .. Len(n) : g[i] \in 1 .. Len(t)
    BY <1>1, <1>2 DEF Numbers
  <2>2. \A i \in 1 .. Len(m) : h[i] = f[i]
    BY <1>3
  <2>3. ASSUME NEW i \in 1 .. Len(n) PROVE h[Len(m) + i] = Len(s) + g[i]
    <3>1. Len(m) + i \in 1 .. Len(m) + Len(n) /\ ~(Len(m) + i <= Len(m)) /\ Len(m) + i - Len(m) = i
      BY <1>3
    <3> QED BY <3>1
  <2> QED BY <2>1, <2>2, <2>3
<1>6. /\ \A i \in 1 .. Len(m) + Len(n) : i \in 1 .. Len(m) \/ \E j \in 1 .. Len(n) : i = Len(m) + j
      /\ \A k \in 1 .. Len(s) + Len(t) : k \in 1 .. Len(s) \/ \E j \in 1 .. Len(t) : k = Len(s) + j
  <2>1. ASSUME NEW a \in Nat, NEW b \in Nat, NEW i \in 1 .. a + b
        PROVE  i \in 1 .. a \/ \E j \in 1 .. b : i = a + j
    <3>1. i > a => i - a \in 1 .. b /\ i = a + (i - a)
      OBVIOUS
    <3> QED BY <3>1
  <2> QED BY <1>3, <2>1
<1>7. h \in [1 .. Len(m) + Len(n) -> 1 .. Len(s) + Len(t)]
  <2>1. ASSUME NEW i \in 1 .. Len(m) + Len(n) PROVE h[i] \in 1 .. Len(s) + Len(t)
    <3> HIDE DEF h
    <3>1. CASE i \in 1 .. Len(m)
      <4>1. h[i] \in 1 .. Len(s)
        BY <1>5, <3>1
      <4> QED BY <1>3, <4>1
    <3>2. ASSUME NEW j \in 1 .. Len(n), i = Len(m) + j PROVE h[i] \in 1 .. Len(s) + Len(t)
      <4>1. h[i] = Len(s) + g[j] /\ g[j] \in 1 .. Len(t)
        BY <1>5, <3>2
      <4> QED BY <1>3, <4>1
    <3> QED BY <1>6, <3>1, <3>2
  <2> QED BY <2>1
<1> HIDE DEF h
<1>8. ASSUME NEW i \in 1 .. Len(m) + Len(n), NEW j \in 1 .. Len(m) + Len(n), i < j
      PROVE  h[i] < h[j]
  <2>1. CASE i \in 1 .. Len(m) /\ j \in 1 .. Len(m)
    BY <1>1, <1>5, <1>8, <2>1 DEF Numbers
  <2>2. ASSUME NEW k \in 1 .. Len(n), j = Len(m) + k, i \in 1 .. Len(m) PROVE h[i] < h[j]
    <3>1. h[i] \in 1 .. Len(s)
      BY <1>5, <2>2
    <3>2. h[j] = Len(s) + g[k] /\ g[k] \in 1 .. Len(t)
      BY <1>5, <2>2
    <3> QED BY <1>3, <3>1, <3>2
  <2>3. ASSUME NEW k \in 1 .. Len(n), j = Len(m) + k, NEW l \in 1 .. Len(n), i = Len(m) + l
        PROVE  h[i] < h[j]
    <3>1. l < k
      BY <1>3, <1>8, <2>3
    <3>2. g[l] < g[k]
      BY <1>2, <3>1 DEF Numbers
    <3>3. h[i] = Len(s) + g[l] /\ h[j] = Len(s) + g[k] /\ g[l] \in 1 .. Len(t) /\ g[k] \in 1 .. Len(t)
      BY <1>5, <2>3
    <3> QED BY <1>3, <3>2, <3>3
  <2>4. ASSUME NEW k \in 1 .. Len(n), i = Len(m) + k PROVE j \notin 1 .. Len(m)
    BY <1>3, <1>8, <2>4
  <2> QED BY <1>6, <2>1, <2>2, <2>3, <2>4
<1>9. ASSUME NEW i \in 1 .. Len(m) + Len(n)
      PROVE  Speaks((s \o t)[h[i]]) /\ (m \o n)[i] = MessageOf((s \o t)[h[i]])
  <2>1. CASE i \in 1 .. Len(m)
    BY <1>1, <1>4, <1>5, <2>1 DEF Numbers
  <2>2. ASSUME NEW k \in 1 .. Len(n), i = Len(m) + k
        PROVE  Speaks((s \o t)[h[i]]) /\ (m \o n)[i] = MessageOf((s \o t)[h[i]])
    <3>1. h[i] = Len(s) + g[k] /\ g[k] \in 1 .. Len(t)
      BY <1>5, <2>2
    <3>2. (s \o t)[h[i]] = t[g[k]] /\ (m \o n)[i] = n[k]
      BY <1>4, <2>2, <3>1
    <3>3. Speaks(t[g[k]]) /\ n[k] = MessageOf(t[g[k]])
      BY <1>2, <2>2 DEF Numbers
    <3> QED BY <3>2, <3>3
  <2> QED BY <1>6, <2>1, <2>2
<1>10. ASSUME NEW k \in 1 .. Len(s) + Len(t), Speaks((s \o t)[k])
       PROVE  \E i \in 1 .. Len(m) + Len(n) : h[i] = k
  <2>1. CASE k \in 1 .. Len(s)
    <3>1. PICK i \in 1 .. Len(m) : f[i] = k
      BY <1>1, <1>4, <1>10, <2>1 DEF Numbers
    <3> QED BY <1>3, <1>5, <3>1
  <2>2. ASSUME NEW l \in 1 .. Len(t), k = Len(s) + l
        PROVE  \E i \in 1 .. Len(m) + Len(n) : h[i] = k
    <3>1. PICK i \in 1 .. Len(n) : g[i] = l
      BY <1>2, <1>4, <1>10, <2>2 DEF Numbers
    <3>2. Len(m) + i \in 1 .. Len(m) + Len(n) /\ h[Len(m) + i] = k
      BY <1>3, <1>5, <2>2, <3>1
    <3> QED BY <3>2
  <2> QED BY <1>6, <2>1, <2>2
<1>11. Numbers(h, s \o t, m \o n)
  BY <1>3, <1>7, <1>8, <1>9, <1>10 DEF Numbers
<1> QED BY <1>11 DEF Says

\* Calls that send nothing.
LEMMA SaysNothing ==
    ASSUME NEW s \in Seq(Calls), \A k \in 1 .. Len(s) : ~Speaks(s[k])
    PROVE  Says(s, << >>)
<1> DEFINE f == [i \in 1 .. 0 |-> 0]
<1>1. Numbers(f, s, << >>)
  <2>1. << >> \in Seq(Message) /\ Len(<< >>) = 0 /\ 1 .. 0 = {}
    OBVIOUS
  <2>2. f \in [1 .. 0 -> 1 .. Len(s)]
    BY <2>1
  <2> QED BY <2>1, <2>2 DEF Numbers
<1> QED BY <1>1 DEF Says

\* A sequence of calls that all send.
LEMMA SaysAll ==
    ASSUME NEW s \in Seq(Calls), NEW m \in Seq(Message), Len(s) = Len(m),
           \A k \in 1 .. Len(s) : Speaks(s[k]) /\ m[k] = MessageOf(s[k])
    PROVE  Says(s, m)
<1> DEFINE f == [i \in 1 .. Len(m) |-> i]
<1>1. Numbers(f, s, m)
  <2>1. Len(m) \in Nat /\ f \in [1 .. Len(m) -> 1 .. Len(s)]
    OBVIOUS
  <2>2. \A k \in 1 .. Len(s) : f[k] = k
    OBVIOUS
  <2> HIDE DEF f
  <2> QED BY <2>1, <2>2 DEF Numbers
<1> QED BY <1>1 DEF Says

\* What a step may do to the calls and the log.
LEMMA ScriptMoves ==
    ASSUME IInv, [Next]_vars, ~StartCase
    PROVE  \/ client'.pc = client.pc /\ client'.wait = client.wait /\ sent' = sent
           \/ SendAsocCmd \/ SendAsocMsg \/ RecvAck
           \/ /\ client.wait = 0 /\ client'.wait = 0 /\ client'.pc = client.pc + 1
              /\ client.pc \in 1 .. Len(Script(Case)) /\ ~Speaks(Call)
              /\ sent' = sent
<1> DEFINE Silent == /\ client.wait = 0 /\ client'.wait = 0 /\ client'.pc = client.pc + 1
                     /\ client.pc \in 1 .. Len(Script(Case)) /\ ~Speaks(Call)
           Stays == client'.pc = client.pc /\ client'.wait = client.wait
<1> USE DEF suite, assoc
<1>1. client \in ClientType
  BY DEF IInv, TypeOK
<1>2. ASSUME NEW o \in {"connect", "enable", "flush", "sndbuf", "spawn", "join", "drop",
                        "sleep", "reset", "cork"},
             CallIs(o), Return
      PROVE  Silent
  BY <1>1, <1>2, CallType DEF CallIs, Return, IInv, Speaks
<1>3. ASSUME Die PROVE Stays
  BY <1>1, <1>3 DEF Die
<1> HIDE DEF Silent
<1>4. ASSUME CreateAsocSk \/ CorkStreams PROVE sent' = sent /\ (Silent \/ Stays)
  BY <1>2, <1>3, <1>4 DEF CreateAsocSk, CorkStreams
<1>5. ASSUME EnableAsocStrreset \/ CloseAsocStreams \/ ReopenAsocStreams \/ Sleep \/ SetStrreset
      PROVE  sent' = sent /\ Silent
  BY <1>2, <1>5 DEF EnableAsocStrreset, CloseAsocStreams, ReopenAsocStreams, Sleep, SetStrreset
<1>6. ASSUME SetupSoSndbuf \/ SpawnCleanup \/ JoinCleanup PROVE sent' = sent /\ Silent
  BY <1>2, <1>6 DEF SetupSoSndbuf, SpawnCleanup, JoinCleanup
<1>7. ASSUME ClientExit \/ ClientFail PROVE sent' = sent /\ Stays
  BY <1>1, <1>3, <1>7 DEF ClientExit, ClientFail
<1>8. ASSUME ThreadStep \/ ServerStep \/ ServerFail PROVE sent' = sent /\ Stays
  BY <1>8 DEF ThreadStep, ThreadSleep, ThreadFlush, ServerStep, ServerListen,
       ServerSetStrreset, ServerCloseAsoc, ServerCheck, ServerFail
<1>9. ASSUME KernelStep PROVE sent' = sent /\ Stays
  BY <1>9 DEF KernelStep, Deliver, Abandon, Lose, Duplicate, ReconfReply
<1>10. ASSUME FinishCase \/ UNCHANGED vars PROVE sent' = sent /\ Stays
  BY <1>10 DEF FinishCase, vars
<1> QED BY <1>4, <1>5, <1>6, <1>7, <1>8, <1>9, <1>10 DEF Next, ClientStep, Silent

\* The log is what the calls reached say.
LogOf(f, m) ==
    /\ Len(sent) <= Len(m)
    /\ \A i \in 1 .. Len(m) : i <= Len(sent) <=> f[i] < Reached
    /\ \A i \in 1 .. Len(sent) : sent[i] = m[i]

LogInv == cur # 0 => \A f, m : Numbers(f, Script(Case), m) => LogOf(f, m)

\* A call that says something says the next message.
LEMMA LogAppends ==
    ASSUME IInv, NEW f, NEW m, Numbers(f, Script(Case), m), LogOf(f, m),
           client.pc \in 1 .. Len(Script(Case)), client.wait = 0,
           NEW call, call = Script(Case)[client.pc], Speaks(call),
           sent' = Append(sent, MessageOf(call)), Reached' = client.pc + 1
    PROVE  LogOf(f, m)'
<1> DEFINE n == Len(sent)
<1>1. /\ client.pc \in Nat /\ n \in Nat /\ sent \in Seq(Message) /\ Len(m) \in Nat
      /\ Reached = client.pc /\ TypeOK
      /\ \A i \in 1 .. Len(m) : f[i] \in Nat
  <2>1. client.pc \in Nat /\ sent \in Seq(Message) /\ TypeOK
    BY DEF IInv, TypeOK
  <2>2. Len(m) \in Nat /\ \A i \in 1 .. Len(m) : f[i] \in Nat
    BY DEF Numbers
  <2>3. Reached = client.pc
    BY <2>1 DEF Reached
  <2> QED BY <2>1, <2>2, <2>3
<1>2. PICK j \in 1 .. Len(m) : f[j] = client.pc
  BY DEF Numbers
<1>3. m[j] = MessageOf(call) /\ m[j] \in Message
  BY <1>2 DEF Numbers
<1>4. ~(j <= n)
  BY <1>1, <1>2 DEF LogOf
<1>5. \A i \in 1 .. Len(m) : i < j => f[i] < client.pc
  BY <1>2 DEF Numbers
<1>6. j = n + 1
  <2> SUFFICES ASSUME j # n + 1 PROVE FALSE
    OBVIOUS
  <2>1. n + 1 \in 1 .. Len(m) /\ n + 1 < j
    BY <1>1, <1>4
  <2>2. f[n + 1] < Reached
    BY <1>1, <1>5, <2>1
  <2>3. n + 1 <= n
    BY <2>1, <2>2 DEF LogOf
  <2> QED BY <1>1, <2>3
<1>7. /\ Len(sent') = n + 1 /\ \A i \in 1 .. n : sent'[i] = sent[i]
      /\ sent'[n + 1] = MessageOf(call)
  BY <1>1, <1>3, Appended
<1>8. \A i \in 1 .. Len(m) : j < i => client.pc < f[i]
  BY <1>2 DEF Numbers
<1>9. ASSUME NEW i \in 1 .. Len(m) PROVE i <= n + 1 <=> f[i] < client.pc + 1
  <2>1. CASE i < j
    BY <1>1, <1>5, <1>6, <2>1
  <2>2. CASE i = j
    BY <1>1, <1>2, <1>6, <2>2
  <2>3. CASE i > j
    BY <1>1, <1>6, <1>8, <2>3
  <2> QED BY <1>1, <1>6, <2>1, <2>2, <2>3
<1>10. ASSUME NEW i \in 1 .. n + 1 PROVE sent'[i] = m[i]
  <2>1. CASE i = n + 1
    BY <1>3, <1>6, <1>7, <2>1
  <2>2. CASE i # n + 1
    <3>1. i \in 1 .. n
      BY <1>1, <2>2
    <3> QED BY <1>7, <3>1 DEF LogOf
  <2> QED BY <2>1, <2>2
<1> HIDE DEF n
<1>11. Len(sent') <= Len(m)
  BY <1>1, <1>6, <1>7
<1> QED BY <1>7, <1>9, <1>10, <1>11 DEF LogOf

\* Every step of a case keeps to what the script says.
LEMMA LogStep ==
    ASSUME IInv, LogInv, [Next]_vars
    PROVE  LogInv'
<1> SUFFICES ASSUME cur' # 0, NEW f, NEW m, Numbers(f, Script(Case)', m) PROVE LogOf(f, m)'
  BY DEF LogInv
<1>1. CASE StartCase
  <2>1. sent' = << >> /\ client' = [st |-> "run", pc |-> 1, wait |-> 0]
    BY <1>1 DEF StartCase
  <2>2. Len(sent') = 0 /\ Reached' = 1 /\ Len(m) \in Nat
    BY <2>1 DEF Reached, Numbers
  <2>3. \A i \in 1 .. Len(m) : f[i] \in Nat \ {0}
    BY DEF Numbers
  <2> QED BY <2>2, <2>3 DEF LogOf
<1>2. CASE ~StartCase
  <2>1. cur # 0 /\ Case' = Case /\ Numbers(f, Script(Case), m) /\ LogOf(f, m)
    BY <1>2, SameCase DEF LogInv
  <2>2. client \in ClientType /\ TypeOK /\ Running /\ client.pc \in Nat \ {0} /\ client.wait \in Nat
    BY DEF IInv, TypeOK
  <2>3. CASE sent' = sent /\ Reached' = Reached
    BY <2>1, <2>3 DEF LogOf
  <2>4. CASE SendAsocCmd
    <3>1. /\ CallIs("cmd") /\ sent' = Append(sent, CmdMessage(Call.len)) /\ client.wait = 0
          /\ client' = [client EXCEPT !.wait = Len(sent) + 1] /\ Len(sent) \in Nat
      BY <2>2, <2>4, QueueType DEF SendAsocCmd, CallIs
    <3>2. client.pc \in 1 .. Len(Script(Case)) /\ Call.op = "cmd"
      BY <2>2, <3>1, CallType
    <3>3. Reached' = client.pc + 1
      BY <2>2, <3>1 DEF Reached
    <3>4. Speaks(Call) /\ MessageOf(Call) = CmdMessage(Call.len)
      BY <3>2 DEF Speaks, MessageOf
    <3> QED BY <2>1, <3>1, <3>2, <3>3, <3>4, LogAppends DEF Call
  <2>5. CASE SendAsocMsg
    <3>1. /\ CallIs("send") /\ sent' = Append(sent, Call.msg) /\ client.wait = 0
          /\ client' = [client EXCEPT !.pc = client.pc + 1]
      BY <2>5 DEF SendAsocMsg, CallIs, Return
    <3>2. client.pc \in 1 .. Len(Script(Case)) /\ Call.op = "send"
      BY <2>2, <3>1, CallType
    <3>3. Reached' = client.pc + 1
      BY <2>2, <3>1 DEF Reached
    <3>4. Speaks(Call) /\ MessageOf(Call) = Call.msg
      BY <3>2 DEF Speaks, MessageOf
    <3> QED BY <2>1, <3>1, <3>2, <3>3, <3>4, LogAppends DEF Call
  <2>6. CASE RecvAck
    <3>1. /\ sent' = sent /\ client.wait # 0
          /\ client' = [client EXCEPT !.pc = client.pc + 1, !.wait = 0]
      BY <2>6 DEF RecvAck, assoc
    <3>2. Reached' = Reached
      BY <2>2, <3>1 DEF Reached
    <3> QED BY <2>3, <3>1, <3>2
  <2>7. CASE /\ client.wait = 0 /\ client'.wait = 0 /\ client'.pc = client.pc + 1
             /\ client.pc \in 1 .. Len(Script(Case)) /\ ~Speaks(Call)
             /\ sent' = sent
    <3>1. Reached = client.pc /\ Reached' = client.pc + 1
      BY <2>2, <2>7 DEF Reached
    <3>2. \A i \in 1 .. Len(m) : f[i] \in Nat /\ f[i] # client.pc
      <4>1. \A i \in 1 .. Len(m) : f[i] \in Nat /\ Speaks(Script(Case)[f[i]])
        BY <2>1 DEF Numbers
      <4>2. ~Speaks(Script(Case)[client.pc])
        BY <2>7 DEF Call
      <4> QED BY <4>1, <4>2
    <3>3. \A i \in 1 .. Len(m) : f[i] < Reached' <=> f[i] < Reached
      <4>1. \A k, p \in Nat : k # p => (k < p + 1 <=> k < p)
        OBVIOUS
      <4> QED BY <2>2, <3>1, <3>2, <4>1
    <3> QED BY <2>1, <2>7, <3>3 DEF LogOf
  <2>8. CASE client'.pc = client.pc /\ client'.wait = client.wait /\ sent' = sent
    BY <2>3, <2>8 DEF Reached
  <2> QED BY <1>2, <2>4, <2>5, <2>6, <2>7, <2>8, ScriptMoves
<1> QED BY <1>1, <1>2

\* The log is what the script says, up to the call reached; and a server leaves
\* its loop only by a message with the length of CLOSE.
LEMMA LogInvariant == Spec => [](LogInv /\ LeftByClose)
<1>1. Init => LogInv /\ LeftByClose
  BY DEF Init, LogInv, LeftByClose
<1>2. IInv /\ LogInv /\ LeftByClose /\ [Next]_vars => LogInv' /\ LeftByClose'
  BY LogStep, LeftStep
<1> QED BY <1>1, <1>2, InductiveInvariant, PTL DEF Spec

\* When the server has left its loop the client has said all that its script says.
LEMMA AllSaid ==
    ASSUME IInv, LogInv, LeftByClose, server = "exited", cur # 0,
           NEW m, Says(Script(Case), m),
           \A i \in 1 .. Len(m) : m[i].len = SN_CMD_CLOSE_ASOC => i = Len(m)
    PROVE  sent = m
<1>1. PICK f : Numbers(f, Script(Case), m)
  BY DEF Says
<1>2. LogOf(f, m) /\ m \in Seq(Message)
  BY <1>1 DEF LogInv, Numbers
<1>3. rcvq[nread] \in 1 .. Len(sent) /\ sent[rcvq[nread]].len = SN_CMD_CLOSE_ASOC
  <2>1. nread \in 1 .. Len(rcvq)
    BY DEF LeftByClose, IInv, TypeOK
  <2> QED BY <2>1 DEF LeftByClose, IInv, TypeOK
<1>4. sent \in Seq(Message) /\ Len(sent) \in Nat /\ Len(m) \in Nat /\ Len(sent) <= Len(m)
  BY <1>2 DEF LogOf, IInv, TypeOK
<1>5. rcvq[nread] = Len(m)
  <2>1. rcvq[nread] \in 1 .. Len(m) /\ m[rcvq[nread]].len = SN_CMD_CLOSE_ASOC
    BY <1>2, <1>3, <1>4 DEF LogOf
  <2> QED BY <2>1
<1>6. Len(sent) = Len(m)
  BY <1>3, <1>4, <1>5
<1> QED BY <1>2, <1>4, <1>6 DEF LogOf

-----------------------------------------------------------------------------
\* The data read is the data due, each message once.
EachOnce ==
    /\ \A k \in DataAt : rcvq[k] \in Due
    /\ \A i \in Due : \E k \in DataAt : rcvq[k] = i
    /\ \A k, l \in DataAt : rcvq[k] = rcvq[l] => k = l

\* What an exact run is, said of the places of the data among the messages read.
LEMMA ExactIs ==
    ASSUME IInv
    PROVE  Exact <=> EachOnce
<1> DEFINE At(i) == {k \in 1 .. nread : rcvq[k] = i}
<1>1. /\ nread \in Nat /\ DataAt \subseteq 1 .. nread
      /\ \A k \in 1 .. nread : rcvq[k] \in 1 .. Len(sent)
      /\ \A k \in DataAt : rcvq[k] \in 1 .. Len(sent)
  BY DataRead
<1>2. \A i : IsFiniteSet(At(i))
  <2>1. IsFiniteSet(1 .. nread)
    BY <1>1, FS_Interval
  <2>2. \A i : At(i) \in SUBSET (1 .. nread)
    OBVIOUS
  <2> HIDE DEF At
  <2> QED BY <2>1, <2>2, FS_Subset
<1>3. \A i : TimesRead(i) = Cardinality(At(i))
  BY DEF TimesRead
<1>4. \A i : /\ TimesRead(i) = 0 <=> At(i) = {}
             /\ TimesRead(i) = 1 <=> \E k : At(i) = {k}
  <2> HIDE DEF At
  <2> QED BY <1>2, <1>3, FS_EmptySet, FS_Singleton
<1>5. \A i \in 1 .. Len(sent) : ~sent[i].cmd => At(i) = {k \in DataAt : rcvq[k] = i}
  BY DEF DataAt
<1>6. /\ \A i \in Due : i \in 1 .. Len(sent) /\ ~sent[i].cmd
      /\ \A k \in DataAt : ~sent[rcvq[k]].cmd
  BY DEF Due, DataAt
<1> HIDE DEF At
<1>7. ASSUME Exact PROVE EachOnce
  <2>1. ASSUME NEW k \in DataAt PROVE rcvq[k] \in Due
    <3>1. k \in At(rcvq[k])
      BY <1>1, <1>5, <1>6
    <3>2. TimesRead(rcvq[k]) # 0
      BY <1>4, <3>1
    <3> QED BY <1>1, <1>6, <1>7, <3>2 DEF Exact
  <2>2. ASSUME NEW i \in Due PROVE \E k : At(i) = {k}
    <3>1. TimesRead(i) = 1
      BY <1>6, <1>7 DEF Exact
    <3> QED BY <1>4, <3>1
  <2>3. \A i \in Due : \E k : {l \in DataAt : rcvq[l] = i} = {k}
    BY <1>5, <1>6, <2>2
  <2>4. \A i \in Due : \E k \in DataAt : rcvq[k] = i
    BY <2>3
  <2>5. \A k, l \in DataAt : rcvq[k] = rcvq[l] => k = l
    BY <2>1, <2>3
  <2> QED BY <2>1, <2>4, <2>5 DEF EachOnce
<1>8. ASSUME EachOnce PROVE Exact
  <2> SUFFICES ASSUME NEW i \in 1 .. Len(sent), ~sent[i].cmd
               PROVE  TimesRead(i) = IF i \in Due THEN 1 ELSE 0
    BY DEF Exact
  <2>1. At(i) = {k \in DataAt : rcvq[k] = i}
    BY <1>5
  <2>2. CASE i \notin Due
    <3>1. At(i) = {}
      BY <1>8, <2>1, <2>2 DEF EachOnce
    <3> QED BY <1>4, <2>2, <3>1
  <2>3. CASE i \in Due
    <3>1. PICK k \in DataAt : rcvq[k] = i
      BY <1>8, <2>3 DEF EachOnce
    <3>2. At(i) = {k}
      BY <1>8, <2>1, <3>1 DEF EachOnce
    <3> QED BY <1>4, <2>3, <3>2
  <2> QED BY <2>2, <2>3
<1> QED BY <1>7, <1>8

\* Then there are as many of them as are due, among any of those due.
LEMMA AsManyAsDue ==
    ASSUME IInv, EachOnce, NEW T \in SUBSET Due
    PROVE  /\ Cardinality({k \in DataAt : rcvq[k] \in T}) = Cardinality(T)
           /\ IsFiniteSet(T)
<1> DEFINE K == {k \in DataAt : rcvq[k] \in T}
           f == [k \in K |-> rcvq[k]]
<1>1. IsFiniteSet(K)
  <2>1. K \in SUBSET DataAt
    OBVIOUS
  <2> HIDE DEF K
  <2> QED BY <2>1, DataRead, FS_Subset
<1>2. f \in Bijection(K, T)
  <2>1. \A i \in T : \E k \in K : f[k] = i
    BY DEF EachOnce
  <2>2. \A k, l \in K : f[k] = f[l] => k = l
    BY DEF EachOnce
  <2>3. f \in [K -> T]
    OBVIOUS
  <2> QED BY <2>1, <2>2, <2>3 DEF Bijection, Injection, Surjection, IsInjective
<1>3. Cardinality(T) = Cardinality(K) /\ IsFiniteSet(T)
  <2> HIDE DEF K, f
  <2> QED BY <1>1, <1>2, FS_Bijection DEF ExistsBijection
<1> QED BY <1>3

-----------------------------------------------------------------------------
Data(l, s, u, p, v) ==
    [len |-> l, sid |-> s, unord |-> u, pol |-> p, val |-> v, cmd |-> FALSE]

Closing == CmdMessage(SN_CMD_CLOSE_ASOC)
Resetting == CmdMessage(SN_CMD_SET_STRRESET)

\* The single calls.
LEMMA SaysOne ==
    /\ \A o \in {"connect", "enable", "reset", "cork", "flush", "sndbuf", "spawn", "join"} :
           Says(Do(o), << >>)
    /\ \A n \in Nat : Says(SleepFor(n), << >>)
    /\ \A r \in Rules : Says(Drop(r), << >>)
    /\ \A l \in Commands : Says(Cmd(l), <<CmdMessage(l)>>)
    /\ \A l, s, v \in Nat : \A u \in BOOLEAN : \A p \in Policies :
           Says(Send(l, s, u, p, v), <<Data(l, s, u, p, v)>>)
<1>1. ASSUME NEW call \in Calls, ~Speaks(call) PROVE Says(<<call>>, << >>)
  BY <1>1, SaysNothing
<1>2. ASSUME NEW call \in Calls, Speaks(call), MessageOf(call) \in Message
      PROVE  Says(<<call>>, <<MessageOf(call)>>)
  <2> DEFINE s == <<call>>
             m == <<MessageOf(call)>>
  <2>1. /\ s \in Seq(Calls) /\ m \in Seq(Message) /\ Len(s) = 1 /\ Len(m) = 1
        /\ s[1] = call /\ m[1] = MessageOf(call)
    BY <1>2
  <2> HIDE DEF s, m
  <2>2. \A k \in 1 .. Len(s) : Speaks(s[k]) /\ m[k] = MessageOf(s[k])
    BY <1>2, <2>1
  <2>3. Says(s, m)
    BY <2>1, <2>2, SaysAll
  <2> QED BY <2>3 DEF s, m
<1>3. ASSUME NEW o \in {"connect", "enable", "reset", "cork", "flush", "sndbuf", "spawn", "join"}
      PROVE  Says(Do(o), << >>)
  <2>1. [op |-> o] \in Calls /\ ~Speaks([op |-> o])
    BY DEF Calls, Speaks
  <2> QED BY <1>1, <2>1 DEF Do
<1>4. ASSUME NEW n \in Nat PROVE Says(SleepFor(n), << >>)
  <2>1. [op |-> "sleep", secs |-> n] \in Calls /\ ~Speaks([op |-> "sleep", secs |-> n])
    BY DEF Calls, Speaks
  <2> QED BY <1>1, <2>1 DEF SleepFor
<1>5. ASSUME NEW r \in Rules PROVE Says(Drop(r), << >>)
  <2>1. [op |-> "drop", rule |-> r] \in Calls /\ ~Speaks([op |-> "drop", rule |-> r])
    BY DEF Calls, Speaks
  <2> QED BY <1>1, <2>1 DEF Drop
<1>6. ASSUME NEW l \in Commands PROVE Says(Cmd(l), <<CmdMessage(l)>>)
  <2> DEFINE call == [op |-> "cmd", len |-> l]
  <2>1. call \in Calls /\ Speaks(call) /\ MessageOf(call) = CmdMessage(l)
    BY DEF Calls, Speaks, MessageOf
  <2>2. CmdMessage(l) \in Message
    BY DEF CmdMessage, Message, Policies
  <2>3. Cmd(l) = <<call>>
    BY DEF Cmd
  <2> HIDE DEF call
  <2> QED BY <1>2, <2>1, <2>2, <2>3
<1>7. ASSUME NEW l \in Nat, NEW s \in Nat, NEW v \in Nat, NEW u \in BOOLEAN, NEW p \in Policies
      PROVE  Says(Send(l, s, u, p, v), <<Data(l, s, u, p, v)>>)
  <2> DEFINE m == Data(l, s, u, p, v)
             call == [op |-> "send", msg |-> m]
  <2>1. m \in Message
    BY DEF Data, Message
  <2>2. Send(l, s, u, p, v) = <<call>>
    BY DEF Send, Data
  <2> HIDE DEF m
  <2>3. call \in Calls /\ Speaks(call) /\ MessageOf(call) = m
    BY <2>1 DEF Calls, Speaks, MessageOf
  <2> HIDE DEF call
  <2>4. Says(<<call>>, <<m>>)
    BY <1>2, <2>1, <2>3
  <2> QED BY <2>2, <2>4 DEF m
<1> QED BY <1>3, <1>4, <1>5, <1>6, <1>7

\* Calls that say nothing, before or after others.
LEMMA SaysAround ==
    ASSUME NEW s, NEW t, NEW m, Says(s, m), Says(t, << >>)
    PROVE  Says(s \o t, m) /\ Says(t \o s, m)
<1>1. m \in Seq(Message)
  BY DEF Says, Numbers
<1>2. m \o << >> = m /\ << >> \o m = m
  BY <1>1
<1>3. Says(s \o t, m \o << >>) /\ Says(t \o s, << >> \o m)
  BY SaysJoin
<1> QED BY <1>2, <1>3

\* A sequence with one message more.
LEMMA OneTold ==
    ASSUME NEW m \in Seq(Message), NEW x \in Message, NEW w \in Seq(Message),
           Len(w) = Len(m) + 1, w[Len(m) + 1] = x, \A i \in 1 .. Len(m) : w[i] = m[i]
    PROVE  m \o <<x>> = w
<1>1. /\ <<x>> \in Seq(Message) /\ Len(<<x>>) = 1 /\ <<x>>[1] = x /\ Len(m) \in Nat
      /\ m \o <<x>> \in Seq(Message)
  OBVIOUS
<1>2. /\ Len(m \o <<x>>) = Len(m) + 1 /\ \A i \in 1 .. Len(m) : (m \o <<x>>)[i] = m[i]
      /\ (m \o <<x>>)[Len(m) + 1] = x
  BY <1>1
<1>3. \A i \in 1 .. Len(m) + 1 : (m \o <<x>>)[i] = w[i]
  <2>1. \A i \in 1 .. Len(m) + 1 : i \in 1 .. Len(m) \/ i = Len(m) + 1
    BY <1>1
  <2> QED BY <1>2, <2>1
<1> QED BY <1>1, <1>2, <1>3, SeqEqual

\* One message after another, up to the sixth.
LEMMA Told2 ==
    ASSUME NEW a \in Message, NEW b \in Message
    PROVE  <<a>> \o <<b>> = <<a, b>>
<1> DEFINE m == <<a>>
           w == <<a, b>>
<1>1. /\ m \in Seq(Message) /\ w \in Seq(Message)
      /\ Len(m) = 1 /\ Len(w) = 2 /\ w[2] = b
  OBVIOUS
<1>2. \A i \in 1 .. 1 : w[i] = m[i]
  OBVIOUS
<1> HIDE DEF m, w
<1>3. m \o <<b>> = w
  <2>1. Len(w) = Len(m) + 1 /\ w[Len(m) + 1] = b
    BY <1>1
  <2>2. \A i \in 1 .. Len(m) : w[i] = m[i]
    BY <1>1, <1>2
  <2> QED BY <1>1, <2>1, <2>2, OneTold
<1> QED BY <1>3 DEF m, w

\* Two messages and one more are three, and likewise for the lemmas that follow.
LEMMA Told3 ==
    ASSUME NEW a \in Message, NEW b \in Message, NEW c \in Message
    PROVE  <<a, b>> \o <<c>> = <<a, b, c>>
<1> DEFINE m == <<a, b>>
           w == <<a, b, c>>
<1>1. /\ m \in Seq(Message) /\ w \in Seq(Message)
      /\ Len(m) = 2 /\ Len(w) = 3 /\ w[3] = c
  OBVIOUS
<1>2. \A i \in 1 .. 2 : w[i] = m[i]
  OBVIOUS
<1> HIDE DEF m, w
<1>3. m \o <<c>> = w
  <2>1. Len(w) = Len(m) + 1 /\ w[Len(m) + 1] = c
    BY <1>1
  <2>2. \A i \in 1 .. Len(m) : w[i] = m[i]
    BY <1>1, <1>2
  <2> QED BY <1>1, <2>1, <2>2, OneTold
<1> QED BY <1>3 DEF m, w

\* Three messages and one more.
LEMMA Told4 ==
    ASSUME NEW a \in Message, NEW b \in Message, NEW c \in Message, NEW d \in Message
    PROVE  <<a, b, c>> \o <<d>> = <<a, b, c, d>>
<1> DEFINE m == <<a, b, c>>
           w == <<a, b, c, d>>
<1>1. /\ m \in Seq(Message) /\ w \in Seq(Message)
      /\ Len(m) = 3 /\ Len(w) = 4 /\ w[4] = d
  OBVIOUS
<1>2. \A i \in 1 .. 3 : w[i] = m[i]
  OBVIOUS
<1> HIDE DEF m, w
<1>3. m \o <<d>> = w
  <2>1. Len(w) = Len(m) + 1 /\ w[Len(m) + 1] = d
    BY <1>1
  <2>2. \A i \in 1 .. Len(m) : w[i] = m[i]
    BY <1>1, <1>2
  <2> QED BY <1>1, <2>1, <2>2, OneTold
<1> QED BY <1>3 DEF m, w

\* Four messages and one more.
LEMMA Told5 ==
    ASSUME NEW a \in Message, NEW b \in Message, NEW c \in Message, NEW d \in Message, NEW e \in Message
    PROVE  <<a, b, c, d>> \o <<e>> = <<a, b, c, d, e>>
<1> DEFINE m == <<a, b, c, d>>
           w == <<a, b, c, d, e>>
<1>1. /\ m \in Seq(Message) /\ w \in Seq(Message)
      /\ Len(m) = 4 /\ Len(w) = 5 /\ w[5] = e
  OBVIOUS
<1>2. \A i \in 1 .. 4 : w[i] = m[i]
  OBVIOUS
<1> HIDE DEF m, w
<1>3. m \o <<e>> = w
  <2>1. Len(w) = Len(m) + 1 /\ w[Len(m) + 1] = e
    BY <1>1
  <2>2. \A i \in 1 .. Len(m) : w[i] = m[i]
    BY <1>1, <1>2
  <2> QED BY <1>1, <2>1, <2>2, OneTold
<1> QED BY <1>3 DEF m, w

\* Five messages and one more.
LEMMA Told6 ==
    ASSUME NEW a \in Message, NEW b \in Message, NEW c \in Message, NEW d \in Message, NEW e \in Message, NEW f \in Message
    PROVE  <<a, b, c, d, e>> \o <<f>> = <<a, b, c, d, e, f>>
<1> DEFINE m == <<a, b, c, d, e>>
           w == <<a, b, c, d, e, f>>
<1>1. /\ m \in Seq(Message) /\ w \in Seq(Message)
      /\ Len(m) = 5 /\ Len(w) = 6 /\ w[6] = f
  OBVIOUS
<1>2. \A i \in 1 .. 5 : w[i] = m[i]
  OBVIOUS
<1> HIDE DEF m, w
<1>3. m \o <<f>> = w
  <2>1. Len(w) = Len(m) + 1 /\ w[Len(m) + 1] = f
    BY <1>1
  <2>2. \A i \in 1 .. Len(m) : w[i] = m[i]
    BY <1>1, <1>2
  <2> QED BY <1>1, <2>1, <2>2, OneTold
<1> QED BY <1>3 DEF m, w

\* A client says what it sets up with, what its test says, and CLOSE.
LEMMA AroundSays ==
    ASSUME NEW setup, NEW test, NEW settle, NEW a, NEW b,
           Says(setup, a), Says(test, b), Says(settle, << >>)
    PROVE  Says(AroundTest(setup, test, settle), a \o b \o <<Closing>>)
<1> DEFINE first == SleepFor(3) \o Do("connect")
           body == first \o setup \o test \o settle
<1>1. Says(first, << >>)
  BY SaysOne, SaysAround
<1>2. Says(first \o setup, a)
  BY <1>1, SaysAround
<1>3. Says(first \o setup \o test, a \o b)
  BY <1>2, SaysJoin
<1>4. Says(body, a \o b)
  BY <1>3, SaysAround
<1>5. Says(Cmd(SN_CMD_CLOSE_ASOC), <<Closing>>)
  BY SaysOne DEF Closing
<1> HIDE DEF body
<1>6. Says(body \o Cmd(SN_CMD_CLOSE_ASOC), a \o b \o <<Closing>>)
  BY <1>4, <1>5, SaysJoin
<1>7. Says(body \o Cmd(SN_CMD_CLOSE_ASOC) \o SleepFor(5), a \o b \o <<Closing>>)
  BY <1>6, SaysOne, SaysAround
<1> QED BY <1>7 DEF body, AroundTest

-----------------------------------------------------------------------------
\* A data message is a message, whatever its policy.
LEMMA DataType ==
    \A l, s, v \in Nat : \A u \in BOOLEAN : \A p \in Policies : Data(l, s, u, p, v) \in Message
BY DEF Data, Message

\* The calls around the messages of prsctp say nothing, and a send says its message.
LEMMA PrAround ==
    /\ Says(Drop("data"), << >>) /\ Says(SleepFor(10), << >>) /\ Says(Do("sndbuf"), << >>)
    /\ Says(Reopen, << >>)
    /\ "none" \in Policies /\ TRUE \in BOOLEAN /\ FALSE \in BOOLEAN
    /\ \A l \in Nat : \A u \in BOOLEAN : \A p \in Policies : \A v \in Nat :
           /\ Says(Send(l, 1, u, p, v), <<Data(l, 1, u, p, v)>>)
           /\ Data(l, 1, u, p, v) \in Message
<1>1. "none" \in Policies /\ "data" \in Rules /\ TRUE \in BOOLEAN /\ FALSE \in BOOLEAN
  BY DEF Policies, Rules
<1>2. Says(Drop("data"), << >>) /\ Says(SleepFor(10), << >>) /\ Says(Do("sndbuf"), << >>)
  BY <1>1, SaysOne
<1>3. Says(Reopen, << >>)
  <2>1. Says(Do("flush"), << >>)
    BY SaysOne
  <2> QED BY <1>2, <2>1, SaysAround DEF Reopen
<1>4. ASSUME NEW l \in Nat, NEW u \in BOOLEAN, NEW p \in Policies, NEW v \in Nat
      PROVE  Says(Send(l, 1, u, p, v), <<Data(l, 1, u, p, v)>>) /\ Data(l, 1, u, p, v) \in Message
  BY SaysOne, DataType
<1> QED BY <1>1, <1>2, <1>3, <1>4

\* What sn_do_test_pr() and sn_do_test_pr_b() say.
LEMMA PrSaysOne ==
    ASSUME NEW r, r.length \in Nat, r.flags \in Policies, r.value \in Nat, r.value - 1 \in Nat,
           NEW u \in BOOLEAN
    PROVE  Says(TestPr(r, u), <<Data(r.length, 1, u, r.flags, r.value),
                                Data(1000, 1, u, "none", 0)>>)
<1> DEFINE A == Data(r.length, 1, u, r.flags, r.value)
           B == Data(1000, 1, u, "none", 0)
           a == Send(r.length, 1, u, r.flags, r.value)
           b == Send(1000, 1, u, "none", 0)
<1>1. Says(a, <<A>>) /\ Says(b, <<B>>) /\ A \in Message /\ B \in Message
  <2>1. Says(a, <<A>>) /\ A \in Message
    BY PrAround
  <2>2. Says(b, <<B>>) /\ B \in Message
    BY PrAround
  <2> QED BY <2>1, <2>2
<1>2. TestPr(r, u) = Drop("data") \o a \o SleepFor(10) \o b \o Reopen
  BY DEF TestPr
<1> HIDE DEF A, B, a, b
<1>3. Says(Drop("data") \o a \o SleepFor(10), <<A>>)
  BY PrAround, <1>1, SaysAround
<1>4. Says(Drop("data") \o a \o SleepFor(10) \o b, <<A>> \o <<B>>)
  BY <1>1, <1>3, SaysJoin
<1>5. Says(Drop("data") \o a \o SleepFor(10) \o b, <<A, B>>)
  BY <1>1, <1>4, Told2
<1>6. Says(TestPr(r, u), <<A, B>>)
  BY PrAround, <1>2, <1>5, SaysAround
<1> QED BY <1>6 DEF A, B

\* What sn_do_test_pr_c() says.
LEMMA PrSaysC ==
    ASSUME NEW r, r.length \in Nat, r.flags \in Policies, r.value \in Nat, r.value - 1 \in Nat
    PROVE  Says(TestPrC(r), <<Data(100, 1, TRUE, r.flags, r.value),
                              Data(100, 1, TRUE, "none", 0),
                              Data(100, 1, FALSE, "none", 0)>>)
<1> DEFINE A == Data(100, 1, TRUE, r.flags, r.value)
           B == Data(100, 1, TRUE, "none", 0)
           C == Data(100, 1, FALSE, "none", 0)
           a == Send(100, 1, TRUE, r.flags, r.value)
           b == Send(100, 1, TRUE, "none", 0)
           c == Send(100, 1, FALSE, "none", 0)
<1>1. /\ Says(a, <<A>>) /\ Says(b, <<B>>) /\ Says(c, <<C>>)
      /\ A \in Message /\ B \in Message /\ C \in Message
  <2>1. Says(a, <<A>>) /\ A \in Message
    BY PrAround
  <2>2. Says(b, <<B>>) /\ B \in Message
    BY PrAround
  <2>3. Says(c, <<C>>) /\ C \in Message
    BY PrAround
  <2> QED BY <2>1, <2>2, <2>3
<1>2. TestPrC(r) = Drop("data") \o a \o SleepFor(10) \o b \o c \o Reopen
  BY DEF TestPrC
<1> HIDE DEF A, B, C, a, b, c
<1>3. Says(Drop("data") \o a \o SleepFor(10), <<A>>)
  BY PrAround, <1>1, SaysAround
<1>4. Says(Drop("data") \o a \o SleepFor(10) \o b \o c, <<A>> \o <<B>> \o <<C>>)
  BY <1>1, <1>3, SaysJoin
<1>5. Says(Drop("data") \o a \o SleepFor(10) \o b \o c, <<A, B, C>>)
  <2>1. <<A>> \o <<B>> = <<A, B>> /\ <<A, B>> \o <<C>> = <<A, B, C>>
    BY <1>1, Told2, Told3
  <2> QED BY <1>4, <2>1
<1>6. Says(TestPrC(r), <<A, B, C>>)
  BY PrAround, <1>2, <1>5, SaysAround
<1> QED BY <1>6 DEF A, B, C

\* What sn_do_test_pr_x() and sn_do_test_pr_bx() say.
LEMMA PrSaysX ==
    ASSUME NEW r, r.length \in Nat, r.flags \in Policies, r.value \in Nat, r.value - 1 \in Nat,
           NEW u \in BOOLEAN
    PROVE  Says(TestPrX(r, u), <<Data(r.length, 1, u, r.flags, r.value),
                                 Data(1000, 1, u, r.flags, r.value - 1)>>)
<1> DEFINE A == Data(r.length, 1, u, r.flags, r.value)
           B == Data(1000, 1, u, r.flags, r.value - 1)
           a == Send(r.length, 1, u, r.flags, r.value)
           b == Send(1000, 1, u, r.flags, r.value - 1)
<1>1. Says(a, <<A>>) /\ Says(b, <<B>>) /\ A \in Message /\ B \in Message
  <2>1. Says(a, <<A>>) /\ A \in Message
    BY PrAround
  <2>2. Says(b, <<B>>) /\ B \in Message
    BY PrAround
  <2> QED BY <2>1, <2>2
<1>2. TestPrX(r, u) = Do("sndbuf") \o Drop("data") \o a \o b \o Reopen
  BY DEF TestPrX
<1> HIDE DEF A, B, a, b
<1>3. Says(Do("sndbuf") \o Drop("data") \o a, <<A>>)
  BY PrAround, <1>1, SaysAround
<1>4. Says(Do("sndbuf") \o Drop("data") \o a \o b, <<A>> \o <<B>>)
  BY <1>1, <1>3, SaysJoin
<1>5. Says(Do("sndbuf") \o Drop("data") \o a \o b, <<A, B>>)
  BY <1>1, <1>4, Told2
<1>6. Says(TestPrX(r, u), <<A, B>>)
  BY PrAround, <1>2, <1>5, SaysAround
<1> QED BY <1>6 DEF A, B

\* One message, and two that displace it.
Displaces(r, test) ==
    \E A, B, C \in Message :
        /\ Says(test, <<A, B, C>>)
        /\ ~A.cmd /\ A.len = r.length /\ A.pol = r.flags /\ A.val = r.value
        /\ ~B.cmd /\ B.len = 1000 /\ B.pol = r.flags /\ B.val = r.value - 1
        /\ ~C.cmd /\ C.len = 1000 /\ C.pol = r.flags /\ C.val = r.value - 1

\* What sn_do_test_pr_cx() says.
LEMMA PrSaysCX ==
    ASSUME NEW r, r.length \in Nat, r.flags \in Policies, r.value \in Nat, r.value - 1 \in Nat
    PROVE  Displaces(r, TestPrCX(r))
<1> DEFINE big == 1000
           lo == r.value - 1
           A == Data(r.length, 1, TRUE, r.flags, r.value)
           B == Data(big, 1, TRUE, r.flags, lo)
           C == Data(big, 1, FALSE, r.flags, lo)
           a == Send(r.length, 1, TRUE, r.flags, r.value)
           b == Send(big, 1, TRUE, r.flags, lo)
           c == Send(big, 1, FALSE, r.flags, lo)
<1>1. /\ Says(a, <<A>>) /\ Says(b, <<B>>) /\ Says(c, <<C>>)
      /\ A \in Message /\ B \in Message /\ C \in Message
  <2>1. Says(a, <<A>>) /\ A \in Message
    BY PrAround
  <2>2. big \in Nat /\ lo \in Nat
    OBVIOUS
  <2> HIDE DEF big, lo
  <2>3. Says(b, <<B>>) /\ B \in Message
    BY PrAround, <2>2
  <2>4. Says(c, <<C>>) /\ C \in Message
    BY PrAround, <2>2
  <2> QED BY <2>1, <2>3, <2>4
<1>2. TestPrCX(r) = Do("sndbuf") \o Drop("data") \o a \o b \o c \o Reopen
  BY DEF TestPrCX
<1>3. /\ ~A.cmd /\ A.len = r.length /\ A.pol = r.flags /\ A.val = r.value
      /\ ~B.cmd /\ B.len = 1000 /\ B.pol = r.flags /\ B.val = r.value - 1
      /\ ~C.cmd /\ C.len = 1000 /\ C.pol = r.flags /\ C.val = r.value - 1
  BY DEF Data
<1> HIDE DEF A, B, C, a, b, c
<1>4. Says(Do("sndbuf") \o Drop("data") \o a, <<A>>)
  BY PrAround, <1>1, SaysAround
<1>5. Says(Do("sndbuf") \o Drop("data") \o a \o b \o c, <<A>> \o <<B>> \o <<C>>)
  BY <1>1, <1>4, SaysJoin
<1>6. <<A>> \o <<B>> = <<A, B>> /\ <<A, B>> \o <<C>> = <<A, B, C>>
  BY <1>1, Told2, Told3
<1>7. Says(Do("sndbuf") \o Drop("data") \o a \o b \o c, <<A, B, C>>)
  BY <1>5, <1>6
<1>8. Says(TestPrCX(r), <<A, B, C>>)
  BY PrAround, <1>2, <1>7, SaysAround
<1>9. A \in Message /\ B \in Message /\ C \in Message
  BY <1>1
<1> DEFINE Sent(x, y, z) ==
               /\ Says(TestPrCX(r), <<x, y, z>>)
               /\ ~x.cmd /\ x.len = r.length /\ x.pol = r.flags /\ x.val = r.value
               /\ ~y.cmd /\ y.len = 1000 /\ y.pol = r.flags /\ y.val = r.value - 1
               /\ ~z.cmd /\ z.len = 1000 /\ z.pol = r.flags /\ z.val = r.value - 1
<1>10. Sent(A, B, C)
  BY <1>3, <1>8
<1> HIDE DEF Sent
<1>11. \E x, y, z \in Message : Sent(x, y, z)
  BY <1>9, <1>10
<1> QED BY <1>11, Zenon DEF Sent, Displaces

\* Five small messages, of which two displace the others, and two large ones.
DisplaceTwice(r, test) ==
    \E m \in Seq(Message) :
        /\ Says(test, m)
        /\ Len(m) = 7
        /\ \A i \in 1 .. 7 : ~m[i].cmd /\ m[i].pol = r.flags
        /\ \A i \in {1, 3, 4} : m[i].val = r.value
        /\ \A i \in {2, 5, 6, 7} : m[i].val = r.value - 1
        /\ \A i \in 1 .. 5 : m[i].len = 1
        /\ \A i \in {6, 7} : m[i].len = 1000

\* What the tests with a thread say.
LEMMA PrManySays ==
    ASSUME NEW r, r.flags \in Policies, r.value \in Nat, r.value - 1 \in Nat,
           NEW s \in [1 .. 7 -> Nat]
    PROVE  DisplaceTwice(r, TestPrCXX(r, s))
<1> DEFINE hi == r.value
           lo == r.value - 1
           big == 1000
           d1 == Data(1, s[1], TRUE, r.flags, hi)
           d2 == Data(1, s[2], TRUE, r.flags, lo)
           d3 == Data(1, s[3], TRUE, r.flags, hi)
           d4 == Data(1, s[4], TRUE, r.flags, hi)
           d5 == Data(1, s[5], TRUE, r.flags, lo)
           d6 == Data(big, s[6], TRUE, r.flags, lo)
           d7 == Data(big, s[7], FALSE, r.flags, lo)
           s1 == Send(1, s[1], TRUE, r.flags, hi)
           s2 == Send(1, s[2], TRUE, r.flags, lo)
           s3 == Send(1, s[3], TRUE, r.flags, hi)
           s4 == Send(1, s[4], TRUE, r.flags, hi)
           s5 == Send(1, s[5], TRUE, r.flags, lo)
           s6 == Send(big, s[6], TRUE, r.flags, lo)
           s7 == Send(big, s[7], FALSE, r.flags, lo)
<1>1. ASSUME NEW l \in Nat, NEW i \in 1 .. 7, NEW u \in BOOLEAN, NEW v \in Nat
      PROVE  /\ Says(Send(l, s[i], u, r.flags, v), <<Data(l, s[i], u, r.flags, v)>>)
             /\ Data(l, s[i], u, r.flags, v) \in Message
  <2>1. s[i] \in Nat
    OBVIOUS
  <2> QED BY <2>1, SaysOne, DataType
<1>2. /\ Says(s1, <<d1>>) /\ Says(s2, <<d2>>) /\ Says(s3, <<d3>>) /\ Says(s4, <<d4>>)
      /\ Says(s5, <<d5>>) /\ Says(s6, <<d6>>) /\ Says(s7, <<d7>>)
      /\ d1 \in Message /\ d2 \in Message /\ d3 \in Message /\ d4 \in Message
      /\ d5 \in Message /\ d6 \in Message /\ d7 \in Message
  <2>1. /\ hi \in Nat /\ lo \in Nat /\ 1 \in Nat /\ big \in Nat
        /\ TRUE \in BOOLEAN /\ FALSE \in BOOLEAN
        /\ 1 \in 1 .. 7 /\ 2 \in 1 .. 7 /\ 3 \in 1 .. 7 /\ 4 \in 1 .. 7
        /\ 5 \in 1 .. 7 /\ 6 \in 1 .. 7 /\ 7 \in 1 .. 7
    OBVIOUS
  <2> HIDE DEF hi, lo, big
  <2>2. Says(s1, <<d1>>) /\ d1 \in Message
    BY <1>1, <2>1, Zenon
  <2>3. Says(s2, <<d2>>) /\ d2 \in Message
    BY <1>1, <2>1, Zenon
  <2>4. Says(s3, <<d3>>) /\ d3 \in Message
    BY <1>1, <2>1, Zenon
  <2>5. Says(s4, <<d4>>) /\ d4 \in Message
    BY <1>1, <2>1, Zenon
  <2>6. Says(s5, <<d5>>) /\ d5 \in Message
    BY <1>1, <2>1, Zenon
  <2>7. Says(s6, <<d6>>) /\ d6 \in Message
    BY <1>1, <2>1, Zenon
  <2>8. Says(s7, <<d7>>) /\ d7 \in Message
    BY <1>1, <2>1, Zenon
  <2> QED BY <2>2, <2>3, <2>4, <2>5, <2>6, <2>7, <2>8
<1>3. TestPrCXX(r, s) =
          Do("sndbuf") \o Drop("data") \o s1 \o s2 \o s3 \o s4 \o s5
          \o SleepFor(10) \o Do("spawn") \o s6 \o s7 \o Do("join") \o SleepFor(3)
  BY DEF TestPrCXX
<1>11. /\ ~d1.cmd /\ d1.pol = r.flags /\ d1.val = r.value /\ d1.len = 1
       /\ ~d2.cmd /\ d2.pol = r.flags /\ d2.val = r.value - 1 /\ d2.len = 1
       /\ ~d3.cmd /\ d3.pol = r.flags /\ d3.val = r.value /\ d3.len = 1
       /\ ~d4.cmd /\ d4.pol = r.flags /\ d4.val = r.value /\ d4.len = 1
       /\ ~d5.cmd /\ d5.pol = r.flags /\ d5.val = r.value - 1 /\ d5.len = 1
       /\ ~d6.cmd /\ d6.pol = r.flags /\ d6.val = r.value - 1 /\ d6.len = 1000
       /\ ~d7.cmd /\ d7.pol = r.flags /\ d7.val = r.value - 1 /\ d7.len = 1000
  BY DEF Data
<1> HIDE DEF d1, d2, d3, d4, d5, d6, d7, s1, s2, s3, s4, s5, s6, s7
<1> DEFINE five == Do("sndbuf") \o Drop("data") \o s1 \o s2 \o s3 \o s4 \o s5
           all == five \o SleepFor(10) \o Do("spawn") \o s6 \o s7
<1>4. /\ Says(Drop("data"), << >>) /\ Says(SleepFor(10), << >>) /\ Says(SleepFor(3), << >>)
      /\ Says(Do("sndbuf"), << >>) /\ Says(Do("spawn"), << >>) /\ Says(Do("join"), << >>)
  BY SaysOne DEF Rules
<1>5. Says(Do("sndbuf") \o Drop("data") \o s1, <<d1>>)
  BY <1>2, <1>4, SaysAround
<1>6. Says(five, <<d1>> \o <<d2>> \o <<d3>> \o <<d4>> \o <<d5>>)
  BY <1>2, <1>5, SaysJoin
<1>7. Says(five \o SleepFor(10) \o Do("spawn"), <<d1>> \o <<d2>> \o <<d3>> \o <<d4>> \o <<d5>>)
  <2> HIDE DEF five
  <2> QED BY <1>4, <1>6, SaysAround
<1>8. Says(all, <<d1>> \o <<d2>> \o <<d3>> \o <<d4>> \o <<d5>> \o <<d6>> \o <<d7>>)
  <2> HIDE DEF five
  <2> QED BY <1>2, <1>7, SaysJoin
<1>9. <<d1>> \o <<d2>> \o <<d3>> \o <<d4>> \o <<d5>> \o <<d6>> \o <<d7>>
          = <<d1, d2, d3, d4, d5, d6, d7>>
  <2>1. <<d1>> \o <<d2>> = <<d1, d2>>
    BY <1>2, Told2
  <2>2. <<d1, d2>> \o <<d3>> = <<d1, d2, d3>>
    BY <1>2, Told3
  <2>3. <<d1, d2, d3>> \o <<d4>> = <<d1, d2, d3, d4>>
    BY <1>2, Told4
  <2>4. <<d1, d2, d3, d4>> \o <<d5>> = <<d1, d2, d3, d4, d5>>
    BY <1>2, Told5
  <2>5. <<d1, d2, d3, d4, d5>> \o <<d6>> = <<d1, d2, d3, d4, d5, d6>>
    BY <1>2, Told6
  <2>6. <<d1, d2, d3, d4, d5, d6>> \o <<d7>> = <<d1, d2, d3, d4, d5, d6, d7>>
    <3> DEFINE m == <<d1, d2, d3, d4, d5, d6>>
               w == <<d1, d2, d3, d4, d5, d6, d7>>
    <3>1. /\ m \in Seq(Message) /\ w \in Seq(Message)
          /\ Len(m) = 6 /\ Len(w) = 7 /\ w[7] = d7 /\ d7 \in Message
      BY <1>2
    <3>2. \A i \in 1 .. 6 : w[i] = m[i]
      OBVIOUS
    <3> HIDE DEF m, w
    <3>3. m \o <<d7>> = w
      <4>1. Len(w) = Len(m) + 1 /\ w[Len(m) + 1] = d7
        BY <3>1
      <4>2. \A i \in 1 .. Len(m) : w[i] = m[i]
        BY <3>1, <3>2
      <4> QED BY <3>1, <4>1, <4>2, OneTold
    <3> QED BY <3>3 DEF m, w
  <2> QED BY <2>1, <2>2, <2>3, <2>4, <2>5, <2>6
<1>10. Says(TestPrCXX(r, s), <<d1, d2, d3, d4, d5, d6, d7>>)
  <2>1. Says(all, <<d1, d2, d3, d4, d5, d6, d7>>)
    BY <1>8, <1>9
  <2>2. TestPrCXX(r, s) = all \o Do("join") \o SleepFor(3)
    BY <1>3
  <2> HIDE DEF all
  <2> QED BY <1>4, <2>1, <2>2, SaysAround
<1> DEFINE m == <<d1, d2, d3, d4, d5, d6, d7>>
<1>12. /\ m \in Seq(Message) /\ Len(m) = 7
       /\ m[1] = d1 /\ m[2] = d2 /\ m[3] = d3 /\ m[4] = d4 /\ m[5] = d5 /\ m[6] = d6 /\ m[7] = d7
  BY <1>2
<1>13. Says(TestPrCXX(r, s), m)
  BY <1>10
<1> HIDE DEF m
<1>14. /\ \A i \in 1 .. 7 : ~m[i].cmd /\ m[i].pol = r.flags
       /\ \A i \in {1, 3, 4} : m[i].val = r.value
       /\ \A i \in {2, 5, 6, 7} : m[i].val = r.value - 1
       /\ \A i \in 1 .. 5 : m[i].len = 1
       /\ \A i \in {6, 7} : m[i].len = 1000
  <2>1. 1 .. 7 = {1, 2, 3, 4, 5, 6, 7} /\ 1 .. 5 = {1, 2, 3, 4, 5}
    OBVIOUS
  <2> HIDE DEF hi, lo, big
  <2>2. /\ \A i \in {1, 3, 4} : m[i] \in {d1, d3, d4}
        /\ \A i \in {2, 5} : m[i] \in {d2, d5}
        /\ \A i \in {6, 7} : m[i] \in {d6, d7}
    BY <1>12
  <2>3. \A d \in {d1, d3, d4} : ~d.cmd /\ d.pol = r.flags /\ d.val = r.value /\ d.len = 1
    BY <1>11
  <2>4. \A d \in {d2, d5} : ~d.cmd /\ d.pol = r.flags /\ d.val = r.value - 1 /\ d.len = 1
    BY <1>11
  <2>5. \A d \in {d6, d7} : ~d.cmd /\ d.pol = r.flags /\ d.val = r.value - 1 /\ d.len = 1000
    BY <1>11
  <2> QED BY <2>1, <2>2, <2>3, <2>4, <2>5
<1> DEFINE Sent(x) ==
               /\ Says(TestPrCXX(r, s), x)
               /\ Len(x) = 7
               /\ \A i \in 1 .. 7 : ~x[i].cmd /\ x[i].pol = r.flags
               /\ \A i \in {1, 3, 4} : x[i].val = r.value
               /\ \A i \in {2, 5, 6, 7} : x[i].val = r.value - 1
               /\ \A i \in 1 .. 5 : x[i].len = 1
               /\ \A i \in {6, 7} : x[i].len = 1000
<1>15. Sent(m) /\ m \in Seq(Message)
  BY <1>12, <1>13, <1>14
<1> HIDE DEF Sent
<1>16. \E x \in Seq(Message) : Sent(x)
  BY <1>15
<1> QED BY <1>16, Zenon DEF Sent, DisplaceTwice

-----------------------------------------------------------------------------
\* Messages of data, of which only the last that displaces others, and those that
\* are never given up, are due.
DataOf(m) == m \in Seq(Message) /\ \A i \in 1 .. Len(m) : ~m[i].cmd /\ m[i].len \notin Commands

DueOf(m) ==
    {i \in 1 .. Len(m) :
        \/ m[i].pol = "none"
        \/ /\ m[i].pol = "prio"
           /\ \A j \in i + 1 .. Len(m) : m[j].pol = "prio" => m[j].val >= m[i].val}

\* A case whose server has left its loop.
Over == IInv /\ LogInv /\ LeftByClose /\ server = "exited" /\ cur # 0

\* Everything has been sent when the server leaves its loop, and CLOSE last.
LEMMA SentWhenOver ==
    ASSUME Over, NEW m, DataOf(m), Says(Script(Case), m \o <<Closing>>)
    PROVE  /\ sent = m \o <<Closing>>
           /\ Len(m) \in Nat /\ Len(sent) = Len(m) + 1
           /\ \A i \in 1 .. Len(m) : sent[i] = m[i]
           /\ sent[Len(m) + 1] = Closing
<1> DEFINE all == m \o <<Closing>>
<1>1. /\ m \in Seq(Message) /\ Len(m) \in Nat /\ Len(all) = Len(m) + 1
      /\ \A i \in 1 .. Len(m) : all[i] = m[i]
      /\ all[Len(m) + 1] = Closing
  BY DEF DataOf
<1> HIDE DEF all
<1>2. ASSUME NEW i \in 1 .. Len(all), all[i].len = SN_CMD_CLOSE_ASOC
      PROVE  i = Len(all)
  <2>1. i \in 1 .. Len(m) \/ i = Len(m) + 1
    BY <1>1
  <2>2. i \notin 1 .. Len(m)
    BY <1>1, <1>2 DEF DataOf
  <2> QED BY <1>1, <2>1, <2>2
<1>3. Says(Script(Case), all)
  BY DEF all
<1>4. sent = all
  BY <1>2, <1>3, AllSaid DEF Over
<1> QED BY <1>1, <1>4 DEF all

\* Then the messages due can be told from the script.
LEMMA DueWhenOver ==
    ASSUME Over, NEW m, DataOf(m), Says(Script(Case), m \o <<Closing>>)
    PROVE  Due = DueOf(m)
<1>1. /\ Len(m) \in Nat /\ Len(sent) = Len(m) + 1
      /\ \A i \in 1 .. Len(m) : sent[i] = m[i] /\ ~m[i].cmd
      /\ sent[Len(m) + 1].cmd /\ sent[Len(m) + 1].pol = "none"
  BY SentWhenOver DEF DataOf, Closing, CmdMessage
<1>2. ASSUME NEW i \in Due PROVE i \in DueOf(m)
  <2>1. i \in 1 .. Len(m)
    BY <1>1, <1>2 DEF Due
  <2>2. \A j \in i + 1 .. Len(m) : j \in i + 1 .. Len(sent) /\ sent[j] = m[j]
    BY <1>1, <2>1
  <2> QED BY <1>1, <1>2, <2>1, <2>2 DEF Due, DueOf
<1>3. ASSUME NEW i \in DueOf(m) PROVE i \in Due
  <2>1. i \in 1 .. Len(m) /\ i \in 1 .. Len(sent)
    BY <1>1, <1>3 DEF DueOf
  <2>2. \A j \in i + 1 .. Len(sent) : j = Len(m) + 1 \/ (j \in i + 1 .. Len(m) /\ sent[j] = m[j])
    BY <1>1, <2>1
  <2>3. \A j \in i + 1 .. Len(sent) : sent[j].pol = "prio" => j # Len(m) + 1
    BY <1>1
  <2> QED BY <1>1, <1>3, <2>1, <2>2, <2>3 DEF Due, DueOf
<1> QED BY <1>2, <1>3

\* What was read when exactly the messages due were.
LEMMA ReadWhenOver ==
    ASSUME Over, EachOnce, NEW m, DataOf(m), Says(Script(Case), m \o <<Closing>>)
    PROVE  /\ \A k \in DataAt : rcvq[k] \in DueOf(m) /\ LenOf(k) = m[rcvq[k]].len
           /\ Cardinality(DataAt) = Cardinality(DueOf(m))
           /\ \A u : Cardinality(OfLength(u)) = Cardinality({i \in DueOf(m) : m[i].len = u})
<1>1. Due = DueOf(m)
  BY DueWhenOver
<1>2. \A k \in DataAt : rcvq[k] \in DueOf(m)
  BY <1>1 DEF EachOnce
<1>3. \A k \in DataAt : LenOf(k) = m[rcvq[k]].len
  BY <1>2, SentWhenOver DEF LenOf, DueOf
<1>4. Cardinality(DataAt) = Cardinality(DueOf(m))
  <2>1. DataAt = {k \in DataAt : rcvq[k] \in DueOf(m)}
    BY <1>2
  <2>2. Cardinality({k \in DataAt : rcvq[k] \in DueOf(m)}) = Cardinality(DueOf(m))
    BY <1>1, AsManyAsDue DEF Over
  <2> QED BY <2>1, <2>2
<1>5. ASSUME NEW u
      PROVE  Cardinality(OfLength(u)) = Cardinality({i \in DueOf(m) : m[i].len = u})
  <2> DEFINE T == {i \in DueOf(m) : m[i].len = u}
  <2>1. OfLength(u) = {k \in DataAt : rcvq[k] \in T}
    BY <1>2, <1>3 DEF OfLength
  <2>2. T \in SUBSET Due
    BY <1>1
  <2> HIDE DEF T
  <2>3. Cardinality({k \in DataAt : rcvq[k] \in T}) = Cardinality(T)
    BY <2>2, AsManyAsDue DEF Over
  <2> QED BY <2>1, <2>3 DEF T
<1> QED BY <1>2, <1>3, <1>4, <1>5

-----------------------------------------------------------------------------
\* What clients of prsctp say.
LEMMA PrClientSays ==
    ASSUME Programs, NEW c \in CaseSet, c.suite = "prsctp", NEW m, m \in Seq(Message),
           Says(PrTest(c.number), m)
    PROVE  Says(Script(c), m \o <<Closing>>)
<1>1. Says(<< >>, << >>)
  <2>1. << >> \in Seq(Calls) /\ \A k \in 1 .. Len(<< >>) : FALSE
    OBVIOUS
  <2> QED BY <2>1, SaysNothing
<1>2. Says(SleepFor(5), << >>)
  BY SaysOne
<1>3. Says(AroundTest(<< >>, PrTest(c.number), SleepFor(5)), << >> \o m \o <<Closing>>)
  BY <1>1, <1>2, AroundSays
<1>4. << >> \o m = m
  OBVIOUS
<1>5. Script(c) = AroundTest(<< >>, PrTest(c.number), SleepFor(5))
  BY DEF Programs, ScriptOf, PrClient
<1> QED BY <1>3, <1>4, <1>5

\* The last of two messages is due, and the others are not.
LEMMA OneDue ==
    ASSUME NEW a \in Message, NEW b \in Message, ~a.cmd, ~b.cmd,
           a.len \notin Commands, b.len \notin Commands,
           \/ a.pol \in {"ttl", "rtx"} /\ b.pol = "none"
           \/ a.pol = "prio" /\ b.pol = "prio" /\ b.val < a.val
    PROVE  DataOf(<<a, b>>) /\ DueOf(<<a, b>>) = {2} /\ <<a, b>>[2] = b
<1> DEFINE m == <<a, b>>
<1>1. /\ m \in Seq(Message) /\ Len(m) = 2 /\ m[1] = a /\ m[2] = b
      /\ a.val \in Nat /\ b.val \in Nat
  BY DEF Message
<1> HIDE DEF m
<1>2. 1 .. Len(m) = {1, 2}
  BY <1>1
<1>3. DataOf(m)
  BY <1>1, <1>2 DEF DataOf
<1>4. 1 \notin DueOf(m)
  <2>1. 2 \in 1 + 1 .. Len(m)
    BY <1>1
  <2> QED BY <1>1, <2>1 DEF DueOf
<1>5. 2 \in DueOf(m)
  <2>1. \A j \in 2 + 1 .. Len(m) : FALSE
    BY <1>1
  <2>2. b.pol = "none" \/ b.pol = "prio"
    OBVIOUS
  <2> QED BY <1>1, <1>2, <2>1, <2>2 DEF DueOf
<1>6. DueOf(m) = {2}
  BY <1>2, <1>4, <1>5 DEF DueOf
<1> QED BY <1>1, <1>3, <1>6 DEF m

\* The last two of three messages are due.
LEMMA TwoDue ==
    ASSUME NEW a \in Message, NEW b \in Message, NEW c \in Message, ~a.cmd, ~b.cmd, ~c.cmd,
           a.len \notin Commands, b.len \notin Commands, c.len \notin Commands,
           \/ a.pol \in {"ttl", "rtx"} /\ b.pol = "none" /\ c.pol = "none"
           \/ /\ a.pol = "prio" /\ b.pol = "prio" /\ c.pol = "prio"
              /\ b.val < a.val /\ c.val = b.val
    PROVE  /\ DataOf(<<a, b, c>>) /\ DueOf(<<a, b, c>>) = {2, 3}
           /\ <<a, b, c>>[2] = b /\ <<a, b, c>>[3] = c
<1> DEFINE m == <<a, b, c>>
<1>1. /\ m \in Seq(Message) /\ Len(m) = 3 /\ m[1] = a /\ m[2] = b /\ m[3] = c
      /\ a.val \in Nat /\ b.val \in Nat /\ c.val \in Nat
  BY DEF Message
<1> HIDE DEF m
<1>2. 1 .. Len(m) = {1, 2, 3}
  BY <1>1
<1>3. DataOf(m)
  BY <1>1, <1>2 DEF DataOf
<1>4. 1 \notin DueOf(m)
  <2>1. 2 \in 1 + 1 .. Len(m)
    BY <1>1
  <2> QED BY <1>1, <2>1 DEF DueOf
<1>5. 2 \in DueOf(m)
  <2>1. \A j \in 2 + 1 .. Len(m) : j = 3
    BY <1>1
  <2>2. b.pol = "none" \/ (b.pol = "prio" /\ c.val >= b.val)
    BY <1>1
  <2> QED BY <1>1, <1>2, <2>1, <2>2 DEF DueOf
<1>6. 3 \in DueOf(m)
  <2>1. \A j \in 3 + 1 .. Len(m) : FALSE
    BY <1>1
  <2>2. c.pol = "none" \/ c.pol = "prio"
    OBVIOUS
  <2> QED BY <1>1, <1>2, <2>1, <2>2 DEF DueOf
<1>7. DueOf(m) = {2, 3}
  BY <1>2, <1>4, <1>5, <1>6 DEF DueOf
<1> QED BY <1>1, <1>3, <1>7 DEF m

\* The rows of sn_cases[] of sctp_pr.c.
LEMMA PrRows ==
    ASSUME NEW n \in 0 .. 10
    PROVE  /\ PrCase(n).flags = IF n \in 0 .. 2 THEN "ttl" ELSE IF n \in 3 .. 5 THEN "rtx" ELSE "prio"
           /\ PrCase(n).flags \in Policies
           /\ PrCase(n).value \in Nat /\ PrCase(n).value - 1 \in Nat
           /\ PrCase(n).length \in Nat \ Commands
           /\ n \in {6, 7, 8, 9, 10} => PrCase(n).value = 2
<1>1. CASE n \in 0 .. 2
  BY <1>1 DEF PrCase, Policies
<1>2. CASE n \in 3 .. 5
  BY <1>2 DEF PrCase, Policies
<1>3. CASE n \in 6 .. 8
  BY <1>3 DEF PrCase, Policies
<1>4. CASE n \in 9 .. 10
  BY <1>4 DEF PrCase, Policies
<1> QED BY <1>1, <1>2, <1>3, <1>4

\* Which test a case does.
LEMMA PrTests ==
    /\ PrTest(0) = TestPr(PrCase(0), FALSE)
    /\ PrTest(1) = TestPr(PrCase(1), TRUE)
    /\ PrTest(2) = TestPrC(PrCase(2))
    /\ PrTest(3) = TestPr(PrCase(3), FALSE)
    /\ PrTest(4) = TestPr(PrCase(4), TRUE)
    /\ PrTest(5) = TestPrC(PrCase(5))
    /\ PrTest(6) = TestPrX(PrCase(6), FALSE)
    /\ PrTest(7) = TestPrX(PrCase(7), TRUE)
    /\ PrTest(8) = TestPrCX(PrCase(8))
    /\ PrTest(9) = TestPrCXX(PrCase(9), <<1, 1, 1, 1, 1, 1, 1>>)
    /\ PrTest(10) = TestPrCXX(PrCase(10), <<0, 1, 2, 3, 4, 2, 3>>)
<1>1. PrTest(0) = TestPr(PrCase(0), FALSE)
  BY DEF PrTest
<1>2. PrTest(1) = TestPr(PrCase(1), TRUE)
  BY DEF PrTest
<1>3. PrTest(2) = TestPrC(PrCase(2))
  BY DEF PrTest
<1>4. PrTest(3) = TestPr(PrCase(3), FALSE)
  BY DEF PrTest
<1>5. PrTest(4) = TestPr(PrCase(4), TRUE)
  BY DEF PrTest
<1>6. PrTest(5) = TestPrC(PrCase(5))
  BY DEF PrTest
<1>7. PrTest(6) = TestPrX(PrCase(6), FALSE)
  BY DEF PrTest
<1>8. PrTest(7) = TestPrX(PrCase(7), TRUE)
  BY DEF PrTest
<1>9. PrTest(8) = TestPrCX(PrCase(8))
  BY DEF PrTest
<1>10. PrTest(9) = TestPrCXX(PrCase(9), <<1, 1, 1, 1, 1, 1, 1>>)
  BY DEF PrTest
<1>11. PrTest(10) = TestPrCXX(PrCase(10), <<0, 1, 2, 3, 4, 2, 3>>)
  BY DEF PrTest
<1> QED BY <1>1, <1>2, <1>3, <1>4, <1>5, <1>6, <1>7, <1>8, <1>9, <1>10, <1>11

\* What the cases of prsctp say, and which of it is due.
Shows(n, m) ==
    /\ DataOf(m)
    /\ n \in {0, 1, 3, 4, 6, 7} => DueOf(m) = {2} /\ m[2].len = 1000
    /\ n \in {2, 5} => DueOf(m) = {2, 3} /\ \A i \in 1 .. Len(m) : m[i].len = 100
    /\ n = 8 => DueOf(m) = {2, 3} /\ m[2].len = 1000 /\ m[3].len = 1000
    /\ n \in {9, 10} => /\ DueOf(m) = {2, 5, 6, 7} /\ Len(m) = 7
                        /\ \A i \in 1 .. 7 : m[i].len = IF i <= 5 THEN 1 ELSE 1000

\* Cases 0, 1, 3, 4, 6 and 7 send two messages.
LEMMA PrOne ==
    ASSUME NEW n \in {0, 1, 3, 4}, NEW u \in BOOLEAN, PrTest(n) = TestPr(PrCase(n), u)
    PROVE  \E m : Shows(n, m) /\ Says(PrTest(n), m)
<1> DEFINE r == PrCase(n)
           a == Data(r.length, 1, u, r.flags, r.value)
           b == Data(1000, 1, u, "none", 0)
<1>1. /\ r.flags \in {"ttl", "rtx"} /\ r.flags \in Policies
      /\ r.length \in Nat \ Commands /\ r.value \in Nat /\ r.value - 1 \in Nat
  BY PrRows
<1>2. /\ 1000 \in Nat \ Commands /\ 1 \in Nat /\ 0 \in Nat /\ "none" \in Policies
  BY DEF Policies
<1> HIDE DEF r
<1>3. Says(TestPr(r, u), <<a, b>>)
  BY <1>1, PrSaysOne
<1>4. PrTest(n) = TestPr(r, u)
  BY DEF r
<1>5. a \in Message /\ b \in Message
  BY <1>1, <1>2, DataType
<1>6. /\ ~a.cmd /\ ~b.cmd /\ a.len = r.length /\ b.len = 1000
      /\ a.pol = r.flags /\ b.pol = "none"
  BY DEF Data
<1> HIDE DEF a, b
<1>7. DataOf(<<a, b>>) /\ DueOf(<<a, b>>) = {2} /\ <<a, b>>[2] = b
  BY <1>1, <1>2, <1>5, <1>6, OneDue
<1>8. Shows(n, <<a, b>>)
  BY <1>6, <1>7 DEF Shows
<1> QED BY <1>3, <1>4, <1>8

\* The clients of prsctp that send a message a lower one displaces show one as well,
\* with and without an unordered stream.
LEMMA PrOneX ==
    ASSUME NEW n \in {6, 7}, NEW u \in BOOLEAN, PrTest(n) = TestPrX(PrCase(n), u)
    PROVE  \E m : Shows(n, m) /\ Says(PrTest(n), m)
<1> DEFINE r == PrCase(n)
           a == Data(r.length, 1, u, r.flags, r.value)
           b == Data(1000, 1, u, r.flags, r.value - 1)
<1>1. /\ r.flags = "prio" /\ r.flags \in Policies
      /\ r.length \in Nat \ Commands /\ r.value = 2 /\ r.value - 1 \in Nat
  BY PrRows
<1>2. /\ 1000 \in Nat \ Commands /\ 1 \in Nat /\ 2 \in Nat
  OBVIOUS
<1> HIDE DEF r
<1>3. Says(TestPrX(r, u), <<a, b>>)
  BY <1>1, PrSaysX
<1>4. PrTest(n) = TestPrX(r, u)
  BY DEF r
<1>5. a \in Message /\ b \in Message
  BY <1>1, <1>2, DataType
<1>6. /\ ~a.cmd /\ ~b.cmd /\ a.len = r.length /\ b.len = 1000
      /\ a.pol = r.flags /\ b.pol = r.flags /\ b.val < a.val
  BY <1>1 DEF Data
<1> HIDE DEF a, b
<1>7. DataOf(<<a, b>>) /\ DueOf(<<a, b>>) = {2} /\ <<a, b>>[2] = b
  BY <1>1, <1>2, <1>5, <1>6, OneDue
<1>8. Shows(n, <<a, b>>)
  BY <1>6, <1>7 DEF Shows
<1> QED BY <1>3, <1>4, <1>8

\* Cases 2, 5 and 8 send three messages.
LEMMA PrTwo ==
    ASSUME NEW n \in {2, 5}, PrTest(n) = TestPrC(PrCase(n))
    PROVE  \E m : Shows(n, m) /\ Says(PrTest(n), m)
<1> DEFINE r == PrCase(n)
           a == Data(100, 1, TRUE, r.flags, r.value)
           b == Data(100, 1, TRUE, "none", 0)
           c == Data(100, 1, FALSE, "none", 0)
<1>1. /\ r.flags \in {"ttl", "rtx"} /\ r.flags \in Policies
      /\ r.length \in Nat /\ r.value \in Nat /\ r.value - 1 \in Nat
  BY PrRows
<1>2. /\ 100 \in Nat \ Commands /\ 1 \in Nat /\ 0 \in Nat /\ "none" \in Policies
      /\ TRUE \in BOOLEAN /\ FALSE \in BOOLEAN
  BY DEF Policies
<1> HIDE DEF r
<1>3. Says(TestPrC(r), <<a, b, c>>)
  BY <1>1, PrSaysC
<1>4. PrTest(n) = TestPrC(r)
  BY DEF r
<1>5. a \in Message /\ b \in Message /\ c \in Message
  <2>1. a \in Message
    BY <1>1, <1>2, DataType
  <2>2. b \in Message
    BY <1>2, DataType
  <2>3. c \in Message
    BY <1>2, DataType
  <2> QED BY <2>1, <2>2, <2>3
<1>6. /\ ~a.cmd /\ ~b.cmd /\ ~c.cmd /\ a.len = 100 /\ b.len = 100 /\ c.len = 100
      /\ a.pol = r.flags /\ b.pol = "none" /\ c.pol = "none"
  BY DEF Data
<1> HIDE DEF a, b, c
<1>7. /\ DataOf(<<a, b, c>>) /\ DueOf(<<a, b, c>>) = {2, 3}
      /\ <<a, b, c>>[2] = b /\ <<a, b, c>>[3] = c
  BY <1>1, <1>2, <1>5, <1>6, TwoDue
<1> DEFINE m == <<a, b, c>>
<1>8. \A i \in 1 .. Len(m) : m[i].len = 100
  <2>1. 1 .. Len(m) = {1, 2, 3} /\ m[1] = a /\ m[2] = b /\ m[3] = c
    OBVIOUS
  <2> HIDE DEF m
  <2> QED BY <1>6, <2>1
<1>9. DataOf(m) /\ DueOf(m) = {2, 3}
  BY <1>7
<1>10. Says(PrTest(n), m)
  BY <1>3, <1>4
<1> HIDE DEF m
<1>11. Shows(n, m)
  BY <1>8, <1>9 DEF Shows
<1> QED BY <1>10, <1>11

\* The client of case 8, whose last message displaces its first, shows two.
LEMMA PrTwoX ==
    ASSUME PrTest(8) = TestPrCX(PrCase(8))
    PROVE  \E m : Shows(8, m) /\ Says(PrTest(8), m)
<1> DEFINE r == PrCase(8)
<1>1. /\ r.flags = "prio" /\ r.flags \in Policies
      /\ r.length \in Nat \ Commands /\ r.value = 2 /\ r.value - 1 \in Nat
  BY PrRows
<1> HIDE DEF r
<1>2. PICK a, b, c \in Message :
          /\ Says(TestPrCX(r), <<a, b, c>>)
          /\ ~a.cmd /\ a.len = r.length /\ a.pol = r.flags /\ a.val = r.value
          /\ ~b.cmd /\ b.len = 1000 /\ b.pol = r.flags /\ b.val = r.value - 1
          /\ ~c.cmd /\ c.len = 1000 /\ c.pol = r.flags /\ c.val = r.value - 1
  <2>1. Displaces(r, TestPrCX(r))
    BY <1>1, PrSaysCX
  <2> QED BY <2>1, Zenon DEF Displaces
<1>3. PrTest(8) = TestPrCX(r)
  BY DEF r
<1>4. /\ ~a.cmd /\ ~b.cmd /\ ~c.cmd
      /\ a.len \notin Commands /\ b.len \notin Commands /\ c.len \notin Commands
      /\ a.pol = "prio" /\ b.pol = "prio" /\ c.pol = "prio"
      /\ b.val < a.val /\ c.val = b.val
  BY <1>1, <1>2
<1>5. /\ DataOf(<<a, b, c>>) /\ DueOf(<<a, b, c>>) = {2, 3}
      /\ <<a, b, c>>[2] = b /\ <<a, b, c>>[3] = c
  BY <1>4, TwoDue
<1>6. Shows(8, <<a, b, c>>)
  BY <1>2, <1>5 DEF Shows
<1> QED BY <1>2, <1>3, <1>6

\* Seven messages with the priorities 2, 1, 2, 2, 1, 1, 1, the last two long.
SevenPrio(m) ==
    /\ m \in Seq(Message) /\ Len(m) = 7
    /\ \A i \in 1 .. 7 : ~m[i].cmd /\ m[i].pol = "prio"
    /\ \A i \in {1, 3, 4} : m[i].val = 2
    /\ \A i \in {2, 5, 6, 7} : m[i].val = 1
    /\ \A i \in 1 .. 5 : m[i].len = 1
    /\ \A i \in {6, 7} : m[i].len = 1000

\* Of those the second and the last three are due.
LEMMA SevenDue ==
    ASSUME NEW m, SevenPrio(m)
    PROVE  /\ DataOf(m) /\ DueOf(m) = {2, 5, 6, 7}
           /\ \A i \in 1 .. 7 : m[i].len = IF i <= 5 THEN 1 ELSE 1000
<1> USE DEF SevenPrio
<1>1. 1 .. 7 = {1, 2, 3, 4, 5, 6, 7} /\ 1 .. 5 = {1, 2, 3, 4, 5} /\ 1 .. Len(m) = 1 .. 7
  OBVIOUS
<1>2. \A i \in 1 .. 7 : m[i].len = IF i <= 5 THEN 1 ELSE 1000
  <2>1. ASSUME NEW i \in 1 .. 5 PROVE m[i].len = IF i <= 5 THEN 1 ELSE 1000
    OBVIOUS
  <2>2. ASSUME NEW i \in {6, 7} PROVE m[i].len = IF i <= 5 THEN 1 ELSE 1000
    OBVIOUS
  <2>3. \A i \in 1 .. 7 : i \in 1 .. 5 \/ i \in {6, 7}
    BY <1>1
  <2> QED BY <2>1, <2>2, <2>3
<1>3. DataOf(m)
  <2>1. ASSUME NEW i \in 1 .. 7 PROVE m[i].len \notin Commands
    <3>1. m[i].len = 1 \/ m[i].len = 1000
      BY <1>2
    <3> QED BY <3>1
  <2> QED BY <1>1, <2>1 DEF DataOf
<1>4. ASSUME NEW i \in {2, 5, 6, 7} PROVE i \in DueOf(m)
  <2>1. \A j \in i + 1 .. Len(m) : j \in {1, 3, 4} \/ j \in {2, 5, 6, 7}
    BY <1>1
  <2>2. \A j \in i + 1 .. Len(m) : m[j].val = 1 \/ m[j].val = 2
    BY <2>1
  <2>3. m[i].val = 1 /\ i \in 1 .. Len(m)
    BY <1>1
  <2>4. \A j \in i + 1 .. Len(m) : m[j].val >= m[i].val
    BY <2>2, <2>3
  <2> QED BY <2>3, <2>4 DEF DueOf
<1>5. ASSUME NEW i \in {1, 3, 4} PROVE i \notin DueOf(m)
  <2>1. 7 \in i + 1 .. Len(m) /\ m[7].pol = "prio" /\ m[i].pol = "prio"
    BY <1>1
  <2>2. ~(m[7].val >= m[i].val)
    OBVIOUS
  <2> QED BY <2>1, <2>2 DEF DueOf
<1>6. DueOf(m) \subseteq 1 .. 7
  BY <1>1 DEF DueOf
<1> QED BY <1>1, <1>2, <1>3, <1>4, <1>5, <1>6

\* Cases 9 and 10 send seven messages.
LEMMA PrFour ==
    ASSUME NEW n \in {9, 10}, NEW s \in [1 .. 7 -> Nat], PrTest(n) = TestPrCXX(PrCase(n), s)
    PROVE  \E m : Shows(n, m) /\ Says(PrTest(n), m)
<1> DEFINE r == PrCase(n)
<1>1. /\ r.flags = "prio" /\ r.flags \in Policies
      /\ r.value = 2 /\ r.value \in Nat /\ r.value - 1 \in Nat
  BY PrRows
<1> HIDE DEF r
<1>2. PICK m \in Seq(Message) :
          /\ Says(TestPrCXX(r, s), m)
          /\ Len(m) = 7
          /\ \A i \in 1 .. 7 : ~m[i].cmd /\ m[i].pol = r.flags
          /\ \A i \in {1, 3, 4} : m[i].val = r.value
          /\ \A i \in {2, 5, 6, 7} : m[i].val = r.value - 1
          /\ \A i \in 1 .. 5 : m[i].len = 1
          /\ \A i \in {6, 7} : m[i].len = 1000
  <2>1. DisplaceTwice(r, TestPrCXX(r, s))
    BY <1>1, PrManySays
  <2> QED BY <2>1, Zenon DEF DisplaceTwice
<1>3. PrTest(n) = TestPrCXX(r, s)
  BY DEF r
<1>4. r.value - 1 = 1
  BY <1>1
<1>5. /\ DataOf(m) /\ DueOf(m) = {2, 5, 6, 7}
      /\ \A i \in 1 .. 7 : m[i].len = IF i <= 5 THEN 1 ELSE 1000
  <2>1. m \in Seq(Message) /\ Len(m) = 7
    BY <1>2
  <2>2. \A i \in 1 .. 7 : ~m[i].cmd /\ m[i].pol = "prio"
    BY <1>1, <1>2, SMTT(20)
  <2>3. (\A i \in {1, 3, 4} : m[i].val = 2) /\ (\A i \in {2, 5, 6, 7} : m[i].val = 1)
    BY <1>1, <1>2, <1>4, SMTT(20)
  <2>4. (\A i \in 1 .. 5 : m[i].len = 1) /\ (\A i \in {6, 7} : m[i].len = 1000)
    BY <1>2, SMTT(20)
  <2>5. SevenPrio(m)
    BY <2>1, <2>2, <2>3, <2>4 DEF SevenPrio
  <2> QED BY <2>5, SevenDue
<1>6. Says(PrTest(n), m)
  <2>1. Says(TestPrCXX(r, s), m)
    BY <1>2
  <2> QED BY <1>3, <2>1
<1>7. Shows(n, m)
  <2>1. Len(m) = 7
    BY <1>2
  <2>2. /\ n \notin {0, 1, 3, 4, 6, 7} /\ n \notin {2, 5} /\ n # 8
    OBVIOUS
  <2> QED BY <1>5, <2>1, <2>2, Zenon DEF Shows
<1> QED BY <1>6, <1>7

-----------------------------------------------------------------------------
\* Every case says what is due of it.
LEMMA PrShows ==
    ASSUME NEW n \in 0 .. 10
    PROVE  \E m : Shows(n, m) /\ Says(PrTest(n), m)
<1>1. CASE n \in {0, 3}
  <2>1. n \in {0, 1, 3, 4} /\ FALSE \in BOOLEAN /\ PrTest(n) = TestPr(PrCase(n), FALSE)
    BY <1>1, PrTests
  <2> QED BY <2>1, PrOne
<1>2. CASE n \in {1, 4}
  <2>1. n \in {0, 1, 3, 4} /\ TRUE \in BOOLEAN /\ PrTest(n) = TestPr(PrCase(n), TRUE)
    BY <1>2, PrTests
  <2> QED BY <2>1, PrOne
<1>3. CASE n = 6
  <2>1. n \in {6, 7} /\ FALSE \in BOOLEAN /\ PrTest(n) = TestPrX(PrCase(n), FALSE)
    BY <1>3, PrTests
  <2> QED BY <2>1, PrOneX
<1>4. CASE n = 7
  <2>1. n \in {6, 7} /\ TRUE \in BOOLEAN /\ PrTest(n) = TestPrX(PrCase(n), TRUE)
    BY <1>4, PrTests
  <2> QED BY <2>1, PrOneX
<1>5. CASE n \in {2, 5}
  <2>1. PrTest(n) = TestPrC(PrCase(n))
    BY <1>5, PrTests
  <2> QED BY <1>5, <2>1, PrTwo
<1>6. CASE n = 8
  BY <1>6, PrTests, PrTwoX
<1>7. CASE n = 9
  <2>1. n \in {9, 10} /\ <<1, 1, 1, 1, 1, 1, 1>> \in [1 .. 7 -> Nat]
    BY <1>7
  <2>2. PrTest(n) = TestPrCXX(PrCase(n), <<1, 1, 1, 1, 1, 1, 1>>)
    BY <1>7, PrTests
  <2> QED BY <2>1, <2>2, PrFour
<1>8. CASE n = 10
  <2>1. n \in {9, 10} /\ <<0, 1, 2, 3, 4, 2, 3>> \in [1 .. 7 -> Nat]
    BY <1>8
  <2>2. PrTest(n) = TestPrCXX(PrCase(n), <<0, 1, 2, 3, 4, 2, 3>>)
    BY <1>8, PrTests
  <2> QED BY <2>1, <2>2, PrFour
<1> QED BY <1>1, <1>2, <1>3, <1>4, <1>5, <1>6, <1>7, <1>8

\* When exactly the messages due were read, their number and lengths are these.
LEMMA PrRead ==
    ASSUME Programs, Over, EachOnce, NEW n, n = Case.number, Case \in CaseSet,
           Case.suite = "prsctp", n \in 0 .. 10
    PROVE  /\ n \in {0, 1, 3, 4, 6, 7} => Cardinality(DataAt) = 1 /\ AllOf(1000)
           /\ n \in {2, 5} => Cardinality(DataAt) = 2 /\ AllOf(100)
           /\ n = 8 => Cardinality(DataAt) = 2 /\ AllOf(1000)
           /\ n \in {9, 10} => /\ Cardinality(DataAt) = 4
                               /\ DataAt = OfLength(1) \cup OfLength(1000)
                               /\ Cardinality(OfLength(1)) = 2
                               /\ Cardinality(OfLength(1000)) = 2
<1>1. PICK m : Shows(n, m) /\ Says(PrTest(n), m)
  BY PrShows
<1>2. DataOf(m) /\ m \in Seq(Message)
  BY <1>1 DEF Shows, DataOf
<1>3. Says(Script(Case), m \o <<Closing>>)
  BY <1>1, <1>2, PrClientSays
<1> DEFINE T(u) == {i \in DueOf(m) : m[i].len = u}
<1>4. /\ \A k \in DataAt : rcvq[k] \in DueOf(m) /\ LenOf(k) = m[rcvq[k]].len
      /\ Cardinality(DataAt) = Cardinality(DueOf(m))
      /\ \A u : Cardinality(OfLength(u)) = Cardinality(T(u))
  BY <1>2, <1>3, ReadWhenOver
<1>5. /\ Cardinality({2}) = 1
      /\ Cardinality({2, 3}) = 2
      /\ Cardinality({2, 5}) = 2
      /\ Cardinality({6, 7}) = 2
      /\ Cardinality({2, 5, 6, 7}) = 4
  <2>1. \A x : IsFiniteSet({x}) /\ Cardinality({x}) = 1
    BY FS_Singleton
  <2>2. ASSUME NEW S, IsFiniteSet(S), NEW x, x \notin S
        PROVE  IsFiniteSet(S \cup {x}) /\ Cardinality(S \cup {x}) = Cardinality(S) + 1
    BY <2>2, FS_AddElement
  <2>3. ASSUME NEW x, NEW y, x # y
        PROVE  IsFiniteSet({x} \cup {y}) /\ Cardinality({x} \cup {y}) = 2
    <3>1. y \notin {x}
      BY <2>3
    <3>2. IsFiniteSet({x}) /\ Cardinality({x}) = 1
      BY <2>1
    <3>3. IsFiniteSet({x} \cup {y}) /\ Cardinality({x} \cup {y}) = Cardinality({x}) + 1
      BY <2>2, <3>1, <3>2
    <3> QED BY <3>2, <3>3
  <2>4. {2, 3} = {2} \cup {3} /\ {2, 5} = {2} \cup {5} /\ {6, 7} = {6} \cup {7}
    OBVIOUS
  <2>5. IsFiniteSet({2} \cup {5}) /\ Cardinality({2} \cup {5}) = 2 /\ 6 \notin {2} \cup {5}
    <3>1. 2 # 5 /\ 6 \notin {2} \cup {5}
      OBVIOUS
    <3>2. IsFiniteSet({2} \cup {5}) /\ Cardinality({2} \cup {5}) = 2
      BY <2>3, <3>1, Zenon
    <3> QED BY <3>1, <3>2
  <2> DEFINE three == {2} \cup {5} \cup {6}
  <2>6. 7 \notin three /\ {2, 5, 6, 7} = three \cup {7}
    OBVIOUS
  <2>7. IsFiniteSet(three) /\ Cardinality(three) = 3
    <3>1. IsFiniteSet(three) /\ Cardinality(three) = Cardinality({2} \cup {5}) + 1
      BY <2>2, <2>5
    <3> QED BY <2>5, <3>1
  <2> HIDE DEF three
  <2>8. Cardinality(three \cup {7}) = Cardinality(three) + 1
    BY <2>2, <2>6, <2>7
  <2>9. Cardinality({2, 5, 6, 7}) = 4
    BY <2>6, <2>7, <2>8
  <2>10. Cardinality({2, 3}) = 2 /\ Cardinality({2, 5}) = 2 /\ Cardinality({6, 7}) = 2
    <3>1. 2 # 3 /\ 6 # 7
      OBVIOUS
    <3>2. Cardinality({2} \cup {3}) = 2 /\ Cardinality({6} \cup {7}) = 2
      BY <2>3, <3>1, Zenon
    <3> QED BY <2>4, <2>5, <3>2
  <2> QED BY <2>1, <2>9, <2>10
<1>6. ASSUME n \in {0, 1, 3, 4, 6, 7} PROVE Cardinality(DataAt) = 1 /\ AllOf(1000)
  <2>1. DueOf(m) = {2} /\ m[2].len = 1000
    BY <1>1, <1>6 DEF Shows
  <2> QED BY <1>4, <1>5, <2>1 DEF AllOf
<1>7. ASSUME n \in {2, 5} PROVE Cardinality(DataAt) = 2 /\ AllOf(100)
  <2>1. DueOf(m) = {2, 3} /\ m[2].len = 100 /\ m[3].len = 100
    <3>1. DueOf(m) = {2, 3} /\ \A i \in 1 .. Len(m) : m[i].len = 100
      BY <1>1, <1>7 DEF Shows
    <3> QED BY <3>1 DEF DueOf
  <2> QED BY <1>4, <1>5, <2>1 DEF AllOf
<1>8. ASSUME n = 8 PROVE Cardinality(DataAt) = 2 /\ AllOf(1000)
  <2>1. DueOf(m) = {2, 3} /\ m[2].len = 1000 /\ m[3].len = 1000
    BY <1>1, <1>8 DEF Shows
  <2> QED BY <1>4, <1>5, <2>1 DEF AllOf
<1>9. ASSUME n \in {9, 10}
      PROVE  /\ Cardinality(DataAt) = 4
             /\ DataAt = OfLength(1) \cup OfLength(1000)
             /\ Cardinality(OfLength(1)) = 2
             /\ Cardinality(OfLength(1000)) = 2
  <2>1. /\ DueOf(m) = {2, 5, 6, 7}
        /\ m[2].len = 1 /\ m[5].len = 1 /\ m[6].len = 1000 /\ m[7].len = 1000
    <3>1. DueOf(m) = {2, 5, 6, 7} /\ \A i \in 1 .. 7 : m[i].len = IF i <= 5 THEN 1 ELSE 1000
      BY <1>1, <1>9 DEF Shows
    <3> QED BY <3>1
  <2>2. T(1) = {2, 5} /\ T(1000) = {6, 7}
    BY <2>1
  <2>3. \A k \in DataAt : LenOf(k) \in {1, 1000}
    BY <1>4, <2>1
  <2>4. DataAt = OfLength(1) \cup OfLength(1000)
    BY <2>3 DEF OfLength
  <2> HIDE DEF T
  <2>5. /\ Cardinality(OfLength(1)) = Cardinality(T(1))
        /\ Cardinality(OfLength(1000)) = Cardinality(T(1000))
    BY <1>4
  <2>6. Cardinality(DataAt) = 4
    BY <1>4, <1>5, <2>1
  <2> QED BY <1>5, <2>2, <2>4, <2>5, <2>6
<1> QED BY <1>6, <1>7, <1>8, <1>9

\* Then the case passes.
LEMMA PrPasses ==
    ASSUME Programs, Over, EachOnce, Case \in CaseSet, Case.suite = "prsctp", Judged(Case)
    PROVE  mem.c1 = 0
<1> DEFINE n == Case.number
<1>1. n \in 0 .. 10
  BY SuiteAssumption
<1>2. DataAt = {} => Cardinality(DataAt) = 0
  BY FS_EmptySet
<1>3. /\ n \in {0, 1, 3, 4, 6, 7} => Cardinality(DataAt) = 1 /\ AllOf(1000)
      /\ n \in {2, 5} => Cardinality(DataAt) = 2 /\ AllOf(100)
      /\ n = 8 => Cardinality(DataAt) = 2 /\ AllOf(1000)
      /\ n \in {9, 10} => /\ Cardinality(DataAt) = 4
                          /\ DataAt = OfLength(1) \cup OfLength(1000)
                          /\ Cardinality(OfLength(1)) = 2
                          /\ Cardinality(OfLength(1000)) = 2
  BY <1>1, PrRead
<1>4. /\ n \in {0, 1, 3, 4, 6, 7} => JudgedOne
      /\ n \in {2, 5} => JudgedTwo(100)
      /\ n = 8 => JudgedTwo(1000)
      /\ n \in {9, 10} => JudgedFour
  BY DEF Judged
<1> HIDE DEF n
<1>5. CASE n \in {0, 1, 3, 4, 6, 7}
  BY <1>2, <1>3, <1>4, <1>5 DEF JudgedOne
<1>6. ASSUME NEW unit \in Nat, JudgedTwo(unit), Cardinality(DataAt) = 2, AllOf(unit)
      PROVE  mem.c1 = 0
  <2>1. mem.c3 = 2 /\ DataAt # {}
    BY <1>2, <1>6 DEF JudgedTwo
  <2>2. mem.c4 = unit * 2
    BY <1>6 DEF JudgedTwo, SumOf
  <2>3. mem.c4 = IF mem.c3 = 1 THEN unit ELSE 2 * unit
    BY <2>1, <2>2
  <2> QED BY <1>6, <2>1, <2>3 DEF JudgedTwo, Verdict
<1>7. CASE n \in {2, 5} \/ n = 8
  BY <1>3, <1>4, <1>6, <1>7
<1>8. CASE n \in {9, 10}
  <2>1. mem.c3 = 4 /\ mem.c4 = 2002
    BY <1>3, <1>4, <1>8 DEF JudgedFour
  <2>2. mem.c1 = Verdict(mem.c4 = <<1, 2, 1002, 2002>>[mem.c3])
    BY <1>4, <1>8, <2>1 DEF JudgedFour
  <2> QED BY <2>1, <2>2 DEF Verdict
<1> QED BY <1>1, <1>5, <1>7, <1>8

-----------------------------------------------------------------------------
\* The same message a number of times.
Copies(x, k) == [i \in 1 .. k |-> x]

\* Repeating a message j times and then k times is repeating it j + k times.
LEMMA CopiesJoin ==
    ASSUME NEW x \in Message, NEW j \in Nat, NEW k \in Nat
    PROVE  /\ Copies(x, j) \in Seq(Message) /\ Len(Copies(x, j)) = j
           /\ Copies(x, j) \o Copies(x, k) = Copies(x, j + k)
<1>1. ASSUME NEW n \in Nat
      PROVE  Copies(x, n) \in Seq(Message) /\ Len(Copies(x, n)) = n
             /\ \A i \in 1 .. n : Copies(x, n)[i] = x
  BY DEF Copies
<1> DEFINE s == Copies(x, j)
           t == Copies(x, k)
           u == Copies(x, j + k)
<1>2. /\ s \in Seq(Message) /\ t \in Seq(Message) /\ u \in Seq(Message)
      /\ Len(s) = j /\ Len(t) = k /\ Len(u) = j + k
      /\ \A i \in 1 .. j : s[i] = x
      /\ \A i \in 1 .. k : t[i] = x
      /\ \A i \in 1 .. j + k : u[i] = x
  <2>1. j + k \in Nat
    OBVIOUS
  <2> QED BY <1>1, <2>1
<1> HIDE DEF s, t, u
<1>3. s \o t \in Seq(Message) /\ Len(s \o t) = j + k
  BY <1>2
<1>4. ASSUME NEW i \in 1 .. j + k PROVE (s \o t)[i] = x
  <2>1. CASE i <= j
    <3>1. i \in 1 .. Len(s)
      BY <1>2, <2>1
    <3> QED BY <1>2, <3>1
  <2>2. CASE ~(i <= j)
    <3>1. i \in Len(s) + 1 .. Len(s) + Len(t) /\ i - Len(s) \in 1 .. k
      BY <1>2, <2>2
    <3> QED BY <1>2, <3>1
  <2> QED BY <2>1, <2>2
<1>5. s \o t = u
  BY <1>2, <1>3, <1>4, SeqEqual
<1> QED BY <1>2, <1>5 DEF s, t, u

\* The message of a case of strreset, and how often its client sends it.
Filler(n) == Data(RstCase(n).value, 1, FALSE, "none", 0)

\* It is data of 100 or of 6000 bytes without a policy.
LEMMA FillerType ==
    \A n : /\ RstCase(n).value \in {100, 6000} /\ Filler(n) \in Message
           /\ ~Filler(n).cmd /\ Filler(n).pol = "none" /\ Filler(n).len = RstCase(n).value
<1> TAKE n
<1>1. RstCase(n).value \in {100, 6000}
  BY DEF RstCase
<1>2. /\ RstCase(n).value \in Nat /\ 1 \in Nat /\ 0 \in Nat /\ FALSE \in BOOLEAN
      /\ "none" \in Policies
  BY <1>1 DEF Policies
<1>3. Filler(n) \in Message
  BY <1>2, DataType DEF Filler
<1>4. ~Filler(n).cmd /\ Filler(n).pol = "none" /\ Filler(n).len = RstCase(n).value
  BY DEF Filler, Data
<1> QED BY <1>1, <1>3, <1>4

\* Bursts, and single messages.
LEMMA BurstSays ==
    ASSUME NEW n
    PROVE  /\ Says(Msg(n), Copies(Filler(n), 1))
           /\ \A k \in Nat : Says(Msgs(n, k), Copies(Filler(n), k))
<1> DEFINE x == Filler(n)
           call == [op |-> "send", msg |-> x]
<1>1. x \in Message
  BY FillerType
<1>2. Msg(n) = <<call>>
  BY DEF Msg, Send, Filler, Data
<1> HIDE DEF x
<1>3. call \in Calls /\ Speaks(call) /\ MessageOf(call) = x
  BY <1>1 DEF Calls, Speaks, MessageOf
<1> HIDE DEF call
<1>4. ASSUME NEW k \in Nat PROVE Says(Msgs(n, k), Copies(x, k))
  <2> DEFINE s == Msgs(n, k)
             m == Copies(x, k)
  <2>1. s = [i \in 1 .. k |-> call]
    BY <1>2 DEF Msgs
  <2>2. s \in Seq(Calls) /\ Len(s) = k /\ \A i \in 1 .. k : s[i] = call
    BY <1>3, <2>1
  <2>3. m \in Seq(Message) /\ Len(m) = k /\ \A i \in 1 .. k : m[i] = x
    BY <1>1 DEF Copies
  <2> HIDE DEF s, m
  <2>4. \A i \in 1 .. Len(s) : Speaks(s[i]) /\ m[i] = MessageOf(s[i])
    BY <1>3, <2>2, <2>3
  <2>5. Says(s, m)
    BY <2>2, <2>3, <2>4, SaysAll
  <2> QED BY <2>5 DEF s, m
<1>5. Msg(n) = Msgs(n, 1)
  <2>1. Msgs(n, 1) = [i \in 1 .. 1 |-> call]
    BY <1>2 DEF Msgs
  <2>2. 1 .. 1 = {1}
    OBVIOUS
  <2> QED BY <1>2, <2>1, <2>2
<1>6. Says(Msg(n), Copies(x, 1))
  BY <1>4, <1>5
<1> QED BY <1>4, <1>6 DEF x

\* Calls of strreset that say nothing.
LEMMA RstAround ==
    ASSUME NEW n \in 0 .. 6
    PROVE  /\ \A k \in Nat : Says(SleepFor(k), << >>)
           /\ Says(SetReset, << >>)
           /\ Says(CloseFor(n), << >>) /\ Says(ReopenFor(n), << >>)
<1>1. Says(<< >>, << >>)
  <2>1. << >> \in Seq(Calls) /\ \A k \in 1 .. Len(<< >>) : FALSE
    OBVIOUS
  <2> QED BY <2>1, SaysNothing
<1>2. Says(SetReset, << >>)
  BY SaysOne, SaysAround DEF SetReset
<1>3. RstCase(n).drop \in {"no", "data", "all"}
  BY DEF RstCase
<1>4. Says(CloseFor(n), << >>)
  <2>1. RstCase(n).drop # "no" => RstCase(n).drop \in Rules
    BY <1>3 DEF Rules
  <2> QED BY <1>1, <2>1, SaysOne DEF CloseFor
<1>5. Says(ReopenFor(n), << >>)
  <2>1. Says(Do("flush") \o SleepFor(10), << >>)
    BY SaysOne, SaysAround
  <2> QED BY <1>1, <2>1 DEF ReopenFor
<1> QED BY <1>2, <1>4, <1>5, SaysOne

\* Each test says as much as its check expects.
LEMMA RstSays ==
    ASSUME NEW n \in 0 .. 6
    PROVE  /\ ExpectedCount(n) \in Nat \ {0}
           /\ Says(RstTest(n), Copies(Filler(n), ExpectedCount(n)))
<1> DEFINE x == Filler(n)
           c == Copies(x, 1)
<1>1. x \in Message
  BY FillerType
<1>2. /\ Says(Msg(n), Copies(x, 1))
      /\ \A k \in Nat : Says(Msgs(n, k), Copies(x, k))
  BY BurstSays
<1>3. /\ Says(SleepFor(3), << >>) /\ Says(SleepFor(5), << >>) /\ Says(SleepFor(10), << >>)
      /\ Says(SetReset, << >>)
      /\ Says(CloseFor(n), << >>) /\ Says(ReopenFor(n), << >>)
  BY RstAround
<1>4. Burst \in Nat /\ Burst + 1 \in Nat \ {0}
  BY BurstAssumption
<1> HIDE DEF x
<1>5. CASE n \in 0 .. 3
  <2>1. RstTest(n) = Msgs(n, Burst) \o SleepFor(5) \o SetReset \o SleepFor(5) \o Msg(n)
    BY <1>5 DEF RstTest, TestBurst
  <2>2. ExpectedCount(n) = Burst + 1
    BY <1>5 DEF ExpectedCount
  <2>3. Says(Msgs(n, Burst) \o SleepFor(5) \o SetReset \o SleepFor(5), Copies(x, Burst))
    BY <1>2, <1>3, <1>4, SaysAround
  <2>4. Says(RstTest(n), Copies(x, Burst) \o Copies(x, 1))
    BY <1>2, <2>1, <2>3, SaysJoin
  <2>5. Copies(x, Burst) \o Copies(x, 1) = Copies(x, Burst + 1)
    BY <1>1, <1>4, CopiesJoin
  <2> QED BY <1>4, <2>2, <2>4, <2>5 DEF x
<1>6. Says(CloseFor(n) \o Msgs(n, 10) \o SetReset \o SleepFor(10) \o SetReset, Copies(x, 10))
  BY <1>2, <1>3, SaysAround
<1>7. Copies(x, 10) \o Copies(x, 1) = Copies(x, 11)
  <2>1. Copies(x, 10) \o Copies(x, 1) = Copies(x, 10 + 1)
    BY <1>1, CopiesJoin
  <2> QED BY <2>1
<1>8. CASE n = 4
  <2>1. RstTest(n) = CloseFor(n) \o Msgs(n, 10) \o SetReset \o SleepFor(10) \o SetReset
                     \o Msg(n) \o ReopenFor(n)
    BY <1>8 DEF RstTest, TestResetX
  <2> DEFINE before == CloseFor(n) \o Msgs(n, 10) \o SetReset \o SleepFor(10) \o SetReset
  <2>2. Says(before, Copies(x, 10)) /\ RstTest(n) = before \o Msg(n) \o ReopenFor(n)
    BY <1>6, <2>1
  <2> HIDE DEF before
  <2>5. Says(before \o Msg(n), Copies(x, 11))
    <3>1. Says(before \o Msg(n), Copies(x, 10) \o Copies(x, 1))
      BY <1>2, <2>2, SaysJoin
    <3> QED BY <1>7, <3>1
  <2>3. Says(RstTest(n), Copies(x, 11))
    BY <1>3, <2>2, <2>5, SaysAround
  <2>4. ExpectedCount(n) = 11
    BY <1>8 DEF ExpectedCount
  <2> QED BY <2>3, <2>4 DEF x
<1>9. CASE n = 5
  <2>1. RstTest(n) = CloseFor(n) \o Msgs(n, 10) \o SetReset \o SleepFor(10) \o SetReset
                     \o ReopenFor(n) \o SleepFor(10) \o SetReset \o Msg(n)
    BY <1>9 DEF RstTest, TestAsocX
  <2> DEFINE before == CloseFor(n) \o Msgs(n, 10) \o SetReset \o SleepFor(10) \o SetReset
  <2>2. Says(before, Copies(x, 10)) /\ RstTest(n) = before \o ReopenFor(n) \o SleepFor(10)
                                                    \o SetReset \o Msg(n)
    BY <1>6, <2>1
  <2> HIDE DEF before
  <2>3. Says(before \o ReopenFor(n) \o SleepFor(10) \o SetReset, Copies(x, 10))
    BY <1>3, <2>2, SaysAround
  <2>4. Says(RstTest(n), Copies(x, 10) \o Copies(x, 1))
    BY <1>2, <2>2, <2>3, SaysJoin
  <2>5. ExpectedCount(n) = 11
    BY <1>9 DEF ExpectedCount
  <2>6. Says(RstTest(n), Copies(x, 11))
    BY <1>7, <2>4
  <2> QED BY <2>5, <2>6 DEF x
<1>10. CASE n = 6
  <2>1. RstTest(n) = Msgs(n, 10) \o SleepFor(5) \o CloseFor(n) \o SetReset \o Msgs(n, 4)
                     \o SleepFor(5) \o ReopenFor(n)
    BY <1>10 DEF RstTest, TestAsocXX
  <2> DEFINE before == Msgs(n, 10) \o SleepFor(5) \o CloseFor(n) \o SetReset
  <2>2. Says(before, Copies(x, 10))
    BY <1>2, <1>3, SaysAround
  <2>7. RstTest(n) = before \o Msgs(n, 4) \o SleepFor(5) \o ReopenFor(n)
    BY <2>1
  <2> HIDE DEF before
  <2>3. Says(before \o Msgs(n, 4), Copies(x, 10) \o Copies(x, 4))
    BY <1>2, <2>2, SaysJoin
  <2>4. Copies(x, 10) \o Copies(x, 4) = Copies(x, 14)
    <3>1. Copies(x, 10) \o Copies(x, 4) = Copies(x, 10 + 4)
      BY <1>1, CopiesJoin
    <3> QED BY <3>1
  <2>8. Says(before \o Msgs(n, 4), Copies(x, 14))
    BY <2>3, <2>4
  <2>5. Says(RstTest(n), Copies(x, 14))
    BY <1>3, <2>7, <2>8, SaysAround
  <2>6. ExpectedCount(n) = 14
    BY <1>10 DEF ExpectedCount
  <2> QED BY <2>5, <2>6 DEF x
<1> QED BY <1>5, <1>8, <1>9, <1>10

-----------------------------------------------------------------------------
\* A client of strreset asks for the reset, says its messages, and closes.
LEMMA RstClientSays ==
    ASSUME Programs, NEW c \in CaseSet, c.suite = "strreset", NEW n, n = c.number, n \in 0 .. 6
    PROVE  Says(Script(c), <<Resetting>> \o Copies(Filler(n), ExpectedCount(n)) \o <<Closing>>)
<1>1. Says(Do("enable") \o Cmd(SN_CMD_SET_STRRESET), <<Resetting>>)
  BY SaysOne, SaysAround DEF Resetting
<1>2. Says(<< >>, << >>)
  <2>1. << >> \in Seq(Calls) /\ \A k \in 1 .. Len(<< >>) : FALSE
    OBVIOUS
  <2> QED BY <2>1, SaysNothing
<1>3. Script(c) = AroundTest(Do("enable") \o Cmd(SN_CMD_SET_STRRESET), RstTest(n), << >>)
  BY DEF Programs, ScriptOf, RstClient
<1>4. Says(RstTest(n), Copies(Filler(n), ExpectedCount(n)))
  BY RstSays
<1> QED BY <1>1, <1>2, <1>3, <1>4, AroundSays

\* An element ahead of others moves them by one place.
LEMMA OneAhead ==
    ASSUME NEW M, NEW x \in M, NEW b \in Seq(M)
    PROVE  /\ <<x>> \o b \in Seq(M) /\ Len(<<x>> \o b) = Len(b) + 1
           /\ (<<x>> \o b)[1] = x
           /\ \A i \in 2 .. Len(b) + 1 : (<<x>> \o b)[i] = b[i - 1]
<1>1. ASSUME NEW r \in Seq(M), Len(r) = 1, r[1] = x
      PROVE  /\ r \o b \in Seq(M) /\ Len(r \o b) = Len(b) + 1
             /\ (r \o b)[1] = x
             /\ \A i \in 2 .. Len(b) + 1 : (r \o b)[i] = b[i - 1]
  <2>1. Len(b) \in Nat
    OBVIOUS
  <2>2. r \o b \in Seq(M)
    OBVIOUS
  <2>3. Len(r \o b) = Len(r) + Len(b)
    OBVIOUS
  <2>4. (r \o b)[1] = r[1]
    <3>1. Len(r) \in Nat
      OBVIOUS
    <3>2. ASSUME NEW k \in 1 .. Len(r) PROVE (r \o b)[k] = r[k]
      BY <2>1, <3>1
    <3> QED BY <1>1, <3>2
  <2>5. ASSUME NEW i \in 2 .. Len(b) + 1 PROVE (r \o b)[i] = b[i - 1]
    <3>1. i \in Len(r) + 1 .. Len(r) + Len(b) /\ i - Len(r) = i - 1 /\ Len(r) \in Nat
      BY <1>1, <2>1
    <3>2. (r \o b)[i] = b[i - Len(r)]
      BY <2>1, <3>1
    <3> QED BY <3>1, <3>2
  <2> QED BY <1>1, <2>1, <2>2, <2>3, <2>4, <2>5
<1>2. <<x>> \in Seq(M) /\ Len(<<x>>) = 1 /\ <<x>>[1] = x
  OBVIOUS
<1> QED BY <1>1, <1>2

\* Messages without a policy between the reset and CLOSE are due, all of them.
LEMMA BetweenSent ==
    ASSUME Over, NEW b, DataOf(b), \A i \in 1 .. Len(b) : b[i].pol = "none",
           Says(Script(Case), <<Resetting>> \o b \o <<Closing>>),
           NEW e, e = Len(b)
    PROVE  /\ e \in Nat /\ Len(sent) = e + 2 /\ sent[1].cmd /\ sent[e + 2].cmd
           /\ \A i \in 2 .. e + 1 : sent[i] = b[i - 1]
           /\ Due = 2 .. e + 1
           /\ \A i \in 1 .. Len(sent) : ~sent[i].cmd => i \in Due
<1> DEFINE m == <<Resetting>> \o b
           all == m \o <<Closing>>
<1>1. b \in Seq(Message) /\ e \in Nat
  BY DEF DataOf
<1>3. /\ Resetting \in Message /\ Resetting.cmd /\ Resetting.len = SN_CMD_SET_STRRESET
      /\ Closing \in Message /\ Closing.cmd
  BY DEF Resetting, Closing, CmdMessage, Message, Policies
<1>4. Says(Script(Case), all)
  OBVIOUS
<1>6. /\ m \in Seq(Message) /\ Len(m) = e + 1 /\ m[1] = Resetting
      /\ \A i \in 2 .. e + 1 : m[i] = b[i - 1]
  BY <1>1, <1>3, OneAhead
<1> HIDE DEF m
<1>7. /\ all \in Seq(Message) /\ Len(all) = e + 2
      /\ \A i \in 1 .. e + 1 : all[i] = m[i]
      /\ all[e + 2] = Closing
  BY <1>1, <1>3, <1>6
<1> HIDE DEF all
<1>8. \A i \in 2 .. e + 1 :
          all[i] = b[i - 1] /\ ~b[i - 1].cmd /\ b[i - 1].len \notin Commands /\ b[i - 1].pol = "none"
  <2> TAKE i \in 2 .. e + 1
  <2>1. i \in 1 .. e + 1 /\ i - 1 \in 1 .. Len(b)
    BY <1>1
  <2> QED BY <1>6, <1>7, <2>1 DEF DataOf
<1>9. sent = all
  <2>1. ASSUME NEW i \in 1 .. Len(all), all[i].len = SN_CMD_CLOSE_ASOC PROVE i = Len(all)
    <3>1. i = 1 \/ i \in 2 .. e + 1 \/ i = e + 2
      BY <1>1, <1>7
    <3>2. i # 1
      <4>1. 1 \in 1 .. e + 1
        BY <1>1
      <4>2. all[1] = Resetting
        BY <1>6, <1>7, <4>1
      <4> QED BY <1>3, <2>1, <4>2
    <3>3. i \notin 2 .. e + 1
      BY <1>8, <2>1
    <3> QED BY <1>7, <3>1, <3>2, <3>3
  <2> QED BY <1>4, <2>1, AllSaid DEF Over
<1>10. /\ Len(sent) = e + 2 /\ sent[1].cmd /\ sent[e + 2].cmd
       /\ \A i \in 2 .. e + 1 : sent[i] = b[i - 1]
  <2>1. 1 \in 1 .. e + 1
    BY <1>1
  <2> QED BY <1>3, <1>6, <1>7, <1>8, <1>9, <2>1
<1>11. \A i \in 1 .. Len(sent) : ~sent[i].cmd => i \in 2 .. e + 1
  <2> TAKE i \in 1 .. Len(sent)
  <2>1. i = 1 \/ i \in 2 .. e + 1 \/ i = e + 2
    BY <1>1, <1>10
  <2> QED BY <1>10, <2>1
<1>12. \A i \in 2 .. e + 1 : i \in Due
  <2> TAKE i \in 2 .. e + 1
  <2>1. i \in 1 .. Len(sent) /\ ~sent[i].cmd /\ sent[i].pol = "none"
    BY <1>1, <1>8, <1>10
  <2> QED BY <2>1 DEF Due
<1>13. Due = 2 .. e + 1
  <2>1. \A i \in Due : i \in 1 .. Len(sent) /\ ~sent[i].cmd
    BY DEF Due
  <2> QED BY <1>11, <1>12, <2>1
<1> QED BY <1>1, <1>10, <1>11, <1>13

\* So all that a client of strreset says is due.
LEMMA RstSent ==
    ASSUME Programs, Over, Case \in CaseSet, Case.suite = "strreset",
           NEW n, n = Case.number, n \in 0 .. 6, NEW e, e = ExpectedCount(n)
    PROVE  /\ e \in Nat \ {0} /\ Due = 2 .. e + 1
           /\ \A i \in 2 .. e + 1 : sent[i] = Filler(n)
           /\ \A i \in 1 .. Len(sent) : ~sent[i].cmd => i \in Due
<1> DEFINE x == Filler(n)
           b == Copies(x, e)
<1>1. e \in Nat \ {0}
  BY RstSays
<1>2. x \in Message /\ ~x.cmd /\ x.pol = "none" /\ x.len \in {100, 6000}
  BY FillerType
<1>3. Says(Script(Case), <<Resetting>> \o b \o <<Closing>>)
  BY RstClientSays
<1> HIDE DEF x
<1>4. b \in Seq(Message) /\ Len(b) = e /\ \A i \in 1 .. e : b[i] = x
  BY <1>1, <1>2 DEF Copies
<1> HIDE DEF b
<1>5. DataOf(b) /\ \A i \in 1 .. Len(b) : b[i].pol = "none"
  BY <1>2, <1>4 DEF DataOf
<1>6. /\ \A i \in 2 .. e + 1 : sent[i] = b[i - 1]
      /\ Due = 2 .. e + 1
      /\ \A i \in 1 .. Len(sent) : ~sent[i].cmd => i \in Due
  BY <1>3, <1>4, <1>5, BetweenSent
<1>7. \A i \in 2 .. e + 1 : i - 1 \in 1 .. e
  BY <1>1
<1> QED BY <1>1, <1>4, <1>6, <1>7 DEF x

\* When exactly the messages due were read, the lengths add up to what is expected.
LEMMA RstPasses ==
    ASSUME Programs, Over, EachOnce, Case \in CaseSet, Case.suite = "strreset", Judged(Case)
    PROVE  mem.c1 = 0
<1> DEFINE n == Case.number
           e == ExpectedCount(n)
           v == RstCase(n).value
<1>1. n \in 0 .. 6
  BY SuiteAssumption
<1>2. /\ e \in Nat \ {0}
      /\ \A i \in 2 .. e + 1 : sent[i] = Filler(n)
      /\ Due = 2 .. e + 1
  BY <1>1, RstSent
<1>3. v \in Nat /\ Filler(n).len = v
  BY FillerType
<1>4. JudgedBurst(n)
  BY DEF Judged
<1> HIDE DEF n
<1>5. Cardinality(DataAt) = e
  <2>1. DataAt = {k \in DataAt : rcvq[k] \in Due}
    BY DEF EachOnce
  <2>2. Cardinality({k \in DataAt : rcvq[k] \in Due}) = Cardinality(Due)
    BY AsManyAsDue DEF Over
  <2>3. Cardinality(2 .. e + 1) = e
    <3> HIDE DEF e
    <3>1. 2 \in Int /\ e + 1 \in Int /\ ~(2 > e + 1) /\ (e + 1) - 2 + 1 = e
      BY <1>2
    <3> QED BY <3>1, FS_Interval
  <2> QED BY <1>2, <2>1, <2>2, <2>3
<1>6. AllOf(v)
  BY <1>2, <1>3 DEF AllOf, LenOf, EachOnce
<1> HIDE DEF e, v
<1>7. mem.c3 = v * e
  BY <1>3, <1>4, <1>5, <1>6 DEF JudgedBurst, SumOf
<1>8. DataAt # {}
  BY <1>2, <1>5, FS_EmptySet
<1>9. v * e = e * v
  BY <1>2, <1>3
<1> QED BY <1>4, <1>7, <1>8, <1>9 DEF JudgedBurst, e, v

-----------------------------------------------------------------------------
\* Where the data has come in the order of the table, sn_verify_result() of the
\* ndatasched checks has matched it against every row.
LEMMA TablePasses ==
    ASSUME Programs, IInv, Case \in CaseSet, Case.suite = "ndatasched",
           Tabled(Case) => CameFrom(SchedSids(Case.number)), Judged(Case)
    PROVE  mem.c1 = 0
<1> DEFINE n == Case.number
           sids == SchedSids(n)
<1>1. CASE ~NdCase(n).sched_cork
  BY <1>1 DEF Judged
<1>2. CASE NdCase(n).sched_cork
  <2>1. JudgedTable(sids) /\ CameFrom(sids)
    BY <1>2 DEF Judged, Tabled
  <2>2. Len(sids) = 9
    <3>1. n \in {0, 1, 7, 13}
      BY <1>2, CorkedCases
    <3> QED BY <3>1 DEF SchedSids
  <2> HIDE DEF sids
  <2>3. \A k \in DataAt : Rank(k) <= 9 /\ SidOf(k) = sids[Rank(k)]
    BY <2>1, <2>2, RankBounded DEF CameFrom, SidOf
  <2> QED BY <2>1, <2>3 DEF JudgedTable
<1> QED BY <1>1, <1>2

\* A server that has read exactly what was due, and where there is a table has
\* read it in its order, exits with success: whatever the kernel does with the
\* messages, whenever it does so, whichever calls fail and however long the
\* sleeps last, a correct run is never logged as a failure of the server.
THEOREM NeverFalseFail ==
    ASSUME Programs PROVE Spec => []NoFalseFail
<1>1. ASSUME IInv, JudgeInv, LogInv, LeftByClose PROVE NoFalseFail
  <2> SUFFICES ASSUME server = "exited", Deserved PROVE mem.c1 = 0
    BY DEF NoFalseFail
  <2>1. cur # 0 /\ cur \in 1 .. Len(Cases)
    BY <1>1 DEF JudgeInv, NoneYet, IInv, TypeOK
  <2>2. Case \in CaseSet /\ Judged(Case)
    BY <1>1, <2>1, CaseType DEF JudgeInv
  <2>3. Over /\ EachOnce
    BY <1>1, <2>1, ExactIs DEF Over, Deserved
  <2>4. Tabled(Case) => CameFrom(SchedSids(Case.number))
    BY DEF Deserved
  <2>5. Case.suite \in {"prsctp", "strreset", "ndatasched"}
    BY <2>2, SuiteAssumption
  <2> QED BY <1>1, <2>2, <2>3, <2>4, <2>5, PrPasses, RstPasses, TablePasses
<1>2. IInv /\ JudgeInv /\ LogInv /\ LeftByClose => NoFalseFail
  BY <1>1
<1> QED BY <1>2, InductiveInvariant, JudgeInvariant, LogInvariant, PTL

-----------------------------------------------------------------------------
(***************************************************************************)
(* What a kernel with some faults and not with others leaves of the queue. *)
(***************************************************************************)

\* A message is sent, and displaces some of lower priority.
Posts ==
    /\ rcvq' = rcvq
    /\ \E m \in Message, gone \in SUBSET pend :
           /\ sent' = Append(sent, m) /\ pend' = (pend \ gone) \cup {Len(sent) + 1}
           /\ \A i \in gone : sent[i].pol = "prio" /\ m.pol = "prio" /\ sent[i].val > m.val

\* A message is delivered, once or, by a kernel that repeats messages, twice.
HandsOver ==
    /\ sent' = sent
    /\ \E i \in pend :
           /\ CanDeliver(i) /\ pend' = pend \ {i}
           /\ \/ rcvq' = Append(rcvq, i)
              \/ "dup" \in KernelBugs(Case) /\ rcvq' = rcvq \o <<i, i>>

\* A message is given up, or lost by a kernel that loses messages.
GivesUp ==
    /\ sent' = sent /\ rcvq' = rcvq
    /\ \E i \in pend :
           /\ pend' = pend \ {i}
           /\ sent[i].pol \in {"ttl", "rtx"} \/ "lose" \in KernelBugs(Case)

\* The steps that change the queue are these.
LEMMA QueueMoves ==
    ASSUME IInv, [Next]_vars, ~StartCase
    PROVE  UNCHANGED <<sent, pend, rcvq>> \/ Posts \/ HandsOver \/ GivesUp
<1> USE DEF suite, assoc
<1>1. CASE SendAsocCmd
  <2>1. Call.len \in Commands
    <3>1. CallIs("cmd") /\ TypeOK /\ Running
      BY <1>1 DEF SendAsocCmd, IInv
    <3>2. Call \in Calls /\ Call.op = "cmd"
      BY <3>1, CallType
    <3> QED BY <3>2 DEF Calls
  <2>2. CmdMessage(Call.len) \in Message
    BY <2>1 DEF CmdMessage, Message, Policies
  <2>3. {} \in SUBSET pend /\ pend \ {} = pend
    OBVIOUS
  <2> QED BY <1>1, <2>2, <2>3 DEF SendAsocCmd, Posts
<1>2. CASE SendAsocMsg
  <2>1. Call.msg \in Message
    <3>1. CallIs("send") /\ TypeOK /\ Running
      BY <1>2 DEF SendAsocMsg, IInv
    <3>2. Call \in Calls /\ Call.op = "send"
      BY <3>1, CallType
    <3> QED BY <3>2 DEF Calls
  <2>2. PICK gone \in Pruned(Call.msg) : pend' = (pend \ gone) \cup {Len(sent) + 1}
    BY <1>2 DEF SendAsocMsg
  <2>3. gone \subseteq pend /\ \A i \in gone : /\ sent[i].pol = "prio" /\ Call.msg.pol = "prio"
                                              /\ sent[i].val > Call.msg.val
    BY <2>2 DEF Pruned, Displaced
  <2>4. sent' = Append(sent, Call.msg) /\ rcvq' = rcvq
    BY <1>2 DEF SendAsocMsg
  <2> QED BY <2>1, <2>2, <2>3, <2>4 DEF Posts
<1>3. CASE KernelStep
  <2>1. ASSUME NEW i \in pend, Deliver(i) \/ Duplicate(i) PROVE HandsOver
    BY <2>1 DEF Deliver, Duplicate, HandsOver
  <2>2. ASSUME NEW i \in pend, Abandon(i) \/ Lose(i) PROVE GivesUp
    BY <2>2 DEF Abandon, Lose, CanExpire, GivesUp
  <2> QED BY <1>3, <2>1, <2>2 DEF KernelStep, ReconfReply
<1>4. CASE ClientStep /\ ~SendAsocCmd /\ ~SendAsocMsg
  BY <1>4 DEF ClientStep, CreateAsocSk, EnableAsocStrreset, RecvAck,
       CloseAsocStreams, ReopenAsocStreams, Sleep, SetStrreset, CorkStreams,
       SetupSoSndbuf, SpawnCleanup, JoinCleanup, ClientExit
<1>5. CASE ClientFail \/ ThreadStep \/ ServerStep \/ ServerFail
  BY <1>5 DEF ClientFail, ThreadStep, ThreadSleep, ThreadFlush, ServerStep, ServerListen,
       ServerSetStrreset, ServerCloseAsoc, ServerCheck, ServerFail
<1>6. CASE FinishCase \/ UNCHANGED vars
  BY <1>6 DEF FinishCase, vars
<1> QED BY <1>1, <1>2, <1>3, <1>4, <1>5, <1>6 DEF Next

\* What is due has not got lost.
Kept ==
    cur # 0 /\ "lose" \notin KernelBugs(Case) =>
        \A i \in Due : i \in pend \/ \E k \in 1 .. Len(rcvq) : rcvq[k] = i

\* What has been delivered was delivered once, and is not queued any more.
Once ==
    cur # 0 /\ "dup" \notin KernelBugs(Case) =>
        \A k \in 1 .. Len(rcvq) :
            rcvq[k] \notin pend /\ \A l \in 1 .. Len(rcvq) : rcvq[l] = rcvq[k] => l = k

\* Where the path keeps the order, messages arrive in it.
InOrder ==
    cur # 0 /\ "dup" \notin KernelBugs(Case) /\ KeepsOrder(Case) =>
        \A k \in 1 .. Len(rcvq) :
            /\ \A l \in 1 .. Len(rcvq) : k < l => rcvq[k] < rcvq[l]
            /\ \A i \in pend : rcvq[k] < i

PathInv == Kept /\ Once /\ InOrder

\* Nothing becomes due that was not, and what no longer is has been displaced.
LEMMA DueShrinks ==
    ASSUME IInv, NEW m \in Message, sent' = Append(sent, m)
    PROVE  \A i \in Due' : /\ i = Len(sent) + 1 \/ i \in Due
                           /\ i \in 1 .. Len(sent) /\ sent[i].pol = "prio" /\ m.pol = "prio" =>
                                  m.val >= sent[i].val
<1>1. /\ sent' \in Seq(Message) /\ Len(sent') = Len(sent) + 1
      /\ \A i \in 1 .. Len(sent) : sent'[i] = sent[i]
      /\ sent'[Len(sent) + 1] = m /\ Len(sent) \in Nat
  BY Appended DEF IInv
<1> SUFFICES ASSUME NEW i \in Due', i # Len(sent) + 1
             PROVE  /\ i \in Due
                    /\ sent[i].pol = "prio" /\ m.pol = "prio" => m.val >= sent[i].val
  BY <1>1
<1>2. i \in 1 .. Len(sent) /\ sent'[i] = sent[i] /\ ~sent[i].cmd
  BY <1>1 DEF Due
<1>3. ASSUME sent[i].pol = "prio", NEW j \in i + 1 .. Len(sent'), sent'[j].pol = "prio"
      PROVE  sent'[j].val >= sent[i].val
  BY <1>2, <1>3 DEF Due
<1>4. sent[i].pol = "prio" /\ m.pol = "prio" => m.val >= sent[i].val
  BY <1>1, <1>2, <1>3
<1>5. ASSUME sent[i].pol = "prio", NEW j \in i + 1 .. Len(sent), sent[j].pol = "prio"
      PROVE  sent[j].val >= sent[i].val
  <2>1. j \in i + 1 .. Len(sent') /\ sent'[j] = sent[j]
    BY <1>1, <1>2, <1>5
  <2> QED BY <1>3, <1>5, <2>1
<1>6. sent[i].pol \in {"none", "prio"}
  BY <1>2 DEF Due
<1> QED BY <1>2, <1>4, <1>5, <1>6 DEF Due

\* A message sent.
LEMMA PostsKeep ==
    ASSUME IInv, PathInv, Posts, cur # 0, cur' = cur, Case' = Case
    PROVE  PathInv'
<1>1. PICK m \in Message, gone \in SUBSET pend :
          /\ sent' = Append(sent, m) /\ pend' = (pend \ gone) \cup {Len(sent) + 1}
          /\ \A i \in gone : sent[i].pol = "prio" /\ m.pol = "prio" /\ sent[i].val > m.val
  BY DEF Posts
<1>2. /\ rcvq' = rcvq /\ Len(sent) \in Nat /\ pend \subseteq 1 .. Len(sent)
      /\ \A k \in 1 .. Len(rcvq) : rcvq[k] \in 1 .. Len(sent)
      /\ sent \in Seq(Message)
  BY DEF Posts, IInv, TypeOK
<1>3. Kept'
  <2> SUFFICES ASSUME "lose" \notin KernelBugs(Case), NEW i \in Due', i # Len(sent) + 1
               PROVE  i \in pend' \/ \E k \in 1 .. Len(rcvq) : rcvq[k] = i
    BY <1>1, <1>2 DEF Kept
  <2>1. /\ i \in Due
        /\ i \in 1 .. Len(sent) /\ sent[i].pol = "prio" /\ m.pol = "prio" => m.val >= sent[i].val
    BY <1>1, DueShrinks
  <2>2. i \in pend \/ \E k \in 1 .. Len(rcvq) : rcvq[k] = i
    BY <2>1 DEF PathInv, Kept
  <2>3. ASSUME i \in gone PROVE FALSE
    <3>1. i \in 1 .. Len(sent) /\ sent[i] \in Message
      BY <1>2, <2>3
    <3>2. sent[i].val \in Nat /\ m.val \in Nat
      BY <3>1 DEF Message
    <3> QED BY <1>1, <2>1, <2>3, <3>1, <3>2
  <2> QED BY <1>1, <2>2, <2>3
<1>4. \A i \in pend' : i \in pend \/ i = Len(sent) + 1
  BY <1>1
<1>5. Once'
  BY <1>2, <1>4 DEF PathInv, Once
<1>6. InOrder'
  <2> SUFFICES ASSUME "dup" \notin KernelBugs(Case), KeepsOrder(Case), NEW k \in 1 .. Len(rcvq)
               PROVE  /\ \A l \in 1 .. Len(rcvq) : k < l => rcvq[k] < rcvq[l]
                      /\ \A i \in pend' : rcvq[k] < i
    BY <1>2 DEF InOrder, KeepsOrder
  <2>1. /\ \A l \in 1 .. Len(rcvq) : k < l => rcvq[k] < rcvq[l]
        /\ \A i \in pend : rcvq[k] < i
    BY DEF PathInv, InOrder
  <2>2. rcvq[k] < Len(sent) + 1
    BY <1>2
  <2> QED BY <1>4, <2>1, <2>2
<1> QED BY <1>3, <1>5, <1>6 DEF PathInv

\* A message delivered.
LEMMA HandsOverKeeps ==
    ASSUME IInv, PathInv, HandsOver, cur # 0, cur' = cur, Case' = Case
    PROVE  PathInv'
<1>1. PICK i \in pend :
          /\ CanDeliver(i) /\ pend' = pend \ {i}
          /\ \/ rcvq' = Append(rcvq, i)
             \/ "dup" \in KernelBugs(Case) /\ rcvq' = rcvq \o <<i, i>>
  BY DEF HandsOver
<1>2. /\ sent' = sent /\ pend \subseteq 1 .. Len(sent) /\ sent \in Seq(Message)
      /\ rcvq \in Seq(Nat) /\ Len(rcvq) \in Nat /\ i \in Nat
      /\ \A k \in 1 .. Len(rcvq) : rcvq[k] \in 1 .. Len(sent)
  BY DEF HandsOver, IInv, TypeOK
<1>3. /\ Len(rcvq) + 1 \in 1 .. Len(rcvq') /\ rcvq'[Len(rcvq) + 1] = i
      /\ \A k \in 1 .. Len(rcvq) : k \in 1 .. Len(rcvq') /\ rcvq'[k] = rcvq[k]
  <2>1. CASE rcvq' = Append(rcvq, i)
    BY <1>2, <2>1
  <2>2. CASE rcvq' = rcvq \o <<i, i>>
    <3>1. <<i, i>> \in Seq(Nat) /\ Len(<<i, i>>) = 2 /\ <<i, i>>[1] = i
      BY <1>2
    <3> QED BY <1>2, <2>2, <3>1
  <2> QED BY <1>1, <2>1, <2>2
<1>4. Kept'
  <2> SUFFICES ASSUME "lose" \notin KernelBugs(Case), NEW j \in Due
               PROVE  j \in pend' \/ \E k \in 1 .. Len(rcvq') : rcvq'[k] = j
    BY <1>2 DEF Kept, Due
  <2>1. j \in pend \/ \E k \in 1 .. Len(rcvq) : rcvq[k] = j
    BY DEF PathInv, Kept
  <2> QED BY <1>1, <1>3, <2>1
<1>5. ASSUME "dup" \notin KernelBugs(Case)
      PROVE  /\ Len(rcvq') = Len(rcvq) + 1
             /\ \A k \in 1 .. Len(rcvq') : k \in 1 .. Len(rcvq) \/ k = Len(rcvq) + 1
  BY <1>1, <1>2, <1>5
<1>6. Once'
  <2> SUFFICES ASSUME "dup" \notin KernelBugs(Case), NEW k \in 1 .. Len(rcvq')
               PROVE  /\ rcvq'[k] \notin pend'
                      /\ \A l \in 1 .. Len(rcvq') : rcvq'[l] = rcvq'[k] => l = k
    BY DEF Once
  <2>1. \A j \in 1 .. Len(rcvq) : rcvq[j] \notin pend
                                  /\ \A l \in 1 .. Len(rcvq) : rcvq[l] = rcvq[j] => l = j
    BY DEF PathInv, Once
  <2>2. \A j \in 1 .. Len(rcvq) : rcvq'[j] \notin pend /\ rcvq'[j] # i
    BY <1>3, <2>1
  <2> QED BY <1>1, <1>3, <1>5, <2>1, <2>2
<1>7. InOrder'
  <2> SUFFICES ASSUME "dup" \notin KernelBugs(Case), KeepsOrder(Case), NEW k \in 1 .. Len(rcvq')
               PROVE  /\ \A l \in 1 .. Len(rcvq') : k < l => rcvq'[k] < rcvq'[l]
                      /\ \A j \in pend' : rcvq'[k] < j
    BY DEF InOrder, KeepsOrder
  <2>1. \A j \in 1 .. Len(rcvq) : /\ \A l \in 1 .. Len(rcvq) : j < l => rcvq[j] < rcvq[l]
                                  /\ \A l \in pend : rcvq[j] < l
    BY DEF PathInv, InOrder
  <2>2. \A j \in pend : i <= j
    <3>1. i \in pend \cap Turn(Case, sent, pend, rcvq)
      BY <1>1 DEF CanDeliver
    <3> QED BY <1>2, <3>1 DEF KeepsOrder
  <2>3. \A j \in pend' : j \in pend /\ j # i /\ i < j
    <3>1. pend \subseteq Nat
      BY <1>2
    <3> QED BY <1>1, <1>2, <2>2, <3>1
  <2>4. CASE k \in 1 .. Len(rcvq)
    <3>1. rcvq'[k] = rcvq[k] /\ rcvq[k] < i
      BY <1>3, <2>1, <2>4
    <3>2. ASSUME NEW l \in 1 .. Len(rcvq'), k < l PROVE rcvq'[k] < rcvq'[l]
      BY <1>3, <1>5, <2>1, <2>4, <3>1, <3>2
    <3>3. \A j \in pend' : rcvq'[k] < j
      BY <2>1, <2>3, <2>4, <3>1
    <3> QED BY <3>2, <3>3
  <2>5. CASE k = Len(rcvq) + 1
    <3>1. rcvq'[k] = i
      BY <1>3, <2>5
    <3>2. \A l \in 1 .. Len(rcvq') : ~(k < l)
      BY <1>2, <1>5, <2>5
    <3> QED BY <2>3, <3>1, <3>2
  <2> QED BY <1>5, <2>4, <2>5
<1> QED BY <1>4, <1>6, <1>7 DEF PathInv

\* A message given up or lost.
LEMMA GivesUpKeeps ==
    ASSUME IInv, PathInv, GivesUp, cur # 0, cur' = cur, Case' = Case
    PROVE  PathInv'
<1>1. PICK i \in pend :
          pend' = pend \ {i} /\ (sent[i].pol \in {"ttl", "rtx"} \/ "lose" \in KernelBugs(Case))
  BY DEF GivesUp
<1>2. sent' = sent /\ rcvq' = rcvq
  BY DEF GivesUp
<1>3. Due' = Due /\ (sent[i].pol \in {"ttl", "rtx"} => i \notin Due)
  BY <1>2 DEF Due
<1>4. Kept'
  BY <1>1, <1>2, <1>3 DEF PathInv, Kept
<1>5. Once'
  BY <1>1, <1>2 DEF PathInv, Once
<1>6. InOrder'
  BY <1>1, <1>2 DEF PathInv, InOrder, KeepsOrder
<1> QED BY <1>4, <1>5, <1>6 DEF PathInv

\* Every step of a case keeps to it.
LEMMA PathStep ==
    ASSUME IInv, PathInv, [Next]_vars
    PROVE  PathInv'
<1>1. CASE StartCase
  BY <1>1 DEF StartCase, PathInv, Kept, Once, InOrder, Due
<1>2. CASE ~StartCase /\ cur # 0
  <2>1. cur' = cur /\ Case' = Case
    BY <1>2, SameCase
  <2>2. CASE UNCHANGED <<sent, pend, rcvq>>
    <3>1. Due' = Due
      BY <2>2 DEF Due
    <3> QED BY <2>1, <2>2, <3>1 DEF PathInv, Kept, Once, InOrder, KeepsOrder
  <2> QED BY <1>2, <2>1, <2>2, QueueMoves, PostsKeep, HandsOverKeeps, GivesUpKeeps
<1>3. CASE ~StartCase /\ cur = 0
  <2>1. cur' = 0
    BY <1>3, SameCase
  <2> QED BY <2>1 DEF PathInv, Kept, Once, InOrder
<1> QED BY <1>1, <1>2, <1>3

\* So of a kernel that does not lose, or not repeat, this is always so.
LEMMA PathInvariant == Spec => []PathInv
<1>1. Init => PathInv
  BY DEF Init, PathInv, Kept, Once, InOrder
<1> QED BY <1>1, PathStep, InductiveInvariant, PTL DEF Spec

-----------------------------------------------------------------------------
\* The cases whose checks count messages or compare their order, on a kernel with
\* no faults but those that the check of a case is there to detect.
Detects ==
    /\ \A c \in CaseSet :
           \/ c.suite = "prsctp" /\ c.number \in {2, 5, 9, 10}
           \/ c.suite = "strreset"
           \/ c.suite = "ndatasched" /\ NdCase(c.number).sched_cork
    /\ \A c \in CaseSet : KernelBugs(c) \subseteq DetectedBugs(c)
    /\ \A c, msgs, p, arrived : Turn(c, msgs, p, arrived) = AnyTurn(c, msgs, p, arrived)

\* A client that sleeps before it closes closes behind its data; where the order
\* of displacement matters, messages arrive in the order of the calls.
LEMMA DetectsServes ==
    ASSUME Detects, NEW c \in CaseSet, c.suite # "strreset"
    PROVE  /\ Serves(c)
           /\ c.suite = "prsctp" /\ c.number \in {9, 10} => KeepsOrder(c)
<1>1. Settles(c)
  BY SuiteAssumption
<1>2. CASE c.suite = "prsctp" /\ c.number \in {9, 10}
  <2>1. \A msgs, p, arrived : Turn(c, msgs, p, arrived) = TsnOrder(c, msgs, p, arrived)
    BY <1>2 DEF Detects, AnyTurn
  <2>2. OffersOne(c) /\ OffersOldest(c) /\ KeepsOrder(c)
    BY <2>1, TsnOrderServes
  <2> QED BY <1>1, <2>2 DEF Serves
<1>3. CASE ~(c.suite = "prsctp" /\ c.number \in {9, 10})
  <2>1. \A msgs, p, arrived : Turn(c, msgs, p, arrived) = p
    BY <1>3 DEF Detects, AnyTurn
  <2>2. OffersOne(c) /\ OffersOldest(c)
    BY <2>1, AnyOrderServes
  <2> QED BY <1>1, <1>3, <2>2 DEF Serves
<1> QED BY <1>2, <1>3

\* When a server has left its loop behind all data, and none has got lost, all
\* that is due has been read.
LEMMA AllDueRead ==
    ASSUME Over, PathInv, Closed, Serves(Case), "lose" \notin KernelBugs(Case)
    PROVE  \A i \in Due : \E k \in DataAt : rcvq[k] = i
<1>1. CloseInv
  BY DEF Over, Closed, CloseInv
<1>2. nread = Len(rcvq) /\ pend = {}
  BY <1>1, AllRead DEF Over
<1> SUFFICES ASSUME NEW i \in Due PROVE \E k \in DataAt : rcvq[k] = i
  OBVIOUS
<1>3. PICK k \in 1 .. Len(rcvq) : rcvq[k] = i
  BY <1>2 DEF PathInv, Kept, Over
<1>4. ~sent[i].cmd
  BY DEF Due
<1>5. k \in DataAt
  BY <1>2, <1>3, <1>4 DEF DataAt
<1> QED BY <1>3, <1>5

\* And what was delivered once was read once.
LEMMA ReadOnce ==
    ASSUME Over, PathInv, "dup" \notin KernelBugs(Case), NEW k \in DataAt, NEW l \in DataAt,
           rcvq[k] = rcvq[l]
    PROVE  k = l
<1>1. k \in 1 .. Len(rcvq) /\ l \in 1 .. Len(rcvq)
  BY DataRead DEF Over
<1> QED BY <1>1 DEF PathInv, Once, Over

\* What has been read are messages of the log.
LEMMA ReadIsSent ==
    ASSUME IInv, NEW k \in DataAt
    PROVE  rcvq[k] \in 1 .. Len(sent) /\ ~sent[rcvq[k]].cmd /\ k \in Nat
<1>1. k \in 1 .. nread /\ ~sent[rcvq[k]].cmd /\ k \in 1 .. Len(rcvq)
  BY DataRead DEF DataAt
<1> QED BY <1>1, DataRead

\* The burst of strreset: as many messages as were sent, and none of them twice,
\* are all of them, whether or not CLOSE was late.
LEMMA RstExact ==
    ASSUME Programs, Over, PathInv, Case \in CaseSet, Case.suite = "strreset",
           "dup" \notin KernelBugs(Case), Judged(Case), mem.c1 = 0
    PROVE  EachOnce
<1> DEFINE n == Case.number
           e == ExpectedCount(n)
           v == RstCase(n).value
           f == [k \in DataAt |-> rcvq[k]]
<1>1. n \in 0 .. 6
  BY SuiteAssumption
<1>2. /\ e \in Nat \ {0} /\ Due = 2 .. e + 1
      /\ \A i \in 2 .. e + 1 : sent[i] = Filler(n)
      /\ \A i \in 1 .. Len(sent) : ~sent[i].cmd => i \in Due
  BY <1>1, RstSent
<1>3. \A k \in DataAt : rcvq[k] \in Due
  BY <1>2, ReadIsSent DEF Over
<1>4. AllOf(v)
  <2>1. Filler(n).len = v
    BY FillerType
  <2> QED BY <1>2, <1>3, <2>1 DEF AllOf, LenOf
<1>5. Cardinality(DataAt) >= e
  BY <1>4 DEF Judged, JudgedBurst
<1>6. Cardinality(Due) = e /\ IsFiniteSet(Due)
  <2> HIDE DEF e
  <2>1. 2 \in Int /\ e + 1 \in Int /\ ~(2 > e + 1) /\ (e + 1) - 2 + 1 = e
    BY <1>2
  <2> QED BY <1>2, <2>1, FS_Interval
<1> HIDE DEF e
<1>7. f \in Injection(DataAt, Due)
  <2>1. \A k, l \in DataAt : f[k] = f[l] => k = l
    BY ReadOnce
  <2>2. f \in [DataAt -> Due]
    BY <1>3
  <2> QED BY <2>1, <2>2 DEF Injection, IsInjective
<1>8. f \in Surjection(DataAt, Due)
  <2>1. Cardinality(DataAt) \in Nat
    BY DataRead DEF Over
  <2> HIDE DEF f
  <2>2. Cardinality(DataAt) <= Cardinality(Due)
    BY <1>6, <1>7, FS_Injection
  <2>3. Cardinality(DataAt) = Cardinality(Due)
    BY <1>2, <1>5, <1>6, <2>1, <2>2
  <2> QED BY <1>6, <1>7, <2>3, FS_Injection
<1>9. \A i \in Due : \E k \in DataAt : rcvq[k] = i
  <2>1. \A i \in Due : \E k \in DataAt : f[k] = i
    <3> HIDE DEF f
    <3> QED BY <1>8 DEF Surjection
  <2> QED BY <2>1
<1> QED BY <1>3, <1>9, ReadOnce DEF EachOnce

\* The two messages of prsctp: two places at least, and no more by the sum.
LEMMA PrTwoExact ==
    ASSUME Programs, Over, PathInv, Closed, Serves(Case), Case \in CaseSet,
           Case.suite = "prsctp", NEW n, n = Case.number, n \in {2, 5},
           "lose" \notin KernelBugs(Case), Judged(Case), mem.c1 = 0
    PROVE  EachOnce
<1>1. PICK m : Shows(n, m) /\ Says(PrTest(n), m)
  BY PrShows
<1>2. DataOf(m) /\ DueOf(m) = {2, 3} /\ \A i \in 1 .. Len(m) : m[i].len = 100
  BY <1>1 DEF Shows
<1>3. Says(Script(Case), m \o <<Closing>>)
  BY <1>1, <1>2, PrClientSays DEF DataOf
<1>4. /\ Len(m) \in Nat /\ Len(sent) = Len(m) + 1 /\ Due = {2, 3}
      /\ \A i \in 1 .. Len(m) : sent[i] = m[i]
      /\ sent[Len(m) + 1] = Closing
  BY <1>2, <1>3, SentWhenOver, DueWhenOver
<1>5. AllOf(100)
  <2> SUFFICES ASSUME NEW k \in DataAt PROVE LenOf(k) = 100
    BY DEF AllOf
  <2>1. rcvq[k] \in 1 .. Len(sent) /\ ~sent[rcvq[k]].cmd
    BY ReadIsSent DEF Over
  <2>2. Closing.cmd
    BY DEF Closing, CmdMessage
  <2>3. rcvq[k] \in 1 .. Len(m)
    BY <1>4, <2>1, <2>2
  <2> QED BY <1>2, <1>4, <2>3 DEF LenOf
<1>6. PICK k \in DataAt, l \in DataAt : rcvq[k] = 2 /\ rcvq[l] = 3
  BY <1>4, AllDueRead
<1>7. k # l
  BY <1>6
<1>8. Cardinality({k, l}) = 2 /\ {k, l} \subseteq DataAt
  <2>1. {k, l} = {k} \cup {l}
    OBVIOUS
  <2>2. IsFiniteSet({k}) /\ Cardinality({k}) = 1
    BY FS_Singleton
  <2>3. Cardinality({k} \cup {l}) = Cardinality({k}) + 1
    BY <1>7, <2>2, FS_AddElement
  <2> QED BY <2>1, <2>2, <2>3
<1>9. IsFiniteSet(DataAt) /\ Cardinality(DataAt) \in Nat
  BY DataRead DEF Over
<1>10. Cardinality(DataAt) >= 2
  BY <1>8, <1>9, FS_Subset
<1>11. Cardinality(DataAt) = 2
  <2> DEFINE d == Cardinality(DataAt)
  <2>1. JudgedTwo(100)
    BY DEF Judged
  <2>2. mem.c3 = d /\ mem.c4 = 100 * d
    BY <1>5, <2>1 DEF JudgedTwo, SumOf
  <2>3. mem.c1 = Verdict(mem.c4 = IF mem.c3 = 1 THEN 100 ELSE 200)
    BY <1>6, <2>1 DEF JudgedTwo
  <2>4. d \in Nat /\ d >= 2
    BY <1>9, <1>10
  <2> HIDE DEF d
  <2>5. mem.c4 = 200
    BY <2>2, <2>3, <2>4 DEF Verdict
  <2>6. d = 2
    BY <2>2, <2>4, <2>5
  <2> QED BY <2>6 DEF d
<1>12. DataAt = {k, l}
  BY <1>8, <1>9, <1>11, FS_Subset
<1> QED BY <1>4, <1>6, <1>12 DEF EachOnce

\* The messages with a priority: the two large ones are read among the first four,
\* and in the order of the calls nothing comes behind them.
LEMMA PrFourExact ==
    ASSUME Programs, Over, PathInv, Closed, Serves(Case), KeepsOrder(Case), Case \in CaseSet,
           Case.suite = "prsctp", NEW n, n = Case.number, n \in {9, 10},
           KernelBugs(Case) \cap {"lose", "dup"} = {}, Judged(Case), mem.c1 = 0
    PROVE  EachOnce
<1>1. PICK m : Shows(n, m) /\ Says(PrTest(n), m)
  BY PrShows
<1>2. /\ DataOf(m) /\ DueOf(m) = {2, 5, 6, 7} /\ Len(m) = 7
      /\ \A i \in 1 .. 7 : m[i].len = IF i <= 5 THEN 1 ELSE 1000
  BY <1>1 DEF Shows
<1>3. Says(Script(Case), m \o <<Closing>>)
  BY <1>1, <1>2, PrClientSays DEF DataOf
<1>4. /\ Len(sent) = 8 /\ Due = {2, 5, 6, 7}
      /\ \A i \in 1 .. 7 : sent[i] = m[i]
      /\ sent[8] = Closing
  <2>1. /\ Len(sent) = Len(m) + 1
        /\ \A i \in 1 .. Len(m) : sent[i] = m[i]
        /\ sent[Len(m) + 1] = Closing
    <3>1. DataOf(m)
      BY <1>2
    <3> QED BY <1>3, <3>1, SentWhenOver
  <2>2. Due = DueOf(m)
    BY <1>2, <1>3, DueWhenOver
  <2>3. Len(m) + 1 = 8
    BY <1>2
  <2> QED BY <1>2, <2>1, <2>2, <2>3
<1>5. ASSUME NEW k \in DataAt
      PROVE  rcvq[k] \in 1 .. 7 /\ LenOf(k) = IF rcvq[k] <= 5 THEN 1 ELSE 1000
  <2>1. rcvq[k] \in 1 .. Len(sent) /\ ~sent[rcvq[k]].cmd
    BY ReadIsSent DEF Over
  <2>2. Closing.cmd
    BY DEF Closing, CmdMessage
  <2>3. rcvq[k] \in 1 .. 7
    BY <1>4, <2>1, <2>2
  <2> QED BY <1>2, <1>4, <2>3 DEF LenOf
<1>6. DataAt = OfLength(1) \cup OfLength(1000)
  BY <1>5 DEF OfLength
<1>7. /\ \A k, l \in DataAt : k < l => rcvq[k] < rcvq[l]
      /\ \A k, l \in DataAt : rcvq[k] < rcvq[l] => k < l
  <2>1. \A k \in DataAt : k \in 1 .. Len(rcvq) /\ k \in Nat /\ rcvq[k] \in Nat
    BY <1>5, DataRead DEF Over
  <2>2. \A k, l \in DataAt : k < l => rcvq[k] < rcvq[l]
    BY <2>1 DEF PathInv, InOrder, Over
  <2>3. \A k, l \in DataAt : k = l => rcvq[k] = rcvq[l]
    OBVIOUS
  <2>4. \A k, l \in DataAt : k < l \/ k = l \/ l < k
    BY <2>1
  <2>5. ASSUME NEW k \in DataAt, NEW l \in DataAt, rcvq[k] < rcvq[l] PROVE k < l
    <3>1. ~(rcvq[l] < rcvq[k]) /\ rcvq[k] # rcvq[l]
      BY <2>1, <2>5
    <3> QED BY <2>2, <2>3, <2>4, <3>1
  <2> QED BY <2>2, <2>5
<1>8. PICK a \in DataAt, b \in DataAt, c \in DataAt, d \in DataAt :
          rcvq[a] = 2 /\ rcvq[b] = 5 /\ rcvq[c] = 6 /\ rcvq[d] = 7
  <2>1. \A i \in {2, 5, 6, 7} : \E k \in DataAt : rcvq[k] = i
    BY <1>4, AllDueRead
  <2> QED BY <2>1
<1>9. IsFiniteSet(DataAt) /\ Cardinality(DataAt) \in Nat
  BY DataRead DEF Over
<1> DEFINE four == {a, b, c, d}
<1>10. four \subseteq DataAt /\ Cardinality(four) = 4
  <2>1. a # b /\ c \notin {a, b} /\ d \notin {a, b, c}
    BY <1>8
  <2>2. IsFiniteSet({a}) /\ Cardinality({a}) = 1
    BY FS_Singleton
  <2>3. IsFiniteSet({a, b}) /\ Cardinality({a, b}) = 2
    <3>1. {a, b} = {a} \cup {b}
      OBVIOUS
    <3>2. b \notin {a}
      BY <2>1
    <3>3. IsFiniteSet({a} \cup {b}) /\ Cardinality({a} \cup {b}) = Cardinality({a}) + 1
      BY <2>2, <3>2, FS_AddElement
    <3> QED BY <2>2, <3>1, <3>3
  <2>4. IsFiniteSet({a, b, c}) /\ Cardinality({a, b, c}) = 3
    <3>1. {a, b, c} = {a, b} \cup {c}
      OBVIOUS
    <3>2. c \notin {a, b}
      BY <2>1
    <3>3. IsFiniteSet({a, b} \cup {c}) /\ Cardinality({a, b} \cup {c}) = Cardinality({a, b}) + 1
      BY <2>3, <3>2, FS_AddElement
    <3> QED BY <2>3, <3>1, <3>3
  <2>5. Cardinality(four) = 4
    <3>1. four = {a, b, c} \cup {d}
      OBVIOUS
    <3>2. d \notin {a, b, c}
      BY <2>1
    <3>3. Cardinality({a, b, c} \cup {d}) = Cardinality({a, b, c}) + 1
      BY <2>4, <3>2, FS_AddElement
    <3> QED BY <2>4, <3>1, <3>3
  <2> QED BY <2>5
<1> HIDE DEF four
<1>11. Cardinality(DataAt) >= 4
  BY <1>9, <1>10, FS_Subset
<1>12. PICK k \in DataAt, l \in DataAt :
           k < l /\ Rank(l) <= 4 /\ LenOf(k) = 1000 /\ LenOf(l) = 1000
  <2>1. JudgedFour
    BY DEF Judged
  <2> QED BY <1>6, <1>11, <2>1 DEF JudgedFour, TwoLarge
<1>13. rcvq[l] = 7
  <2>1. rcvq[k] \in {6, 7} /\ rcvq[l] \in {6, 7} /\ rcvq[k] < rcvq[l]
    BY <1>5, <1>7, <1>12
  <2> QED BY <2>1
<1>14. \A j \in DataAt : j <= l
  <2> TAKE j \in DataAt
  <2>1. j \in Nat /\ l \in Nat
    BY DataRead DEF Over
  <2>2. rcvq[j] \in 1 .. 7
    BY <1>5
  <2>3. ~(l < j)
    BY <1>7, <1>13, <2>2
  <2> QED BY <2>1, <2>3
<1>15. Cardinality(DataAt) = 4
  <2>1. {j \in DataAt : j <= l} = DataAt
    BY <1>14
  <2>2. Cardinality(DataAt) <= 4
    BY <1>12, <2>1 DEF Rank
  <2> QED BY <1>9, <1>11, <2>2
<1>16. DataAt = four
  BY <1>9, <1>10, <1>15, FS_Subset
<1>17. /\ \A j \in DataAt : rcvq[j] \in {2, 5, 6, 7}
       /\ \A j, h \in DataAt : rcvq[j] = rcvq[h] => h = j
  BY <1>8, <1>16 DEF four
<1> QED BY <1>4, <1>8, <1>17 DEF EachOnce

\* A client of ndatasched with a cork asks for the reset, sends nine messages on
\* its three streams, and closes.
LEMMA TableSays ==
    ASSUME Programs, NEW c \in CaseSet, c.suite = "ndatasched", NdCase(c.number).sched_cork
    PROVE  \E b : /\ DataOf(b) /\ Len(b) = 9 /\ \A i \in 1 .. Len(b) : b[i].pol = "none"
                  /\ Says(Script(c), <<Resetting>> \o b \o <<Closing>>)
<1> DEFINE n == c.number
           D(k) == Data(1024, (k - 1) \div 3 + 1, FALSE, "none", 0)
           C(k) == [op |-> "send", msg |-> D(k)]
           b == [k \in 1 .. 9 |-> D(k)]
           t == [k \in 1 .. 9 |-> C(k)]
<1>1. n \in {0, 1, 7, 13}
  BY CorkedCases
<1>2. NdTest(n) = t
  <2> DEFINE F(k) == SendOn((k - 1) \div 3 + 1, 1024, FALSE)[1]
  <2>1. NdTest(n) = [k \in 1 .. 9 |-> F(k)]
    BY <1>1 DEF NdTest, SchedTests
  <2>2. ASSUME NEW k \in 1 .. 9 PROVE F(k) = C(k)
    BY DEF SendOn, Send, Data
  <2> HIDE DEF F, C
  <2> QED BY <2>1, <2>2
<1>3. ASSUME NEW k \in 1 .. 9
      PROVE  /\ D(k) \in Message /\ ~D(k).cmd /\ D(k).len = 1024 /\ D(k).pol = "none"
             /\ C(k) \in Calls /\ Speaks(C(k)) /\ MessageOf(C(k)) = D(k)
  <2> DEFINE s == (k - 1) \div 3 + 1
             d == Data(1024, s, FALSE, "none", 0)
  <2>1. s \in Nat
    OBVIOUS
  <2>2. D(k) = d
    OBVIOUS
  <2> HIDE DEF s
  <2>3. d \in Message /\ ~d.cmd /\ d.len = 1024 /\ d.pol = "none"
    BY <2>1 DEF Data, Message, Policies
  <2> HIDE DEF d, D
  <2>4. C(k) = [op |-> "send", msg |-> d]
    BY <2>2
  <2> HIDE DEF C
  <2>5. [op |-> "send", msg |-> d] \in Calls
    BY <2>3 DEF Calls
  <2>6. Speaks([op |-> "send", msg |-> d]) /\ MessageOf([op |-> "send", msg |-> d]) = d
    BY DEF Speaks, MessageOf
  <2> HIDE DEF D
  <2> QED BY <2>2, <2>3, <2>4, <2>5, <2>6
<1> HIDE DEF D, C
<1>5. /\ b \in Seq(Message) /\ Len(b) = 9
      /\ \A i \in 1 .. 9 : ~b[i].cmd /\ b[i].len = 1024 /\ b[i].pol = "none"
  BY <1>3
<1>6. /\ t \in Seq(Calls) /\ Len(t) = 9
      /\ \A k \in 1 .. 9 : Speaks(t[k]) /\ b[k] = MessageOf(t[k])
  <2>1. \A k \in 1 .. 9 : t[k] = C(k) /\ b[k] = D(k)
    OBVIOUS
  <2>2. t \in Seq(Calls) /\ Len(t) = 9
    BY <1>3
  <2> HIDE DEF t, b
  <2> QED BY <1>3, <2>1, <2>2
<1> HIDE DEF b, t
<1>7. Says(t, b)
  <2>1. Len(t) = 9 /\ Len(b) = 9 /\ t \in Seq(Calls) /\ b \in Seq(Message)
    BY <1>5, <1>6
  <2>2. ASSUME NEW k \in 1 .. Len(t) PROVE Speaks(t[k]) /\ b[k] = MessageOf(t[k])
    <3>1. k \in 1 .. 9
      BY <2>1
    <3> QED BY <1>6, <3>1
  <2> QED BY <2>1, <2>2, SaysAll
<1>8. Says(Cork(n), << >>)
  <2>1. Cork(n) = Drop("input") \o Do("cork")
    BY DEF Cork
  <2>2. Says(Drop("input"), << >>) /\ Says(Do("cork"), << >>)
    BY SaysOne DEF Rules
  <2> QED BY <2>1, <2>2, SaysAround
<1>9. Says(Uncork(n), << >>)
  <2>1. Uncork(n) = Do("flush") \o SleepFor(10)
    BY <1>1 DEF Uncork, FuzzB
  <2>2. Says(Do("flush"), << >>) /\ Says(SleepFor(10), << >>)
    BY SaysOne
  <2> QED BY <2>1, <2>2, SaysAround
<1>10. Says(Do("enable") \o Cmd(SN_CMD_SET_STRRESET) \o Cork(n), <<Resetting>>)
  <2>1. Says(Do("enable") \o Cmd(SN_CMD_SET_STRRESET), <<Resetting>>)
    BY SaysOne, SaysAround DEF Resetting
  <2> QED BY <1>8, <2>1, SaysAround
<1>11. Script(c) = AroundTest(Do("enable") \o Cmd(SN_CMD_SET_STRRESET) \o Cork(n), t, Uncork(n))
  BY <1>2 DEF Programs, ScriptOf, NdClient
<1> DEFINE setup == Do("enable") \o Cmd(SN_CMD_SET_STRRESET) \o Cork(n)
           reset == <<Resetting>>
<1>14. Says(setup, reset) /\ Script(c) = AroundTest(setup, t, Uncork(n))
  BY <1>10, <1>11
<1> HIDE DEF setup, reset
<1>15. Says(Script(c), reset \o b \o <<Closing>>)
  BY <1>7, <1>9, <1>14, AroundSays
<1>12. Says(Script(c), <<Resetting>> \o b \o <<Closing>>)
  BY <1>15 DEF reset
<1>13. DataOf(b) /\ Len(b) = 9 /\ \A i \in 1 .. Len(b) : b[i].pol = "none"
  BY <1>5 DEF DataOf
<1> QED BY <1>12, <1>13, Zenon

\* The tables of ndatasched: all nine messages are read, and the check has seen
\* the stream of each in its row.
LEMMA TableExact ==
    ASSUME Programs, Over, PathInv, Closed, Serves(Case), Case \in CaseSet,
           Case.suite = "ndatasched", NEW n, n = Case.number, NdCase(n).sched_cork,
           KernelBugs(Case) \cap {"lose", "dup"} = {}, Judged(Case), mem.c1 = 0
    PROVE  EachOnce /\ CameFrom(SchedSids(n))
<1>1. PICK b : /\ DataOf(b) /\ Len(b) = 9 /\ \A i \in 1 .. Len(b) : b[i].pol = "none"
               /\ Says(Script(Case), <<Resetting>> \o b \o <<Closing>>)
  BY TableSays
<1>2. Due = 2 .. 9 + 1 /\ \A i \in 1 .. Len(sent) : ~sent[i].cmd => i \in Due
  <2> DEFINE e == Len(b)
  <2>1. Due = 2 .. e + 1 /\ \A i \in 1 .. Len(sent) : ~sent[i].cmd => i \in Due
    <3> HIDE DEF e
    <3> QED BY <1>1, BetweenSent, Zenon DEF e
  <2>2. e = 9
    BY <1>1
  <2> QED BY <2>1, <2>2
<1>3. EachOnce
  <2>1. \A k \in DataAt : rcvq[k] \in Due
    BY <1>2, ReadIsSent DEF Over
  <2>2. \A i \in Due : \E k \in DataAt : rcvq[k] = i
    BY AllDueRead
  <2>3. \A k, l \in DataAt : rcvq[k] = rcvq[l] => k = l
    BY ReadOnce
  <2> QED BY <2>1, <2>2, <2>3 DEF EachOnce
<1>4. Cardinality(DataAt) = 9
  <2>1. {k \in DataAt : rcvq[k] \in Due} = DataAt
    BY <1>3 DEF EachOnce
  <2>2. Cardinality(DataAt) = Cardinality(Due)
    BY <1>3, <2>1, AsManyAsDue DEF Over
  <2>3. Cardinality(2 .. 9 + 1) = 9
    <3> DEFINE a == 2
               z == 9 + 1
    <3>1. a \in Int /\ z \in Int /\ ~(a > z) /\ z - a + 1 = 9
      OBVIOUS
    <3> HIDE DEF a, z
    <3>2. Cardinality(a .. z) = IF a > z THEN 0 ELSE z - a + 1
      BY <3>1, FS_Interval
    <3> QED BY <3>1, <3>2 DEF a, z
  <2> QED BY <1>2, <2>2, <2>3
<1>5. Len(SchedSids(n)) = 9
  <2>1. n \in {0, 1, 7, 13}
    BY CorkedCases
  <2> QED BY <2>1 DEF SchedSids
<1>6. JudgedTable(SchedSids(n))
  BY DEF Judged
<1>7. \A k \in DataAt : SidOf(k) = SchedSids(n)[Rank(k)]
  BY <1>6 DEF JudgedTable
<1> QED BY <1>3, <1>4, <1>5, <1>7 DEF CameFrom, SidOf

\* A server exits with success only if it has read exactly the messages due, and
\* in the order of the table where there is one: a kernel that keeps what a policy
\* gives up, that loses what strreset sends, that repeats a message of a pair or
\* that schedules the streams otherwise does not pass its case.
THEOREM NeverFalsePass ==
    ASSUME Programs, Timely, Detects PROVE Spec => []NoFalsePass
<1>1. ASSUME IInv, JudgeInv, LogInv, LeftByClose, Closed, PathInv PROVE NoFalsePass
  <2> SUFFICES ASSUME server = "exited", mem.c1 = 0 PROVE Deserved
    BY DEF NoFalsePass
  <2>1. cur # 0 /\ cur \in 1 .. Len(Cases)
    BY <1>1 DEF JudgeInv, NoneYet, IInv, TypeOK
  <2>2. Case \in CaseSet /\ Judged(Case)
    BY <1>1, <2>1, CaseType DEF JudgeInv
  <2>3. Over
    BY <1>1, <2>1 DEF Over
  <2> DEFINE n == Case.number
  <2>4. KernelBugs(Case) \subseteq DetectedBugs(Case)
    BY <2>2 DEF Detects
  <2>5. CASE Case.suite = "strreset"
    <3>1. "dup" \notin KernelBugs(Case)
      BY <2>4, <2>5 DEF DetectedBugs
    <3>2. EachOnce
      BY <1>1, <2>2, <2>3, <2>5, <3>1, RstExact
    <3> QED BY <1>1, <2>5, <3>2, ExactIs DEF Deserved, Tabled
  <2>6. CASE Case.suite = "prsctp" /\ n \in {2, 5}
    <3>1. Serves(Case)
      BY <2>2, <2>6, DetectsServes
    <3>2. "lose" \notin KernelBugs(Case)
      BY <2>4, <2>6 DEF DetectedBugs
    <3>3. EachOnce
      BY <1>1, <2>2, <2>3, <2>6, <3>1, <3>2, PrTwoExact
    <3> QED BY <1>1, <2>6, <3>3, ExactIs DEF Deserved, Tabled
  <2>7. CASE Case.suite = "prsctp" /\ n \in {9, 10}
    <3>1. Serves(Case) /\ KeepsOrder(Case)
      BY <2>2, <2>7, DetectsServes
    <3>2. KernelBugs(Case) \cap {"lose", "dup"} = {}
      BY <2>4, <2>7 DEF DetectedBugs
    <3>3. EachOnce
      BY <1>1, <2>2, <2>3, <2>7, <3>1, <3>2, PrFourExact
    <3> QED BY <1>1, <2>7, <3>3, ExactIs DEF Deserved, Tabled
  <2>8. CASE Case.suite = "ndatasched" /\ NdCase(n).sched_cork
    <3>1. Serves(Case)
      BY <2>2, <2>8, DetectsServes
    <3>2. KernelBugs(Case) \cap {"lose", "dup"} = {}
      BY <2>4, <2>8 DEF DetectedBugs
    <3>3. EachOnce /\ CameFrom(SchedSids(n))
      BY <1>1, <2>2, <2>3, <2>8, <3>1, <3>2, TableExact
    <3> QED BY <1>1, <3>3, ExactIs DEF Deserved
  <2> QED BY <2>2, <2>5, <2>6, <2>7, <2>8 DEF Detects
<1>2. IInv /\ JudgeInv /\ LogInv /\ LeftByClose /\ Closed /\ PathInv => NoFalsePass
  BY <1>1
<1> QED BY <1>2, InductiveInvariant, JudgeInvariant, LogInvariant, ClosedInvariant, PathInvariant, PTL
=============================================================================
