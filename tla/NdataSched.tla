---------------------------- MODULE NdataSched ----------------------------
(***************************************************************************)
(* The cases of sctp_ndata.c: a client chooses a stream scheduler, closes  *)
(* its streams while it queues messages on several of them (the cork), and *)
(* the server compares the streams of the arriving messages with a table.  *)
(* The performance and fuzz cases send without a cork.                     *)
(***************************************************************************)
EXTENDS SnScript

CONSTANTS
    Rounds, Count,   \* of the uncorked cases: 10000 or 1000, and 10 in the code
    Width,           \* the streams those cases send on; 10 in the code
    FuzzEnds         \* the case that rand() picks last in a fuzz B case
ASSUME RoundsAssumption ==
    Rounds \in Nat \ {0} /\ Count \in Nat \ {0} /\ Width \in Nat \ {0} /\ FuzzEnds \in 0 .. 20

\* sn_cases[]: the scheduler and the cork.
NdCase(c) ==
    [sched |-> CASE c \in 0 .. 6 -> "prio" [] c \in 7 .. 12 -> "rr" [] c \in 13 .. 20 -> "fcfs",
     sched_cork |-> c \in {0, 1, 7, 13}]

\* sched_sids of the corked cases.
SchedSids(c) ==
    CASE c = 0 -> <<3, 3, 3, 2, 2, 2, 1, 1, 1>>
      [] c = 1 -> <<3, 3, 3, 1, 2, 1, 2, 1, 2>>
      [] c = 7 -> <<1, 2, 3, 1, 2, 3, 1, 2, 3>>
      [] c = 13 -> <<1, 1, 1, 2, 2, 2, 3, 3, 3>>

\* Values that grow with the stream: the priorities turned round.
SchedValueBySid(c, sid) == sid

(***************************************************************************)
(* The stream values that do_setup_schedvalue() sets; a stream that is not *)
(* named keeps 0.  Only the priority scheduler looks at them.              *)
(***************************************************************************)
SchedValue(c, sid) ==
    CASE c = 0 -> IF sid \in 1 .. 3 THEN 10 - sid ELSE 0
      [] c = 1 -> IF sid \in 1 .. 3 THEN (10 - sid) \div 8 + 8 ELSE 0
      [] OTHER -> IF sid \in 0 .. 9 THEN 10 - sid ELSE 0

(***************************************************************************)
(* The kernel's schedulers, on the messages msgs[i], i in p, of which the  *)
(* streams' oldest compete: first come first served, the streams in turn,  *)
(* or in turn among the streams of the lowest value.                       *)
(***************************************************************************)
LastSid(msgs, arrived) ==
    IF arrived = << >> THEN 0 ELSE msgs[arrived[Len(arrived)]].sid

InTurn(sids, last) ==
    LET after == {s \in sids : s > last}
        from == IF after # {} THEN after ELSE sids
    IN  CHOOSE s \in from : \A t \in from : s <= t

Heads(msgs, p, sid) ==
    {i \in p : msgs[i].sid = sid /\ \A j \in p : msgs[j].sid = sid => i <= j}

TurnUnder(r, msgs, p, arrived) ==
    LET sids == {msgs[i].sid : i \in p}
        best == {s \in sids : \A t \in sids : SchedValue(r, s) <= SchedValue(r, t)}
    IN  IF p = {} THEN {}
        ELSE CASE NdCase(r).sched = "fcfs" -> TsnOrder(r, msgs, p, arrived)
               [] NdCase(r).sched = "rr" ->
                      Heads(msgs, p, InTurn(sids, LastSid(msgs, arrived)))
               [] NdCase(r).sched = "prio" ->
                      Heads(msgs, p, InTurn(best, LastSid(msgs, arrived)))

\* The cases whose test sets scheduler and values of a row drawn by rand() in
\* every round, under which the messages of earlier rounds go out as well.
FuzzB == {6, 12}

SchedTurn(c, msgs, p, arrived) ==
    IF c \in FuzzB THEN UNION {TurnUnder(r, msgs, p, arrived) : r \in 0 .. 20}
    ELSE TurnUnder(c, msgs, p, arrived)

(***************************************************************************)
(* The tests.                                                              *)
(***************************************************************************)
SendOn(sid, len, unord) == Send(len, sid, unord, "none", 0)

\* sn_do_sched_tests(): three messages on each of the streams 1, 2 and 3.
SchedTests == [k \in 1 .. 9 |-> SendOn((k - 1) \div 3 + 1, 1024, FALSE)[1]]

\* The loops over repeat, stream and count, and the calls in them that have
\* the flag SCTP_UNORDERED: none, all, or in the y variant every second.
Total == Rounds * Width * Count

Flood(len, flagged) ==
    [k \in 1 .. Total |-> SendOn(((k - 1) \div Count) % Width, len, k \in flagged)[1]]
        \o SleepFor(10)

Ordered == {}
Unordered == 1 .. Total
Alternating == {k \in 1 .. Total : k % 2 = 0}

\* rand() % 1500 + 20 and rand() % 3000 + 20 never give the length of a command.
ShortestFuzz == 20

FloodLength(c) ==
    CASE c \in {2, 8, 14, 19, 20} -> 1024
      [] c \in {3, 9, 15} -> 10240
      [] c \in {4, 10, 16} -> 64
      [] c \in {5, 6, 11, 12, 17, 18} -> ShortestFuzz

NdTest(c) ==
    CASE NdCase(c).sched_cork -> SchedTests
      [] c = 19 -> Flood(FloodLength(c), Unordered)
      [] c = 20 -> Flood(FloodLength(c), Alternating)
      [] OTHER -> Flood(FloodLength(c), Ordered)

\* A sn_reopen_asoc_streams() that leaves the rule in place.
UncorkWithoutFlush(c) == SleepFor(10)

\* sn_close_asoc_streams() and sn_reopen_asoc_streams() look at the cork of the
\* case that snc->sched names, which the fuzz B test moves.
Cork(c) ==
    IF NdCase(c).sched_cork THEN Drop("input") \o Do("cork") ELSE << >>

Uncork(c) ==
    IF NdCase(IF c \in FuzzB THEN FuzzEnds ELSE c).sched_cork
    THEN Do("flush") \o SleepFor(10)
    ELSE << >>

NdClient(c) ==
    AroundTest(Do("enable") \o Cmd(SN_CMD_SET_STRRESET) \o Cork(c),
               NdTest(c), Uncork(c))

\* A check whose verdict is that of the last message.
AssertSidOverwrites(c, m) ==
    [m EXCEPT !.c0 = @ + 1,
              !.c1 = IF m.c0 < 9 /\ m.sid = SchedSids(c)[m.c0 + 1] THEN 0 ELSE 1]

(***************************************************************************)
(* do_assert_tests().  cb[0] counts messages or adds up their lengths, and *)
(* cb[1] starts with success.  A tenth message is compared with what lies  *)
(* behind sched_sids: padding and the addresses of functions, never the    *)
(* number of a stream on which data is sent.                               *)
(***************************************************************************)
AssertSid(c, m) ==
    [m EXCEPT !.c0 = @ + 1,
              !.c1 = IF m.c0 < 9 /\ m.sid = SchedSids(c)[m.c0 + 1] THEN @ ELSE 1]

NdCheck(c, m) ==
    CASE NdCase(c).sched_cork -> AssertSid(c, m)
      [] c \in {2, 8, 14, 19, 20} -> [m EXCEPT !.c0 = @ + 1]
      [] OTHER -> [m EXCEPT !.c0 = @ + m.c2]

\* What a performance case adds to cb[0] for a message, and what cb[0] has to
\* reach for it to print its result.
PerfUnit(c) == IF c \in {2, 8, 14, 19, 20} THEN 1 ELSE FloodLength(c)
PerfTotal(c) == Total * PerfUnit(c)

\* The numbers of the code: the rounds of the loops, of ten streams and ten
\* messages, and the total that the check compares cb[0] with.
CodeRounds(c) == IF c \in {2, 8, 14, 19, 20} THEN 10000 ELSE 1000

CodeTotal(c) ==
    CASE c \in {2, 8, 14, 19, 20} -> 1000000
      [] c \in {3, 9, 15} -> 1024000000
      [] c \in {4, 10, 16} -> 6400000

ASSUME TotalAssumption ==
    \A c \in {2, 3, 4, 8, 9, 10, 14, 15, 16, 19, 20} :
        CodeTotal(c) = CodeRounds(c) * 10 * 10 * PerfUnit(c)
===========================================================================
