---------------------------- MODULE StrReset ----------------------------
(***************************************************************************)
(* The cases of strreset.c: messages before and after a stream or an       *)
(* association reset, with and without a filter.  Every case is counted by *)
(* the sum of the lengths that arrived.                                    *)
(***************************************************************************)
EXTENDS SnScript

CONSTANT Burst      \* messages sent in a row before a reset; 70000 in the code
ASSUME BurstAssumption == Burst \in Nat \ {0}

RstCase(c) ==
    [drop  |-> CASE c \in {0, 4, 5} -> "data" [] c \in {1, 2, 3} -> "no" [] c = 6 -> "all",
     value |-> IF c \in {2, 3} THEN 6000 ELSE 100]

Msg(c) == Send(RstCase(c).value, 1, FALSE, "none", 0)
Msgs(c, n) == [k \in 1 .. n |-> Msg(c)[1]]

\* sctp_set_strreset_inoutreq_1() and sctp_set_strreset_assoc() alike.
SetReset == Do("reset") \o SleepFor(3)

\* sn_close_asoc_streams() and sn_reopen_asoc_streams() return at once when the
\* row has no drop.
CloseFor(c) == IF RstCase(c).drop = "no" THEN << >> ELSE Drop(RstCase(c).drop)
ReopenFor(c) == IF RstCase(c).drop = "no" THEN << >> ELSE Do("flush") \o SleepFor(10)

\* sn_do_test_pr() and sn_do_test_pr_asoc().
TestBurst(c) ==
    Msgs(c, Burst) \o SleepFor(5) \o SetReset \o SleepFor(5) \o Msg(c)

TestResetX(c) ==
    CloseFor(c) \o Msgs(c, 10) \o SetReset \o SleepFor(10) \o SetReset
    \o Msg(c) \o ReopenFor(c)

TestAsocX(c) ==
    CloseFor(c) \o Msgs(c, 10) \o SetReset \o SleepFor(10) \o SetReset
    \o ReopenFor(c) \o SleepFor(10) \o SetReset \o Msg(c)

\* The same test without sn_reopen_asoc_streams() at its end.
TestAsocXXNoReopen(c) ==
    Msgs(c, 10) \o SleepFor(5) \o CloseFor(c) \o SetReset \o Msgs(c, 4)
    \o SleepFor(5)

TestAsocXX(c) ==
    Msgs(c, 10) \o SleepFor(5) \o CloseFor(c) \o SetReset \o Msgs(c, 4)
    \o SleepFor(5) \o ReopenFor(c)

RstTest(c) ==
    CASE c \in 0 .. 3 -> TestBurst(c)
      [] c = 4 -> TestResetX(c)
      [] c = 5 -> TestAsocX(c)
      [] c = 6 -> TestAsocXX(c)

RstClient(c) ==
    AroundTest(Do("enable") \o Cmd(SN_CMD_SET_STRRESET), RstTest(c), << >>)

\* Expected numbers that are one too low and one too high.
ExpectedCountShort(c) ==
    CASE c \in 0 .. 3 -> Burst [] c \in {4, 5} -> 10 [] c = 6 -> 13
ExpectedCountLong(c) ==
    CASE c \in 0 .. 3 -> Burst + 2 [] c \in {4, 5} -> 12 [] c = 6 -> 15

\* The number of messages each check function multiplies values[0] with.
ExpectedCount(c) ==
    CASE c \in 0 .. 3 -> Burst + 1 [] c \in {4, 5} -> 11 [] c = 6 -> 14

\* sn_do_check_pr(), _x() and _xx(): the verdict is only ever cleared.
RstCheck(c, m) ==
    LET sum == m.c3 + m.c2
    IN  [m EXCEPT !.c3 = sum,
                  !.c1 = IF sum = ExpectedCount(c) * RstCase(c).value THEN 0 ELSE @]
==========================================================================
