----------------------------- MODULE PrSctp -----------------------------
(***************************************************************************)
(* The cases of sctp_pr.c: which messages a client sends while the filter  *)
(* holds DATA chunks, and how the server judges what arrives.              *)
(***************************************************************************)
EXTENDS SnScript

\* sn_cases[]: policy, value and length; drop is 1 in every row.
PrCase(c) ==
    CASE c \in 0 .. 2  -> [flags |-> "ttl",  value |-> 5000, length |-> 1024]
      [] c \in 3 .. 5  -> [flags |-> "rtx",  value |-> 2,    length |-> 1024]
      [] c \in 6 .. 8  -> [flags |-> "prio", value |-> 2,    length |-> 4500]
      [] c \in 9 .. 10 -> [flags |-> "prio", value |-> 2,    length |-> 500]

\* A sn_reopen_asoc_streams() that forgets the iptables -F.
ReopenNoFlush == SleepFor(10)

Reopen == Do("flush") \o SleepFor(10)

\* sn_do_test_pr() and sn_do_test_pr_b(): the second message is expected alone.
TestPr(r, u) ==
    Drop("data") \o Send(r.length, 1, u, r.flags, r.value) \o SleepFor(10)
    \o Send(1000, 1, u, "none", 0) \o Reopen

TestPrC(r) ==
    Drop("data") \o Send(100, 1, TRUE, r.flags, r.value) \o SleepFor(10)
    \o Send(100, 1, TRUE, "none", 0) \o Send(100, 1, FALSE, "none", 0) \o Reopen

\* sn_do_test_pr_x() and _bx(): the second message displaces the first.
TestPrX(r, u) ==
    Do("sndbuf") \o Drop("data") \o Send(r.length, 1, u, r.flags, r.value)
    \o Send(1000, 1, u, r.flags, r.value - 1) \o Reopen

TestPrCX(r) ==
    Do("sndbuf") \o Drop("data") \o Send(r.length, 1, TRUE, r.flags, r.value)
    \o Send(1000, 1, TRUE, r.flags, r.value - 1)
    \o Send(1000, 1, FALSE, r.flags, r.value - 1) \o Reopen

\* sn_do_test_pr_cxx() and _cxxx(): message k goes to stream s[k]; the thread
\* opens the filter while the last two messages may wait for buffer space.
TestPrCXX(r, s) ==
    Do("sndbuf") \o Drop("data")
    \o Send(1, s[1], TRUE, r.flags, r.value)
    \o Send(1, s[2], TRUE, r.flags, r.value - 1)
    \o Send(1, s[3], TRUE, r.flags, r.value)
    \o Send(1, s[4], TRUE, r.flags, r.value)
    \o Send(1, s[5], TRUE, r.flags, r.value - 1)
    \o SleepFor(10) \o Do("spawn")
    \o Send(1000, s[6], TRUE, r.flags, r.value - 1)
    \o Send(1000, s[7], FALSE, r.flags, r.value - 1)
    \o Do("join") \o SleepFor(3)

CleanupSctp == SleepFor(3) \o Reopen

PrTest(c) ==
    LET r == PrCase(c)
    IN  CASE c \in {0, 3} -> TestPr(r, FALSE)
          [] c \in {1, 4} -> TestPr(r, TRUE)
          [] c \in {2, 5} -> TestPrC(r)
          [] c = 6 -> TestPrX(r, FALSE)
          [] c = 7 -> TestPrX(r, TRUE)
          [] c = 8 -> TestPrCX(r)
          [] c = 9 -> TestPrCXX(r, <<1, 1, 1, 1, 1, 1, 1>>)
          [] c = 10 -> TestPrCXX(r, <<0, 1, 2, 3, 4, 2, 3>>)

\* A client that makes the reset exchange of its sibling strreset.c.
PrClientResets(c) ==
    AroundTest(Do("enable") \o Cmd(SN_CMD_SET_STRRESET), PrTest(c), SleepFor(5))

PrClient(c) == AroundTest(<< >>, PrTest(c), SleepFor(5))

(***************************************************************************)
(* The check functions.  cb[1] is the verdict, cb[2] the length just read, *)
(* cb[3] counts messages and cb[4], beyond the array, adds up lengths.     *)
(***************************************************************************)
Verdict(good) == IF good THEN 0 ELSE 1

\* Check functions with a bug: a count that is taken before it is raised,
\* verdicts that look at the first messages only, and a length that is compared
\* where the sum should be.
CheckPrCCountsLate(m, unit) ==
    LET sum == m.c4 + m.c2
    IN  [m EXCEPT !.c3 = @ + 1, !.c4 = sum,
                  !.c1 = Verdict(sum = IF m.c3 = 1 THEN unit ELSE 2 * unit)]

CheckPrCFirstTwo(m, unit) ==
    LET n == m.c3 + 1
        sum == m.c4 + m.c2
    IN  [m EXCEPT !.c3 = n, !.c4 = sum,
                  !.c1 = IF n \in 1 .. 2 THEN Verdict(sum = n * unit) ELSE @]

CheckPrCXXFirst(m) ==
    [m EXCEPT !.c3 = @ + 1, !.c4 = @ + m.c2,
              !.c1 = IF m.c3 = 0 THEN Verdict(m.c2 = 1) ELSE @]

CheckPrCXXLength(m) ==
    LET n == m.c3 + 1
        expected == <<1, 2, 1002, 2002>>
    IN  [m EXCEPT !.c3 = n, !.c4 = @ + m.c2,
                  !.c1 = IF n \in 1 .. 4 THEN Verdict(m.c2 = expected[n]) ELSE @]

CheckPr(m) == [m EXCEPT !.c1 = Verdict(m.c2 = 1000)]

\* sn_do_check_pr_c() with unit 100 and sn_do_check_pr_cx() with unit 1000.
CheckPrC(m, unit) ==
    LET n == m.c3 + 1
        sum == m.c4 + m.c2
    IN  [m EXCEPT !.c3 = n, !.c4 = sum,
                  !.c1 = Verdict(sum = IF n = 1 THEN unit ELSE 2 * unit)]

CheckPrCXX(m) ==
    LET n == m.c3 + 1
        sum == m.c4 + m.c2
        expected == <<1, 2, 1002, 2002>>
    IN  [m EXCEPT !.c3 = n, !.c4 = sum,
                  !.c1 = IF n \in 1 .. 4 THEN Verdict(sum = expected[n]) ELSE @]

PrCheck(c, m) ==
    CASE c \in {0, 1, 3, 4, 6, 7} -> CheckPr(m)
      [] c \in {2, 5} -> CheckPrC(m, 100)
      [] c = 8 -> CheckPrC(m, 1000)
      [] c \in {9, 10} -> CheckPrCXX(m)
==========================================================================
