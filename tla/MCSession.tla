----------------------------- MODULE MCSession -----------------------------
(***************************************************************************)
(* SnOrder with the cases, scripts and checks of the three programs.       *)
(***************************************************************************)
EXTENDS SnOrder, PrSctp, StrReset, NdataSched

CasesOf(s, numbers) == [k \in 1 .. Len(numbers) |-> [suite |-> s, number |-> numbers[k]]]

\* The two loops of ndatasched/test.sh.
VerdictNumbers == <<0, 1, 5, 6, 7, 11, 12, 13, 17, 18>>
PerfNumbers == <<2, 3, 4, 8, 9, 10, 14, 15, 16, 19, 20>>

AllCases ==
    CasesOf("prsctp", [k \in 1 .. 11 |-> k - 1])
    \o CasesOf("strreset", [k \in 1 .. 7 |-> k - 1])
    \o CasesOf("ndatasched", VerdictNumbers \o PerfNumbers)

\* The cases that count messages or compare their order.
JudgedCases ==
    CasesOf("prsctp", <<2, 5, 9, 10>>) \o CasesOf("strreset", [k \in 1 .. 7 |-> k - 1])
    \o CasesOf("ndatasched", <<0, 1, 7, 13>>)

ShortCases == CasesOf("strreset", <<0, 1>>) \o CasesOf("prsctp", <<2, 7>>)
OneCase == CasesOf("prsctp", <<0>>)

SuiteOf(c) == c.suite

\* The second loop of ndatasched/test.sh logs the server's output.
JudgedByStatus(c) == ~(c.suite = "ndatasched" /\ c.number \in Range(PerfNumbers))

ScriptOf(c) ==
    CASE c.suite = "prsctp" -> PrClient(c.number)
      [] c.suite = "strreset" -> RstClient(c.number)
      [] c.suite = "ndatasched" -> NdClient(c.number)

\* A function, so that TLC writes each script once.
Clients == [c \in Range(AllCases) |-> ScriptOf(c)]

ClientOf(c) == Clients[c]

CheckOf(c, m) ==
    CASE c.suite = "prsctp" -> PrCheck(c.number, m)
      [] c.suite = "strreset" -> RstCheck(c.number, m)
      [] c.suite = "ndatasched" -> NdCheck(c.number, m)

VerdictOf(c) == IF c.suite = "ndatasched" THEN 0 ELSE 1

\* What each suite needs of sender and path: prsctp takes the chunks in any
\* order, strreset in the order of the calls, ndatasched in the scheduler's.
PromisedTurn(c, msgs, p, arrived) ==
    CASE c.suite = "prsctp" -> p
      [] c.suite = "strreset" -> TsnOrder(c, msgs, p, arrived)
      [] c.suite = "ndatasched" -> SchedTurn(c.number, msgs, p, arrived)

\* Any order, but for the cases whose sums depend on what is displaced when.
AnyTurn(c, msgs, p, arrived) ==
    IF c.suite = "prsctp" /\ c.number \in {9, 10} THEN TsnOrder(c, msgs, p, arrived) ELSE p

\* Where the sleep before CLOSE is missing, the order of the calls has to do,
\* and where a scheduler chooses among streams, no data is behind a reset.
ASSUME SuiteAssumption ==
    \A c \in CaseSet :
        \/ c.suite = "prsctp" /\ c.number \in 0 .. 10 /\ Settles(c)
        \/ c.suite = "strreset" /\ c.number \in 0 .. 6
        \/ c.suite = "ndatasched" /\ c.number \in 0 .. 20 /\ Settles(c) /\ ResetsFresh(c)

NoBugs(c) == {}
Keeps(c) == {"keep"}
LosesOrRepeats(c) == {"lose", "dup"}

\* The faults whose effect the check of a case is there to detect.
DetectedBugs(c) ==
    CASE c.suite = "prsctp" -> IF c.number \in {2, 5} THEN {"keep", "dup"} ELSE {"keep"}
      [] c.suite = "strreset" -> {"lose"}
      [] c.suite = "ndatasched" -> {}

\* The lengths of the first n messages read, added up; a command adds nothing.
LengthRead(k) == IF sent[rcvq[k]].cmd THEN 0 ELSE sent[rcvq[k]].len

LengthsRead[n \in 0 .. nread] ==
    IF n = 0 THEN 0 ELSE LengthsRead[n - 1] + LengthRead(n)

\* The cases of sctp_pr.c whose checks use cb[4], a word beyond the array.
Adds(c) == c.suite = "prsctp" /\ c.number \in {2, 5, 8, 9, 10}

\* The checks that use cb[4] read there the sum of the lengths read so far:
\* nothing else is ever stored in it, because no client of sctp_pr.c sends the
\* command that would.
SumIsExact == server = "loop" /\ Adds(Case) => mem.c4 = LengthsRead[nread]

\* A performance case has printed its result when its server ends.
PerfReported ==
    server = "exited" /\ Case.suite = "ndatasched" /\ Case.number \in Range(PerfNumbers)
        => mem.c0 = PerfTotal(Case.number)

\* Where data stands among the messages read, and the how manieth of it that is.
DataAt == {k \in 1 .. nread : ~sent[rcvq[k]].cmd}
Rank(k) == Cardinality({j \in DataAt : j <= k})

\* The data read has come from these streams, in this order.
CameFrom(sids) ==
    /\ Cardinality(DataAt) = Len(sids)
    /\ \A k \in DataAt : sent[rcvq[k]].sid = sids[Rank(k)]

\* The rows of sctp_ndata.c that have a table.
Tabled(c) == c.suite = "ndatasched" /\ NdCase(c.number).sched_cork

\* What a verdict is about: that exactly the messages due were read, and where
\* there is a table that they came in its order.
Deserved ==
    /\ Exact
    /\ Tabled(Case) => CameFrom(SchedSids(Case.number))

\* A server whose messages were the ones due, in the order due, exits with
\* success.
NoFalseFail == server = "exited" /\ Deserved => mem.c1 = 0

\* A server exits with success only if it read exactly the messages due, and
\* in the order due.
NoFalsePass == server = "exited" /\ mem.c1 = 0 => Deserved

\* "expected 1000": a server of case 0 that exits with success was handed no
\* message of another length, whatever the kernel does.
ExpectedLength ==
    server = "exited" /\ mem.c1 = 0 =>
        \A k \in 1 .. nread : ~sent[rcvq[k]].cmd => sent[rcvq[k]].len = 1000
==========================================================================
