--------------------------- MODULE SctpHashTable ---------------------------
(***************************************************************************)
(* The performance case sctphashtable: do_test() of test~on_netns.sh runs  *)
(* client.c twice, over IPv4 and IPv6, each under timeout(1).  A client    *)
(* fills the kernel's hash table with Cnt x Cnt associations, times a loop *)
(* of sends over one more, closes all and pauses.  Time is counted from    *)
(* the start of a client; how long its calls take is open, some may never  *)
(* return.                                                                 *)
(***************************************************************************)
EXTENDS Naturals, Sequences, FiniteSets

CONSTANTS
    Cnt,        \* sht_cnt, 50
    Loops,      \* LOOPS, 100000
    Limit,      \* seconds, for timeout(1) and in the client's own check, 1000
    Pause       \* seconds, the sleep() at the end, 30

ASSUME CntAssumption == Cnt \in Nat \ {0} /\ Loops \in Nat
ASSUME TimeAssumption == Limit \in Nat /\ Pause \in Nat /\ Pause <= Limit

Families == <<"ip4", "ip6">>

VARIABLES
    results,    \* what test.sh has logged
    pc,         \* the call the client is in
    fds,        \* its table of sockets, as the set of the entries in use
    sent,       \* i, the loop of sends
    clock,      \* seconds since the client was started
    start,      \* when its loop of sends began
    until,      \* when its pause ends
    why         \* how clients that failed came to their end

vars == <<results, pc, fds, sent, clock, start, until, why>>

Entries == (0 .. Cnt - 1) \X (0 .. Cnt - 1)

TypeOK ==
    /\ results \in Seq({"PASS", "FAIL"}) /\ Len(results) <= Len(Families)
    /\ pc \in {"connect", "assocs", "send", "check", "close", "pause"}
    /\ fds \in SUBSET Entries
    /\ sent \in 0 .. Loops
    /\ clock \in 0 .. Limit /\ start \in 0 .. Limit /\ until \in 0 .. Limit + Pause
    /\ why \in SUBSET {"call", "timeout", "slow"}

NewClient ==
    /\ pc' = "connect" /\ fds' = {} /\ sent' = 0
    /\ clock' = 0 /\ start' = 0 /\ until' = 0

Init ==
    /\ results = <<>>
    /\ pc = "connect" /\ fds = {} /\ sent = 0
    /\ clock = 0 /\ start = 0 /\ until = 0
    /\ why = {}

Finished == Len(results) = Len(Families)
In(call) == ~Finished /\ pc = call

\* The client's process ends; the shell logs its status and goes on.
Exit(result, reason) ==
    /\ results' = Append(results, result)
    /\ why' = why \cup reason
    /\ NewClient

-----------------------------------------------------------------------------
\* The socket of the sends, bound to address 253.253.
Connect ==
    /\ In("connect")
    /\ pc' = "assocs"
    /\ UNCHANGED <<results, fds, sent, clock, start, until, why>>

\* create_assocs(): the two loops, i and j from 1, and the entry they fill.
\* (Mutant: from 0.)
EntryFromOne(k) == <<(k \div Cnt) + 1, (k % Cnt) + 1>>
Entry(k) == <<k \div Cnt, k % Cnt>>

CreateAssoc ==
    /\ In("assocs")
    /\ Cardinality(fds) < Cnt * Cnt
    /\ fds' = fds \cup {Entry(Cardinality(fds))}
    /\ UNCHANGED <<results, pc, sent, clock, start, until, why>>

StartClock ==
    /\ In("assocs")
    /\ Cardinality(fds) = Cnt * Cnt
    /\ pc' = "send"
    /\ start' = clock
    /\ UNCHANGED <<results, fds, sent, clock, until, why>>

Send ==
    /\ In("send")
    /\ sent < Loops
    /\ sent' = sent + 1
    /\ UNCHANGED <<results, pc, fds, clock, start, until, why>>

StopClockEarly ==
    /\ In("send")
    /\ pc' = "check"
    /\ UNCHANGED <<results, fds, sent, clock, start, until, why>>
StopClock ==
    /\ In("send")
    /\ sent = Loops
    /\ pc' = "check"
    /\ UNCHANGED <<results, fds, sent, clock, start, until, why>>

\* if (time_spent > 1000).
TooSlowStrict(spent) == spent >= Limit
TooSlow(spent) == spent > Limit

CheckTime ==
    /\ In("check")
    /\ IF TooSlow(clock - start)
       THEN Exit("FAIL", {"slow"})
       ELSE pc' = "close" /\ UNCHANGED <<results, fds, sent, clock, start, until, why>>

CloseAll ==
    /\ In("close")
    /\ pc' = "pause"
    /\ fds' = {}
    /\ until' = clock + Pause
    /\ UNCHANGED <<results, sent, clock, start, why>>

ExitWell ==
    /\ In("pause")
    /\ clock >= until
    /\ Exit("PASS", {})

\* Every failure of a call is exit(-1).
CallFails ==
    /\ \E call \in {"connect", "assocs", "send"} : In(call)
    /\ Exit("FAIL", {"call"})

\* timeout 1000.
TimeoutNever == FALSE /\ UNCHANGED vars
Timeout ==
    /\ ~Finished
    /\ clock = Limit
    /\ Exit("FAIL", {"timeout"})

Tick ==
    /\ ~Finished
    /\ clock < Limit
    /\ clock' = clock + 1
    /\ UNCHANGED <<results, pc, fds, sent, start, until, why>>

Next ==
    \/ Connect \/ CreateAssoc \/ StartClock \/ Send \/ StopClock \/ CheckTime
    \/ CloseAll \/ ExitWell \/ CallFails \/ Timeout \/ Tick

\* Time goes on and timeout(1) keeps its word; no call has to return.
Spec == Init /\ [][Next]_vars /\ WF_vars(Tick) /\ WF_vars(Timeout)

-----------------------------------------------------------------------------
\* What a PASS is worth: all messages were sent, and the last socket was closed
\* Pause seconds before the timeout.  The "less than 1000 seconds" of client.c
\* are 970, from the start of the client and not of its sends.
PassInTime ==
    [][\A k \in 1 .. Len(results') :
        k > Len(results) /\ results'[k] = "PASS" => sent = Loops /\ until <= Limit]_vars

\* The client never fails by its own check of the time: timeout(1), with the
\* same number, comes first, and what the client measures is a part of that.
OwnCheckIsMoot == "slow" \notin why

\* The case ends even if no call of a client ever returns.
Ends == <>Finished
=============================================================================
