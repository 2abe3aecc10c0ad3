---------------------------- MODULE PeeloffBusy ----------------------------
(***************************************************************************)
(* The regression case peeloffbusy: client.c, whose main thread fills the  *)
(* send buffer of an association behind a filter that drops its data,      *)
(* until it sleeps in sctp_sendmsg(), while another thread peels the       *)
(* association off to a socket of its own and flushes the filter.          *)
(*                                                                         *)
(* The kernel is external.  It hands a sleeping sender's association over  *)
(* and fails the send with EPIPE ("epipe"), or denies the peel-off while   *)
(* somebody sleeps ("deny"), or never wakes the sender again ("stuck").    *)
(***************************************************************************)
EXTENDS Naturals

CONSTANTS
    Sends,      \* turns of the loop of main(), 100
    SndBufs,    \* how many messages a send buffer may have room for
    Kernels,    \* subset of {"epipe", "deny", "stuck"}
    Timely,     \* sleep(5) is long enough for main() and short for SCTP
    Faults      \* whether system calls may fail

ASSUME SendsAssumption == Sends \in Nat
ASSUME SndBufsAssumption == SndBufs \subseteq Nat \ {0}
ASSUME KernelsAssumption == Kernels \subseteq {"epipe", "deny", "stuck"}
ASSUME FlagsAssumption == Timely \in BOOLEAN /\ Faults \in BOOLEAN

VARIABLES
    kernel, sndbuf, \* what the case runs on
    main,       \* the call the main thread is in
    i,          \* its loop
    pass,       \* its verdict
    thr,        \* the call the other thread is in
    assoc,      \* "peeled": moved while nobody slept, "stolen": under a sleeper
    queue,      \* messages in the send buffer of the association
    rule,       \* whether the filter drops what the host sends
    causes      \* what went wrong around the kernel's peel-off

vars == <<kernel, sndbuf, main, i, pass, thr, assoc, queue, rule, causes>>

TypeOK ==
    /\ kernel \in Kernels /\ sndbuf \in SndBufs
    /\ main \in {"connect", "create", "filter", "send", "asleep", "join", "exited"}
    /\ i \in 0 .. Sends
    /\ pass \in BOOLEAN
    /\ thr \in {"none", "failed", "asoc_id", "sleep", "peeloff", "flush", "done"}
    /\ assoc \in {"none", "up", "peeled", "stolen", "lost"}
    /\ queue \in 0 .. sndbuf
    /\ rule \in BOOLEAN
    /\ causes \in SUBSET {"call", "late", "lost"}

Init ==
    /\ kernel \in Kernels /\ sndbuf \in SndBufs
    /\ main = "connect" /\ i = 0 /\ pass = FALSE
    /\ thr = "none"
    /\ assoc = "none" /\ queue = 0
    /\ rule = FALSE
    /\ causes = {}

Failed == Faults /\ causes' = causes \cup {"call"}

-----------------------------------------------------------------------------
(* The main thread. *)

Connect ==
    /\ main = "connect"
    /\ assoc' = "up" /\ main' = "create"
    /\ UNCHANGED <<kernel, sndbuf, i, pass, thr, queue, rule, causes>>

\* The address is not one, or nobody listens there: goto out.
ConnectFails ==
    /\ main = "connect" /\ Failed
    /\ main' = "exited"
    /\ UNCHANGED <<kernel, sndbuf, i, pass, thr, assoc, queue, rule>>

\* The result of pthread_create() is not looked at.
CreateThread ==
    /\ main = "create"
    /\ main' = "filter"
    /\ \/ thr' = "asoc_id" /\ UNCHANGED causes
       \/ thr' = "failed" /\ Failed
    /\ UNCHANGED <<kernel, sndbuf, i, pass, assoc, queue, rule>>

\* system("iptables -A ..."), unchecked.
FilterData ==
    /\ main = "filter"
    /\ main' = "send"
    /\ \/ rule' = TRUE /\ UNCHANGED causes
       \/ UNCHANGED rule /\ Failed
    /\ UNCHANGED <<kernel, sndbuf, i, pass, thr, assoc, queue>>

SendingOnceMore == main = "send" /\ i <= Sends
Sending == main = "send" /\ i < Sends

SendMsg ==
    /\ Sending
    /\ assoc = "up" /\ queue < sndbuf
    /\ queue' = queue + 1 /\ i' = i + 1
    /\ UNCHANGED <<kernel, sndbuf, main, pass, thr, assoc, rule, causes>>

\* No room: the call sleeps.
SendSleeps ==
    /\ Sending
    /\ assoc = "up" /\ queue >= sndbuf
    /\ main' = "asleep"
    /\ UNCHANGED <<kernel, sndbuf, i, pass, thr, assoc, queue, rule, causes>>

\* (Mutant: any error passes.)
SendErrorPasses ==
    /\ Sending
    /\ assoc = "peeled"
    /\ pass' = TRUE /\ main' = "join"
    /\ UNCHANGED <<kernel, sndbuf, i, thr, assoc, queue, rule, causes>>

\* Another error than EPIPE: the peer is peeled off (EADDRNOTAVAIL), or any.
SendError ==
    /\ Sending
    /\ \/ assoc = "peeled" /\ UNCHANGED causes
       \/ assoc = "up" /\ Failed
    /\ i' = i + 1
    /\ UNCHANGED <<kernel, sndbuf, main, pass, thr, assoc, queue, rule>>

\* There is room again, and the association is where it was.
WakeAndSend ==
    /\ main = "asleep"
    /\ assoc = "up" /\ queue < sndbuf
    /\ main' = "send"
    /\ queue' = queue + 1 /\ i' = i + 1
    /\ UNCHANGED <<kernel, sndbuf, pass, thr, assoc, rule, causes>>

\* The sleeper finds its association moved, once there is room, or dead.
WakeToEpipe ==
    /\ main = "asleep"
    /\ \/ assoc = "stolen" /\ queue < sndbuf /\ kernel # "stuck"
       \/ assoc = "lost"
    /\ pass' = TRUE
    /\ main' = "join"
    /\ UNCHANGED <<kernel, sndbuf, i, thr, assoc, queue, rule, causes>>

LoopEnds ==
    /\ main = "send" /\ i = Sends
    /\ main' = "join"
    /\ UNCHANGED <<kernel, sndbuf, i, pass, thr, assoc, queue, rule, causes>>

\* (Mutant: exit without the join.)
ExitWithoutJoin ==
    /\ main = "join"
    /\ main' = "exited"
    /\ UNCHANGED <<kernel, sndbuf, i, pass, thr, assoc, queue, rule, causes>>

\* pthread_join() and the exit.  Joining a thread that was never created is
\* undefined: the client crashes, or goes on.
JoinAndExit ==
    /\ main = "join"
    /\ \/ thr = "done" /\ UNCHANGED pass
       \/ thr = "failed" /\ pass' \in {pass, FALSE}
    /\ main' = "exited"
    /\ UNCHANGED <<kernel, sndbuf, i, thr, assoc, queue, rule, causes>>

-----------------------------------------------------------------------------
(* The thread peeloff_sctp(). *)

GetAsocId ==
    /\ thr = "asoc_id"
    /\ \/ thr' = "sleep" /\ UNCHANGED causes
       \/ thr' = "flush" /\ Failed
    /\ UNCHANGED <<kernel, sndbuf, main, i, pass, assoc, queue, rule>>

\* (Mutant: without the sleep.)
NoSleep ==
    /\ thr = "sleep"
    /\ thr' = "peeloff"
    /\ UNCHANGED <<kernel, sndbuf, main, i, pass, assoc, queue, rule, causes>>

\* sleep(5): main() is to sleep by then, or to be through with its loop.
ThreadWakes ==
    /\ thr = "sleep"
    /\ thr' = "peeloff"
    /\ \/ main \in {"asleep", "join"} /\ UNCHANGED causes
       \/ main \notin {"asleep", "join"} /\ ~Timely /\ causes' = causes \cup {"late"}
    /\ UNCHANGED <<kernel, sndbuf, main, i, pass, assoc, queue, rule>>

\* getsockopt(); one that fails is printed, and the thread goes on.
Peeloff ==
    /\ thr = "peeloff"
    /\ thr' = "flush"
    /\ \/ /\ assoc' = IF assoc # "up" THEN assoc
                      ELSE IF main # "asleep" THEN "peeled"
                      ELSE IF kernel = "deny" THEN "up" ELSE "stolen"
          /\ UNCHANGED causes
       \/ UNCHANGED assoc /\ Failed
    /\ UNCHANGED <<kernel, sndbuf, main, i, pass, queue, rule>>

\* (Mutant: of the input chain only.)
FlushInput ==
    /\ thr = "flush"
    /\ thr' = "done"
    /\ UNCHANGED <<kernel, sndbuf, main, i, pass, assoc, queue, rule, causes>>

\* system("iptables -F"), unchecked.
Flush ==
    /\ thr = "flush"
    /\ thr' = "done"
    /\ \/ rule' = FALSE /\ UNCHANGED causes
       \/ UNCHANGED rule /\ Failed
    /\ UNCHANGED <<kernel, sndbuf, main, i, pass, assoc, queue>>

-----------------------------------------------------------------------------
(* The network. *)

Deliver ==
    /\ ~rule /\ queue > 0
    /\ queue' = queue - 1
    /\ UNCHANGED <<kernel, sndbuf, main, i, pass, thr, assoc, rule, causes>>

\* After minutes of retransmissions SCTP gives the association up.
GiveUp ==
    /\ ~Timely
    /\ rule /\ queue > 0 /\ assoc = "up" /\ main \in {"asleep", "join"}
    /\ assoc' = "lost" /\ queue' = 0
    /\ causes' = causes \cup {"lost"}
    /\ UNCHANGED <<kernel, sndbuf, main, i, pass, thr, rule>>

Main ==
    \/ Connect \/ ConnectFails \/ CreateThread \/ FilterData
    \/ SendMsg \/ SendSleeps \/ SendError \/ WakeAndSend \/ WakeToEpipe
    \/ LoopEnds \/ JoinAndExit

Thread == GetAsocId \/ ThreadWakes \/ Peeloff \/ Flush

Next == Main \/ Thread \/ Deliver \/ GiveUp

Spec == Init /\ [][Next]_vars /\ WF_vars(Main) /\ WF_vars(Thread) /\ WF_vars(Deliver)

-----------------------------------------------------------------------------
\* A pass is earned: the association was taken from under the sleeping sender,
\* or SCTP had given it up, for which the client, looking at errno alone,
\* passes as well.
PassMeansStolen ==
    pass => (assoc = "stolen" /\ kernel # "deny") \/ "lost" \in causes

\* On a kernel that fails the sender with EPIPE the case fails only if a call
\* failed, the five seconds were too short, or the buffer had room for all the
\* hundred messages.
FailHasCause ==
    main = "exited" /\ ~pass /\ kernel = "epipe" => causes # {} \/ sndbuf >= Sends

\* The filter is not left behind on the host, which do_clean would not repair:
\* the thread's flush comes after the filter unless it is late or a call fails.
NoRuleLeft == main = "exited" /\ causes = {} => ~rule

\* The client ends, unless the kernel never wakes the sender or a failed call
\* has left it behind the filter.
Ends ==
    \/ <>(main = "exited")
    \/ <>[](main = "asleep" /\ (kernel = "stuck" \/ "call" \in causes))
=============================================================================
