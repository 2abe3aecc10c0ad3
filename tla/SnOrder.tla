---------------------------- MODULE SnOrder ----------------------------
(***************************************************************************)
(* What arrives before what in a session.  Two things are left to the      *)
(* scripts, to the sleeps in them and to the order in which the kernel     *)
(* transmits: that the CLOSE command is the last message the server reads, *)
(* although it has a stream of its own, and that a corked client queues    *)
(* all its messages before the first of them arrives.                      *)
(***************************************************************************)
EXTENDS SnSession

Closes(c, k) == Script(c)[k].op = "cmd" /\ Script(c)[k].len = SN_CMD_CLOSE_ASOC

\* sn_close_asoc_sk() is the end of every client.
ASSUME CloseAssumption ==
    \A c \in CaseSet : \A k \in 1 .. Len(Script(c)) : Closes(c, k) =>
        \A j \in k + 1 .. Len(Script(c)) : Script(c)[j].op \notin {"send", "cmd"}

\* A drop that has no flush behind it before call k is in force at k.
InForce(c, p, k) ==
    Script(c)[p].op = "drop" /\ \A q \in p + 1 .. k - 1 : Script(c)[q].op # "flush"

Corked(c) == \E k \in 1 .. Len(Script(c)) : Script(c)[k].op = "cork"

CorkedAt(c, k) ==
    \E p \in 1 .. Len(Script(c)) :
        /\ p < k /\ Script(c)[p].op = "cork"
        /\ \A q \in p + 1 .. k - 1 : Script(c)[q].op # "flush"

\* A client with a cork has no thread, drops the answers before it asks for the
\* reset, and sends all its messages between that and the flush.
ASSUME CorkAssumption ==
    \A c \in CaseSet : Corked(c) =>
        /\ \A k \in 1 .. Len(Script(c)) : Script(c)[k].op # "spawn"
        /\ \A k \in 1 .. Len(Script(c)) : Script(c)[k].op = "send" => CorkedAt(c, k)
        /\ \A k \in 1 .. Len(Script(c)) : Script(c)[k].op = "cork" =>
               /\ \A j \in 1 .. k - 1 : Script(c)[j].op # "send"
               /\ \E p \in 1 .. k - 1 : InForce(c, p, k) /\ Script(c)[p].rule = "input"

\* The client sleeps before it closes, with its thread joined, and afterwards
\* leaves the filter as it is.
Settles(c) ==
    \A k \in 1 .. Len(Script(c)) : Closes(c, k) =>
        /\ k > 1 /\ Script(c)[k - 1].op = "sleep"
        /\ \A j \in k .. Len(Script(c)) : Script(c)[j].op \notin {"flush", "spawn", "cork"}
        /\ \A p \in 1 .. k - 1 : Script(c)[p].op = "spawn" =>
               \E q \in p + 1 .. k - 1 : Script(c)[q].op = "join"

\* No message is sent before the streams are reset for the first time.
ResetsFresh(c) ==
    \A k \in 1 .. Len(Script(c)) : Script(c)[k].op \in {"reset", "cork"} =>
        \A j \in 1 .. k - 1 : Script(c)[j].op # "send"

(***************************************************************************)
(* What may be asked of sender and path: to transmit something when there  *)
(* is something, the oldest message in particular, or nothing but it.      *)
(***************************************************************************)
Eligible(msgs, p, i) ==
    msgs[i].unord \/ \A j \in p : j < i => msgs[j].unord \/ msgs[j].sid # msgs[i].sid

OffersOne(c) ==
    \A msgs \in Seq(Message) : \A p \in SUBSET (1 .. Len(msgs)) : \A arrived \in Seq(Nat) :
        p # {} => \E i \in p \cap Turn(c, msgs, p, arrived) : Eligible(msgs, p, i)

OffersOldest(c) ==
    \A msgs \in Seq(Message) : \A p \in SUBSET (1 .. Len(msgs)) : \A arrived \in Seq(Nat) :
        \A i \in p : (\A j \in p : i <= j) => i \in Turn(c, msgs, p, arrived)

KeepsOrder(c) ==
    \A msgs \in Seq(Message) : \A p \in SUBSET (1 .. Len(msgs)) : \A arrived \in Seq(Nat) :
        \A i \in p \cap Turn(c, msgs, p, arrived) : \A j \in p : i <= j

\* What a session needs of the kernel for its CLOSE to be the last message.
Serves(c) ==
    /\ OffersOne(c)
    /\ OffersOldest(c) \/ ResetsFresh(c)
    /\ Settles(c) \/ KeepsOrder(c)

(***************************************************************************)
(* Properties.                                                             *)
(***************************************************************************)

\* The CLOSE command does not overtake data, although it travels on a stream of
\* its own: when the server leaves its loop no data message is still queued,
\* and none has been delivered that it has not read.
CloseIsLast ==
    server = "exited" =>
        \A i \in 1 .. Len(sent) : ~sent[i].cmd => i \notin pend /\ ~Unread(i)

\* The cork holds: as long as a corked client has messages to send, none has
\* arrived, so that the order of arrival is the scheduler's and not that of
\* the calls.
CorkHolds ==
    cur # 0 /\ Corked(Case) /\ CallIs("send") =>
        \A k \in 1 .. Len(rcvq) : sent[rcvq[k]].cmd

(***************************************************************************)
(* Why they hold.  Each part speaks of the calls behind the client and of  *)
(* what they have left in the queues, in the filter and in the streams.    *)
(***************************************************************************)
Behind(p) == p \in 1 .. Len(Script(Case)) /\ p < client.pc

Undelivered == \A i \in pend : i > strm.upto

\* A message is there only if its call has been reached, and CLOSE is the last.
SentByCalls ==
    \A i \in 1 .. Len(sent) :
        /\ cur # 0
        /\ ~sent[i].cmd => \E p \in 1 .. Len(Script(Case)) :
                               Behind(p) /\ Script(Case)[p].op = "send"
        /\ sent[i].len = SN_CMD_CLOSE_ASOC =>
               /\ i = Len(sent)
               /\ \E p \in 1 .. Len(Script(Case)) :
                      Closes(Case, p) /\ (Behind(p) \/ (p = client.pc /\ client.wait # 0))

\* A thread that may still flush has been spawned and not been joined.
ThreadAlive ==
    thr \in 1 .. Len(CleanupScript) =>
        \E p \in 1 .. Len(Script(Case)) :
            /\ cur # 0 /\ Behind(p) /\ Script(Case)[p].op = "spawn"
            /\ \A q \in p + 1 .. Len(Script(Case)) : Behind(q) => Script(Case)[q].op # "join"

\* Streams are closed up to a message that has been sent, and where they are
\* reset before any message, up to one that has been delivered.
ClosedStreams ==
    /\ strm.upto <= Len(sent)
    /\ cur # 0 /\ ResetsFresh(Case) /\ strm.closed => Undelivered

\* The filter keeps what a living client without a thread has put into it.
Filtered ==
    cur # 0 /\ client.st = "run" /\ Corked(Case) =>
        \A p \in 1 .. Len(Script(Case)) :
            Behind(p) /\ InForce(Case, p, client.pc) => Script(Case)[p].rule \in rules

\* Behind the cork the association is shut until the flush.
Shut ==
    cur # 0 /\ client.st = "run" /\ Corked(Case) /\ CorkedAt(Case, client.pc) =>
        /\ strm.closed /\ "input" \in rules /\ Undelivered
        /\ \A k \in 1 .. Len(rcvq) : sent[rcvq[k]].cmd

\* When a settled client closes, no data is queued, or none will leave the queue
\* and CLOSE will not either.
Blocked ==
    \/ rules \cap {"data", "all"} # {}
    \/ (strm.closed /\ "input" \in rules /\ Undelivered)

Settled ==
    cur # 0 /\ Settles(Case) =>
        \A k \in 1 .. Len(Script(Case)) :
            Closes(Case, k) /\ k <= client.pc => (\A i \in pend : sent[i].cmd) \/ Blocked

\* Nothing is queued or delivered behind a delivered CLOSE, and the server has
\* left its loop only by reading it.
NothingBehind ==
    \A k \in 1 .. Len(rcvq) :
        sent[rcvq[k]].len = SN_CMD_CLOSE_ASOC => k = Len(rcvq) /\ pend = {}

LeftByClose ==
    server = "exited" => nread > 0 /\ sent[rcvq[nread]].len = SN_CMD_CLOSE_ASOC

\* The parts that need no timing, and the two that do.
CorkInv == SentByCalls /\ ThreadAlive /\ ClosedStreams /\ Filtered /\ Shut
CloseInv == Settled /\ NothingBehind /\ LeftByClose
=========================================================================
