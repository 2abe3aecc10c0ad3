---------------------------- MODULE SnSession ----------------------------
(***************************************************************************)
(* Runs of the conformance suites built on sn_* programs: test.sh starts   *)
(* the program twice for every case, as a server in the foreground and as  *)
(* a client in the background, waits for both and logs PASS or FAIL by the *)
(* server's exit code.  The client connects, exchanges commands with the   *)
(* server, sends data messages while an iptables rule holds them back, and *)
(* ends with the CLOSE command; the server reads messages until that       *)
(* command and judges every other message with the case's check function.  *)
(*                                                                         *)
(* The code is the same in sctp_pr.c, strreset.c and sctp_ndata.c; what    *)
(* differs (the scripts of the cases, the check functions and the stream   *)
(* scheduler in force) is a parameter.  The kernel under test is modelled  *)
(* by what the programs rely on, with the faults that the suites exist to  *)
(* detect as an option (KernelBugs).                                       *)
(***************************************************************************)
EXTENDS SnScript, FiniteSets, FiniteSetsExt

CONSTANTS
    Cases,           \* the cases that test.sh loops over, in order
    Suite(_),        \* the program a case belongs to; each has hosts of its own
    Script(_),       \* do_client() of a case, as the sequence of its calls
    CleanupScript,   \* the calls of the thread cleanup_sctp()
    Check(_, _),     \* do_check_pr() of a case: context to context
    ByStatus(_),     \* whether test.sh logs the server's exit status in a case
    FirstVerdict(_), \* what do_server() stores in cb[1] before its loop
    Turn(_, _, _, _),  \* of the queued messages, those that sender and path
                     \* may deliver next: case, messages, queue, arrived
    AssocId,         \* the association id the server's kernel reports
    SndBuf,          \* bytes of send buffer after SO_SNDBUF
    Overhead,        \* bytes the kernel charges per message on top of its data
    KernelBugs(_),   \* the faults the kernel under test has in a case
    MaxBugs,         \* bound: messages lost, and messages duplicated, per case
    Timely,          \* whether a sleep() lasts until everybody else is quiet
    Faults           \* whether a system call of either program may fail

CaseSet == {Cases[k] : k \in 1 .. Len(Cases)}

ASSUME CasesAssumption == Cases \in Seq(CaseSet) /\ Cases # << >>
ASSUME ScriptAssumption ==
    \A c \in CaseSet :
        /\ Script(c) \in Seq(Calls)
        /\ \A k \in 1 .. Len(Script(c)) :
               Script(c)[k].op = "send" =>
                   ~Script(c)[k].msg.cmd /\ Script(c)[k].msg.len \notin Commands
\* A script that resets streams has made the exchange before.
ASSUME ResetAssumption ==
    \A c \in CaseSet : \A k \in 1 .. Len(Script(c)) :
        Script(c)[k].op \in {"reset", "cork"} =>
            /\ \E i \in 1 .. k - 1 : Script(c)[i].op = "enable"
            /\ \E i \in 1 .. k - 1 :
                   Script(c)[i].op = "cmd" /\ Script(c)[i].len = SN_CMD_SET_STRRESET
ASSUME CleanupAssumption == CleanupScript \in Seq(Calls)
ASSUME NumbersAssumption ==
    /\ \A c \in CaseSet : FirstVerdict(c) \in {0, 1}
    /\ AssocId \in Nat /\ SndBuf \in Nat /\ Overhead \in Nat /\ MaxBugs \in Nat
ASSUME SwitchAssumption ==
    /\ \A c \in CaseSet :
           KernelBugs(c) \subseteq {"keep", "lose", "dup"} /\ ByStatus(c) \in BOOLEAN
    /\ Timely \in BOOLEAN /\ Faults \in BOOLEAN

VARIABLES
    cur,      \* how many cases test.sh has started
    phase,    \* of test.sh: between two cases or waiting for one
    client,   \* the client process: state, next call, command it awaits
    thr,      \* the next call of cleanup_sctp(), 0 when there is no thread
    server,   \* the server process
    mem,      \* the server's sn_context: cb[0] .. cb[3], the word after, sri
    rules,    \* the iptables rules of the client's host
    small,    \* whether SO_SNDBUF has limited the client's send buffer
    enabled,  \* the ends that have enabled stream reset on the association
    strm,     \* whether outgoing streams are closed, and up to which message
    sent,     \* every message of the association, in sending order
    pend,     \* the messages neither delivered nor abandoned
    rcvq,     \* the messages delivered to the server's socket, in order
    nread,    \* how many of those the server has read
    acks,     \* ACK messages on their way to the client
    logged    \* the last verdict that test.sh has logged

suite  == <<cur, phase, logged>>
assoc  == <<enabled, strm, sent, pend, rcvq>>
vars   == <<cur, phase, client, thr, server, mem, rules, small, enabled, strm,
            sent, pend, rcvq, nread, acks, logged>>

NoContext(verdict) ==
    [c0 |-> 0, c1 |-> verdict, c2 |-> 0, c3 |-> 0, c4 |-> 0, sid |-> 0]

Init ==
    /\ cur = 0 /\ phase = "idle" /\ logged = "none"
    /\ client = [st |-> "done", pc |-> 1, wait |-> 0]
    /\ thr = 0 /\ server = "none" /\ mem = NoContext(0)
    /\ rules = {} /\ small = FALSE
    /\ enabled = {} /\ strm = [closed |-> FALSE, upto |-> 0]
    /\ sent = << >> /\ pend = {} /\ rcvq = << >> /\ nread = 0 /\ acks = 0

(***************************************************************************)
(* test.sh.  A case begins with new processes and a new association; the   *)
(* iptables rules outlive a case, but not the hosts of its program.        *)
(***************************************************************************)
NewHosts == cur = 0 \/ Suite(Cases[cur]) # Suite(Cases[cur + 1])

Case == Cases[cur]

StartCase ==
    /\ phase = "idle" /\ cur < Len(Cases)
    /\ cur' = cur + 1 /\ phase' = "running"
    /\ client' = [st |-> "run", pc |-> 1, wait |-> 0]
    /\ thr' = 0 /\ server' = "boot"
    /\ mem' = NoContext(FirstVerdict(Cases[cur + 1]))
    /\ rules' = IF NewHosts THEN {} ELSE rules
    /\ small' = FALSE /\ enabled' = {}
    /\ strm' = [closed |-> FALSE, upto |-> 0]
    /\ sent' = << >> /\ pend' = {} /\ rcvq' = << >> /\ nread' = 0 /\ acks' = 0
    /\ UNCHANGED logged

\* The exit code of the server, `|| res=FAIL', then `wait' for the client; a
\* performance case is logged with what its server has printed.
FinishCase ==
    /\ phase = "running"
    /\ server \in {"exited", "failed"} /\ client.st \in {"done", "failed"}
    /\ phase' = "idle"
    /\ logged' = IF ~ByStatus(Case) THEN "text"
                 ELSE IF server = "exited" /\ mem.c1 = 0 THEN "PASS" ELSE "FAIL"
    /\ UNCHANGED <<cur, client, thr, server, mem, rules, small, assoc, nread, acks>>

(***************************************************************************)
(* What the kernel can do at a moment.                                     *)
(***************************************************************************)
\* A message leaves the queue when no rule of OUTPUT holds its DATA chunk, the
\* streams are open to it, it is unordered or the oldest of its stream, and it
\* is its turn.
CanDeliver(i) ==
    /\ i \in pend /\ rules \cap {"data", "all"} = {}
    /\ strm.closed => i <= strm.upto
    /\ i \in Turn(Case, sent, pend, rcvq)
    /\ \/ sent[i].unord
       \/ \A j \in pend : j < i => sent[j].unord \/ sent[j].sid # sent[i].sid

\* Whether both a request and its answer pass the filter of the client's host.
BothWays == rules \cap {"all", "input"} = {}

\* The answer to a RE-CONFIG request; rule "data" lets the chunk pass.
CanReply ==
    /\ strm.closed /\ BothWays
    /\ \A i \in pend : i > strm.upto

\* A held message whose policy lets the kernel give it up within secs seconds.
\* RTX n: n retransmissions after 1, 2, 4 ... seconds.
CanExpire(i, secs) ==
    /\ i \in pend /\ rules # {}
    /\ \/ sent[i].pol = "ttl" /\ sent[i].val < 1000 * secs
       \/ sent[i].pol = "rtx" /\ 2 ^ (sent[i].val + 1) <= secs

\* Nothing is left to do within secs seconds: what the sleeps are meant for.
Quiet(secs) ==
    /\ server # "boot"
    /\ server = "loop" => nread = Len(rcvq)
    /\ \A i \in pend : ~CanDeliver(i)
    /\ ~CanReply
    /\ "keep" \in KernelBugs(Case) \/ \A i \in pend : ~CanExpire(i, secs)

(***************************************************************************)
(* The client: one action per kind of call, in the order of the script.    *)
(***************************************************************************)
CallIs(o) ==
    /\ client.st = "run" /\ client.wait = 0
    /\ client.pc <= Len(Script(Case))
    /\ Script(Case)[client.pc].op = o

Call == Script(Case)[client.pc]

Return == client' = [client EXCEPT !.pc = @ + 1]
Die == client' = [client EXCEPT !.st = "failed"]

\* connect(): refused by a host that does not listen, and timed out when the
\* filter drops the INIT chunk or its answer; the client then exits.
CreateAsocSk ==
    /\ CallIs("connect")
    /\ IF server = "loop" /\ BothWays THEN Return ELSE Die
    /\ UNCHANGED <<suite, thr, server, mem, rules, small, assoc, nread, acks>>

\* An enable whose setsockopt() has no effect.
EnableAsocStrresetInVain ==
    /\ CallIs("enable") /\ Return
    /\ UNCHANGED <<suite, thr, server, mem, rules, small, assoc, nread, acks>>

EnableAsocStrreset ==
    /\ CallIs("enable") /\ Return
    /\ enabled' = enabled \cup {"client"}
    /\ UNCHANGED <<suite, thr, server, mem, rules, small, strm, sent, pend,
                   rcvq, nread, acks>>

\* The first half of sn_send_asoc_cmd(): an ordered message on stream 0.
SendAsocCmd ==
    /\ CallIs("cmd")
    /\ sent' = Append(sent, CmdMessage(Call.len))
    /\ pend' = pend \cup {Len(sent) + 1}
    /\ client' = [client EXCEPT !.wait = Len(sent) + 1]
    /\ UNCHANGED <<suite, thr, server, mem, rules, small, enabled, strm, rcvq,
                   nread, acks>>

\* A sn_send_asoc_cmd() that does not wait for the answer.
RecvAckNoWait ==
    /\ client.st = "run" /\ client.wait # 0
    /\ acks' = acks - 1
    /\ client' = [client EXCEPT !.pc = @ + 1, !.wait = 0]
    /\ UNCHANGED <<suite, thr, server, mem, rules, small, assoc, nread>>

\* The second half: whatever message arrives next is taken for the answer.
RecvAck ==
    /\ client.st = "run" /\ client.wait # 0 /\ acks > 0
    /\ "input" \notin rules
    /\ acks' = acks - 1
    /\ client' = [client EXCEPT !.pc = @ + 1, !.wait = 0]
    /\ UNCHANGED <<suite, thr, server, mem, rules, small, assoc, nread>>

\* Bytes of the send buffer in use, when the messages in p are queued.
Used(p) == MapThenSumSet(LAMBDA i : sent[i].len + Overhead, p)

\* The messages that a PRIO message of value v may displace.
Displaced(v) == {i \in pend : sent[i].pol = "prio" /\ sent[i].val > v}

\* The messages the kernel drops to make room for m: those of lower priority,
\* when the buffer is short; a kernel with bug "keep" drops only some of them.
Pruned(m) ==
    IF small /\ m.pol = "prio" /\ Used(pend) + m.len > SndBuf
    THEN IF "keep" \in KernelBugs(Case) THEN SUBSET Displaced(m.val) ELSE {Displaced(m.val)}
    ELSE {{}}

\* sctp_sendmsg(): blocks while the limited buffer is full.
Room(gone) == small => Used(pend \ gone) < SndBuf

\* A send that returns, whatever of the displaced messages the kernel drops.
SendReady == CallIs("send") /\ \A gone \in Pruned(Call.msg) : Room(gone)

SendAsocMsg ==
    /\ CallIs("send")
    /\ \E gone \in Pruned(Call.msg) :
           /\ Room(gone)
           /\ pend' = (pend \ gone) \cup {Len(sent) + 1}
    /\ sent' = Append(sent, Call.msg)
    /\ Return
    /\ UNCHANGED <<suite, thr, server, mem, rules, small, enabled, strm, rcvq,
                   nread, acks>>

CloseAsocStreams ==
    /\ CallIs("drop") /\ Return
    /\ rules' = rules \cup {Call.rule}
    /\ UNCHANGED <<suite, thr, server, mem, small, assoc, nread, acks>>

\* iptables -F of sn_reopen_asoc_streams(); its sleep is a call of its own.
ReopenAsocStreams ==
    /\ CallIs("flush") /\ Return
    /\ rules' = {}
    /\ UNCHANGED <<suite, thr, server, mem, small, assoc, nread, acks>>

\* A sleep() that a signal ends early.
SleepInterrupted ==
    /\ CallIs("sleep") /\ Return
    /\ UNCHANGED <<suite, thr, server, mem, rules, small, assoc, nread, acks>>

Sleep ==
    /\ CallIs("sleep") /\ Return
    /\ Timely => Quiet(Call.secs)
    /\ UNCHANGED <<suite, thr, server, mem, rules, small, assoc, nread, acks>>

\* Either reset call.  The kernel refuses one that was not negotiated or while
\* another is outstanding, and may refuse one while data is queued; the program
\* prints the error and goes on.
Negotiated == enabled = {"client", "server"}

SetStrreset ==
    /\ CallIs("reset") /\ Return
    /\ \/ /\ Negotiated /\ ~strm.closed
          /\ strm' = [closed |-> TRUE, upto |-> Len(sent)]
       \/ /\ ~Negotiated \/ strm.closed \/ pend # {}
          /\ UNCHANGED strm
    /\ UNCHANGED <<suite, thr, server, mem, rules, small, enabled, sent, pend,
                   rcvq, nread, acks>>

\* A cork that drops the answers but resets no stream.
CorkWithoutReset ==
    /\ CallIs("cork") /\ Return
    /\ UNCHANGED <<suite, thr, server, mem, rules, small, assoc, nread, acks>>

\* sn_close_asoc_streams() of sctp_ndata.c after its iptables -A: a request that
\* is refused undoes the rule and ends the client.
CorkStreams ==
    /\ CallIs("cork")
    /\ \/ /\ Negotiated /\ ~strm.closed
          /\ strm' = [closed |-> TRUE, upto |-> Len(sent)]
          /\ Return
          /\ UNCHANGED rules
       \/ /\ ~Negotiated \/ strm.closed \/ pend # {}
          /\ rules' = {} /\ Die
          /\ UNCHANGED strm
    /\ UNCHANGED <<suite, thr, server, mem, small, enabled, sent, pend, rcvq,
                   nread, acks>>

\* A SO_SNDBUF that is not set.
SndbufIgnored ==
    /\ CallIs("sndbuf") /\ Return
    /\ UNCHANGED <<suite, thr, server, mem, rules, small, assoc, nread, acks>>

SetupSoSndbuf ==
    /\ CallIs("sndbuf") /\ Return
    /\ small' = TRUE
    /\ UNCHANGED <<suite, thr, server, mem, rules, assoc, nread, acks>>

SpawnCleanup ==
    /\ CallIs("spawn") /\ Return
    /\ thr' = 1
    /\ UNCHANGED <<suite, server, mem, rules, small, assoc, nread, acks>>

JoinCleanup ==
    /\ CallIs("join") /\ Return
    /\ thr > Len(CleanupScript)
    /\ UNCHANGED <<suite, thr, server, mem, rules, small, assoc, nread, acks>>

ClientExit ==
    /\ client.st = "run" /\ client.pc > Len(Script(Case))
    /\ client' = [client EXCEPT !.st = "done"]
    /\ UNCHANGED <<suite, thr, server, mem, rules, small, assoc, nread, acks>>

\* Any perror() followed by exit(-1).  The rules stay; so do the messages that
\* the kernel still owns, and the process takes the thread with it.
ClientFail ==
    /\ Faults /\ client.st = "run"
    /\ client.pc <= Len(Script(Case))
    /\ Call.op \in {"connect", "enable", "cmd", "send", "sndbuf"}
    /\ Die
    /\ thr' = 0
    /\ UNCHANGED <<suite, server, mem, rules, small, assoc, nread, acks>>

(***************************************************************************)
(* The thread cleanup_sctp().                                              *)
(***************************************************************************)
ThreadIs(o) ==
    /\ thr \in 1 .. Len(CleanupScript)
    /\ CleanupScript[thr].op = o
    /\ thr' = thr + 1

\* The main thread is through with its sends by then, or held up in one.
ThreadSleep ==
    /\ ThreadIs("sleep")
    /\ Timely => Quiet(CleanupScript[thr].secs) /\ ~SendReady
    /\ UNCHANGED <<suite, client, server, mem, rules, small, assoc, nread, acks>>

ThreadFlush ==
    /\ ThreadIs("flush")
    /\ rules' = {}
    /\ UNCHANGED <<suite, client, server, mem, small, assoc, nread, acks>>

(***************************************************************************)
(* The server.                                                             *)
(***************************************************************************)
ServerListen ==
    /\ server = "boot"
    /\ server' = "loop"
    /\ UNCHANGED <<suite, client, thr, mem, rules, small, assoc, nread, acks>>

\* sn_get_peer_cmd() returns the length of the next message.
PeerCmd == sent[rcvq[nread + 1]].len
PeerStream == sent[rcvq[nread + 1]].sid

GetPeerCmd ==
    /\ server = "loop" /\ nread < Len(rcvq)
    /\ nread' = nread + 1

\* Handlers of SN_CMD_SET_STRRESET that forget the ACK, or to enable resets.
ServerSetStrresetNoAck ==
    /\ GetPeerCmd /\ PeerCmd = SN_CMD_SET_STRRESET
    /\ mem' = [mem EXCEPT !.c4 = AssocId]
    /\ enabled' = enabled \cup {"server"}
    /\ UNCHANGED <<suite, client, thr, server, rules, small, strm, sent, pend,
                   rcvq, acks>>

ServerSetStrresetAckOnly ==
    /\ GetPeerCmd /\ PeerCmd = SN_CMD_SET_STRRESET
    /\ acks' = acks + 1
    /\ UNCHANGED <<suite, client, thr, server, mem, rules, small, assoc>>

\* The association id is stored in the word that cb[4] of a check names too.
ServerSetStrreset ==
    /\ GetPeerCmd /\ PeerCmd = SN_CMD_SET_STRRESET
    /\ mem' = [mem EXCEPT !.c4 = AssocId]
    /\ enabled' = enabled \cup {"server"}
    /\ acks' = acks + 1
    /\ UNCHANGED <<suite, client, thr, server, rules, small, strm, sent, pend, rcvq>>

ServerCloseAsoc ==
    /\ GetPeerCmd /\ PeerCmd = SN_CMD_CLOSE_ASOC
    /\ server' = "exited"
    /\ acks' = acks + 1
    /\ UNCHANGED <<suite, client, thr, mem, rules, small, assoc>>

\* A check that runs before the length has been stored for it.
ServerCheckTooEarly ==
    /\ GetPeerCmd /\ PeerCmd \notin Commands
    /\ mem' = [Check(Case, mem) EXCEPT !.c2 = PeerCmd, !.sid = PeerStream]
    /\ UNCHANGED <<suite, client, thr, server, rules, small, assoc, acks>>

ServerCheck ==
    /\ GetPeerCmd /\ PeerCmd \notin Commands
    /\ mem' = Check(Case, [mem EXCEPT !.c2 = PeerCmd, !.sid = PeerStream])
    /\ UNCHANGED <<suite, client, thr, server, rules, small, assoc, acks>>

\* exit(-1) before the socket listens, in a receive, or after a command has
\* been read and before its ACK.
ServerFail ==
    /\ Faults /\ server \in {"boot", "loop"}
    /\ server' = "failed"
    /\ \/ UNCHANGED nread
       \/ GetPeerCmd /\ PeerCmd \in Commands
    /\ UNCHANGED <<suite, client, thr, mem, rules, small, assoc, acks>>

(***************************************************************************)
(* The kernel.                                                             *)
(***************************************************************************)
Deliver(i) ==
    /\ CanDeliver(i)
    /\ rcvq' = Append(rcvq, i)
    /\ pend' = pend \ {i}
    /\ UNCHANGED <<suite, client, thr, server, mem, rules, small, enabled, strm,
                   sent, nread, acks>>

\* Ten seconds, the longest sleep under a filter, bound a message's lifetime.
Abandon(i) ==
    /\ CanExpire(i, 10)
    /\ pend' = pend \ {i}
    /\ UNCHANGED <<suite, client, thr, server, mem, rules, small, enabled, strm,
                   sent, rcvq, nread, acks>>

ReconfReply ==
    /\ CanReply
    /\ strm' = [closed |-> FALSE, upto |-> 0]
    /\ UNCHANGED <<suite, client, thr, server, mem, rules, small, enabled, sent,
                   pend, rcvq, nread, acks>>

\* The faults a kernel under test may have; commands are left alone.
Arrived == {rcvq[k] : k \in 1 .. Len(rcvq)}

Lose(i) ==
    /\ "lose" \in KernelBugs(Case) /\ CanDeliver(i) /\ ~sent[i].cmd
    /\ Cardinality((1 .. Len(sent)) \ (pend \cup Arrived)) < MaxBugs
    /\ pend' = pend \ {i}
    /\ UNCHANGED <<suite, client, thr, server, mem, rules, small, enabled, strm,
                   sent, rcvq, nread, acks>>

Duplicate(i) ==
    /\ "dup" \in KernelBugs(Case) /\ CanDeliver(i) /\ ~sent[i].cmd
    /\ Len(rcvq) - Cardinality(Arrived) < MaxBugs
    /\ rcvq' = rcvq \o <<i, i>>
    /\ pend' = pend \ {i}
    /\ UNCHANGED <<suite, client, thr, server, mem, rules, small, enabled, strm,
                   sent, nread, acks>>

ClientStep ==
    \/ CreateAsocSk \/ EnableAsocStrreset \/ SendAsocCmd \/ RecvAck
    \/ SendAsocMsg \/ CloseAsocStreams \/ ReopenAsocStreams \/ Sleep
    \/ SetStrreset \/ CorkStreams \/ SetupSoSndbuf \/ SpawnCleanup \/ JoinCleanup \/ ClientExit

ThreadStep == ThreadSleep \/ ThreadFlush

ServerStep == ServerListen \/ ServerSetStrreset \/ ServerCloseAsoc \/ ServerCheck

KernelStep ==
    \/ \E i \in pend : Deliver(i) \/ Abandon(i) \/ Lose(i) \/ Duplicate(i)
    \/ ReconfReply

Next ==
    \/ StartCase \/ FinishCase
    \/ ClientStep \/ ClientFail \/ ThreadStep
    \/ ServerStep \/ ServerFail
    \/ KernelStep

(***************************************************************************)
(* Processes that can run do run, and the kernel keeps moving what it can: *)
(* it retransmits, and gives up messages that are past their policy.       *)
(***************************************************************************)
Fairness ==
    /\ WF_vars(StartCase) /\ WF_vars(FinishCase)
    /\ WF_vars(ClientStep) /\ WF_vars(ThreadStep) /\ WF_vars(ServerStep)
    /\ WF_vars(\E i \in pend : Deliver(i) \/ Abandon(i)) /\ WF_vars(ReconfReply)

Spec == Init /\ [][Next]_vars /\ Fairness

(***************************************************************************)
(* Properties.                                                             *)
(***************************************************************************)

ClientType == [st : {"run", "done", "failed"}, pc : Nat \ {0}, wait : 0 .. Len(sent)]

\* Every variable has its type; the context's words are whatever the check
\* functions leave in them.
TypeOK ==
    /\ cur \in 0 .. Len(Cases)
    /\ phase \in {"idle", "running"}
    /\ client \in ClientType
    /\ thr \in Nat
    /\ server \in {"none", "boot", "loop", "exited", "failed"}
    /\ rules \subseteq Rules
    /\ small \in BOOLEAN
    /\ enabled \subseteq {"client", "server"}
    /\ strm \in [closed : BOOLEAN, upto : Nat]
    /\ sent \in Seq(Message)
    /\ pend \subseteq 1 .. Len(sent)
    /\ rcvq \in Seq(Nat) /\ \A k \in 1 .. Len(rcvq) : rcvq[k] \in 1 .. Len(sent)
    /\ nread \in 0 .. Len(rcvq)
    /\ acks \in Nat
    /\ logged \in {"none", "PASS", "FAIL", "text"}

\* The commands that the server has yet to read.
Unread(i) == \E k \in nread + 1 .. Len(rcvq) : rcvq[k] = i
Outstanding == {i \in 1 .. Len(sent) : sent[i].cmd /\ (i \in pend \/ Unread(i))}

\* A client that waits for an answer has exactly one command under way or one
\* answer coming back, as long as the server lives; a client that does not
\* wait has neither.  So whatever sn_send_asoc_cmd() receives is the answer to
\* the command it has just sent, although it looks at nothing but the length.
Rendezvous ==
    /\ Outstanding \subseteq {client.wait}
    /\ acks <= 1
    /\ acks = 1 => client.wait # 0 /\ Outstanding = {}
    /\ client.wait # 0 /\ server # "failed" => acks = 1 \/ client.wait \in Outstanding

\* When a client asks for a reset, both ends have enabled stream reset on the
\* association: the exchange of sn_enable_peer_strreset() is over.
ResetNegotiated == CallIs("reset") \/ CallIs("cork") => Negotiated

(***************************************************************************)
(* What makes Rendezvous and ResetNegotiated inductive: commands and data  *)
(* messages cannot be confused, a command is in one place at a time, the   *)
(* answer under way belongs to the call the client is in, and the calls    *)
(* behind the client have had their effect on the association.             *)
(***************************************************************************)
Distinct ==
    \A i \in 1 .. Len(sent) :
        /\ sent[i].cmd <=> sent[i].len \in Commands
        /\ sent[i].cmd => sent[i].pol = "none"

OnePlace ==
    \A k \in nread + 1 .. Len(rcvq) : sent[rcvq[k]].cmd =>
        /\ rcvq[k] \notin pend
        /\ \A l \in nread + 1 .. Len(rcvq) : rcvq[l] = rcvq[k] => l = k

Running == client.st = "run" \/ client.wait # 0 => cur # 0

AwaitsCall ==
    client.wait # 0 =>
        /\ client.pc \in 1 .. Len(Script(Case))
        /\ Call.op = "cmd" /\ sent[client.wait].len = Call.len
        /\ acks = 1 /\ Call.len = SN_CMD_SET_STRRESET => "server" \in enabled

Exchanged ==
    client.st = "run" =>
        \A i \in 1 .. Len(Script(Case)) : i < client.pc =>
            /\ Script(Case)[i].op = "enable" => "client" \in enabled
            /\ Script(Case)[i].op = "cmd" /\ Script(Case)[i].len = SN_CMD_SET_STRRESET
                   => "server" \in enabled

Protocol ==
    Distinct /\ OnePlace /\ Running /\ Rendezvous /\ AwaitsCall /\ Exchanged

\* The inductive invariant.
IInv == TypeOK /\ Protocol

\* The data messages that a conforming kernel hands to the server, each once.
Due ==
    {i \in 1 .. Len(sent) :
        /\ ~sent[i].cmd
        /\ \/ sent[i].pol = "none"
           \/ /\ sent[i].pol = "prio"
              /\ \A j \in i + 1 .. Len(sent) :
                     sent[j].pol = "prio" => sent[j].val >= sent[i].val}

TimesRead(i) == Cardinality({k \in 1 .. nread : rcvq[k] = i})

Exact ==
    \A i \in 1 .. Len(sent) :
        ~sent[i].cmd => TimesRead(i) = (IF i \in Due THEN 1 ELSE 0)

\* On a conforming kernel a case whose client came to its end passes, even on a
\* host where the client of an earlier case died and left its rule in the filter.
SurvivorsPass ==
    phase = "idle" /\ cur # 0 /\ client.st = "done" /\ ByStatus(Case) => logged = "PASS"

(***************************************************************************)
(* The exchange implements RemoteCall: this is what the scripts rely on    *)
(* when they call sn_enable_peer_strreset() or sn_close_asoc_sk().         *)
(***************************************************************************)
ExchBar ==
    IF acks > 0 THEN [stage |-> "answered", cmd |-> sent[client.wait].len]
    ELSE IF client.wait # 0 THEN [stage |-> "asked", cmd |-> sent[client.wait].len]
    ELSE [stage |-> "idle", cmd |-> 0]

PeerBar ==
    CASE server = "failed" -> "dead"
      [] server = "exited" -> "gone"
      [] server \notin {"failed", "exited"} /\ "server" \in enabled -> "reset"
      [] server \notin {"failed", "exited"} /\ "server" \notin enabled -> "plain"

EffectBar(p, c) == IF c = SN_CMD_CLOSE_ASOC THEN "gone" ELSE "reset"

RPC == INSTANCE RemoteCall
       WITH exch <- ExchBar, peer <- PeerBar, session <- cur, Effect <- EffectBar

\* Every step of the programs and of the kernel is a step of the abstract
\* exchange or leaves it alone.
ImplementsRemoteCall == RPC!Spec

AllLogged == cur = Len(Cases) /\ phase = "idle"

\* test.sh is stuck for ever only behind a program that has died.
HangOnlyAfterFailure ==
    <>(AllLogged \/ client.st = "failed" \/ server = "failed")
==========================================================================
