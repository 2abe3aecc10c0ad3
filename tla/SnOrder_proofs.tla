------------------------- MODULE SnOrder_proofs -------------------------
(***************************************************************************)
(* Proofs about SnOrder: the cork holds whatever the timing, the faults of *)
(* the kernel and the failures of system calls; CLOSE is the last message  *)
(* the server reads when the sleeps of the scripts last as long as they    *)
(* are meant to, or where the kernel transmits in the order of the calls.  *)
(***************************************************************************)
EXTENDS SnOrder, SnSession_proofs, WellFoundedInduction

USE DEF Commands, SN_CMD_SET_STRRESET, SN_CMD_CLOSE_ASOC, ClientType, Protocol

(***************************************************************************)
(* Which steps change what.                                                *)
(***************************************************************************)
\* A case that runs stays the case, and what a client has done stays done.
LEMMA SameCase ==
    ASSUME IInv, [Next]_vars
    PROVE  StartCase \/ (UNCHANGED cur /\ Case' = Case)
<1> USE DEF suite, assoc, Case
<1>1. CASE ClientStep \/ ClientFail
  BY <1>1 DEF ClientStep, ClientFail, CreateAsocSk, EnableAsocStrreset, SendAsocCmd, RecvAck,
       SendAsocMsg, CloseAsocStreams, ReopenAsocStreams, Sleep, SetStrreset, CorkStreams,
       SetupSoSndbuf, SpawnCleanup, JoinCleanup, ClientExit
<1>2. CASE ThreadStep \/ ServerStep \/ ServerFail
  BY <1>2 DEF ThreadStep, ThreadSleep, ThreadFlush, ServerStep, ServerListen,
       ServerSetStrreset, ServerCloseAsoc, ServerCheck, ServerFail
<1>3. CASE KernelStep
  BY <1>3 DEF KernelStep, Deliver, Abandon, Lose, Duplicate, ReconfReply
<1>4. CASE FinishCase \/ UNCHANGED vars
  BY <1>4 DEF FinishCase, vars
<1> QED BY <1>1, <1>2, <1>3, <1>4 DEF Next

\* A client moves to its next call only by the action of the call it is at.
LEMMA WhoMoves ==
    ASSUME IInv, [Next]_vars, ~StartCase
    PROVE  \/ /\ client'.pc = client.pc
              /\ client'.st = "run" => client.st = "run"
              /\ client'.wait = client.wait \/ SendAsocCmd
           \/ /\ client.st = "run" /\ client'.st = "run"
              /\ client'.pc = client.pc + 1 /\ client'.wait = 0
              /\ client.pc \in 1 .. Len(Script(Case))
              /\ client.wait # 0 => Call.op = "cmd"
              /\ Call.op = "join" => JoinCleanup
              /\ Call.op = "drop" => CloseAsocStreams
              /\ Call.op = "flush" => ReopenAsocStreams
              /\ Call.op = "cork" => CorkStreams
              /\ Call.op = "sleep" => Sleep
<1> USE DEF suite, assoc
<1>1. client \in ClientType
  BY DEF IInv, TypeOK
<1>2. ASSUME NEW o \in {"connect", "enable", "flush", "sndbuf", "spawn", "join", "drop",
                        "sleep", "reset", "cork", "send"},
             CallIs(o), Return
      PROVE  /\ client.st = "run" /\ client'.st = "run"
             /\ client'.pc = client.pc + 1 /\ client'.wait = 0 /\ client.wait = 0
             /\ client.pc \in 1 .. Len(Script(Case))
             /\ Call.op = o
  BY <1>1, <1>2, CallType DEF CallIs, Return, IInv
<1>3. ASSUME Die PROVE client'.pc = client.pc /\ client'.st = "failed" /\ client'.wait = client.wait
  BY <1>1, <1>3 DEF Die
<1>4. CASE CreateAsocSk
  <2>1. CallIs("connect") /\ (Return \/ Die)
    BY <1>4 DEF CreateAsocSk
  <2> QED BY <2>1, <1>2, <1>3
<1>5. CASE EnableAsocStrreset
  BY <1>5, <1>2 DEF EnableAsocStrreset
<1>6. CASE SendAsocCmd
  BY <1>6, <1>1 DEF SendAsocCmd, CallIs
<1>7. CASE RecvAck
  <2>1. client.wait # 0 /\ client.pc \in 1 .. Len(Script(Case)) /\ Call.op = "cmd"
    BY <1>7 DEF RecvAck, IInv, AwaitsCall
  <2> QED BY <1>7, <1>1, <2>1 DEF RecvAck
<1>8. CASE SendAsocMsg
  <2>1. CallIs("send") /\ Return
    BY <1>8 DEF SendAsocMsg
  <2> QED BY <2>1, <1>2
<1>9. CASE CloseAsocStreams
  BY <1>9, <1>2 DEF CloseAsocStreams
<1>10. CASE ReopenAsocStreams
  BY <1>10, <1>2 DEF ReopenAsocStreams
<1>11. CASE Sleep
  BY <1>11, <1>2 DEF Sleep
<1>12. CASE SetStrreset
  BY <1>12, <1>2 DEF SetStrreset
<1>13. CASE CorkStreams
  BY <1>13, <1>2, <1>3 DEF CorkStreams
<1>14. CASE SetupSoSndbuf
  BY <1>14, <1>2 DEF SetupSoSndbuf
<1>15. CASE SpawnCleanup
  BY <1>15, <1>2 DEF SpawnCleanup
<1>16. CASE JoinCleanup
  BY <1>16, <1>2 DEF JoinCleanup
<1>17. CASE ClientExit
  BY <1>17, <1>1 DEF ClientExit
<1>18. CASE ClientFail
  BY <1>18, <1>3 DEF ClientFail
<1>19. CASE ThreadStep \/ ServerStep \/ ServerFail
  BY <1>19 DEF ThreadStep, ThreadSleep, ThreadFlush, ServerStep, ServerListen,
       ServerSetStrreset, ServerCloseAsoc, ServerCheck, ServerFail
<1>20. CASE KernelStep
  BY <1>20 DEF KernelStep, Deliver, Abandon, Lose, Duplicate, ReconfReply
<1>21. CASE FinishCase \/ UNCHANGED vars
  BY <1>21 DEF FinishCase, vars
<1> QED BY <1>4, <1>5, <1>6, <1>7, <1>8, <1>9, <1>10, <1>11, <1>12, <1>13, <1>14, <1>15,
           <1>16, <1>17, <1>18, <1>19, <1>20, <1>21 DEF Next, ClientStep

\* Messages come from the two calls that send.
LEMMA WhoSends ==
    ASSUME IInv, [Next]_vars, ~StartCase
    PROVE  (sent' = sent /\ pend' \subseteq pend) \/ SendAsocCmd \/ SendAsocMsg
<1> USE DEF suite, assoc
<1>1. CASE ClientStep \/ ClientFail
  BY <1>1 DEF ClientStep, ClientFail, CreateAsocSk, EnableAsocStrreset, RecvAck,
       CloseAsocStreams, ReopenAsocStreams, Sleep, SetStrreset, CorkStreams,
       SetupSoSndbuf, SpawnCleanup, JoinCleanup, ClientExit
<1>2. CASE ThreadStep \/ ServerStep \/ ServerFail
  BY <1>2 DEF ThreadStep, ThreadSleep, ThreadFlush, ServerStep, ServerListen,
       ServerSetStrreset, ServerCloseAsoc, ServerCheck, ServerFail
<1>3. CASE KernelStep
  BY <1>3 DEF KernelStep, Deliver, Abandon, Lose, Duplicate, ReconfReply
<1>4. CASE FinishCase \/ UNCHANGED vars
  BY <1>4 DEF FinishCase, vars
<1> QED BY <1>1, <1>2, <1>3, <1>4 DEF Next

\* Messages are delivered by the kernel alone.
LEMMA WhoDelivers ==
    ASSUME IInv, [Next]_vars, ~StartCase
    PROVE  rcvq' = rcvq \/ \E i \in pend : Deliver(i) \/ Duplicate(i)
<1> USE DEF suite, assoc
<1>1. CASE ClientStep \/ ClientFail
  BY <1>1 DEF ClientStep, ClientFail, CreateAsocSk, EnableAsocStrreset, SendAsocCmd, RecvAck,
       SendAsocMsg, CloseAsocStreams, ReopenAsocStreams, Sleep, SetStrreset, CorkStreams,
       SetupSoSndbuf, SpawnCleanup, JoinCleanup, ClientExit
<1>2. CASE ThreadStep \/ ServerStep \/ ServerFail
  BY <1>2 DEF ThreadStep, ThreadSleep, ThreadFlush, ServerStep, ServerListen,
       ServerSetStrreset, ServerCloseAsoc, ServerCheck, ServerFail
<1>3. CASE KernelStep
  BY <1>3 DEF KernelStep, Abandon, Lose, ReconfReply
<1>4. CASE FinishCase \/ UNCHANGED vars
  BY <1>4 DEF FinishCase, vars
<1> QED BY <1>1, <1>2, <1>3, <1>4 DEF Next

\* A rule goes by a flush, or with the cork of a client that dies.
LEMMA WhoFlushes ==
    ASSUME IInv, [Next]_vars, ~StartCase
    PROVE  rules \subseteq rules' \/ ReopenAsocStreams \/ ThreadFlush \/ (CorkStreams /\ Die)
<1> USE DEF suite, assoc
<1>1. CASE ClientStep \/ ClientFail
  BY <1>1 DEF ClientStep, ClientFail, CreateAsocSk, EnableAsocStrreset, SendAsocCmd, RecvAck,
       SendAsocMsg, CloseAsocStreams, Sleep, SetStrreset, CorkStreams,
       SetupSoSndbuf, SpawnCleanup, JoinCleanup, ClientExit
<1>2. CASE ThreadStep \/ ServerStep \/ ServerFail
  BY <1>2 DEF ThreadStep, ThreadSleep, ServerStep, ServerListen,
       ServerSetStrreset, ServerCloseAsoc, ServerCheck, ServerFail
<1>3. CASE KernelStep
  BY <1>3 DEF KernelStep, Deliver, Duplicate, Abandon, Lose, ReconfReply
<1>4. CASE FinishCase \/ UNCHANGED vars
  BY <1>4 DEF FinishCase, vars
<1> QED BY <1>1, <1>2, <1>3, <1>4 DEF Next

\* Streams are closed by the two calls that reset them, and opened by the answer.
LEMMA WhoResets ==
    ASSUME IInv, [Next]_vars, ~StartCase
    PROVE  \/ strm' = strm
           \/ ReconfReply
           \/ /\ CallIs("reset") \/ CallIs("cork")
              /\ ~strm.closed /\ strm' = [closed |-> TRUE, upto |-> Len(sent)]
              /\ UNCHANGED <<sent, pend, rcvq, rules>> /\ Return
<1> USE DEF suite, assoc
<1>1. CASE ClientStep \/ ClientFail
  BY <1>1 DEF ClientStep, ClientFail, CreateAsocSk, EnableAsocStrreset, SendAsocCmd, RecvAck,
       SendAsocMsg, CloseAsocStreams, ReopenAsocStreams, Sleep, SetStrreset, CorkStreams,
       SetupSoSndbuf, SpawnCleanup, JoinCleanup, ClientExit
<1>2. CASE ThreadStep \/ ServerStep \/ ServerFail
  BY <1>2 DEF ThreadStep, ThreadSleep, ThreadFlush, ServerStep, ServerListen,
       ServerSetStrreset, ServerCloseAsoc, ServerCheck, ServerFail
<1>3. CASE KernelStep
  BY <1>3 DEF KernelStep, Deliver, Duplicate, Abandon, Lose
<1>4. CASE FinishCase \/ UNCHANGED vars
  BY <1>4 DEF FinishCase, vars
<1> QED BY <1>1, <1>2, <1>3, <1>4 DEF Next

\* A thread begins with its first call, goes through its script or is taken along.
LEMMA WhoSpawns ==
    ASSUME IInv, [Next]_vars, ~StartCase
    PROVE  \/ thr' = thr \/ thr' = 0 \/ SpawnCleanup
           \/ thr \in 1 .. Len(CleanupScript) /\ UNCHANGED client
<1> USE DEF suite, assoc
<1>1. CASE ClientStep \/ ClientFail
  BY <1>1 DEF ClientStep, ClientFail, CreateAsocSk, EnableAsocStrreset, SendAsocCmd, RecvAck,
       SendAsocMsg, CloseAsocStreams, ReopenAsocStreams, Sleep, SetStrreset, CorkStreams,
       SetupSoSndbuf, JoinCleanup, ClientExit
<1>2. CASE ThreadStep \/ ServerStep \/ ServerFail
  BY <1>2 DEF ThreadStep, ThreadSleep, ThreadFlush, ThreadIs, ServerStep, ServerListen,
       ServerSetStrreset, ServerCloseAsoc, ServerCheck, ServerFail
<1>3. CASE KernelStep
  BY <1>3 DEF KernelStep, Deliver, Duplicate, Abandon, Lose, ReconfReply
<1>4. CASE FinishCase \/ UNCHANGED vars
  BY <1>4 DEF FinishCase, vars
<1> QED BY <1>1, <1>2, <1>3, <1>4 DEF Next

\* A server that has left its loop did so by reading CLOSE, and reads no more.
LEMMA WhoExits ==
    ASSUME IInv, [Next]_vars, ~StartCase, server' = "exited"
    PROVE  (server = "exited" /\ nread' = nread) \/ ServerCloseAsoc
<1> USE DEF suite, assoc
<1>1. CASE ClientStep \/ ClientFail
  BY <1>1 DEF ClientStep, ClientFail, CreateAsocSk, EnableAsocStrreset, SendAsocCmd, RecvAck,
       SendAsocMsg, CloseAsocStreams, ReopenAsocStreams, Sleep, SetStrreset, CorkStreams,
       SetupSoSndbuf, SpawnCleanup, JoinCleanup, ClientExit
<1>2. CASE ThreadStep \/ ServerStep \/ ServerFail
  BY <1>2 DEF ThreadStep, ThreadSleep, ThreadFlush, ServerStep, ServerListen,
       ServerSetStrreset, ServerCheck, ServerFail, GetPeerCmd
<1>3. CASE KernelStep
  BY <1>3 DEF KernelStep, Deliver, Duplicate, Abandon, Lose, ReconfReply
<1>4. CASE FinishCase \/ UNCHANGED vars
  BY <1>4 DEF FinishCase, vars
<1> QED BY <1>1, <1>2, <1>3, <1>4 DEF Next

(***************************************************************************)
(* The parts of the invariants.                                            *)
(***************************************************************************)
\* What the client has behind it stays behind it.
LEMMA StaysBehind ==
    ASSUME IInv, [Next]_vars, ~StartCase, NEW p, Behind(p)
    PROVE  Behind(p)'
<1>1. Case' = Case /\ client.pc \in Nat
  BY SameCase DEF IInv, TypeOK
<1>2. client'.pc = client.pc \/ client'.pc = client.pc + 1
  BY WhoMoves
<1> QED BY <1>1, <1>2 DEF Behind

\* Nothing is sent when CLOSE has been.
LEMMA NoCallAfterClose ==
    ASSUME IInv, SentByCalls, CallIs("send") \/ CallIs("cmd"), NEW i \in 1 .. Len(sent)
    PROVE  sent[i].len # SN_CMD_CLOSE_ASOC
<1> SUFFICES ASSUME sent[i].len = SN_CMD_CLOSE_ASOC PROVE FALSE
  OBVIOUS
<1>1. /\ Case \in CaseSet /\ client.pc \in 1 .. Len(Script(Case)) /\ client.wait = 0
      /\ Script(Case)[client.pc].op \in {"send", "cmd"}
  BY CallType DEF CallIs, IInv
<1>2. PICK p \in 1 .. Len(Script(Case)) : Closes(Case, p) /\ p < client.pc
  BY <1>1 DEF SentByCalls, Behind
<1>3. client.pc \in p + 1 .. Len(Script(Case))
  BY <1>1, <1>2
<1> QED BY <1>1, <1>2, <1>3, CloseAssumption

LEMMA SentStep ==
    ASSUME IInv, SentByCalls, [Next]_vars
    PROVE  SentByCalls'
<1>1. CASE StartCase
  BY <1>1 DEF StartCase, SentByCalls
<1>2. ASSUME ~StartCase, sent' = sent PROVE SentByCalls'
  <2>1. cur' = cur /\ Case' = Case
    BY <1>2, SameCase
  <2> SUFFICES ASSUME NEW i \in 1 .. Len(sent)
               PROVE  /\ cur # 0
                      /\ ~sent[i].cmd => \E p \in 1 .. Len(Script(Case)) :
                             Behind(p)' /\ Script(Case)[p].op = "send"
                      /\ sent[i].len = SN_CMD_CLOSE_ASOC =>
                             /\ i = Len(sent)
                             /\ \E p \in 1 .. Len(Script(Case)) :
                                    /\ Closes(Case, p)
                                    /\ Behind(p)' \/ (p = client'.pc /\ client'.wait # 0)
    BY <1>2, <2>1 DEF SentByCalls, Closes
  <2>2. \A p : Behind(p) => Behind(p)'
    BY <1>2, StaysBehind
  <2>3. ASSUME NEW p \in 1 .. Len(Script(Case)), p = client.pc, client.wait # 0
        PROVE  Behind(p)' \/ (p = client'.pc /\ client'.wait # 0)
    <3>1. ~SendAsocCmd
      BY <2>3 DEF SendAsocCmd, CallIs
    <3> QED BY <1>2, <2>1, <2>3, <3>1, WhoMoves DEF Behind
  <2> QED BY <2>2, <2>3 DEF SentByCalls
<1>3. ASSUME ~StartCase, SendAsocCmd \/ SendAsocMsg PROVE SentByCalls'
  <2> DEFINE n == Len(sent) + 1
  <2>1. cur' = cur /\ Case' = Case
    BY <1>3, SameCase
  <2>2. /\ cur # 0 /\ Case \in CaseSet /\ client.pc \in 1 .. Len(Script(Case))
        /\ Call \in Calls
    BY <1>3, CallType, CasesAssumption DEF SendAsocCmd, SendAsocMsg, IInv
  <2>3. \A i \in 1 .. Len(sent) : sent[i].len # SN_CMD_CLOSE_ASOC
    BY <1>3, NoCallAfterClose DEF SendAsocCmd, SendAsocMsg
  <2>4. \A p : Behind(p) => Behind(p)'
    BY <1>3, StaysBehind
  <2>5. /\ Len(sent') = n /\ n \in Nat \ {0}
        /\ \A i \in 1 .. Len(sent) : sent'[i] = sent[i]
        /\ \/ /\ sent'[n] = CmdMessage(Call.len) /\ Call.op = "cmd"
              /\ client'.pc = client.pc /\ client'.wait = n
           \/ /\ sent'[n] = Call.msg /\ Call.op = "send" /\ client'.pc = client.pc + 1
    <3>1. CASE SendAsocCmd
      <4>1. Call.op = "cmd" /\ Call.len \in Commands
        BY <3>1, <2>2 DEF SendAsocCmd, CallIs, Call, Calls
      <4>2. CmdMessage(Call.len) \in Message
        BY <4>1 DEF CmdMessage, Message, Policies
      <4>3. client' = [client EXCEPT !.wait = n] /\ client \in ClientType
        BY <3>1 DEF SendAsocCmd, IInv, TypeOK
      <4>4. sent' = Append(sent, CmdMessage(Call.len))
        BY <3>1 DEF SendAsocCmd
      <4> QED BY <4>1, <4>2, <4>3, <4>4, Appended DEF IInv
    <3>2. CASE SendAsocMsg
      <4>1. Call.op = "send" /\ Call.msg \in Message
        BY <3>2, <2>2 DEF SendAsocMsg, CallIs, Call, Calls
      <4>2. client' = [client EXCEPT !.pc = @ + 1] /\ client \in ClientType
        BY <3>2 DEF SendAsocMsg, Return, IInv, TypeOK
      <4>3. sent' = Append(sent, Call.msg)
        BY <3>2 DEF SendAsocMsg
      <4> QED BY <4>1, <4>2, <4>3, Appended DEF IInv
    <3> QED BY <1>3, <3>1, <3>2
  <2>6. ASSUME NEW i \in 1 .. Len(sent), ~sent[i].cmd
        PROVE  \E p \in 1 .. Len(Script(Case)) : Behind(p)' /\ Script(Case)[p].op = "send"
    BY <2>4, <2>6 DEF SentByCalls
  <2>7. CASE Call.op = "cmd"
    <3>1. sent'[n].cmd /\ sent'[n].len = Call.len
      BY <2>5, <2>7 DEF CmdMessage
    <3>2. client'.pc = client.pc /\ client'.wait # 0
      BY <2>5, <2>7
    <3>3. Closes(Case, client.pc) <=> Call.len = SN_CMD_CLOSE_ASOC
      BY <2>7 DEF Closes, Call
    <3> HIDE DEF n
    <3> SUFFICES ASSUME NEW i \in 1 .. n
                 PROVE  /\ ~sent'[i].cmd => \E p \in 1 .. Len(Script(Case)) :
                               Behind(p)' /\ Script(Case)[p].op = "send"
                        /\ sent'[i].len = SN_CMD_CLOSE_ASOC =>
                               i = n /\ Closes(Case, client.pc)
      BY <2>1, <2>2, <2>5, <3>2 DEF SentByCalls, Closes
    <3>4. CASE i = n
      BY <3>4, <3>1, <3>3
    <3>5. CASE i \in 1 .. Len(sent)
      BY <3>5, <2>3, <2>5, <2>6
    <3> QED BY <3>4, <3>5, <2>5 DEF n
  <2>8. CASE Call.op = "send"
    <3>1. sent'[n].len \notin Commands
      BY <2>2, <2>5, <2>8, ScriptAssumption DEF Call
    <3>2. \E p \in 1 .. Len(Script(Case)) : Behind(p)' /\ Script(Case)[p].op = "send"
      <4>1. PICK p \in 1 .. Len(Script(Case)) : p = client.pc
        BY <2>2
      <4>2. Behind(p)' /\ Script(Case)[p].op = "send"
        BY <2>1, <2>2, <2>5, <2>8, <4>1 DEF Behind, Call
      <4> QED BY <4>2
    <3> HIDE DEF n
    <3> SUFFICES ASSUME NEW i \in 1 .. n
                 PROVE  /\ ~sent'[i].cmd => \E p \in 1 .. Len(Script(Case)) :
                               Behind(p)' /\ Script(Case)[p].op = "send"
                        /\ sent'[i].len # SN_CMD_CLOSE_ASOC
      BY <2>1, <2>2, <2>5 DEF SentByCalls
    <3>3. CASE i = n
      BY <3>1, <3>2, <3>3, <2>2, <2>8 DEF Call
    <3>4. CASE i \in 1 .. Len(sent)
      BY <3>4, <2>3, <2>5, <2>6
    <3> QED BY <3>3, <3>4, <2>5 DEF n
  <2> QED BY <2>5, <2>7, <2>8
<1> QED BY <1>1, <1>2, <1>3, WhoSends

LEMMA ThreadStepAlive ==
    ASSUME IInv, ThreadAlive, [Next]_vars
    PROVE  ThreadAlive'
<1>1. CASE StartCase
  BY <1>1 DEF StartCase, ThreadAlive
<1>2. ASSUME ~StartCase, thr' \in 1 .. Len(CleanupScript) PROVE ThreadAlive'
  <2>1. cur' = cur /\ Case' = Case /\ client.pc \in Nat
    BY <1>2, SameCase DEF IInv, TypeOK
  <2>2. CASE SpawnCleanup
    <3>1. CallIs("spawn") /\ Return
      BY <2>2 DEF SpawnCleanup
    <3>2. PICK p \in 1 .. Len(Script(Case)) :
              /\ p = client.pc /\ cur # 0
              /\ Script(Case)[p].op = "spawn" /\ client'.pc = p + 1
      BY <3>1, CallType, CasesAssumption DEF CallIs, Return, IInv, TypeOK
    <3>3. Behind(p)' /\ \A q \in p + 1 .. Len(Script(Case)) : ~Behind(q)'
      BY <2>1, <3>2 DEF Behind
    <3> QED BY <2>1, <3>2, <3>3 DEF ThreadAlive
  <2>3. ASSUME thr \in 1 .. Len(CleanupScript), ~SpawnCleanup PROVE ThreadAlive'
    <3>1. PICK p \in 1 .. Len(Script(Case)) :
              /\ cur # 0 /\ Behind(p) /\ Script(Case)[p].op = "spawn"
              /\ \A q \in p + 1 .. Len(Script(Case)) : Behind(q) => Script(Case)[q].op # "join"
      BY <2>3 DEF ThreadAlive
    <3>2. Behind(p)'
      BY <1>2, <3>1, StaysBehind
    <3>3. ASSUME NEW q \in p + 1 .. Len(Script(Case)), Behind(q)', Script(Case)[q].op = "join"
          PROVE  FALSE
      <4>1. q = client.pc /\ client'.pc = client.pc + 1
        BY <1>2, <2>1, <3>1, <3>3, WhoMoves DEF Behind
      <4>2. JoinCleanup
        BY <1>2, <2>1, <3>3, <4>1, WhoMoves DEF Call
      <4> QED BY <2>3, <4>2 DEF JoinCleanup, IInv, TypeOK
    <3> QED BY <2>1, <3>1, <3>2, <3>3 DEF ThreadAlive
  <2> QED BY <1>2, <2>2, <2>3, WhoSpawns
<1> QED BY <1>1, <1>2 DEF ThreadAlive

\* The log of messages grows at its end, and so does the queue.
LEMMA LogGrows ==
    ASSUME IInv, [Next]_vars, ~StartCase
    PROVE  /\ Len(sent) \in Nat /\ Len(sent') \in Nat /\ Len(sent) <= Len(sent')
           /\ \A i \in 1 .. Len(sent) : sent'[i] = sent[i]
           /\ \A i \in pend' : i \in pend \/ i > Len(sent)
<1>1. Len(sent) \in Nat
  BY QueueType DEF IInv
<1>2. ASSUME NEW m \in Message, sent' = Append(sent, m), pend' \subseteq pend \cup {Len(sent) + 1}
      PROVE  /\ Len(sent') \in Nat /\ Len(sent) <= Len(sent')
             /\ \A i \in 1 .. Len(sent) : sent'[i] = sent[i]
             /\ \A i \in pend' : i \in pend \/ i > Len(sent)
  <2>1. Len(sent') = Len(sent) + 1 /\ \A i \in 1 .. Len(sent) : sent'[i] = sent[i]
    BY <1>2, Appended DEF IInv
  <2> QED BY <1>1, <1>2, <2>1
<1>3. CASE SendAsocCmd
  <2>1. Call.len \in Commands
    BY <1>3, CallType DEF SendAsocCmd, Calls, IInv
  <2>2. CmdMessage(Call.len) \in Message
    BY <2>1 DEF CmdMessage, Message, Policies
  <2> QED BY <1>1, <1>2, <1>3, <2>2 DEF SendAsocCmd
<1>4. CASE SendAsocMsg
  <2>1. Call.msg \in Message
    BY <1>4, CallType DEF SendAsocMsg, Calls, IInv
  <2> QED BY <1>1, <1>2, <1>4, <2>1 DEF SendAsocMsg
<1> QED BY <1>1, <1>3, <1>4, WhoSends

\* A client that resets its streams before it has sent data finds them empty.
LEMMA NothingQueued ==
    ASSUME IInv, SentByCalls, CallIs("reset") \/ CallIs("cork"),
           \A j \in 1 .. client.pc - 1 : Script(Case)[j].op # "send"
    PROVE  pend = {} /\ \A i \in 1 .. Len(sent) : sent[i].cmd
<1>1. client.pc \in 1 .. Len(Script(Case)) /\ client.wait = 0
  BY CallType DEF CallIs, IInv
<1>2. \A i \in 1 .. Len(sent) : sent[i].cmd
  BY <1>1 DEF SentByCalls, Behind
<1>3. Outstanding \subseteq {0} /\ pend \subseteq 1 .. Len(sent)
  BY <1>1, NoneAwaited DEF IInv, TypeOK
<1> QED BY <1>2, <1>3 DEF Outstanding

\* Closed streams that hold everything back go on doing so.
LEMMA StaysUndelivered ==
    ASSUME IInv, [Next]_vars, ~StartCase, strm' = strm, strm.upto <= Len(sent), Undelivered
    PROVE  Undelivered'
<1>1. strm.upto \in Nat /\ Len(sent) \in Nat /\ pend \subseteq 1 .. Len(sent)
  BY DEF IInv, TypeOK
<1>2. pend' \subseteq 1 .. Len(sent')
  BY StepInvariant DEF IInv, TypeOK
<1>3. Len(sent') \in Nat /\ \A i \in pend' : i \in pend \/ i > Len(sent)
  BY LogGrows
<1> QED BY <1>1, <1>2, <1>3 DEF Undelivered

LEMMA StreamsStep ==
    ASSUME IInv, SentByCalls, ClosedStreams, [Next]_vars
    PROVE  ClosedStreams'
<1>1. CASE StartCase
  BY <1>1 DEF StartCase, ClosedStreams
<1>2. ASSUME ~StartCase PROVE ClosedStreams'
  <2>1. cur' = cur /\ Case' = Case /\ strm.upto \in Nat
    BY <1>2, SameCase DEF IInv, TypeOK
  <2>2. Len(sent) \in Nat /\ Len(sent') \in Nat /\ Len(sent) <= Len(sent')
    BY <1>2, LogGrows
  <2>3. CASE strm' = strm
    <3>1. strm'.upto <= Len(sent')
      BY <2>1, <2>2, <2>3 DEF ClosedStreams
    <3>2. Undelivered => Undelivered'
      BY <1>2, <2>3, StaysUndelivered DEF ClosedStreams
    <3> QED BY <2>1, <2>3, <3>1, <3>2 DEF ClosedStreams, ResetsFresh
  <2>4. CASE ReconfReply
    BY <2>2, <2>4 DEF ReconfReply, ClosedStreams
  <2>5. CASE /\ CallIs("reset") \/ CallIs("cork")
             /\ strm' = [closed |-> TRUE, upto |-> Len(sent)]
             /\ UNCHANGED <<sent, pend>>
    <3>1. strm'.upto <= Len(sent')
      BY <2>2, <2>5
    <3>2. ASSUME cur # 0, ResetsFresh(Case) PROVE Undelivered'
      <4>1. /\ client.pc \in 1 .. Len(Script(Case))
            /\ Script(Case)[client.pc].op \in {"reset", "cork"}
        BY <2>5, CallType DEF CallIs, IInv
      <4>2. pend = {}
        BY <2>5, <3>2, <4>1, NothingQueued DEF ResetsFresh
      <4> QED BY <2>5, <4>2 DEF Undelivered
    <3> QED BY <2>1, <3>1, <3>2 DEF ClosedStreams, ResetsFresh
  <2> QED BY <1>2, <2>3, <2>4, <2>5, WhoResets
<1> QED BY <1>1, <1>2

\* In a corked session nobody but the client flushes.
LEMMA NoThread ==
    ASSUME IInv, ThreadAlive, cur # 0, Corked(Case)
    PROVE  ~ThreadFlush
<1> SUFFICES ASSUME ThreadFlush PROVE FALSE
  OBVIOUS
<1>1. cur \in 1 .. Len(Cases)
  BY CasesAssumption DEF IInv, TypeOK
<1>2. PICK p \in 1 .. Len(Script(Case)) : Script(Case)[p].op = "spawn"
  BY DEF ThreadFlush, ThreadIs, ThreadAlive
<1> QED BY <1>1, <1>2, CaseType, CorkAssumption

LEMMA FilterStep ==
    ASSUME IInv, ThreadAlive, Filtered, [Next]_vars
    PROVE  Filtered'
<1>1. CASE StartCase
  <2>1. client'.pc = 1
    BY <1>1 DEF StartCase
  <2> QED BY <2>1 DEF Filtered, Behind
<1>2. ASSUME ~StartCase PROVE Filtered'
  <2>1. cur' = cur /\ Case' = Case /\ client.pc \in Nat
    BY <1>2, SameCase DEF IInv, TypeOK
  <2> SUFFICES ASSUME cur # 0, client'.st = "run", Corked(Case),
                      NEW p \in 1 .. Len(Script(Case)), Behind(p)',
                      InForce(Case, p, client'.pc)
               PROVE  Script(Case)[p].rule \in rules'
    BY <2>1 DEF Filtered, Corked, InForce
  <2>2. client.st = "run" /\ (client'.pc = client.pc \/ client'.pc = client.pc + 1)
    BY <1>2, WhoMoves
  <2>3. rules \subseteq rules' \/ ReopenAsocStreams
    <3>1. ~Die
      BY DEF Die, IInv, TypeOK
    <3> QED BY <1>2, <3>1, WhoFlushes, NoThread
  <2>4. CASE Behind(p)
    <3>1. InForce(Case, p, client.pc)
      BY <2>1, <2>2 DEF InForce
    <3>2. Script(Case)[p].rule \in rules
      BY <2>2, <2>4, <3>1 DEF Filtered
    <3>3. ~ReopenAsocStreams
      <4> SUFFICES ASSUME ReopenAsocStreams PROVE FALSE
        OBVIOUS
      <4>1. Script(Case)[client.pc].op = "flush" /\ client'.pc = client.pc + 1
        BY DEF ReopenAsocStreams, CallIs, Return, IInv, TypeOK
      <4>2. client.pc \in p + 1 .. client'.pc - 1
        BY <2>1, <2>4, <4>1 DEF Behind
      <4> QED BY <4>1, <4>2 DEF InForce
    <3> QED BY <2>3, <3>2, <3>3
  <2>5. CASE ~Behind(p)
    <3>1. p = client.pc /\ client'.pc = client.pc + 1
      BY <2>1, <2>2, <2>5 DEF Behind
    <3>2. CloseAsocStreams
      BY <1>2, <2>1, <3>1, WhoMoves DEF InForce, Call
    <3> QED BY <3>1, <3>2 DEF CloseAsocStreams, Call
  <2> QED BY <2>4, <2>5
<1> QED BY <1>1, <1>2

LEMMA ShutStep ==
    ASSUME IInv, CorkInv, [Next]_vars
    PROVE  Shut'
<1> USE DEF CorkInv
<1>1. CASE StartCase
  <2>1. client'.pc = 1
    BY <1>1 DEF StartCase
  <2> QED BY <2>1 DEF Shut, CorkedAt
<1>2. ASSUME ~StartCase PROVE Shut'
  <2>1. cur' = cur /\ Case' = Case /\ client.pc \in Nat
    BY <1>2, SameCase DEF IInv, TypeOK
  <2> SUFFICES ASSUME cur # 0, client'.st = "run", Corked(Case),
                      CorkedAt(Case, client'.pc)
               PROVE  /\ strm'.closed /\ "input" \in rules' /\ Undelivered'
                      /\ \A k \in 1 .. Len(rcvq') : sent'[rcvq'[k]].cmd
    BY <2>1 DEF Shut, Corked, CorkedAt
  <2>2. client.st = "run" /\ (client'.pc = client.pc \/ client'.pc = client.pc + 1)
    BY <1>2, WhoMoves
  <2>3. PICK p \in 1 .. Len(Script(Case)) :
            /\ p < client'.pc /\ Script(Case)[p].op = "cork"
            /\ \A q \in p + 1 .. client'.pc - 1 : Script(Case)[q].op # "flush"
    BY DEF CorkedAt
  <2>4. \A i \in 1 .. Len(sent) : sent'[i] = sent[i]
    BY <1>2, LogGrows
  <2>5. \A k \in 1 .. Len(rcvq) : rcvq[k] \in 1 .. Len(sent)
    BY DEF IInv, TypeOK
  <2>6. CASE p < client.pc
    <3>1. CorkedAt(Case, client.pc)
      BY <2>1, <2>2, <2>3, <2>6 DEF CorkedAt
    <3>2. /\ strm.closed /\ "input" \in rules /\ Undelivered
          /\ \A k \in 1 .. Len(rcvq) : sent[rcvq[k]].cmd
      BY <2>2, <3>1 DEF Shut
    <3>3. strm' = strm
      BY <1>2, <3>2, WhoResets DEF ReconfReply, CanReply, BothWays
    <3>4. Undelivered'
      BY <1>2, <3>2, <3>3, StaysUndelivered DEF ClosedStreams
    <3>5. "input" \in rules'
      <4>1. ~Die
        BY DEF Die, IInv, TypeOK
      <4>2. ~ReopenAsocStreams
        <5> SUFFICES ASSUME ReopenAsocStreams PROVE FALSE
          OBVIOUS
        <5>1. Script(Case)[client.pc].op = "flush" /\ client'.pc = client.pc + 1
          BY DEF ReopenAsocStreams, CallIs, Return, IInv, TypeOK
        <5>2. client.pc \in p + 1 .. client'.pc - 1
          BY <2>1, <2>6, <5>1
        <5> QED BY <2>3, <5>1, <5>2
      <4> QED BY <1>2, <3>2, <4>1, <4>2, WhoFlushes, NoThread
    <3>6. rcvq' = rcvq
      <4>1. ASSUME NEW i \in pend, CanDeliver(i) PROVE FALSE
        <5>1. i \in Nat /\ strm.upto \in Nat
          BY DEF IInv, TypeOK
        <5> QED BY <3>2, <4>1, <5>1 DEF CanDeliver, Undelivered
      <4> QED BY <1>2, <4>1, WhoDelivers DEF Deliver, Duplicate
    <3> QED BY <2>4, <2>5, <3>2, <3>3, <3>4, <3>5, <3>6
  <2>7. CASE ~(p < client.pc)
    <3>1. p = client.pc /\ client'.pc = client.pc + 1
      BY <2>1, <2>2, <2>3, <2>7
    <3>2. CorkStreams
      BY <1>2, <2>1, <2>3, <3>1, WhoMoves DEF Call
    <3>3. /\ strm' = [closed |-> TRUE, upto |-> Len(sent)]
          /\ UNCHANGED <<rules, sent, pend, rcvq>> /\ CallIs("cork")
      BY <2>1, <3>1, <3>2 DEF CorkStreams, Die, IInv, TypeOK
    <3>4. /\ \A j \in 1 .. p - 1 : Script(Case)[j].op # "send"
          /\ \E q \in 1 .. p - 1 : InForce(Case, q, p) /\ Script(Case)[q].rule = "input"
      BY <2>3, <3>3, CallType, CorkAssumption DEF IInv
    <3>5. pend = {} /\ \A i \in 1 .. Len(sent) : sent[i].cmd
      BY <3>1, <3>3, <3>4, NothingQueued
    <3>6. "input" \in rules
      <4>1. PICK q \in 1 .. p - 1 : InForce(Case, q, p) /\ Script(Case)[q].rule = "input"
        BY <3>4
      <4>2. q \in 1 .. Len(Script(Case)) /\ Behind(q)
        BY <2>1, <3>1, <4>1 DEF Behind
      <4> QED BY <2>2, <3>1, <4>1, <4>2 DEF Filtered
    <3> QED BY <2>5, <3>3, <3>5, <3>6 DEF Undelivered
  <2> QED BY <2>6, <2>7
<1> QED BY <1>1, <1>2

LEMMA CorkStep == IInv /\ CorkInv /\ [Next]_vars => CorkInv'
<1> SUFFICES ASSUME IInv, CorkInv, [Next]_vars PROVE CorkInv'
  OBVIOUS
<1>1. SentByCalls'
  BY SentStep DEF CorkInv
<1>2. ThreadAlive'
  BY ThreadStepAlive DEF CorkInv
<1>3. ClosedStreams'
  BY StreamsStep DEF CorkInv
<1>4. Filtered'
  BY FilterStep DEF CorkInv
<1>5. Shut'
  BY ShutStep
<1> QED BY <1>1, <1>2, <1>3, <1>4, <1>5 DEF CorkInv

LEMMA CorkInit == Init => CorkInv
<1> SUFFICES ASSUME Init PROVE CorkInv
  OBVIOUS
<1> USE DEF Init
<1>1. SentByCalls /\ ThreadAlive /\ ClosedStreams
  BY DEF SentByCalls, ThreadAlive, ClosedStreams
<1>2. Filtered /\ Shut
  BY DEF Filtered, Shut
<1> QED BY <1>1, <1>2 DEF CorkInv

THEOREM CorkInvariant == Spec => []CorkInv
  BY InductiveInvariant, CorkInit, CorkStep, PTL DEF Spec

\* As long as a client whose streams are corked has messages to send, none has
\* arrived at the server: sn_close_asoc_streams() with its rule on INPUT does what
\* the tables of sctp_ndata.c take for granted.
THEOREM CorkAlwaysHolds == Spec => []CorkHolds
<1>1. IInv /\ CorkInv => CorkHolds
  <2> SUFFICES ASSUME IInv, CorkInv, cur # 0, Corked(Case), CallIs("send")
               PROVE  \A k \in 1 .. Len(rcvq) : sent[rcvq[k]].cmd
    BY DEF CorkHolds
  <2>1. /\ Case \in CaseSet /\ client.pc \in 1 .. Len(Script(Case))
        /\ Script(Case)[client.pc].op = "send" /\ client.st = "run"
    BY CallType DEF CallIs, IInv
  <2>2. CorkedAt(Case, client.pc)
    BY <2>1, CorkAssumption
  <2> QED BY <2>1, <2>2 DEF CorkInv, Shut
<1> QED BY <1>1, InductiveInvariant, CorkInvariant, PTL

(***************************************************************************)
(* CLOSE comes last.                                                       *)
(***************************************************************************)
\* A queue that is not empty has an oldest message.
LEMMA Oldest ==
    ASSUME NEW p, p \subseteq Nat, p # {}
    PROVE  \E i \in p : \A j \in p : i <= j
<1> DEFINE less == OpToRel(<, Nat)
<1>1. PICK i \in p : \A j \in p : ~(<<j, i>> \in less)
  BY NatLessThanWellFounded, WFMin
<1>2. \A j \in p : ~(j < i)
  BY <1>1 DEF OpToRel
<1> QED BY <1>2

\* When the kernel has nothing to do, no message is queued or none can leave.
LEMMA QuietMeans ==
    ASSUME IInv, ClosedStreams, cur # 0, Serves(Case),
           \A i \in pend : ~CanDeliver(i), ~CanReply
    PROVE  pend = {} \/ Blocked
<1> SUFFICES ASSUME pend # {}, ~Blocked PROVE FALSE
  OBVIOUS
<1>1. /\ sent \in Seq(Message) /\ pend \in SUBSET (1 .. Len(sent)) /\ rcvq \in Seq(Nat)
      /\ strm.upto \in Nat /\ pend \subseteq Nat
  BY DEF IInv, TypeOK
<1>2. rules \cap {"data", "all"} = {}
  BY DEF Blocked
<1>3. CASE ~strm.closed
  <2>1. PICK i \in pend \cap Turn(Case, sent, pend, rcvq) : Eligible(sent, pend, i)
    BY <1>1 DEF Serves, OffersOne
  <2>2. CanDeliver(i)
    BY <1>2, <1>3, <2>1 DEF CanDeliver, Eligible
  <2> QED BY <2>2
<1>4. CASE strm.closed /\ Undelivered
  <2>1. BothWays
    BY <1>2, <1>4 DEF Blocked, BothWays
  <2> QED BY <1>4, <2>1 DEF CanReply, Undelivered
<1>5. CASE strm.closed /\ ~Undelivered
  <2>1. OffersOldest(Case)
    BY <1>5 DEF Serves, ClosedStreams
  <2>2. PICK i \in pend : \A j \in pend : i <= j
    BY <1>1, Oldest
  <2>3. i \in Turn(Case, sent, pend, rcvq)
    BY <1>1, <2>1, <2>2 DEF OffersOldest
  <2>4. PICK j \in pend : ~(j > strm.upto)
    BY <1>5 DEF Undelivered
  <2>5. i <= strm.upto
    BY <1>1, <2>2, <2>4
  <2>6. \A k \in pend : ~(k < i)
    BY <1>1, <2>2
  <2>7. CanDeliver(i)
    BY <1>2, <2>3, <2>5, <2>6 DEF CanDeliver
  <2> QED BY <2>7
<1> QED BY <1>3, <1>4, <1>5

LEMMA SettledStep ==
    ASSUME Timely, Serves(Case), IInv, CorkInv, Settled, [Next]_vars
    PROVE  Settled'
<1> USE DEF CorkInv
<1>1. CASE StartCase
  <2>1. client'.pc = 1
    BY <1>1 DEF StartCase
  <2> QED BY <2>1 DEF Settled, Settles
<1>2. ASSUME ~StartCase PROVE Settled'
  <2>1. cur' = cur /\ Case' = Case /\ client.pc \in Nat
    BY <1>2, SameCase DEF IInv, TypeOK
  <2> SUFFICES ASSUME cur # 0, Settles(Case), NEW k \in 1 .. Len(Script(Case)),
                      Closes(Case, k), k <= client'.pc
               PROVE  (\A i \in pend' : sent'[i].cmd) \/ Blocked'
    BY <2>1 DEF Settled, Settles, Closes
  <2>2. cur \in 1 .. Len(Cases) /\ Case \in CaseSet
    BY CasesAssumption, CaseType DEF IInv, TypeOK
  <2>3. /\ k > 1 /\ Script(Case)[k - 1].op = "sleep"
        /\ \A j \in k .. Len(Script(Case)) :
               Script(Case)[j].op \notin {"flush", "spawn", "cork", "send"}
        /\ \A p \in 1 .. k - 1 : Script(Case)[p].op = "spawn" =>
               \E q \in p + 1 .. k - 1 : Script(Case)[q].op = "join"
    BY <2>2, CloseAssumption DEF Settles, Closes
  <2>4. CASE k <= client.pc
    <3>1. (\A i \in pend : sent[i].cmd) \/ Blocked
      BY <2>4 DEF Settled
    <3>2. ASSUME NEW o, CallIs(o)
          PROVE  o \notin {"flush", "spawn", "cork", "send"}
      <4>1. client.pc \in k .. Len(Script(Case)) /\ Script(Case)[client.pc].op = o
        BY <2>4, <3>2, CallType DEF CallIs, IInv
      <4> QED BY <2>3, <4>1
    <3>3. CASE \A i \in pend : sent[i].cmd
      <4>1. CASE sent' = sent /\ pend' \subseteq pend
        BY <3>3, <4>1
      <4>2. CASE SendAsocCmd
        <5>1. Call.len \in Commands
          <6>1. CallIs("cmd") /\ TypeOK /\ Running
            BY <4>2 DEF SendAsocCmd, IInv
          <6>2. Call \in Calls /\ Call.op = "cmd"
            BY <6>1, CallType
          <6> QED BY <6>2 DEF Calls
        <5>2. CmdMessage(Call.len) \in Message /\ CmdMessage(Call.len).cmd
          BY <5>1 DEF CmdMessage, Message, Policies
        <5>3. /\ \A i \in 1 .. Len(sent) : sent'[i] = sent[i]
              /\ sent'[Len(sent) + 1] = CmdMessage(Call.len)
          BY <4>2, <5>2, Appended DEF SendAsocCmd, IInv
        <5>4. pend' = pend \cup {Len(sent) + 1} /\ pend \subseteq 1 .. Len(sent)
          BY <4>2 DEF SendAsocCmd, IInv, TypeOK
        <5> QED BY <3>3, <5>2, <5>3, <5>4
      <4>3. ~SendAsocMsg
        BY <3>2 DEF SendAsocMsg
      <4> QED BY <1>2, <4>1, <4>2, <4>3, WhoSends
    <3>4. CASE Blocked
      <4>1. ~ReopenAsocStreams /\ ~CorkStreams
        BY <3>2 DEF ReopenAsocStreams, CorkStreams
      <4>2. ~ThreadFlush
        <5> SUFFICES ASSUME ThreadFlush PROVE FALSE
          OBVIOUS
        <5>1. PICK p \in 1 .. Len(Script(Case)) :
                  /\ Behind(p) /\ Script(Case)[p].op = "spawn"
                  /\ \A q \in p + 1 .. Len(Script(Case)) :
                         Behind(q) => Script(Case)[q].op # "join"
          BY DEF ThreadFlush, ThreadIs, ThreadAlive
        <5>2. p \in 1 .. k - 1
          BY <2>3, <5>1
        <5>3. PICK q \in p + 1 .. k - 1 : Script(Case)[q].op = "join"
          BY <2>3, <5>1, <5>2
        <5>4. q \in p + 1 .. Len(Script(Case)) /\ Behind(q)
          BY <2>1, <2>4, <5>3 DEF Behind
        <5> QED BY <5>1, <5>3, <5>4
      <4>3. rules \subseteq rules'
        BY <1>2, <4>1, <4>2, WhoFlushes
      <4>4. CASE rules \cap {"data", "all"} # {}
        BY <4>3, <4>4 DEF Blocked
      <4>5. CASE strm.closed /\ "input" \in rules /\ Undelivered
        <5>1. strm' = strm
          BY <1>2, <4>5, WhoResets DEF ReconfReply, CanReply, BothWays
        <5>2. Undelivered'
          BY <1>2, <4>5, <5>1, StaysUndelivered DEF ClosedStreams
        <5> QED BY <4>3, <4>5, <5>1, <5>2 DEF Blocked
      <4> QED BY <3>4, <4>4, <4>5 DEF Blocked
    <3> QED BY <3>1, <3>3, <3>4
  <2>5. CASE ~(k <= client.pc)
    <3>1. k = client.pc + 1 /\ client'.pc = client.pc + 1
      BY <1>2, <2>1, <2>5, WhoMoves
    <3>2. Sleep
      BY <1>2, <2>1, <2>3, <3>1, WhoMoves DEF Call
    <3>3. UNCHANGED <<rules, strm, sent, pend>>
      BY <3>2 DEF Sleep, assoc
    <3>4. (\A i \in pend : ~CanDeliver(i)) /\ ~CanReply
      BY <3>2 DEF Sleep, Quiet
    <3>5. pend = {} \/ Blocked
      BY <2>2, <3>4, QuietMeans
    <3> QED BY <3>3, <3>5 DEF Blocked, Undelivered
  <2> QED BY <2>4, <2>5
<1> QED BY <1>1, <1>2

\* The CLOSE command can be delivered only when nothing else is queued.
LEMMA CloseAlone ==
    ASSUME Serves(Case), IInv, CorkInv, Settled,
           NEW i \in pend, CanDeliver(i), sent[i].len = SN_CMD_CLOSE_ASOC
    PROVE  pend \ {i} = {}
<1>1. /\ sent \in Seq(Message) /\ pend \in SUBSET (1 .. Len(sent)) /\ rcvq \in Seq(Nat)
      /\ i \in 1 .. Len(sent) /\ strm.upto \in Nat /\ Len(sent) \in Nat
  BY DEF IInv, TypeOK
<1>2. cur # 0 /\ cur \in 1 .. Len(Cases) /\ Case \in CaseSet
  BY <1>1, CasesAssumption, CaseType DEF IInv, TypeOK, CorkInv, SentByCalls
<1>3. ASSUME NEW j \in pend, sent[j].cmd PROVE j = i
  <2>1. sent[i].cmd
    BY <1>1 DEF IInv, Distinct
  <2>2. i \in Outstanding /\ j \in Outstanding
    BY <1>1, <1>3, <2>1 DEF Outstanding
  <2> QED BY <2>2 DEF IInv, Rendezvous
<1>4. CASE Settles(Case)
  <2>1. PICK k \in 1 .. Len(Script(Case)) : Closes(Case, k) /\ k <= client.pc
    <3>1. client.pc \in Int
      BY DEF IInv, TypeOK
    <3>2. PICK k \in 1 .. Len(Script(Case)) :
              Closes(Case, k) /\ (Behind(k) \/ (k = client.pc /\ client.wait # 0))
      BY <1>1 DEF CorkInv, SentByCalls
    <3> QED BY <3>1, <3>2 DEF Behind
  <2>2. (\A j \in pend : sent[j].cmd) \/ Blocked
    BY <1>2, <1>4, <2>1 DEF Settled
  <2>3. ~Blocked
    BY <1>1 DEF Blocked, CanDeliver, Undelivered
  <2> QED BY <1>3, <2>2, <2>3
<1>5. CASE KeepsOrder(Case)
  <2>1. \A j \in pend : i <= j
    BY <1>1, <1>5 DEF KeepsOrder, CanDeliver
  <2>2. i = Len(sent)
    BY <1>1 DEF CorkInv, SentByCalls
  <2>3. ASSUME NEW j \in pend PROVE j = i
    <3>1. j \in Nat /\ i \in Nat /\ j <= i /\ i <= j
      BY <1>1, <2>1, <2>2
    <3> QED BY <3>1
  <2> QED BY <2>3
<1> QED BY <1>2, <1>4, <1>5 DEF Serves

\* What has been delivered stays where it is in the receive queue.
LEMMA QueueGrows ==
    ASSUME IInv, [Next]_vars, ~StartCase
    PROVE  /\ Len(rcvq) \in Nat /\ Len(rcvq') \in Nat /\ Len(rcvq) <= Len(rcvq')
           /\ \A k \in 1 .. Len(rcvq) : rcvq'[k] = rcvq[k]
<1>1. rcvq \in Seq(Nat) /\ Len(rcvq) \in Nat /\ pend \subseteq Nat
  BY DEF IInv, TypeOK
<1>2. ASSUME NEW i \in pend, Deliver(i) \/ Duplicate(i)
      PROVE  /\ Len(rcvq') \in Nat /\ Len(rcvq) <= Len(rcvq')
             /\ \A k \in 1 .. Len(rcvq) : rcvq'[k] = rcvq[k]
  <2>1. i \in Nat
    BY <1>1
  <2>2. CASE rcvq' = Append(rcvq, i)
    BY <1>1, <2>1, <2>2
  <2>3. CASE rcvq' = rcvq \o <<i, i>>
    <3>1. <<i, i>> \in Seq(Nat) /\ Len(<<i, i>>) = 2
      BY <2>1
    <3>2. Len(rcvq') = Len(rcvq) + 2
      BY <1>1, <2>3, <3>1
    <3>3. \A k \in 1 .. Len(rcvq) : rcvq'[k] = rcvq[k]
      BY <1>1, <2>3, <3>1
    <3> QED BY <1>1, <3>2, <3>3
  <2> QED BY <1>2, <2>2, <2>3 DEF Deliver, Duplicate
<1>3. CASE rcvq' = rcvq
  BY <1>1, <1>3
<1> QED BY <1>1, <1>2, <1>3, WhoDelivers

LEMMA BehindStep ==
    ASSUME Serves(Case), IInv, CorkInv, Settled, NothingBehind, [Next]_vars
    PROVE  NothingBehind'
<1>1. CASE StartCase
  BY <1>1 DEF StartCase, NothingBehind
<1>2. ASSUME ~StartCase PROVE NothingBehind'
  <2>1. \A i \in 1 .. Len(sent) : sent'[i] = sent[i]
    BY <1>2, LogGrows
  <2>2. /\ rcvq \in Seq(Nat) /\ Len(rcvq) \in Nat /\ pend \subseteq 1 .. Len(sent)
        /\ \A k \in 1 .. Len(rcvq) : rcvq[k] \in 1 .. Len(sent)
    BY DEF IInv, TypeOK
  <2>3. CASE \E k \in 1 .. Len(rcvq) : sent[rcvq[k]].len = SN_CMD_CLOSE_ASOC
    <3>1. PICK k \in 1 .. Len(rcvq) : sent[rcvq[k]].len = SN_CMD_CLOSE_ASOC
      BY <2>3
    <3>2. pend = {}
      BY <3>1 DEF NothingBehind
    <3>3. sent' = sent /\ pend' = {}
      <4>1. ~CallIs("send") /\ ~CallIs("cmd")
        BY <2>2, <3>1, NoCallAfterClose DEF CorkInv
      <4> QED BY <1>2, <3>2, <4>1, WhoSends DEF SendAsocCmd, SendAsocMsg
    <3>4. rcvq' = rcvq
      BY <1>2, <3>2, WhoDelivers
    <3> QED BY <3>3, <3>4 DEF NothingBehind
  <2>4. CASE \A k \in 1 .. Len(rcvq) : sent[rcvq[k]].len # SN_CMD_CLOSE_ASOC
    <3>1. CASE rcvq' = rcvq
      BY <2>1, <2>2, <2>4, <3>1 DEF NothingBehind
    <3>2. ASSUME NEW i \in pend, Deliver(i) PROVE NothingBehind'
      <4>1. /\ rcvq' = Append(rcvq, i) /\ sent' = sent /\ pend' = pend \ {i} /\ CanDeliver(i)
        BY <3>2 DEF Deliver
      <4>2. Len(rcvq') = Len(rcvq) + 1 /\ rcvq'[Len(rcvq) + 1] = i
            /\ \A k \in 1 .. Len(rcvq) : rcvq'[k] = rcvq[k]
        BY <2>2, <4>1
      <4>3. sent[i].len = SN_CMD_CLOSE_ASOC => pend' = {}
        BY <4>1, CloseAlone
      <4> QED BY <2>2, <2>4, <4>1, <4>2, <4>3 DEF NothingBehind
    <3>3. ASSUME NEW i \in pend, Duplicate(i) PROVE NothingBehind'
      <4>1. /\ rcvq' = rcvq \o <<i, i>> /\ sent' = sent /\ ~sent[i].cmd
        BY <3>3 DEF Duplicate
      <4>2. sent[i].len # SN_CMD_CLOSE_ASOC
        BY <2>2, <4>1 DEF IInv, Distinct
      <4>3. \A k \in 1 .. Len(rcvq') : (k \in 1 .. Len(rcvq) /\ rcvq'[k] = rcvq[k]) \/ rcvq'[k] = i
        BY <2>2, <4>1
      <4> QED BY <2>4, <4>1, <4>2, <4>3 DEF NothingBehind
    <3> QED BY <1>2, <3>1, <3>2, <3>3, WhoDelivers
  <2> QED BY <2>3, <2>4
<1> QED BY <1>1, <1>2

LEMMA LeftStep ==
    ASSUME IInv, LeftByClose, [Next]_vars
    PROVE  LeftByClose'
<1>1. CASE StartCase
  BY <1>1 DEF StartCase, LeftByClose
<1>2. ASSUME ~StartCase, server' = "exited" PROVE LeftByClose'
  <2>1. /\ \A i \in 1 .. Len(sent) : sent'[i] = sent[i]
        /\ \A k \in 1 .. Len(rcvq) : rcvq'[k] = rcvq[k]
    BY <1>2, LogGrows, QueueGrows
  <2>2. /\ nread \in 0 .. Len(rcvq) /\ Len(rcvq) \in Nat
        /\ \A k \in 1 .. Len(rcvq) : rcvq[k] \in 1 .. Len(sent)
    BY DEF IInv, TypeOK
  <2>3. CASE server = "exited" /\ nread' = nread
    BY <2>1, <2>2, <2>3 DEF LeftByClose
  <2>4. CASE ServerCloseAsoc
    BY <2>2, <2>4 DEF ServerCloseAsoc, GetPeerCmd, PeerCmd, LeftByClose, assoc
  <2> QED BY <1>2, <2>3, <2>4, WhoExits
<1> QED BY <1>1, <1>2 DEF LeftByClose

\* What a case that is served is worth, whatever the other cases of the list are.
Closed == cur # 0 /\ Serves(Case) => Settled /\ NothingBehind

\* Every step of a case that is served keeps it closed.
LEMMA ClosedStep ==
    ASSUME Timely, IInv, CorkInv, Closed, [Next]_vars
    PROVE  Closed'
<1>1. CASE StartCase
  BY <1>1 DEF StartCase, Closed, Settled, Settles, NothingBehind
<1>2. ASSUME ~StartCase PROVE Closed'
  <2>1. cur' = cur /\ Case' = Case
    BY <1>2, SameCase
  <2>2. Serves(Case)' <=> Serves(Case)
    BY <2>1 DEF Serves, OffersOne, OffersOldest, ResetsFresh, Settles, Closes, KeepsOrder
  <2> QED BY <2>1, <2>2, SettledStep, BehindStep DEF Closed
<1> QED BY <1>1, <1>2

\* A case that is served closes behind its data, among cases that are not as well.
THEOREM ClosedInvariant ==
    ASSUME Timely PROVE Spec => [](Closed /\ LeftByClose)
<1>1. Init => Closed /\ LeftByClose
  BY DEF Init, Closed, LeftByClose
<1>2. IInv /\ CorkInv /\ Closed /\ LeftByClose /\ [Next]_vars => (Closed /\ LeftByClose)'
  BY ClosedStep, LeftStep
<1> QED BY <1>1, <1>2, InductiveInvariant, CorkInvariant, PTL DEF Spec

\* When the server leaves its loop everything sent has been read.
LEMMA AllRead ==
    ASSUME IInv, CloseInv, server = "exited"
    PROVE  /\ nread > 0 /\ nread = Len(rcvq) /\ pend = {}
           /\ sent[rcvq[nread]].len = SN_CMD_CLOSE_ASOC
<1>1. /\ nread > 0 /\ nread \in 0 .. Len(rcvq) /\ Len(rcvq) \in Nat
      /\ sent[rcvq[nread]].len = SN_CMD_CLOSE_ASOC
  BY DEF CloseInv, LeftByClose, IInv, TypeOK
<1> QED BY <1>1 DEF CloseInv, NothingBehind

\* Behind CLOSE nothing is queued, and the server has left by reading it.
THEOREM CloseInvariant ==
    ASSUME Timely, \A c \in CaseSet : Serves(c)
    PROVE  Spec => []CloseInv
<1>1. IInv /\ CorkInv /\ Closed /\ LeftByClose => CloseInv
  <2> SUFFICES ASSUME IInv, CorkInv, Closed, LeftByClose PROVE CloseInv
    OBVIOUS
  <2>1. CASE cur # 0
    <3>1. Case \in CaseSet
      BY <2>1, CaseType DEF IInv, TypeOK
    <3> QED BY <2>1, <3>1 DEF Closed, CloseInv
  <2>2. CASE cur = 0
    <3>1. \A k \in 1 .. Len(rcvq) : rcvq[k] \in 1 .. Len(sent)
      BY DEF IInv, TypeOK
    <3>2. NothingBehind
      BY <2>2, <3>1 DEF CorkInv, SentByCalls, NothingBehind
    <3> QED BY <2>2, <3>2 DEF CloseInv, Settled
  <2> QED BY <2>1, <2>2
<1> QED BY <1>1, InductiveInvariant, CorkInvariant, ClosedInvariant, PTL

\* The server never leaves its loop with data in the queue or unread: when the
\* sleeps last until everybody else is quiet, the sleep before sn_close_asoc_sk()
\* keeps CLOSE behind the data, and a client without that sleep relies on the
\* kernel to transmit in the order of the calls.
THEOREM CloseAlwaysLast ==
    ASSUME Timely, \A c \in CaseSet : Serves(c)
    PROVE  Spec => []CloseIsLast
<1>1. IInv /\ CloseInv => CloseIsLast
  BY AllRead DEF CloseIsLast, Unread
<1> QED BY <1>1, InductiveInvariant, CloseInvariant, PTL

=============================================================================
