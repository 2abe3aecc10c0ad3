------------------------- MODULE SnSession_proofs -------------------------
(***************************************************************************)
(* Proofs about SnSession for every list of cases, every script and check  *)
(* function that satisfy the assumptions, every kernel fault, any timing   *)
(* and any failure of a system call.                                       *)
(***************************************************************************)
EXTENDS SnSession, TLAPS

USE DEF Commands, SN_CMD_SET_STRRESET, SN_CMD_CLOSE_ASOC, ClientType, Protocol

\* The case that runs has a script of calls.
LEMMA CaseType ==
    ASSUME cur \in 1 .. Len(Cases)
    PROVE  /\ Case \in CaseSet
           /\ Script(Case) \in Seq(Calls)
           /\ \A k \in 1 .. Len(Script(Case)) : Script(Case)[k] \in Calls
  BY ScriptAssumption DEF Case, CaseSet

\* A client that makes a call is in a case, at a call of its script.
LEMMA CallType ==
    ASSUME TypeOK, Running, NEW o, CallIs(o)
    PROVE  /\ cur \in 1 .. Len(Cases)
           /\ Case \in CaseSet
           /\ client.pc \in 1 .. Len(Script(Case))
           /\ Script(Case) \in Seq(Calls)
           /\ Call \in Calls /\ Call.op = o
<1>1. cur \in 1 .. Len(Cases)
  BY CasesAssumption DEF TypeOK, Running, CallIs
<1>2. Case \in CaseSet /\ Script(Case) \in Seq(Calls)
  BY <1>1, CaseType
<1>3. client.pc \in Nat /\ client.pc <= Len(Script(Case)) /\ client.pc # 0
  BY DEF TypeOK, CallIs
<1> QED BY <1>1, <1>2, <1>3, CaseType DEF CallIs, Call

\* The numbers and sequences behind the message queues.
LEMMA QueueType ==
    ASSUME TypeOK
    PROVE  /\ sent \in Seq(Message) /\ Len(sent) \in Nat
           /\ rcvq \in Seq(Nat) /\ Len(rcvq) \in Nat
           /\ \A k \in 1 .. Len(rcvq) : rcvq[k] \in 1 .. Len(sent)
           /\ nread \in Nat /\ nread <= Len(rcvq)
           /\ acks \in Nat
  BY DEF TypeOK

\* The client between two calls: no answer is under way.
LEMMA NoneAwaited ==
    ASSUME IInv, client.wait = 0
    PROVE  acks = 0 /\ Outstanding \subseteq {0}
<1>1. acks \in Nat
  BY QueueType DEF IInv
<1>2. Rendezvous
  BY DEF IInv
<1> QED BY <1>1, <1>2 DEF Rendezvous

(***************************************************************************)
(* The part of the invariant that speaks of the messages depends on the    *)
(* association and on the answer a client waits for; the part that speaks  *)
(* of the script depends on the client and on who has enabled what.        *)
(***************************************************************************)
\* A call that returns at once and leaves the association alone.
LEMMA CallReturns ==
    ASSUME IInv, NEW o \in {"connect", "enable", "flush", "sndbuf", "spawn", "join", "drop",
                            "sleep", "reset", "cork"},
           CallIs(o), Return,
           enabled \subseteq enabled', enabled' \subseteq {"client", "server"},
           o = "enable" => "client" \in enabled',
           UNCHANGED <<cur, server, sent, pend, rcvq, nread, acks>>
    PROVE  Protocol' /\ client' \in ClientType'
<1>1. /\ cur \in 1 .. Len(Cases) /\ client.pc \in 1 .. Len(Script(Case)) /\ Call.op = o
      /\ client.st = "run" /\ client.wait = 0
  BY CallType DEF IInv, CallIs
<1>2. /\ client' \in ClientType'
      /\ client'.pc = client.pc + 1 /\ client'.st = "run" /\ client'.wait = 0
  <2>1. client \in ClientType /\ client' = [client EXCEPT !.pc = @ + 1]
    BY DEF Return, IInv, TypeOK
  <2>2. client' = [st |-> "run", pc |-> client.pc + 1, wait |-> 0] /\ client.pc \in Nat \ {0}
    BY <2>1, <1>1
  <2>3. Len(sent') \in Nat
    BY QueueType DEF IInv
  <2> QED BY <2>2, <2>3
<1>3. Distinct' /\ OnePlace' /\ Running' /\ AwaitsCall'
  BY <1>1, <1>2 DEF IInv, Distinct, OnePlace, Running, AwaitsCall
<1>4. Rendezvous'
  BY <1>1, <1>2 DEF IInv, Rendezvous, Outstanding, Unread
<1>5. Exchanged'
  <2> SUFFICES ASSUME NEW i \in 1 .. Len(Script(Case)), i < client.pc + 1
               PROVE  /\ Script(Case)[i].op = "enable" => "client" \in enabled'
                      /\ Script(Case)[i].op = "cmd" /\ Script(Case)[i].len = SN_CMD_SET_STRRESET
                             => "server" \in enabled'
    BY <1>2 DEF Exchanged, Case
  <2>1. CASE i < client.pc
    BY <2>1, <1>1 DEF IInv, Exchanged
  <2>2. CASE i = client.pc
    BY <2>2, <1>1 DEF Call
  <2> QED BY <1>1, <2>1, <2>2
<1> QED BY <1>2, <1>3, <1>4, <1>5

\* A call that ends the client and changes nothing of the association.
LEMMA CallDies ==
    ASSUME IInv, NEW o, CallIs(o), Die,
           UNCHANGED <<cur, server, enabled, sent, pend, rcvq, nread, acks>>
    PROVE  Protocol' /\ client' \in ClientType'
<1>1. /\ client' \in ClientType'
      /\ client'.st = "failed" /\ client'.wait = 0 /\ client.wait = 0
  BY DEF Die, CallIs, IInv, TypeOK
<1>2. Distinct' /\ OnePlace' /\ Running' /\ AwaitsCall' /\ Exchanged'
  BY <1>1 DEF IInv, Distinct, OnePlace, Running, AwaitsCall, Exchanged
<1>3. Rendezvous'
  BY <1>1 DEF IInv, Rendezvous, Outstanding, Unread
<1> QED BY <1>1, <1>2, <1>3

\* A step of the thread or of the kernel that touches no message.
LEMMA Aside ==
    ASSUME IInv, UNCHANGED <<cur, client, server, enabled, sent, pend, rcvq, nread, acks>>
    PROVE  Protocol'
<1>1. Distinct' /\ OnePlace' /\ Running' /\ AwaitsCall' /\ Exchanged'
  BY DEF IInv, Distinct, OnePlace, Running, AwaitsCall, Exchanged, Case, Call
<1>2. Rendezvous'
  BY DEF IInv, Rendezvous, Outstanding, Unread
<1> QED BY <1>1, <1>2

LEMMA InitInvariant == Init => IInv
<1> SUFFICES ASSUME Init PROVE IInv
  OBVIOUS
<1> USE DEF Init
<1>1. TypeOK
  <2>1. cur \in 0 .. Len(Cases) /\ nread \in 0 .. Len(rcvq)
    BY CasesAssumption
  <2>2. /\ client \in ClientType
        /\ strm \in [closed : BOOLEAN, upto : Nat]
        /\ pend \subseteq 1 .. Len(sent)
    OBVIOUS
  <2>3. /\ sent \in Seq(Message) /\ rcvq \in Seq(Nat)
        /\ \A k \in 1 .. Len(rcvq) : rcvq[k] \in 1 .. Len(sent)
    OBVIOUS
  <2> QED BY <2>1, <2>2, <2>3 DEF TypeOK
<1>2. Distinct /\ OnePlace /\ Running /\ AwaitsCall /\ Exchanged
  BY DEF Distinct, OnePlace, Running, AwaitsCall, Exchanged
<1>3. Rendezvous
  BY DEF Rendezvous, Outstanding, Unread
<1> QED BY <1>1, <1>2, <1>3 DEF IInv

(***************************************************************************)
(* The calls that only move the client, or change a variable of the        *)
(* client's host.                                                          *)
(***************************************************************************)
LEMMA HostCalls ==
    ASSUME IInv,
           CreateAsocSk \/ EnableAsocStrreset \/ CloseAsocStreams \/ ReopenAsocStreams
           \/ Sleep \/ SetStrreset \/ CorkStreams \/ SetupSoSndbuf \/ SpawnCleanup
           \/ JoinCleanup
    PROVE  IInv'
<1> USE DEF suite, assoc
<1>1. CASE CreateAsocSk
  <2>1. CASE Return
    <3>1. Protocol' /\ client' \in ClientType'
      BY <1>1, <2>1, CallReturns DEF CreateAsocSk, IInv, TypeOK
    <3> QED BY <1>1, <3>1 DEF CreateAsocSk, IInv, TypeOK
  <2>2. CASE Die
    <3>1. Protocol' /\ client' \in ClientType'
      BY <1>1, <2>2, CallDies DEF CreateAsocSk
    <3> QED BY <1>1, <3>1 DEF CreateAsocSk, IInv, TypeOK
  <2> QED BY <1>1, <2>1, <2>2 DEF CreateAsocSk
<1>2. CASE EnableAsocStrreset
  <2>1. Protocol' /\ client' \in ClientType'
    BY <1>2, CallReturns DEF EnableAsocStrreset, IInv, TypeOK
  <2> QED BY <1>2, <2>1 DEF EnableAsocStrreset, IInv, TypeOK
<1>3. CASE CloseAsocStreams
  <2>1. Protocol' /\ client' \in ClientType'
    BY <1>3, CallReturns DEF CloseAsocStreams, IInv, TypeOK
  <2>2. Call.rule \in Rules
    BY <1>3, CallType DEF CloseAsocStreams, IInv, Calls
  <2> QED BY <1>3, <2>1, <2>2 DEF CloseAsocStreams, IInv, TypeOK
<1>4. CASE ReopenAsocStreams
  <2>1. Protocol' /\ client' \in ClientType'
    BY <1>4, CallReturns DEF ReopenAsocStreams, IInv, TypeOK
  <2> QED BY <1>4, <2>1 DEF ReopenAsocStreams, IInv, TypeOK
<1>5. CASE Sleep
  <2>1. Protocol' /\ client' \in ClientType'
    BY <1>5, CallReturns DEF Sleep, IInv, TypeOK
  <2> QED BY <1>5, <2>1 DEF Sleep, IInv, TypeOK
<1>6. CASE SetStrreset
  <2>1. Protocol' /\ client' \in ClientType'
    BY <1>6, CallReturns DEF SetStrreset, IInv, TypeOK
  <2>2. Len(sent) \in Nat /\ strm \in [closed : BOOLEAN, upto : Nat]
    BY DEF IInv, TypeOK
  <2>3. strm' = strm \/ strm' = [closed |-> TRUE, upto |-> Len(sent)]
    BY <1>6 DEF SetStrreset
  <2>4. strm' \in [closed : BOOLEAN, upto : Nat]
    <3>1. \A n \in Nat : [closed |-> TRUE, upto |-> n] \in [closed : BOOLEAN, upto : Nat]
      OBVIOUS
    <3> QED BY <2>2, <2>3, <3>1, Zenon
  <2> QED BY <1>6, <2>1, <2>4 DEF SetStrreset, IInv, TypeOK
<1>7. CASE SetupSoSndbuf
  <2>1. Protocol' /\ client' \in ClientType'
    BY <1>7, CallReturns DEF SetupSoSndbuf, IInv, TypeOK
  <2> QED BY <1>7, <2>1 DEF SetupSoSndbuf, IInv, TypeOK
<1>8. CASE SpawnCleanup
  <2>1. Protocol' /\ client' \in ClientType'
    BY <1>8, CallReturns DEF SpawnCleanup, IInv, TypeOK
  <2> QED BY <1>8, <2>1 DEF SpawnCleanup, IInv, TypeOK
<1>9. CASE JoinCleanup
  <2>1. Protocol' /\ client' \in ClientType'
    BY <1>9, CallReturns DEF JoinCleanup, IInv, TypeOK
  <2> QED BY <1>9, <2>1 DEF JoinCleanup, IInv, TypeOK
<1>10. CASE CorkStreams
  <2>1. Protocol' /\ client' \in ClientType'
    <3>1. /\ CallIs("cork")
          /\ UNCHANGED <<cur, server, enabled, sent, pend, rcvq, nread, acks>>
      BY <1>10 DEF CorkStreams
    <3>2. CASE Return
      BY <3>1, <3>2, CallReturns DEF IInv, TypeOK
    <3>3. CASE Die
      BY <3>1, <3>3, CallDies
    <3> QED BY <1>10, <3>2, <3>3 DEF CorkStreams
  <2>2. Len(sent) \in Nat /\ strm \in [closed : BOOLEAN, upto : Nat]
    BY DEF IInv, TypeOK
  <2>3. strm' = strm \/ strm' = [closed |-> TRUE, upto |-> Len(sent)]
    BY <1>10 DEF CorkStreams
  <2>4. strm' \in [closed : BOOLEAN, upto : Nat]
    <3>1. \A n \in Nat : [closed |-> TRUE, upto |-> n] \in [closed : BOOLEAN, upto : Nat]
      OBVIOUS
    <3> QED BY <2>2, <2>3, <3>1, Zenon
  <2>5. rules' \subseteq Rules
    BY <1>10 DEF CorkStreams, IInv, TypeOK
  <2> QED BY <1>10, <2>1, <2>4, <2>5 DEF CorkStreams, IInv, TypeOK
<1> QED BY <1>1, <1>2, <1>3, <1>4, <1>5, <1>6, <1>7, <1>8, <1>9, <1>10

(***************************************************************************)
(* The suite, the thread and the kernel steps that touch no message.       *)
(***************************************************************************)
LEMMA SuiteSteps ==
    ASSUME IInv, StartCase \/ FinishCase
    PROVE  IInv'
<1> USE DEF suite, assoc
<1>1. CASE StartCase
  <2>1. TypeOK'
    <3>1. cur' \in 0 .. Len(Cases) /\ cur' # 0
      BY <1>1, CasesAssumption DEF StartCase, IInv, TypeOK
    <3>2. /\ client' \in ClientType' /\ strm' \in [closed : BOOLEAN, upto : Nat]
          /\ sent' = << >> /\ rcvq' = << >> /\ nread' = 0 /\ acks' = 0
      BY <1>1 DEF StartCase
    <3>3. /\ sent' \in Seq(Message) /\ rcvq' \in Seq(Nat)
          /\ pend' \subseteq 1 .. Len(sent')
          /\ \A k \in 1 .. Len(rcvq') : rcvq'[k] \in 1 .. Len(sent')
      BY <1>1, <3>2 DEF StartCase
    <3> QED BY <1>1, <3>1, <3>2, <3>3 DEF StartCase, IInv, TypeOK
  <2>2. cur' # 0 /\ client' = [st |-> "run", pc |-> 1, wait |-> 0]
    BY <1>1 DEF StartCase, IInv, TypeOK
  <2>3. Distinct' /\ OnePlace' /\ Running' /\ AwaitsCall'
    BY <1>1, <2>2 DEF StartCase, Distinct, OnePlace, Running, AwaitsCall
  <2>4. Exchanged'
    BY <2>2 DEF Exchanged
  <2>5. Rendezvous'
    BY <1>1, <2>2 DEF StartCase, Rendezvous, Outstanding, Unread
  <2> QED BY <2>1, <2>3, <2>4, <2>5 DEF IInv
<1>2. CASE FinishCase
  <2>1. Protocol'
    BY <1>2, Aside DEF FinishCase
  <2> QED BY <1>2, <2>1 DEF FinishCase, IInv, TypeOK
<1> QED BY <1>1, <1>2

LEMMA QuietSteps ==
    ASSUME IInv, ThreadStep \/ ReconfReply \/ UNCHANGED vars
    PROVE  IInv'
<1> USE DEF suite, assoc
<1>1. CASE ThreadSleep
  <2>1. Protocol'
    BY <1>1, Aside DEF ThreadSleep
  <2> QED BY <1>1, <2>1 DEF ThreadSleep, ThreadIs, IInv, TypeOK
<1>2. CASE ThreadFlush
  <2>1. Protocol'
    BY <1>2, Aside DEF ThreadFlush
  <2> QED BY <1>2, <2>1 DEF ThreadFlush, ThreadIs, IInv, TypeOK
<1>3. CASE ReconfReply
  <2>1. Protocol'
    BY <1>3, Aside DEF ReconfReply
  <2> QED BY <1>3, <2>1 DEF ReconfReply, IInv, TypeOK
<1>4. CASE UNCHANGED vars
  <2>1. Protocol'
    BY <1>4, Aside DEF vars
  <2> QED BY <1>4, <2>1 DEF vars, IInv, TypeOK
<1> QED BY <1>1, <1>2, <1>3, <1>4 DEF ThreadStep

\* The end of a client, orderly or not.
LEMMA ClientEnds ==
    ASSUME IInv, ClientExit \/ ClientFail
    PROVE  IInv'
<1> USE DEF suite, assoc
<1>1. /\ client' \in ClientType' /\ client'.st \in {"done", "failed"}
      /\ client'.wait = client.wait /\ client'.pc = client.pc /\ client.st = "run"
      /\ thr' \in Nat
  BY DEF ClientExit, ClientFail, Die, IInv, TypeOK
<1>2. UNCHANGED <<cur, server, sent, pend, rcvq, nread, acks, enabled, phase, mem,
                  rules, small, strm, logged>>
  BY DEF ClientExit, ClientFail
<1>3. Distinct' /\ OnePlace' /\ Running' /\ AwaitsCall' /\ Exchanged'
  BY <1>1, <1>2 DEF IInv, Distinct, OnePlace, Running, AwaitsCall, Exchanged, Call, Case
<1>4. Rendezvous'
  BY <1>1, <1>2 DEF IInv, Rendezvous, Outstanding, Unread
<1> QED BY <1>1, <1>2, <1>3, <1>4 DEF IInv, TypeOK

(***************************************************************************)
(* The client sends.                                                       *)
(***************************************************************************)
\* What appending a message to the log leaves as it was.
LEMMA Appended ==
    ASSUME TypeOK, NEW m \in Message, sent' = Append(sent, m)
    PROVE  /\ sent' \in Seq(Message) /\ Len(sent') = Len(sent) + 1
           /\ \A i \in 1 .. Len(sent) : sent'[i] = sent[i]
           /\ sent'[Len(sent) + 1] = m
           /\ Len(sent) \in Nat
  BY DEF TypeOK

LEMMA SendCmdStep ==
    ASSUME IInv, SendAsocCmd
    PROVE  IInv'
<1> USE DEF suite, assoc
<1> DEFINE n == Len(sent) + 1
           m == CmdMessage(Call.len)
<1>1. /\ cur \in 1 .. Len(Cases) /\ client.pc \in 1 .. Len(Script(Case))
      /\ Call.op = "cmd" /\ Call \in Calls
      /\ client.st = "run" /\ client.wait = 0
  BY CallType DEF SendAsocCmd, IInv, CallIs
<1>2. Call.len \in Commands
  BY <1>1 DEF Calls
<1>3. /\ m \in Message /\ m.cmd /\ m.len = Call.len /\ m.pol = "none"
  BY <1>2 DEF CmdMessage, Message, Policies
<1>4. /\ sent' \in Seq(Message) /\ Len(sent') = n /\ n \in Nat \ {0}
      /\ \A i \in 1 .. Len(sent) : sent'[i] = sent[i]
      /\ sent'[n] = m
  BY <1>3, Appended DEF SendAsocCmd, IInv
<1>5. /\ client' \in ClientType' /\ client'.pc = client.pc /\ client'.st = "run"
      /\ client'.wait = n
  <2>1. client' = [client EXCEPT !.wait = n] /\ client \in ClientType
    BY DEF SendAsocCmd, IInv, TypeOK
  <2>2. client' = [st |-> "run", pc |-> client.pc, wait |-> n] /\ client.pc \in Nat \ {0}
    BY <2>1, <1>1
  <2> QED BY <2>2, <1>4
<1>6. pend' = pend \cup {n} /\ pend \subseteq 1 .. n - 1
  BY DEF SendAsocCmd, IInv, TypeOK
<1>7. UNCHANGED <<cur, phase, logged, thr, server, mem, rules, small, enabled, strm, rcvq,
                  nread, acks>>
  BY DEF SendAsocCmd
<1>8. /\ rcvq \in Seq(Nat) /\ nread \in 0 .. Len(rcvq)
      /\ \A k \in 1 .. Len(rcvq) : rcvq[k] \in 1 .. n - 1
  BY <1>4 DEF IInv, TypeOK
<1> HIDE DEF n, m
<1>9. TypeOK'
  <2>1. pend' \subseteq 1 .. Len(sent')
    BY <1>4, <1>6
  <2>2. 1 .. n - 1 \subseteq 1 .. n
    BY <1>4
  <2>3. \A k \in 1 .. Len(rcvq') : rcvq'[k] \in 1 .. Len(sent')
    BY <1>4, <1>7, <1>8, <2>2
  <2> QED BY <1>4, <1>5, <1>7, <2>1, <2>3 DEF IInv, TypeOK
<1>10. acks = 0 /\ Outstanding = {}
  <2>1. acks = 0 /\ Outstanding \subseteq {0}
    BY <1>1, NoneAwaited
  <2>2. 0 \notin Outstanding
    BY DEF Outstanding
  <2> QED BY <2>1, <2>2
<1>11. Distinct'
  <2> SUFFICES ASSUME NEW i \in 1 .. n
               PROVE  /\ sent'[i].cmd <=> sent'[i].len \in Commands
                      /\ sent'[i].cmd => sent'[i].pol = "none"
    BY <1>4 DEF Distinct
  <2>1. CASE i = n
    BY <2>1, <1>2, <1>3, <1>4
  <2>2. CASE i \in 1 .. Len(sent)
    BY <2>2, <1>4 DEF IInv, Distinct
  <2> QED BY <2>1, <2>2, <1>4 DEF n
<1>12. OnePlace'
  <2> SUFFICES ASSUME NEW k \in nread + 1 .. Len(rcvq), sent'[rcvq[k]].cmd
               PROVE  FALSE
    BY <1>7 DEF OnePlace
  <2>1. rcvq[k] \in 1 .. n - 1 /\ k \in 1 .. Len(rcvq)
    BY <1>8
  <2>2. rcvq[k] \in Outstanding
    BY <2>1, <1>4 DEF Outstanding, Unread, n
  <2> QED BY <2>2, <1>10
<1>13. Outstanding' = {n}
  <2>1. n \in Outstanding'
    BY <1>3, <1>4, <1>6 DEF Outstanding
  <2>2. ASSUME NEW i \in Outstanding', i # n PROVE FALSE
    <3>1. i \in 1 .. Len(sent) /\ sent[i].cmd
      BY <2>2, <1>4 DEF Outstanding, n
    <3>2. i \in pend \/ Unread(i)
      BY <2>2, <1>6, <1>7 DEF Outstanding, Unread
    <3> QED BY <3>1, <3>2, <1>10 DEF Outstanding
  <2> QED BY <2>1, <2>2
<1>14. Rendezvous'
  BY <1>5, <1>7, <1>10, <1>13 DEF Rendezvous
<1>15. Running' /\ AwaitsCall'
  BY <1>1, <1>3, <1>4, <1>5, <1>7, <1>10 DEF Running, AwaitsCall, Call, Case
<1>16. Exchanged'
  BY <1>1, <1>5, <1>7 DEF IInv, Exchanged, Case
<1> QED BY <1>9, <1>11, <1>12, <1>14, <1>15, <1>16 DEF IInv

LEMMA SendMsgStep ==
    ASSUME IInv, SendAsocMsg
    PROVE  IInv'
<1> USE DEF suite, assoc
<1> DEFINE n == Len(sent) + 1
           m == Call.msg
<1>1. /\ cur \in 1 .. Len(Cases) /\ client.pc \in 1 .. Len(Script(Case))
      /\ Case \in CaseSet /\ Call.op = "send" /\ Call \in Calls
      /\ client.st = "run" /\ client.wait = 0
  BY CallType DEF SendAsocMsg, IInv, CallIs
<1>2. m \in Message
  BY <1>1 DEF Calls
<1>3. ~m.cmd /\ m.len \notin Commands
  BY <1>1, ScriptAssumption DEF Call
<1>4. /\ sent' \in Seq(Message) /\ Len(sent') = n /\ n \in Nat \ {0}
      /\ \A i \in 1 .. Len(sent) : sent'[i] = sent[i]
      /\ sent'[n] = m
  BY <1>2, Appended DEF SendAsocMsg, IInv
<1>5. /\ client' \in ClientType' /\ client'.pc = client.pc + 1 /\ client'.st = "run"
      /\ client'.wait = 0
  <2>1. client' = [client EXCEPT !.pc = @ + 1] /\ client \in ClientType
    BY DEF SendAsocMsg, Return, IInv, TypeOK
  <2>2. client' = [st |-> "run", pc |-> client.pc + 1, wait |-> 0] /\ client.pc \in Nat \ {0}
    BY <2>1, <1>1
  <2> QED BY <2>2, <1>4
<1>6. pend' \subseteq pend \cup {n} /\ pend \subseteq 1 .. n - 1
  BY DEF SendAsocMsg, IInv, TypeOK
<1>7. UNCHANGED <<cur, phase, logged, thr, server, mem, rules, small, enabled, strm, rcvq,
                  nread, acks>>
  BY DEF SendAsocMsg
<1>8. /\ rcvq \in Seq(Nat) /\ nread \in 0 .. Len(rcvq)
      /\ \A k \in 1 .. Len(rcvq) : rcvq[k] \in 1 .. n - 1
  BY <1>4 DEF IInv, TypeOK
<1> HIDE DEF n, m
<1>9. TypeOK'
  <2>1. pend' \subseteq 1 .. Len(sent')
    BY <1>4, <1>6
  <2>2. \A k \in 1 .. Len(rcvq') : rcvq'[k] \in 1 .. Len(sent')
    BY <1>4, <1>7, <1>8
  <2>3. rcvq' \in Seq(Nat) /\ nread' \in 0 .. Len(rcvq')
    BY <1>7, <1>8
  <2> QED BY <1>4, <1>5, <1>7, <2>1, <2>2, <2>3 DEF IInv, TypeOK
<1>10. acks = 0 /\ Outstanding = {}
  <2>1. acks = 0 /\ Outstanding \subseteq {0}
    BY <1>1, NoneAwaited
  <2>2. 0 \notin Outstanding
    BY DEF Outstanding
  <2> QED BY <2>1, <2>2
<1>11. Distinct'
  <2> SUFFICES ASSUME NEW i \in 1 .. n
               PROVE  /\ sent'[i].cmd <=> sent'[i].len \in Commands
                      /\ sent'[i].cmd => sent'[i].pol = "none"
    BY <1>4 DEF Distinct
  <2>1. CASE i = n
    BY <2>1, <1>3, <1>4
  <2>2. CASE i \in 1 .. Len(sent)
    BY <2>2, <1>4 DEF IInv, Distinct
  <2> QED BY <2>1, <2>2, <1>4 DEF n
<1>12. OnePlace'
  <2> SUFFICES ASSUME NEW k \in nread + 1 .. Len(rcvq), sent'[rcvq[k]].cmd
               PROVE  FALSE
    BY <1>7 DEF OnePlace
  <2>1. rcvq[k] \in 1 .. n - 1 /\ k \in 1 .. Len(rcvq)
    BY <1>8
  <2>2. rcvq[k] \in Outstanding
    BY <2>1, <1>4 DEF Outstanding, Unread, n
  <2> QED BY <2>2, <1>10
<1>13. Outstanding' = {}
  <2> SUFFICES ASSUME NEW i \in Outstanding' PROVE FALSE
    OBVIOUS
  <2>1. i # n
    BY <1>3, <1>4 DEF Outstanding
  <2>2. i \in 1 .. Len(sent) /\ sent[i].cmd
    BY <2>1, <1>4 DEF Outstanding, n
  <2>3. i \in pend \/ Unread(i)
    BY <2>1, <1>6, <1>7 DEF Outstanding, Unread
  <2> QED BY <2>2, <2>3, <1>10 DEF Outstanding
<1>14. Rendezvous'
  BY <1>5, <1>7, <1>10, <1>13 DEF Rendezvous
<1>15. Running' /\ AwaitsCall'
  BY <1>1, <1>5, <1>7 DEF Running, AwaitsCall
<1>16. Exchanged'
  <2> SUFFICES ASSUME NEW i \in 1 .. Len(Script(Case)), i < client.pc + 1
               PROVE  /\ Script(Case)[i].op = "enable" => "client" \in enabled
                      /\ Script(Case)[i].op = "cmd" /\ Script(Case)[i].len = SN_CMD_SET_STRRESET
                             => "server" \in enabled
    BY <1>5, <1>7 DEF Exchanged, Case
  <2>1. CASE i < client.pc
    BY <2>1, <1>1 DEF IInv, Exchanged
  <2>2. CASE i = client.pc
    BY <2>2, <1>1 DEF Call
  <2> QED BY <1>1, <2>1, <2>2
<1> QED BY <1>9, <1>11, <1>12, <1>14, <1>15, <1>16 DEF IInv

\* The client takes the answer: the command it waited for was the one answered.
LEMMA RecvAckStep ==
    ASSUME IInv, RecvAck
    PROVE  IInv'
<1> USE DEF suite, assoc
<1>1. /\ acks = 1 /\ Outstanding = {} /\ client.wait # 0 /\ client.st = "run"
      /\ acks' = 0
  BY DEF RecvAck, IInv, Rendezvous, TypeOK
<1>2. /\ client' \in ClientType' /\ client'.pc = client.pc + 1 /\ client'.st = "run"
      /\ client'.wait = 0
  <2>1. client' = [client EXCEPT !.pc = @ + 1, !.wait = 0] /\ client \in ClientType
    BY DEF RecvAck, IInv, TypeOK
  <2>2. client' = [st |-> "run", pc |-> client.pc + 1, wait |-> 0] /\ client.pc \in Nat \ {0}
    BY <2>1, <1>1
  <2>3. Len(sent') \in Nat
    BY DEF RecvAck, IInv, TypeOK
  <2> QED BY <2>2, <2>3
<1>3. UNCHANGED <<cur, phase, logged, thr, server, mem, rules, small, enabled, strm, sent,
                  pend, rcvq, nread>>
  BY DEF RecvAck
<1>4. /\ client.pc \in 1 .. Len(Script(Case)) /\ Call.op = "cmd"
      /\ Call.len = SN_CMD_SET_STRRESET => "server" \in enabled
  BY <1>1 DEF IInv, AwaitsCall
<1>5. Distinct' /\ OnePlace' /\ Running' /\ AwaitsCall'
  BY <1>1, <1>2, <1>3 DEF IInv, Distinct, OnePlace, Running, AwaitsCall
<1>6. Rendezvous'
  <2>1. Outstanding' = {}
    BY <1>1, <1>3 DEF Outstanding, Unread
  <2> QED BY <2>1, <1>1, <1>2 DEF Rendezvous
<1>7. Exchanged'
  <2> SUFFICES ASSUME NEW i \in 1 .. Len(Script(Case)), i < client.pc + 1
               PROVE  /\ Script(Case)[i].op = "enable" => "client" \in enabled
                      /\ Script(Case)[i].op = "cmd" /\ Script(Case)[i].len = SN_CMD_SET_STRRESET
                             => "server" \in enabled
    BY <1>2, <1>3 DEF Exchanged, Case
  <2>1. CASE i < client.pc
    BY <2>1, <1>1 DEF IInv, Exchanged
  <2>2. CASE i = client.pc
    BY <2>2, <1>4 DEF Call
  <2> QED BY <1>4, <2>1, <2>2
<1>8. TypeOK'
  BY <1>1, <1>2, <1>3 DEF IInv, TypeOK
<1> QED BY <1>5, <1>6, <1>7, <1>8 DEF IInv

(***************************************************************************)
(* The kernel moves, loses or duplicates messages.                         *)
(***************************************************************************)
LEMMA DeliverStep ==
    ASSUME IInv, NEW i \in pend, Deliver(i)
    PROVE  IInv'
<1> USE DEF suite, assoc
<1>1. UNCHANGED <<cur, phase, logged, client, thr, server, mem, rules, small, enabled, strm,
                  sent, nread, acks>>
  BY DEF Deliver
<1>2. /\ rcvq \in Seq(Nat) /\ i \in 1 .. Len(sent) /\ i \in Nat /\ nread \in 0 .. Len(rcvq)
      /\ Len(sent) \in Nat
      /\ \A k \in 1 .. Len(rcvq) : rcvq[k] \in 1 .. Len(sent)
  BY DEF IInv, TypeOK
<1>3. /\ rcvq' \in Seq(Nat) /\ Len(rcvq') = Len(rcvq) + 1
      /\ \A k \in 1 .. Len(rcvq) : rcvq'[k] = rcvq[k]
      /\ rcvq'[Len(rcvq) + 1] = i
      /\ pend' = pend \ {i}
  BY <1>2 DEF Deliver
<1>4. TypeOK'
  <2>1. ASSUME NEW k \in 1 .. Len(rcvq') PROVE rcvq'[k] \in 1 .. Len(sent)
    <3>1. k = Len(rcvq) + 1 \/ k \in 1 .. Len(rcvq)
      BY <1>2, <1>3
    <3> QED BY <3>1, <1>2, <1>3
  <2>2. nread' \in 0 .. Len(rcvq') /\ pend' \subseteq 1 .. Len(sent')
    BY <1>1, <1>2, <1>3 DEF IInv, TypeOK
  <2> QED BY <1>1, <1>3, <2>1, <2>2 DEF IInv, TypeOK
<1>5. Distinct' /\ Running' /\ AwaitsCall' /\ Exchanged'
  BY <1>1 DEF IInv, Distinct, Running, AwaitsCall, Exchanged, Call, Case
<1>6. OnePlace'
  <2> SUFFICES ASSUME NEW k \in nread + 1 .. Len(rcvq'), sent[rcvq'[k]].cmd
               PROVE  /\ rcvq'[k] \notin pend'
                      /\ \A l \in nread + 1 .. Len(rcvq') : rcvq'[l] = rcvq'[k] => l = k
    BY <1>1 DEF OnePlace
  \* No command already delivered is the one that is delivered now.
  <2>1. ASSUME NEW l \in nread + 1 .. Len(rcvq), sent[rcvq[l]].cmd PROVE rcvq[l] # i
    BY <2>1 DEF IInv, OnePlace
  <2>2. CASE k = Len(rcvq) + 1
    <3>1. rcvq'[k] = i /\ sent[i].cmd
      BY <2>2, <1>3
    <3>2. ASSUME NEW l \in nread + 1 .. Len(rcvq'), rcvq'[l] = i, l # k PROVE FALSE
      <4>1. l \in nread + 1 .. Len(rcvq) /\ rcvq[l] = i
        BY <3>2, <2>2, <1>2, <1>3
      <4> QED BY <4>1, <3>1, <2>1
    <3> QED BY <3>1, <3>2, <1>3
  <2>3. CASE k \in nread + 1 .. Len(rcvq)
    <3>1. rcvq'[k] = rcvq[k] /\ rcvq[k] # i /\ rcvq[k] \notin pend
      <4>1. k \in 1 .. Len(rcvq)
        BY <2>3, <1>2
      <4>2. rcvq'[k] = rcvq[k]
        BY <4>1, <1>3
      <4>3. sent[rcvq[k]].cmd
        BY <4>2
      <4>4. rcvq[k] # i
        BY <2>1, <2>3, <4>3
      <4>5. rcvq[k] \notin pend
        BY <2>3, <4>3 DEF IInv, OnePlace
      <4> QED BY <4>2, <4>4, <4>5
    <3>2. ASSUME NEW l \in nread + 1 .. Len(rcvq'), rcvq'[l] = rcvq[k] PROVE l = k
      <4>1. l # Len(rcvq) + 1
        BY <3>1, <3>2, <1>3
      <4>2. l \in nread + 1 .. Len(rcvq) /\ rcvq[l] = rcvq[k]
        BY <4>1, <3>2, <1>2, <1>3
      <4> QED BY <4>2, <2>3, <3>1 DEF IInv, OnePlace
    <3> QED BY <3>1, <3>2, <1>3
  <2> QED BY <2>2, <2>3, <1>2, <1>3
<1>7. Outstanding' = Outstanding
  <2>1. ASSUME NEW j \in 1 .. Len(sent)
        PROVE  (j \in pend' \/ Unread(j)') <=> (j \in pend \/ Unread(j))
    <3>1. ASSUME Unread(j)' PROVE j = i \/ Unread(j)
      <4>1. PICK k \in nread + 1 .. Len(rcvq') : rcvq'[k] = j
        BY <3>1, <1>1 DEF Unread
      <4>2. CASE k = Len(rcvq) + 1
        BY <4>1, <4>2, <1>3
      <4>3. CASE k \in nread + 1 .. Len(rcvq)
        <5>1. k \in 1 .. Len(rcvq)
          BY <4>3, <1>2
        <5>2. rcvq[k] = j
          BY <4>1, <5>1, <1>3
        <5> QED BY <4>3, <5>2 DEF Unread
      <4>4. k = Len(rcvq) + 1 \/ k \in nread + 1 .. Len(rcvq)
        BY <1>2, <1>3
      <4> QED BY <4>2, <4>3, <4>4
    <3>2. ASSUME Unread(j) PROVE Unread(j)'
      <4>1. PICK k \in nread + 1 .. Len(rcvq) : rcvq[k] = j
        BY <3>2 DEF Unread
      <4>2. k \in nread + 1 .. Len(rcvq') /\ rcvq'[k] = j
        BY <4>1, <1>2, <1>3
      <4> QED BY <4>2, <1>1 DEF Unread
    <3>3. Unread(i)'
      <4>1. Len(rcvq) + 1 \in nread + 1 .. Len(rcvq')
        BY <1>2, <1>3
      <4> QED BY <4>1, <1>1, <1>3 DEF Unread
    <3> QED BY <3>1, <3>2, <3>3, <1>3
  <2> QED BY <2>1, <1>1 DEF Outstanding
<1>8. Rendezvous'
  BY <1>1, <1>7 DEF IInv, Rendezvous
<1> QED BY <1>4, <1>5, <1>6, <1>8 DEF IInv

\* A message that is not a command leaves the queue, into the server's socket
\* any number of times or for good.
LEMMA DataStep ==
    ASSUME IInv, NEW i \in pend, Abandon(i) \/ Lose(i) \/ Duplicate(i)
    PROVE  IInv'
<1> USE DEF suite, assoc
<1>1. UNCHANGED <<cur, phase, logged, client, thr, server, mem, rules, small, enabled, strm,
                  sent, nread, acks>>
  BY DEF Abandon, Lose, Duplicate
<1>2. /\ rcvq \in Seq(Nat) /\ i \in 1 .. Len(sent) /\ i \in Nat /\ nread \in 0 .. Len(rcvq)
      /\ Len(sent) \in Nat
      /\ \A k \in 1 .. Len(rcvq) : rcvq[k] \in 1 .. Len(sent)
  BY DEF IInv, TypeOK
<1>3. ~sent[i].cmd
  <2>1. ASSUME Abandon(i) PROVE sent[i].pol # "none"
    BY <2>1, Zenon DEF Abandon, CanExpire
  <2> QED BY <2>1, <1>2 DEF Lose, Duplicate, IInv, Distinct
<1>4. /\ pend' = pend \ {i}
      /\ rcvq' \in Seq(Nat) /\ Len(rcvq') \in Nat /\ Len(rcvq') >= Len(rcvq)
      /\ \A k \in 1 .. Len(rcvq) : rcvq'[k] = rcvq[k]
      /\ \A k \in Len(rcvq) + 1 .. Len(rcvq') : rcvq'[k] = i
  <2>1. CASE Abandon(i) \/ Lose(i)
    BY <2>1, <1>2 DEF Abandon, Lose
  <2>2. CASE Duplicate(i)
    <3>1. pend' = pend \ {i} /\ rcvq' = rcvq \o <<i, i>>
      BY <2>2 DEF Duplicate
    <3> QED BY <3>1, <1>2
  <2> QED BY <2>1, <2>2
<1>5. TypeOK'
  <2>1. ASSUME NEW k \in 1 .. Len(rcvq') PROVE rcvq'[k] \in 1 .. Len(sent)
    <3>1. CASE k \in 1 .. Len(rcvq)
      BY <3>1, <1>2, <1>4
    <3>2. CASE k \in Len(rcvq) + 1 .. Len(rcvq')
      BY <3>2, <1>2, <1>4
    <3>3. k \in 1 .. Len(rcvq) \/ k \in Len(rcvq) + 1 .. Len(rcvq')
      BY <1>2, <1>4
    <3> QED BY <3>1, <3>2, <3>3
  <2>2. nread' \in 0 .. Len(rcvq') /\ pend' \subseteq 1 .. Len(sent')
    BY <1>1, <1>2, <1>4 DEF IInv, TypeOK
  <2> QED BY <1>1, <1>4, <2>1, <2>2 DEF IInv, TypeOK
<1>6. Distinct' /\ Running' /\ AwaitsCall' /\ Exchanged'
  BY <1>1 DEF IInv, Distinct, Running, AwaitsCall, Exchanged, Call, Case
<1>7. ASSUME NEW k \in nread + 1 .. Len(rcvq'), sent[rcvq'[k]].cmd
      PROVE  k \in nread + 1 .. Len(rcvq) /\ rcvq'[k] = rcvq[k]
  <2>1. CASE k \in Len(rcvq) + 1 .. Len(rcvq')
    BY <2>1, <1>7, <1>3, <1>4
  <2>2. CASE k \in nread + 1 .. Len(rcvq)
    <3>1. k \in 1 .. Len(rcvq)
      BY <2>2, <1>2
    <3> QED BY <2>2, <3>1, <1>4
  <2>3. k \in nread + 1 .. Len(rcvq) \/ k \in Len(rcvq) + 1 .. Len(rcvq')
    BY <1>2, <1>4
  <2> QED BY <2>1, <2>2, <2>3
<1>8. OnePlace'
  <2> SUFFICES ASSUME NEW k \in nread + 1 .. Len(rcvq'), sent[rcvq'[k]].cmd
               PROVE  /\ rcvq'[k] \notin pend'
                      /\ \A l \in nread + 1 .. Len(rcvq') : rcvq'[l] = rcvq'[k] => l = k
    BY <1>1 DEF OnePlace
  <2>1. k \in nread + 1 .. Len(rcvq) /\ rcvq'[k] = rcvq[k]
    BY <1>7
  <2>2. ASSUME NEW l \in nread + 1 .. Len(rcvq'), rcvq'[l] = rcvq'[k] PROVE l = k
    <3>1. l \in nread + 1 .. Len(rcvq) /\ rcvq'[l] = rcvq[l]
      BY <2>2, <1>7
    <3> QED BY <3>1, <2>1, <2>2 DEF IInv, OnePlace
  <2> QED BY <2>1, <2>2, <1>4 DEF IInv, OnePlace
<1>9. Outstanding' = Outstanding
  <2> SUFFICES ASSUME NEW j \in 1 .. Len(sent), sent[j].cmd
               PROVE  (j \in pend' \/ Unread(j)') <=> (j \in pend \/ Unread(j))
    BY <1>1 DEF Outstanding
  <2>1. j \in pend' <=> j \in pend
    BY <1>3, <1>4
  <2>2. ASSUME Unread(j)' PROVE Unread(j)
    BY <2>2, <1>1, <1>7 DEF Unread
  <2>3. ASSUME Unread(j) PROVE Unread(j)'
    <3>1. PICK k \in nread + 1 .. Len(rcvq) : rcvq[k] = j
      BY <2>3 DEF Unread
    <3>2. k \in nread + 1 .. Len(rcvq') /\ rcvq'[k] = j
      <4>1. k \in 1 .. Len(rcvq) /\ nread + 1 \in Nat
        BY <3>1, <1>2
      <4>2. k \in nread + 1 .. Len(rcvq')
        BY <3>1, <4>1, <1>2, <1>4
      <4>3. rcvq'[k] = rcvq[k]
        BY <4>1, <1>4
      <4> QED BY <3>1, <4>2, <4>3
    <3> QED BY <3>2, <1>1 DEF Unread
  <2> QED BY <2>1, <2>2, <2>3
<1>10. Rendezvous'
  BY <1>1, <1>9 DEF IInv, Rendezvous
<1> QED BY <1>5, <1>6, <1>8, <1>10 DEF IInv

(***************************************************************************)
(* The server.                                                             *)
(***************************************************************************)
\* A server that reads a command reads the one the client waits for, and has
\* nothing else to read that is one.
LEMMA ReadsCommand ==
    ASSUME IInv, GetPeerCmd, PeerCmd \in Commands
    PROVE  /\ client.wait # 0 /\ sent[client.wait].len = PeerCmd
           /\ acks = 0 /\ client.wait = rcvq[nread + 1]
           /\ Outstanding = {client.wait}
           /\ client.wait \notin pend
           /\ \A k \in nread + 2 .. Len(rcvq) : rcvq[k] # client.wait
<1> DEFINE i == rcvq[nread + 1]
<1>1. nread + 1 \in nread + 1 .. Len(rcvq) /\ i \in 1 .. Len(sent) /\ sent[i].cmd
  <2>1. nread \in Nat /\ Len(rcvq) \in Nat /\ nread < Len(rcvq)
    BY QueueType DEF GetPeerCmd, IInv
  <2>2. nread + 1 \in nread + 1 .. Len(rcvq) /\ nread + 1 \in 1 .. Len(rcvq)
    BY <2>1
  <2>3. i \in 1 .. Len(sent)
    BY <2>2, QueueType DEF IInv
  <2> QED BY <2>2, <2>3 DEF PeerCmd, IInv, Distinct
<1>2. i \in Outstanding
  BY <1>1 DEF Outstanding, Unread
<1>3. i = client.wait /\ i # 0 /\ acks = 0
  <2>1. acks \in Nat /\ Len(sent) \in Nat
    BY QueueType DEF IInv
  <2> QED BY <1>1, <1>2, <2>1 DEF IInv, Rendezvous
<1>4. Outstanding = {client.wait}
  BY <1>2, <1>3 DEF IInv, Rendezvous
<1>5. i \notin pend /\ \A k \in nread + 2 .. Len(rcvq) : rcvq[k] # i
  <2>1. i \notin pend
    BY <1>1 DEF IInv, OnePlace
  <2>2. ASSUME NEW k \in nread + 2 .. Len(rcvq), rcvq[k] = i PROVE FALSE
    <3>1. nread \in Nat /\ k \in nread + 1 .. Len(rcvq) /\ k # nread + 1
      BY DEF IInv, TypeOK
    <3> QED BY <3>1, <2>2, <1>1 DEF IInv, OnePlace
  <2> QED BY <2>1, <2>2
<1> QED BY <1>3, <1>4, <1>5 DEF PeerCmd

\* What reading a message leaves of the invariant.
LEMMA Reading ==
    ASSUME IInv, GetPeerCmd, UNCHANGED <<sent, pend, rcvq>>
    PROVE  /\ nread' = nread + 1 /\ nread' \in 0 .. Len(rcvq') /\ nread \in Nat
           /\ OnePlace'
           /\ \A j : Unread(j) <=> Unread(j)' \/ j = rcvq[nread + 1]
<1>1. /\ nread' = nread + 1 /\ nread \in 0 .. Len(rcvq) /\ Len(rcvq) \in Nat
      /\ nread < Len(rcvq)
  BY DEF GetPeerCmd, IInv, TypeOK
<1>2. nread + 1 .. Len(rcvq) = {nread + 1} \cup (nread' + 1 .. Len(rcvq))
  BY <1>1
<1>3. OnePlace'
  BY <1>2 DEF IInv, OnePlace
<1>4. \A j : Unread(j) <=> Unread(j)' \/ j = rcvq[nread + 1]
  BY <1>2 DEF Unread
<1> QED BY <1>1, <1>3, <1>4

\* The server answers a command.
LEMMA AnswerStep ==
    ASSUME IInv, ServerSetStrreset \/ ServerCloseAsoc
    PROVE  IInv'
<1> USE DEF suite, assoc
<1>1. /\ GetPeerCmd /\ PeerCmd \in Commands
      /\ PeerCmd = SN_CMD_SET_STRRESET => "server" \in enabled'
      /\ enabled' \subseteq {"client", "server"} /\ enabled \subseteq enabled'
      /\ server = "loop" /\ server' \in {"loop", "exited"}
      /\ acks' = acks + 1
      /\ UNCHANGED <<cur, phase, logged, client, thr, rules, small, strm, sent, pend, rcvq>>
  <2>1. enabled \subseteq {"client", "server"}
    BY DEF IInv, TypeOK
  <2>2. CASE ServerSetStrreset
    BY <2>1, <2>2 DEF ServerSetStrreset, GetPeerCmd
  <2>3. CASE ServerCloseAsoc
    BY <2>1, <2>3 DEF ServerCloseAsoc, GetPeerCmd
  <2> QED BY <2>2, <2>3
<1>2. /\ client.wait # 0 /\ sent[client.wait].len = PeerCmd
      /\ acks = 0 /\ client.wait = rcvq[nread + 1]
      /\ Outstanding = {client.wait}
      /\ client.wait \notin pend
      /\ \A k \in nread + 2 .. Len(rcvq) : rcvq[k] # client.wait
  BY <1>1, ReadsCommand
<1>3. /\ nread' = nread + 1 /\ nread' \in 0 .. Len(rcvq') /\ nread \in Nat
      /\ OnePlace'
      /\ \A j : Unread(j) <=> Unread(j)' \/ j = rcvq[nread + 1]
  BY <1>1, Reading
<1>4. TypeOK'
  BY <1>1, <1>2, <1>3 DEF IInv, TypeOK
<1>5. Distinct' /\ Running'
  BY <1>1 DEF IInv, Distinct, Running
<1>6. Outstanding' = {}
  <2>1. ASSUME NEW j \in Outstanding' PROVE FALSE
    <3>1. j \in Outstanding
      BY <1>1, <1>3 DEF Outstanding
    <3>2. j = client.wait /\ ~Unread(j)'
      BY <3>1, <1>1, <1>2, <1>3 DEF Unread
    <3> QED BY <3>2, <1>1, <1>2 DEF Outstanding
  <2> QED BY <2>1
<1>7. Rendezvous'
  BY <1>1, <1>2, <1>6 DEF Rendezvous
<1>8. AwaitsCall'
  BY <1>1, <1>2 DEF IInv, AwaitsCall, Call, Case
<1>9. Exchanged'
  BY <1>1 DEF IInv, Exchanged, Case
<1> QED BY <1>3, <1>4, <1>5, <1>7, <1>8, <1>9 DEF IInv

\* The server reads a message that is no command.
LEMMA CheckStep ==
    ASSUME IInv, ServerCheck
    PROVE  IInv'
<1> USE DEF suite, assoc
<1>1. /\ GetPeerCmd /\ PeerCmd \notin Commands
      /\ UNCHANGED <<cur, phase, logged, client, thr, server, rules, small, enabled, strm,
                     sent, pend, rcvq, acks>>
  BY DEF ServerCheck
<1>2. /\ nread' = nread + 1 /\ nread' \in 0 .. Len(rcvq') /\ nread \in Nat
      /\ OnePlace'
      /\ \A j : Unread(j) <=> Unread(j)' \/ j = rcvq[nread + 1]
  BY <1>1, Reading
<1>3. rcvq[nread + 1] \in 1 .. Len(sent) /\ ~sent[rcvq[nread + 1]].cmd
  <2>1. nread + 1 \in 1 .. Len(rcvq)
    BY <1>1 DEF GetPeerCmd, IInv, TypeOK
  <2>2. rcvq[nread + 1] \in 1 .. Len(sent)
    BY <2>1 DEF IInv, TypeOK
  <2> QED BY <1>1, <2>2 DEF PeerCmd, IInv, Distinct
<1>4. TypeOK'
  BY <1>1, <1>2 DEF IInv, TypeOK
<1>5. Distinct' /\ Running' /\ AwaitsCall' /\ Exchanged'
  BY <1>1 DEF IInv, Distinct, Running, AwaitsCall, Exchanged, Call, Case
<1>6. Outstanding' = Outstanding
  BY <1>1, <1>2, <1>3 DEF Outstanding
<1>7. Rendezvous'
  BY <1>1, <1>6 DEF IInv, Rendezvous
<1> QED BY <1>2, <1>4, <1>5, <1>7 DEF IInv

LEMMA ListenStep ==
    ASSUME IInv, ServerListen
    PROVE  IInv'
<1> USE DEF suite, assoc
<1>1. /\ server' = "loop" /\ server = "boot"
      /\ UNCHANGED <<cur, phase, logged, client, thr, rules, small, enabled, strm, sent, pend,
                     rcvq, nread, acks>>
  BY DEF ServerListen
<1>2. Distinct' /\ OnePlace' /\ Running' /\ AwaitsCall' /\ Exchanged'
  BY <1>1 DEF IInv, Distinct, OnePlace, Running, AwaitsCall, Exchanged, Call, Case
<1>3. Rendezvous'
  BY <1>1 DEF IInv, Rendezvous, Outstanding, Unread
<1>4. TypeOK'
  BY <1>1 DEF IInv, TypeOK
<1> QED BY <1>2, <1>3, <1>4 DEF IInv

\* A server that dies may take a command with it.
LEMMA ServerFailStep ==
    ASSUME IInv, ServerFail
    PROVE  IInv'
<1> USE DEF suite, assoc
<1>1. /\ server' = "failed"
      /\ nread' = nread \/ (GetPeerCmd /\ PeerCmd \in Commands)
      /\ UNCHANGED <<cur, phase, logged, client, thr, rules, small, enabled, strm, sent, pend,
                     rcvq, acks>>
  BY DEF ServerFail
<1>2. /\ nread' \in 0 .. Len(rcvq') /\ OnePlace'
      /\ Outstanding' \subseteq Outstanding
  <2>1. CASE nread' = nread
    BY <1>1, <2>1 DEF IInv, TypeOK, OnePlace, Outstanding, Unread
  <2>2. CASE GetPeerCmd
    BY <1>1, <2>2, Reading DEF Outstanding
  <2> QED BY <1>1, <2>1, <2>2
<1>3. Distinct' /\ Running' /\ AwaitsCall' /\ Exchanged'
  BY <1>1 DEF IInv, Distinct, Running, AwaitsCall, Exchanged, Call, Case
<1>4. Rendezvous'
  BY <1>1, <1>2 DEF IInv, Rendezvous
<1>5. TypeOK'
  BY <1>1, <1>2 DEF IInv, TypeOK
<1> QED BY <1>2, <1>3, <1>4, <1>5 DEF IInv

(***************************************************************************)
(* The theorems.                                                           *)
(***************************************************************************)
LEMMA StepInvariant == IInv /\ [Next]_vars => IInv'
<1> SUFFICES ASSUME IInv, [Next]_vars PROVE IInv'
  OBVIOUS
<1>1. CASE StartCase \/ FinishCase
  BY <1>1, SuiteSteps
<1>2. CASE ClientStep
  BY <1>2, HostCalls, SendCmdStep, SendMsgStep, RecvAckStep, ClientEnds DEF ClientStep
<1>3. CASE ClientFail
  BY <1>3, ClientEnds
<1>4. CASE ThreadStep
  BY <1>4, QuietSteps
<1>5. CASE ServerStep
  BY <1>5, ListenStep, AnswerStep, CheckStep DEF ServerStep
<1>6. CASE ServerFail
  BY <1>6, ServerFailStep
<1>7. CASE KernelStep
  BY <1>7, DeliverStep, DataStep, QuietSteps DEF KernelStep
<1>8. CASE UNCHANGED vars
  BY <1>8, QuietSteps
<1> QED BY <1>1, <1>2, <1>3, <1>4, <1>5, <1>6, <1>7, <1>8 DEF Next

THEOREM InductiveInvariant == Spec => []IInv
<1> QED BY InitInvariant, StepInvariant, PTL DEF Spec

\* The types of the session's state, whatever the scripts and the kernel do.
THEOREM TypeCorrectness == Spec => []TypeOK
<1>1. IInv => TypeOK
  BY DEF IInv
<1> QED BY <1>1, InductiveInvariant, PTL

\* Every answer reaches the client that asked, for the command it asked last:
\* the exchange of sn_send_asoc_cmd() and do_server() stays in step although
\* commands are recognised by their length alone and the ACK carries nothing.
THEOREM ExchangeInStep == Spec => []Rendezvous
<1>1. IInv => Rendezvous
  BY DEF IInv, Protocol
<1> QED BY <1>1, InductiveInvariant, PTL

\* No client resets a stream or an association before both ends have enabled it.
THEOREM ResetsAreNegotiated == Spec => []ResetNegotiated
<1>1. IInv => ResetNegotiated
  <2> SUFFICES ASSUME IInv, CallIs("reset") \/ CallIs("cork") PROVE Negotiated
    BY DEF ResetNegotiated
  <2>1. /\ Case \in CaseSet /\ client.pc \in 1 .. Len(Script(Case))
        /\ Script(Case)[client.pc].op \in {"reset", "cork"} /\ client.st = "run"
        /\ Script(Case) \in Seq(Calls)
    BY CallType DEF IInv, CallIs
  <2>2. PICK i \in 1 .. client.pc - 1 : Script(Case)[i].op = "enable"
    BY <2>1, ResetAssumption
  <2>3. PICK j \in 1 .. client.pc - 1 :
            Script(Case)[j].op = "cmd" /\ Script(Case)[j].len = SN_CMD_SET_STRRESET
    BY <2>1, ResetAssumption
  <2>4. i \in 1 .. Len(Script(Case)) /\ i < client.pc /\ j \in 1 .. Len(Script(Case))
        /\ j < client.pc
    BY <2>1
  <2>5. "client" \in enabled /\ "server" \in enabled
    BY <2>1, <2>2, <2>3, <2>4 DEF IInv, Exchanged
  <2> QED BY <2>5 DEF Negotiated, IInv, TypeOK
<1> QED BY <1>1, InductiveInvariant, PTL

(***************************************************************************)
(* The exchange implements the abstract remote call.                       *)
(***************************************************************************)
bars == <<ExchBar, PeerBar, cur>>

\* A step that leaves the exchange alone.
LEMMA BarsUnchanged ==
    ASSUME UNCHANGED <<cur, client, server, enabled, sent, acks>>
    PROVE  UNCHANGED bars
  BY DEF bars, ExchBar, PeerBar

\* A call of the client that returns at once.
LEMMA BarsOfReturn ==
    ASSUME IInv, client.wait = 0, client'.wait = 0, "server" \in enabled' <=> "server" \in enabled,
           UNCHANGED <<cur, server, acks>>
    PROVE  UNCHANGED bars
<1>1. acks = 0
  BY NoneAwaited
<1>2. ExchBar' = ExchBar
  BY <1>1 DEF ExchBar
<1>3. PeerBar' = PeerBar
  BY DEF PeerBar
<1> QED BY <1>2, <1>3 DEF bars

LEMMA ClientStepImplements ==
    ASSUME IInv, IInv', ClientStep \/ ClientFail
    PROVE  RPC!Next \/ UNCHANGED bars
<1> USE DEF suite, assoc
<1>1. CASE SendAsocCmd
  <2>1. /\ client.wait = 0 /\ acks = 0 /\ acks' = 0 /\ Call.op = "cmd" /\ Call \in Calls
        /\ sent' = Append(sent, CmdMessage(Call.len)) /\ client'.wait = Len(sent) + 1
        /\ UNCHANGED <<cur, server, enabled>>
    <3>1. CallIs("cmd") /\ client.wait = 0
      BY <1>1 DEF SendAsocCmd, CallIs
    <3>2. Call.op = "cmd" /\ Call \in Calls
      BY <3>1, CallType DEF IInv
    <3>3. acks = 0
      BY <3>1, NoneAwaited
    <3>4. client \in ClientType /\ client' = [client EXCEPT !.wait = Len(sent) + 1]
      BY <1>1 DEF SendAsocCmd, IInv, TypeOK
    <3>5. client'.wait = Len(sent) + 1
      BY <3>4
    <3>6. sent' = Append(sent, CmdMessage(Call.len)) /\ UNCHANGED <<cur, server, enabled, acks>>
      BY <1>1 DEF SendAsocCmd
    <3> QED BY <3>1, <3>2, <3>3, <3>5, <3>6
  <2>2. Call.len \in Commands
    BY <2>1 DEF Calls
  <2>3. CmdMessage(Call.len) \in Message /\ CmdMessage(Call.len).len = Call.len
    BY <2>2 DEF CmdMessage, Message, Policies
  <2>4. sent'[client'.wait].len = Call.len /\ client'.wait # 0
    BY <2>1, <2>3, Appended DEF IInv
  <2>5. ExchBar = RPC!Idle /\ ExchBar' = [stage |-> "asked", cmd |-> Call.len]
    BY <2>1, <2>4 DEF ExchBar, RPC!Idle, RPC!NoCommand
  <2>6. PeerBar' = PeerBar /\ cur' = cur
    BY <2>1 DEF PeerBar
  <2> QED BY <2>2, <2>5, <2>6 DEF RPC!Ask, RPC!Next
<1>2. CASE RecvAck
  <2>1. /\ acks = 1 /\ acks' = 0 /\ client'.wait = 0 /\ UNCHANGED <<cur, server, enabled>>
    BY <1>2 DEF RecvAck, IInv, Rendezvous, TypeOK
  <2>2. ExchBar.stage = "answered" /\ ExchBar' = RPC!Idle
    BY <2>1 DEF ExchBar, RPC!Idle, RPC!NoCommand
  <2>3. PeerBar' = PeerBar /\ cur' = cur
    BY <2>1 DEF PeerBar
  <2> QED BY <2>2, <2>3 DEF RPC!Return, RPC!Next
<1>3. CASE \/ CreateAsocSk \/ EnableAsocStrreset \/ SendAsocMsg \/ CloseAsocStreams
           \/ ReopenAsocStreams \/ Sleep \/ SetStrreset \/ CorkStreams \/ SetupSoSndbuf
           \/ SpawnCleanup \/ JoinCleanup
  <2>1. client.wait = 0 /\ UNCHANGED <<cur, server, acks>>
    BY <1>3 DEF CreateAsocSk, EnableAsocStrreset, SendAsocMsg, CloseAsocStreams,
                ReopenAsocStreams, Sleep, SetStrreset, CorkStreams, SetupSoSndbuf,
                SpawnCleanup, JoinCleanup,
                CallIs
  <2>2. Return \/ Die
    BY <1>3 DEF CreateAsocSk, EnableAsocStrreset, SendAsocMsg, CloseAsocStreams,
                ReopenAsocStreams, Sleep, SetStrreset, CorkStreams, SetupSoSndbuf,
                SpawnCleanup, JoinCleanup
  <2>3. client'.wait = 0
    BY <2>1, <2>2 DEF Return, Die, IInv, TypeOK
  <2>4. enabled' = enabled \/ enabled' = enabled \cup {"client"}
    BY <1>3 DEF CreateAsocSk, EnableAsocStrreset, SendAsocMsg, CloseAsocStreams,
                ReopenAsocStreams, Sleep, SetStrreset, CorkStreams, SetupSoSndbuf,
                SpawnCleanup, JoinCleanup
  <2> QED BY <2>1, <2>3, <2>4, BarsOfReturn
<1>4. CASE ClientExit \/ ClientFail
  <2>1. client'.wait = client.wait /\ UNCHANGED <<cur, server, enabled, sent, acks>>
    BY <1>4 DEF ClientExit, ClientFail, Die, IInv, TypeOK
  <2> QED BY <2>1 DEF bars, ExchBar, PeerBar
<1> QED BY <1>1, <1>2, <1>3, <1>4 DEF ClientStep

LEMMA ServerStepImplements ==
    ASSUME IInv, IInv', ServerStep \/ ServerFail
    PROVE  RPC!Next \/ UNCHANGED bars
<1> USE DEF suite, assoc
<1>1. CASE ServerSetStrreset \/ ServerCloseAsoc
  <2>1. /\ GetPeerCmd /\ PeerCmd \in Commands /\ acks' = acks + 1 /\ server = "loop"
        /\ UNCHANGED <<cur, client, sent>>
    BY <1>1 DEF ServerSetStrreset, ServerCloseAsoc, GetPeerCmd
  <2>2. client.wait # 0 /\ sent[client.wait].len = PeerCmd /\ acks = 0
    BY <2>1, ReadsCommand
  <2>3. /\ ExchBar = [stage |-> "asked", cmd |-> PeerCmd]
        /\ ExchBar' = [stage |-> "answered", cmd |-> PeerCmd]
    BY <2>1, <2>2 DEF ExchBar
  <2>4. PeerBar \notin {"dead", "gone"}
    BY <2>1 DEF PeerBar
  <2>5. PeerBar' = EffectBar(PeerBar, PeerCmd)
    <3>1. CASE ServerSetStrreset
      BY <3>1, <2>1 DEF ServerSetStrreset, PeerBar, EffectBar
    <3>2. CASE ServerCloseAsoc
      BY <3>2 DEF ServerCloseAsoc, PeerBar, EffectBar
    <3> QED BY <1>1, <3>1, <3>2
  <2> QED BY <2>1, <2>3, <2>4, <2>5 DEF RPC!Serve, RPC!Next
<1>2. CASE ServerListen
  <2>1. ExchBar' = ExchBar /\ PeerBar' = PeerBar /\ cur' = cur
    BY <1>2 DEF ServerListen, ExchBar, PeerBar
  <2> QED BY <2>1 DEF bars
<1>3. CASE ServerCheck
  BY <1>3, BarsUnchanged DEF ServerCheck
<1>4. CASE ServerFail
  <2>1. ExchBar' = ExchBar /\ cur' = cur /\ PeerBar' = "dead"
    BY <1>4 DEF ServerFail, ExchBar, PeerBar
  <2>2. PeerBar \notin {"dead", "gone"}
    BY <1>4 DEF ServerFail, PeerBar
  <2> QED BY <2>1, <2>2 DEF RPC!Die, RPC!Next
<1> QED BY <1>1, <1>2, <1>3, <1>4 DEF ServerStep

LEMMA OtherStepImplements ==
    ASSUME IInv, IInv',
           StartCase \/ FinishCase \/ ThreadStep \/ KernelStep \/ UNCHANGED vars
    PROVE  RPC!Next \/ UNCHANGED bars
<1> USE DEF suite, assoc
<1>1. CASE StartCase
  <2>1. ExchBar' = RPC!Idle /\ PeerBar' = "plain" /\ cur' = cur + 1
    BY <1>1 DEF StartCase, ExchBar, PeerBar, RPC!Idle, RPC!NoCommand
  <2> QED BY <2>1 DEF RPC!Restart, RPC!Next
<1>2. CASE FinishCase
  BY <1>2, BarsUnchanged DEF FinishCase
<1>3. CASE ThreadStep
  BY <1>3, BarsUnchanged DEF ThreadStep, ThreadSleep, ThreadFlush
<1>4. CASE KernelStep
  BY <1>4, BarsUnchanged DEF KernelStep, Deliver, Abandon, Lose, Duplicate, ReconfReply
<1>5. CASE UNCHANGED vars
  BY <1>5, BarsUnchanged DEF vars
<1> QED BY <1>1, <1>2, <1>3, <1>4, <1>5

\* The sn_* programs implement the abstract remote call: a command is served
\* once, by a live server, and the client goes on only after it was served.
THEOREM Implementation == Spec => ImplementsRemoteCall
<1>1. Init => RPC!Init
  BY DEF Init, RPC!Init, ExchBar, PeerBar, RPC!Idle, RPC!NoCommand
<1>2. IInv /\ IInv' /\ [Next]_vars => [RPC!Next]_<<ExchBar, PeerBar, cur>>
  BY ClientStepImplements, ServerStepImplements, OtherStepImplements DEF Next, bars
<1> QED BY <1>1, <1>2, InductiveInvariant, PTL DEF Spec, ImplementsRemoteCall, RPC!Spec
============================================================================
