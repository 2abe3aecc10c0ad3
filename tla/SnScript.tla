---------------------------- MODULE SnScript ----------------------------
(***************************************************************************)
(* The calls an sn_* client is made of, and the messages it sends.  The    *)
(* modules of the single programs write a case as a sequence of them.      *)
(***************************************************************************)
EXTENDS Naturals, Sequences

SN_CMD_SET_STRRESET == 11
SN_CMD_CLOSE_ASOC == 12
Commands == {SN_CMD_SET_STRRESET, SN_CMD_CLOSE_ASOC}

(***************************************************************************)
(* A message is what sctp_sendmsg() is given: the length, the stream, the  *)
(* SCTP_UNORDERED flag, and the PR-SCTP policy with its value.  cmd is a   *)
(* ghost: the receiver sees only the length.                               *)
(***************************************************************************)
Policies == {"none", "ttl", "rtx", "prio"}

Message == [len : Nat, sid : Nat, unord : BOOLEAN, pol : Policies,
            val : Nat, cmd : BOOLEAN]

CmdMessage(l) ==
    [len |-> l, sid |-> 0, unord |-> FALSE, pol |-> "none", val |-> 0, cmd |-> TRUE]

\* The iptables rules: on OUTPUT against DATA chunks or against everything, and
\* on INPUT against everything.
Rules == {"data", "all", "input"}

Calls ==
    [op : {"connect", "enable", "reset", "cork", "flush", "sndbuf", "spawn", "join"}]
    \cup [op : {"cmd"}, len : Commands]
    \cup [op : {"send"}, msg : Message]
    \cup [op : {"drop"}, rule : Rules]
    \cup [op : {"sleep"}, secs : Nat]

\* Chunks leave in the order of the calls when there is no stream scheduler.
TsnOrder(c, msgs, p, arrived) == {i \in p : \A j \in p : i <= j}

Do(o) == <<[op |-> o]>>
SleepFor(n) == <<[op |-> "sleep", secs |-> n]>>
Cmd(l) == <<[op |-> "cmd", len |-> l]>>
Drop(r) == <<[op |-> "drop", rule |-> r]>>
Send(l, s, u, p, v) ==
    <<[op |-> "send", msg |-> [len |-> l, sid |-> s, unord |-> u, pol |-> p,
                               val |-> v, cmd |-> FALSE]]>>

\* do_client() around a test: the comment's wait for the server, connect, what
\* the program sets up, the test, and sn_close_asoc_sk().
AroundTest(setup, test, settle) ==
    SleepFor(3) \o Do("connect") \o setup \o test \o settle
    \o Cmd(SN_CMD_CLOSE_ASOC) \o SleepFor(5)
==========================================================================
