---------------------------- MODULE RemoteCall ----------------------------
(***************************************************************************)
(* What the command exchange of the sn_* programs promises, without any    *)
(* message: the client asks one thing at a time, the peer does it once and *)
(* while it lives, and the client goes on only after it has been done.     *)
(***************************************************************************)
EXTENDS Naturals

CONSTANTS Commands,     \* what a client may ask
          Effect(_, _)  \* the state of a peer after it has served a command

VARIABLES exch,    \* the stage of the exchange and the command it is about
          peer,    \* the state of the peer; "dead" and "gone" serve nothing
          session  \* how many pairs of processes there have been

NoCommand == 0
Idle == [stage |-> "idle", cmd |-> NoCommand]

Init == exch = Idle /\ peer = "plain" /\ session = 0

Ask ==
    /\ exch = Idle
    /\ \E c \in Commands : exch' = [stage |-> "asked", cmd |-> c]
    /\ UNCHANGED <<peer, session>>

Serve ==
    /\ exch.stage = "asked" /\ peer \notin {"dead", "gone"}
    /\ exch' = [exch EXCEPT !.stage = "answered"]
    /\ peer' = Effect(peer, exch.cmd)
    /\ UNCHANGED session

Return ==
    /\ exch.stage = "answered"
    /\ exch' = Idle
    /\ UNCHANGED <<peer, session>>

\* The peer dies, perhaps with a command it has not answered.
Die ==
    /\ peer \notin {"dead", "gone"}
    /\ peer' = "dead"
    /\ UNCHANGED <<exch, session>>

\* A new pair of processes.
Restart == session' = session + 1 /\ exch' = Idle /\ peer' = "plain"

Next == Ask \/ Serve \/ Return \/ Die \/ Restart

Spec == Init /\ [][Next]_<<exch, peer, session>>
===========================================================================
