----------------------------- MODULE DryEvents -----------------------------
(***************************************************************************)
(* The regression case dryevents: sctp-dry-event.c as a server that reads  *)
(* without blocking after select(), as the clients that test.sh runs one   *)
(* after the other, and test.sh itself.  The kernel is external: the queue *)
(* of an accepted socket, the wake-up of a sleeping select(), the port a   *)
(* client binds to and keeps until its association is shut down.           *)
(*                                                                         *)
(* The kernel that the case is to expose leaves a mark on a socket when it *)
(* queues a SENDER_DRY event for the call that subscribes to it, and omits *)
(* the next wake-up because of the mark.                                   *)
(***************************************************************************)
EXTENDS Naturals, Sequences

CONSTANTS
    Clients,    \* how often test.sh runs the client, 300
    Kernels,    \* subset of {"fixed", "lingers"}
    Timely,     \* the server listens, and ports are free, before the next client
    Faults      \* whether system calls may fail

ASSUME ClientsAssumption == Clients \in Nat \ {0}
ASSUME KernelsAssumption == Kernels \subseteq {"fixed", "lingers"} /\ Kernels # {}
ASSUME FlagsAssumption == Timely \in BOOLEAN /\ Faults \in BOOLEAN

Ids == 1 .. Clients
Items == {"data", "dry", "eof"}

VARIABLES
    kernel,     \* which of the two the case runs on
    turn,       \* test.sh: the client that runs, Clients + 1 after the last
    res,        \* test.sh: res
    client,     \* the call the running client is in
    server,     \* the call the server is in, and the connection it serves
    assoc,      \* of each client: "none", "up", "down"
    heard,      \* of each client: what reached its socket first
    inbox,      \* of each connection: what the server has not read
    backlog,    \* connections the server has not accepted
    port,       \* the client whose socket is bound to port 3333, 0 for none
    signalled,  \* the mark on the socket of the server's connection
    unacked,    \* whether the server's response is to be acknowledged
    causes      \* why a client may have had to fail

vars == <<kernel, turn, res, client, server, assoc, heard, inbox, backlog, port,
          signalled, unacked, causes>>

ServerCalls ==
    {"socket", "accept", "events", "nonblock", "select", "asleep", "recv", "send", "gone"}

TypeOK ==
    /\ kernel \in Kernels
    /\ turn \in 1 .. Clients + 1
    /\ res \in {"PASS", "FAIL"}
    /\ client \in {"bind", "connect", "send", "recv"}
    /\ server \in [pc : ServerCalls, conn : 0 .. Clients]
    /\ server.conn # 0 <=> server.pc \notin {"socket", "accept", "gone"}
    /\ assoc \in [Ids -> {"none", "up", "down"}]
    /\ heard \in [Ids -> {"nothing", "data", "eof"}]
    /\ inbox \in [Ids -> Seq(Items)]
    /\ backlog \in SUBSET Ids
    /\ port \in 0 .. Clients
    /\ signalled \in BOOLEAN /\ unacked \in BOOLEAN
    /\ causes \in SUBSET {"call", "early", "port"}

Init ==
    /\ kernel \in Kernels
    /\ turn = 1 /\ res = "PASS" /\ client = "bind"
    /\ server = [pc |-> "socket", conn |-> 0]
    /\ assoc = [c \in Ids |-> "none"]
    /\ heard = [c \in Ids |-> "nothing"]
    /\ inbox = [c \in Ids |-> <<>>]
    /\ backlog = {} /\ port = 0
    /\ signalled = FALSE /\ unacked = FALSE
    /\ causes = {}

Finished == turn > Clients
At(pc) == [server EXCEPT !.pc = pc]

-----------------------------------------------------------------------------
(* The kernel's part of several actions. *)

\* An item reaches the server's end of connection c.  A SHUTDOWN always wakes
\* the reader; anything else does unless the mark is there, and takes the mark
\* away.
Deliver(c, item) ==
    /\ inbox' = [inbox EXCEPT ![c] = Append(@, item)]
    /\ server' = IF server.conn = c /\ server.pc = "asleep" /\ (item = "eof" \/ ~signalled)
                 THEN At("select") ELSE server
    /\ signalled' = IF server.conn = c THEN FALSE ELSE signalled

\* What a client finds on its socket when the server's ends of the connections
\* cs are closed.
Hangup(cs) ==
    /\ assoc' = [c \in Ids |-> IF c \in cs /\ assoc[c] = "up" THEN "down" ELSE assoc[c]]
    /\ heard' = [c \in Ids |-> IF c \in cs /\ heard[c] = "nothing" THEN "eof" ELSE heard[c]]

\* The client's association is gone, and so is the port.
ReleasePort ==
    /\ port # 0 /\ port < turn
    /\ port' = 0
    /\ backlog' = backlog \ {port}
    /\ UNCHANGED <<kernel, turn, res, client, server, assoc, heard, inbox, signalled,
                   unacked, causes>>

\* The response has arrived: the sender is dry, which the server is told.
Sack ==
    /\ unacked /\ server.conn # 0 /\ assoc[server.conn] = "up"
    /\ Deliver(server.conn, "dry")
    /\ unacked' = FALSE
    /\ UNCHANGED <<kernel, turn, res, client, assoc, heard, backlog, port, causes>>

-----------------------------------------------------------------------------
(* The client, once per turn of the loop of test.sh. *)

Running(pc) == ~Finished /\ client = pc

\* exit() or the end of main(): the kernel closes the socket, the shell looks
\* at the exit status and runs the next client.
Exit(status, why) ==
    /\ res' = IF status = 0 THEN res ELSE "FAIL"
    /\ causes' = causes \cup why
    /\ turn' = turn + 1
    /\ client' = "bind"
    /\ IF assoc[turn] = "up"
       THEN assoc' = [assoc EXCEPT ![turn] = "down"] /\ Deliver(turn, "eof")
       ELSE UNCHANGED <<assoc, inbox, server, signalled>>
    /\ UNCHANGED <<kernel, heard, backlog, port, unacked>>

\* Any client in the same port: it can be bound only if no association of an
\* earlier client still has it.
Bind ==
    /\ Running("bind")
    /\ port = 0
    /\ port' = turn
    /\ client' = "connect"
    /\ UNCHANGED <<kernel, turn, res, server, assoc, heard, inbox, backlog, signalled,
                   unacked, causes>>

BindInUse ==
    /\ Running("bind")
    /\ ~Timely /\ port # 0
    /\ Exit(1, {"port"})

Connect ==
    /\ Running("connect")
    /\ server.pc \notin {"socket", "gone"}
    /\ assoc' = [assoc EXCEPT ![turn] = "up"]
    /\ backlog' = backlog \cup {turn}
    /\ client' = "send"
    /\ UNCHANGED <<kernel, turn, res, server, heard, inbox, port, signalled, unacked, causes>>

\* The server that do_setup started does not listen yet, or no longer.
ConnectRefused ==
    /\ Running("connect")
    /\ server.pc \in {"socket", "gone"}
    /\ Timely => server.pc = "gone"
    /\ Exit(1, IF server.pc = "socket" THEN {"early"} ELSE {})

SendData ==
    /\ Running("send")
    /\ assoc[turn] = "up"
    /\ Deliver(turn, "data")
    /\ client' = "recv"
    /\ UNCHANGED <<kernel, turn, res, assoc, heard, backlog, port, unacked, causes>>

SendBroken ==
    /\ Running("send")
    /\ assoc[turn] # "up"
    /\ Exit(1, {})

\* while (read_data(fd) == 0): data or an end, both leave the loop and main()
\* without a return value.
ClientRecv ==
    /\ Running("recv")
    /\ heard[turn] # "nothing"
    /\ Exit(0, {})

\* Any call; after a receive that fails the client ends as after any other.
ClientFails ==
    /\ Faults
    /\ ~Finished
    /\ Exit(IF client = "recv" THEN 0 ELSE 1, {"call"})

-----------------------------------------------------------------------------
(* The server. *)

\* (Mutants.)  The fd stays, and the listening socket is closed with it.
CloseConnLeaks ==
    /\ Hangup({server.conn})
    /\ server' = At("accept")
CloseConnAndListener ==
    /\ Hangup({server.conn} \cup backlog)
    /\ server' = [pc |-> "gone", conn |-> 0]

\* close(fd), and the next accept().
CloseConn ==
    /\ Hangup({server.conn})
    /\ server' = [pc |-> "accept", conn |-> 0]

Listen ==
    /\ server.pc = "socket"
    /\ server' = At("accept")
    /\ UNCHANGED <<kernel, turn, res, client, assoc, heard, inbox, backlog, port, signalled,
                   unacked, causes>>

\* The oldest connection of the queue.
Accept ==
    /\ server.pc = "accept"
    /\ \E c \in backlog :
        /\ \A d \in backlog : c <= d
        /\ server' = [pc |-> "events", conn |-> c]
        /\ backlog' = backlog \ {c}
    /\ signalled' = FALSE /\ unacked' = FALSE
    /\ UNCHANGED <<kernel, turn, res, client, assoc, heard, inbox, port, causes>>

\* With an association that has nothing to send the event is queued at once.
EnableEvents ==
    /\ server.pc = "events"
    /\ server' = At("nonblock")
    /\ IF assoc[server.conn] = "up"
       THEN /\ inbox' = [inbox EXCEPT ![server.conn] = Append(@, "dry")]
            /\ signalled' = (kernel = "lingers")
       ELSE UNCHANGED <<inbox, signalled>>
    /\ UNCHANGED <<kernel, turn, res, client, assoc, heard, backlog, port, unacked, causes>>

MakeNodelayNonblock ==
    /\ server.pc = "nonblock"
    /\ server' = At("select")
    /\ UNCHANGED <<kernel, turn, res, client, assoc, heard, inbox, backlog, port, signalled,
                   unacked, causes>>

Select ==
    /\ server.pc = "select"
    /\ server' = At(IF inbox[server.conn] # <<>> THEN "recv" ELSE "asleep")
    /\ UNCHANGED <<kernel, turn, res, client, assoc, heard, inbox, backlog, port, signalled,
                   unacked, causes>>

\* read_data(): 0 for a notification, 1 for data, negative (here 2) for the end.
ReadResultNoFlags(item) == IF item = "eof" THEN 2 ELSE 0
ReadResultNoEvents(item) == IF item = "data" THEN 1 ELSE 2
ReadResult(item) == IF item = "dry" THEN 0 ELSE IF item = "data" THEN 1 ELSE 2

ServerRecv ==
    /\ server.pc = "recv"
    /\ inbox[server.conn] # <<>>
    /\ inbox' = [inbox EXCEPT ![server.conn] = Tail(@)]
    /\ LET rc == ReadResult(Head(inbox[server.conn])) IN
       \/ rc = 0 /\ server' = At("select") /\ UNCHANGED <<assoc, heard>>
       \/ rc = 1 /\ server' = At("send") /\ UNCHANGED <<assoc, heard>>
       \/ rc = 2 /\ CloseConn
    /\ UNCHANGED <<kernel, turn, res, client, backlog, port, signalled, unacked, causes>>

Respond ==
    /\ server.pc = "send"
    /\ assoc[server.conn] = "up"
    /\ heard' = [heard EXCEPT ![server.conn] = IF @ = "nothing" THEN "data" ELSE @]
    /\ unacked' = TRUE
    /\ server' = At("select")
    /\ UNCHANGED <<kernel, turn, res, client, assoc, inbox, backlog, port, signalled, causes>>

RespondBroken ==
    /\ server.pc = "send"
    /\ assoc[server.conn] # "up"
    /\ CloseConn
    /\ UNCHANGED <<kernel, turn, res, client, inbox, backlog, port, signalled, unacked, causes>>

\* server_mainloop() returns, or create_sctp_socket_server() has failed: the
\* process ends and the kernel closes all it had.
ServerGone ==
    /\ Hangup({server.conn} \cup backlog)
    /\ server' = [pc |-> "gone", conn |-> 0]
    /\ backlog' = {}

ServerReturns ==
    /\ Faults
    /\ server.pc \in {"socket", "accept", "events", "nonblock"}
    /\ ServerGone
    /\ causes' = causes \cup {"call"}
    /\ UNCHANGED <<kernel, turn, res, client, inbox, port, signalled, unacked>>

ServerBreaks ==
    /\ Faults
    /\ server.pc \in {"select", "recv", "send"}
    /\ CloseConn
    /\ causes' = causes \cup {"call"}
    /\ UNCHANGED <<kernel, turn, res, client, inbox, backlog, port, signalled, unacked>>

\* do_clean.
KillServer ==
    /\ Finished /\ server.pc # "gone"
    /\ ServerGone
    /\ UNCHANGED <<kernel, turn, res, client, inbox, port, signalled, unacked, causes>>

-----------------------------------------------------------------------------
ClientStep ==
    Bind \/ BindInUse \/ Connect \/ ConnectRefused \/ SendData \/ SendBroken \/ ClientRecv

ServerStep ==
    \/ Listen \/ Accept \/ EnableEvents \/ MakeNodelayNonblock \/ Select \/ ServerRecv
    \/ Respond \/ RespondBroken \/ KillServer

Next ==
    ClientStep \/ ClientFails \/ ServerStep \/ ServerReturns \/ ServerBreaks \/ ReleasePort \/ Sack

\* Neither process is ever held up, and the kernel finishes a shutdown.
Spec == Init /\ [][Next]_vars /\ WF_vars(ClientStep) /\ WF_vars(ServerStep) /\ WF_vars(ReleasePort)

-----------------------------------------------------------------------------
Holds(q, item) == \E n \in 1 .. Len(q) : q[n] = item

\* The state the case is there to produce: select() sleeps although there is
\* something to read.
MissedWakeup == server.pc = "asleep" /\ inbox[server.conn] # <<>>

\* The client waits for a response and the server for input, of the connection
\* it serves or of a new one.
BothWait ==
    /\ Running("recv") /\ heard[turn] = "nothing"
    /\ \/ server.pc \in {"asleep", "gone"}
       \/ server.pc = "accept" /\ backlog = {}

\* The client and the server's one loop (accept, select, read_data, send_data,
\* close) never wait for each other, whatever call fails, whichever connection
\* is served meanwhile and however data, events and shutdowns arrive: but for
\* the server that sleeps over this client's data on the kernel with the fault.
NeverBothWait ==
    BothWait => /\ kernel = "lingers" /\ MissedWakeup
                /\ server.conn = turn /\ Holds(inbox[turn], "data")

\* Without a failure of a system call, PASS means that every client read the
\* server's response, although the client takes the end of the connection for
\* an answer too.
PassMeansAnswered ==
    Finished /\ res = "PASS" /\ causes = {} => \A c \in Ids : heard[c] = "data"

\* The case fails only if a call failed, a client came before the server
\* listened, or before the port of its predecessor was free.
FailHasCause == res = "FAIL" => causes # {}

\* "expected to hang in case it reproduces the issue": the loop of test.sh ends,
\* or the server sleeps for ever over an unread item on the kernel with the
\* fault; nothing else hangs it, and no failed call does.
HangOnlyReproduces ==
    \/ <>Finished
    \/ <>[](MissedWakeup /\ kernel = "lingers")

\* print_usage_and_exit() of the client: "Wait indefinitely for any response".
\* A client that ended well had one.
WaitsForResponse == Finished /\ res = "PASS" => \A c \in Ids : heard[c] = "data"
=============================================================================
