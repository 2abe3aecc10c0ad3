-------------------------- MODULE DryEvents_proofs --------------------------
(***************************************************************************)
(* dryevents accuses no kernel that wakes its readers and fails for a      *)
(* cause only, and its two processes wait for each other only where the    *)
(* kernel's fault strikes, for every number of clients.                    *)
(***************************************************************************)
EXTENDS DryEvents, TLAPS

Awake ==
    kernel = "fixed" => ~signalled /\ (server.pc = "asleep" => inbox[server.conn] = <<>>)

\* A connection ends with its client, as long as no call fails.
Undisturbed ==
    causes = {} =>
        /\ res = "PASS"
        /\ server.pc = "gone" => Finished
        /\ ~Finished => (assoc[turn] = "up" <=> client \in {"send", "recv"})
        /\ \A c \in Ids : assoc[c] = "up" => c = turn
        /\ \A c \in Ids : assoc[c] = "down" \/ Holds(inbox[c], "eof") => c < turn
        /\ \A c \in Ids : c = server.conn \/ c \in backlog => assoc[c] # "none"
        /\ \A c \in Ids : heard[c] # "eof" /\ (c < turn => heard[c] = "data")

IInv == TypeOK /\ Awake /\ Undisturbed

\* A connection the server has or will have is that of the running client, or
\* has its end in the queue; over an end the server does not sleep.
Connected ==
    /\ \A c \in Ids : assoc[c] # "none" => c < turn \/ (c = turn /\ client \in {"send", "recv"})
    /\ \A c \in Ids : assoc[c] = "up" => c = turn /\ (c = server.conn \/ c \in backlog)
    /\ \A c \in Ids : c = server.conn \/ c \in backlog =>
                        assoc[c] = "up" \/ (assoc[c] = "down" /\ Holds(inbox[c], "eof"))
    /\ server.conn \notin backlog
    /\ server.pc = "gone" => backlog = {}
    /\ server.pc = "asleep" => ~Holds(inbox[server.conn], "eof")

\* The data of a client that waits lie before a server that has the connection
\* or can accept it, or are being answered.
Owed ==
    Running("recv") /\ heard[turn] = "nothing" =>
        \/ turn \in backlog /\ Holds(inbox[turn], "data")
        \/ server.conn = turn /\ (server.pc = "send" \/ Holds(inbox[turn], "data"))

-----------------------------------------------------------------------------
\* A queue after an item was appended: its type, and what it holds.
LEMMA AppendItem ==
    ASSUME NEW q \in Seq(Items), NEW item \in Items
    PROVE  /\ Append(q, item) \in Seq(Items)
           /\ \A x : Holds(Append(q, item), x) <=> Holds(q, x) \/ x = item
<1>1. Append(q, item) \in Seq(Items) OBVIOUS
<1>2. ASSUME NEW x, Holds(Append(q, item), x) PROVE Holds(q, x) \/ x = item
  <2>1. PICK n \in 1 .. Len(Append(q, item)) : Append(q, item)[n] = x BY <1>2 DEF Holds
  <2>2. CASE n = Len(q) + 1
    <3>1. Append(q, item)[Len(q) + 1] = item OBVIOUS
    <3> QED BY <2>1, <2>2, <3>1
  <2>3. CASE n # Len(q) + 1
    <3>1. n \in 1 .. Len(q) /\ Append(q, item)[n] = q[n] BY <2>3
    <3> QED BY <2>1, <3>1 DEF Holds
  <2> QED BY <2>2, <2>3
<1>3. ASSUME NEW x, Holds(q, x) PROVE Holds(Append(q, item), x)
  <2>1. PICK n \in 1 .. Len(q) : q[n] = x BY <1>3 DEF Holds
  <2>2. n \in 1 .. Len(Append(q, item)) /\ Append(q, item)[n] = x BY <2>1
  <2> QED BY <2>2 DEF Holds
<1>4. Holds(Append(q, item), item)
  <2>1. Len(q) + 1 \in 1 .. Len(Append(q, item)) /\ Append(q, item)[Len(q) + 1] = item OBVIOUS
  <2> QED BY <2>1 DEF Holds
<1> QED BY <1>1, <1>2, <1>3, <1>4

\* A queue without its first item.
LEMMA TailItem ==
    ASSUME NEW q \in Seq(Items), q # <<>>
    PROVE  /\ Tail(q) \in Seq(Items)
           /\ Head(q) \in Items
           /\ \A x : Holds(Tail(q), x) => Holds(q, x)
           /\ \A x : Holds(q, x) => Head(q) = x \/ Holds(Tail(q), x)
           /\ Holds(q, Head(q))
<1>1. Tail(q) \in Seq(Items) /\ Head(q) \in Items OBVIOUS
<1>2. ASSUME NEW x, Holds(Tail(q), x) PROVE Holds(q, x)
  <2>1. PICK n \in 1 .. Len(Tail(q)) : Tail(q)[n] = x BY <1>2 DEF Holds
  <2>2. n + 1 \in 1 .. Len(q) /\ q[n + 1] = x BY <2>1
  <2> QED BY <2>2 DEF Holds
<1>3. ASSUME NEW x, Holds(q, x), Head(q) # x PROVE Holds(Tail(q), x)
  <2>1. PICK n \in 1 .. Len(q) : q[n] = x BY <1>3 DEF Holds
  <2>2. n # 1 BY <1>3, <2>1
  <2>3. n - 1 \in 1 .. Len(Tail(q)) /\ Tail(q)[n - 1] = x BY <2>1, <2>2
  <2> QED BY <2>3 DEF Holds
<1>4. Holds(q, Head(q))
  <2>1. 1 \in 1 .. Len(q) /\ q[1] = Head(q) OBVIOUS
  <2> QED BY <2>1 DEF Holds
<1> QED BY <1>1, <1>2, <1>3, <1>4

\* The queues after that of one connection was replaced.
LEMMA OtherQueue ==
    ASSUME NEW f \in [Ids -> Seq(Items)], NEW c \in Ids, NEW q \in Seq(Items),
           Holds(q, "eof") => Holds(f[c], "eof")
    PROVE  /\ [f EXCEPT ![c] = q] \in [Ids -> Seq(Items)]
           /\ \A d \in Ids : Holds([f EXCEPT ![c] = q][d], "eof") => Holds(f[d], "eof")
<1>1. [f EXCEPT ![c] = q] \in [Ids -> Seq(Items)] OBVIOUS
<1>2. ASSUME NEW d \in Ids PROVE Holds([f EXCEPT ![c] = q][d], "eof") => Holds(f[d], "eof")
  <2>1. CASE d = c
    <3>1. [f EXCEPT ![c] = q][d] = q BY <2>1
    <3> QED BY <3>1, <2>1
  <2>2. CASE d # c
    <3>1. [f EXCEPT ![c] = q][d] = f[d] BY <2>2
    <3> QED BY <3>1
  <2> QED BY <2>1, <2>2
<1> QED BY <1>1, <1>2

\* The empty queue.
LEMMA EmptyQueue == <<>> \in Seq(Items) /\ ~Holds(<<>>, "eof")
BY DEF Holds

\* What the arrival of an item does to the server's end of a connection.
LEMMA Delivery ==
    ASSUME IInv, NEW c \in Ids, NEW item \in Items, Deliver(c, item), UNCHANGED kernel
    PROVE  /\ inbox' \in [Ids -> Seq(Items)]
           /\ \A d \in Ids : Holds(inbox'[d], "eof") => Holds(inbox[d], "eof") \/ (d = c /\ item = "eof")
           /\ server' \in [pc : ServerCalls, conn : 0 .. Clients]
           /\ server'.conn = server.conn
           /\ server'.pc \in {"socket", "accept", "gone"} <=> server.pc \in {"socket", "accept", "gone"}
           /\ server'.pc = "gone" <=> server.pc = "gone"
           /\ signalled' \in BOOLEAN
           /\ Awake'
<1> USE DEF IInv, TypeOK
<1>1. inbox[c] \in Seq(Items) OBVIOUS
<1>2. /\ Append(inbox[c], item) \in Seq(Items)
      /\ Holds(Append(inbox[c], item), "eof") => Holds(inbox[c], "eof") \/ item = "eof"
  BY <1>1, AppendItem
<1>3. inbox' = [inbox EXCEPT ![c] = Append(inbox[c], item)] BY DEF Deliver
<1>4. /\ inbox' \in [Ids -> Seq(Items)]
      /\ \A d \in Ids : Holds(inbox'[d], "eof") => Holds(inbox[d], "eof") \/ (d = c /\ item = "eof")
  BY <1>2, <1>3
<1>5. \/ server' = server
      \/ server.pc = "asleep" /\ server' = [server EXCEPT !.pc = "select"]
  BY DEF Deliver, At
<1>6. /\ server' \in [pc : ServerCalls, conn : 0 .. Clients]
      /\ server'.conn = server.conn
      /\ server'.pc \in {"socket", "accept", "gone"} <=> server.pc \in {"socket", "accept", "gone"}
      /\ server'.pc = "gone" <=> server.pc = "gone"
  BY <1>5 DEF ServerCalls
<1>7. signalled' \in BOOLEAN BY DEF Deliver
<1>8. ASSUME kernel = "fixed" PROVE ~signalled' /\ (server'.pc = "asleep" => inbox'[server'.conn] = <<>>)
  <2>1. ~signalled BY <1>8 DEF Awake
  <2>2. ~signalled' BY <2>1 DEF Deliver
  <2>3. ASSUME server'.pc = "asleep" PROVE inbox'[server'.conn] = <<>>
    <3>1. server.pc = "asleep" /\ server' = server BY <2>3, <1>5
    <3>2. server.conn # c
      <4>1. SUFFICES ASSUME server.conn = c PROVE FALSE OBVIOUS
      <4>2. server' = [server EXCEPT !.pc = "select"] BY <4>1, <3>1, <2>1 DEF Deliver, At
      <4> QED BY <4>2, <2>3
    <3>3. server.conn \in Ids BY <3>1 DEF Ids
    <3>4. inbox'[server.conn] = inbox[server.conn] BY <1>3, <3>2, <3>3
    <3> QED BY <3>1, <3>4, <1>8 DEF Awake
  <2> QED BY <2>2, <2>3
<1>9. Awake' BY <1>8 DEF Awake
<1> HIDE DEF IInv, TypeOK
<1> QED BY <1>4, <1>6, <1>7, <1>9

-----------------------------------------------------------------------------
\* The initial states satisfy the invariant.
LEMMA Initially == Init => IInv
<1> SUFFICES ASSUME Init PROVE IInv
  OBVIOUS
<1>1. TypeOK
  <2>1. inbox \in [Ids -> Seq(Items)] BY EmptyQueue DEF Init
  <2>2. turn \in 1 .. Clients + 1 /\ port \in 0 .. Clients /\ 0 \in 0 .. Clients
    BY ClientsAssumption DEF Init
  <2>3. assoc \in [Ids -> {"none", "up", "down"}] /\ heard \in [Ids -> {"nothing", "data", "eof"}]
    BY DEF Init
  <2>4. /\ server \in [pc : ServerCalls, conn : 0 .. Clients]
        /\ server.conn # 0 <=> server.pc \notin {"socket", "accept", "gone"}
    BY <2>2 DEF Init, ServerCalls
  <2> QED BY <2>1, <2>2, <2>3, <2>4 DEF Init, TypeOK
<1>2. Awake BY DEF Init, Awake
<1>3. ~Finished /\ 1 \in Ids BY ClientsAssumption DEF Init, Finished, Ids
<1>4. Undisturbed
  <2>1. \A c \in Ids : assoc[c] = "none" /\ heard[c] = "nothing" /\ ~Holds(inbox[c], "eof") /\ ~(c < turn)
    BY EmptyQueue DEF Init, Ids
  <2>2. server.conn \notin Ids /\ backlog = {} BY DEF Init, Ids
  <2>3. server.pc # "gone" /\ res = "PASS" /\ turn \in Ids /\ client = "bind"
    BY <1>3 DEF Init
  <2> QED BY <2>1, <2>2, <2>3 DEF Undisturbed
<1> QED BY <1>1, <1>2, <1>4 DEF IInv

\* The running client is one of test.sh's.
LEMMA TurnIsId == TypeOK /\ ~Finished => turn \in Ids /\ turn + 1 \in 1 .. Clients + 1
BY ClientsAssumption DEF TypeOK, Finished, Ids

\* An exit that the shell or the server can put down to a cause, or an exit of a
\* client that has heard the response.
LEMMA ExitKeeps ==
    ASSUME IInv, ~Finished, NEW status \in {0, 1}, NEW why \in SUBSET {"call", "early", "port"},
           Exit(status, why),
           causes = {} /\ why = {} => status = 0 /\ heard[turn] = "data"
    PROVE  IInv'
<1>1. turn \in Ids /\ turn + 1 \in 1 .. Clients + 1 /\ turn < turn + 1
  BY TurnIsId, ClientsAssumption DEF IInv, Ids
<1>2. /\ UNCHANGED <<kernel, heard, backlog, port, unacked>>
      /\ causes' = causes \cup why /\ turn' = turn + 1 /\ client' = "bind"
      /\ res' = IF status = 0 THEN res ELSE "FAIL"
  BY DEF Exit
<1>3. /\ inbox' \in [Ids -> Seq(Items)]
      /\ \A d \in Ids : Holds(inbox'[d], "eof") => Holds(inbox[d], "eof") \/ d = turn
      /\ server' \in [pc : ServerCalls, conn : 0 .. Clients]
      /\ server'.conn = server.conn
      /\ server'.pc \in {"socket", "accept", "gone"} <=> server.pc \in {"socket", "accept", "gone"}
      /\ server'.pc = "gone" <=> server.pc = "gone"
      /\ signalled' \in BOOLEAN
      /\ Awake'
  <2>1. CASE assoc[turn] = "up"
    <3>1. Deliver(turn, "eof") BY <2>1 DEF Exit
    <3> QED BY <1>1, <1>2, <3>1, Delivery DEF Items
  <2>2. CASE assoc[turn] # "up"
    <3>1. UNCHANGED <<inbox, server, signalled>> BY <2>2 DEF Exit
    <3> QED BY <1>2, <3>1 DEF IInv, TypeOK, Awake
  <2> QED BY <2>1, <2>2
<1>4. /\ assoc' \in [Ids -> {"none", "up", "down"}]
      /\ \A d \in Ids : assoc'[d] = "none" <=> assoc[d] = "none"
      /\ \A d \in Ids : assoc'[d] = "down" => assoc[d] = "down" \/ d = turn
      /\ \A d \in Ids : assoc'[d] = "up" => assoc[d] = "up" /\ d # turn
  BY <1>1 DEF Exit, IInv, TypeOK
<1>5. TypeOK'
  BY <1>1, <1>2, <1>3, <1>4 DEF IInv, TypeOK
<1>6. ASSUME causes' = {} PROVE Undisturbed'
  <2>1. causes = {} /\ why = {} /\ res' = "PASS" /\ heard[turn] = "data"
    BY <1>2, <1>6 DEF IInv, Undisturbed
  <2>2. server'.pc = "gone" => Finished'
    BY <2>1, <1>3 DEF IInv, Undisturbed
  <2>3. ~Finished' => (assoc'[turn'] = "up" <=> client' \in {"send", "recv"})
    <3>1. SUFFICES ASSUME ~Finished' PROVE assoc'[turn + 1] # "up"
      BY <1>2
    <3>2. turn + 1 \in Ids BY <3>1, <1>1, <1>2, ClientsAssumption DEF Finished, Ids
    <3> QED BY <2>1, <3>2, <1>1, <1>4 DEF IInv, Undisturbed, Ids
  <2>4. \A c \in Ids : assoc'[c] = "up" => c = turn'
    BY <2>1, <1>4 DEF IInv, Undisturbed
  <2>5. \A c \in Ids : assoc'[c] = "down" \/ Holds(inbox'[c], "eof") => c < turn'
    <3>1. ASSUME NEW c \in Ids, assoc'[c] = "down" \/ Holds(inbox'[c], "eof") PROVE c < turn'
      <4>1. c = turn \/ c < turn BY <2>1, <3>1, <1>3, <1>4 DEF IInv, Undisturbed
      <4> QED BY <4>1, <1>1, <1>2 DEF Ids
    <3> QED BY <3>1
  <2>6. \A c \in Ids : c = server'.conn \/ c \in backlog' => assoc'[c] # "none"
    BY <2>1, <1>2, <1>3, <1>4 DEF IInv, Undisturbed
  <2>7. \A c \in Ids : heard'[c] # "eof" /\ (c < turn' => heard'[c] = "data")
    <3>1. ASSUME NEW c \in Ids PROVE heard[c] # "eof" /\ (c < turn + 1 => heard[c] = "data")
      <4>1. c < turn + 1 => c = turn \/ c < turn BY <1>1 DEF Ids
      <4> QED BY <4>1, <2>1 DEF IInv, Undisturbed
    <3> QED BY <3>1, <1>2
  <2> QED BY <2>1, <2>2, <2>3, <2>4, <2>5, <2>6, <2>7 DEF Undisturbed
<1> QED BY <1>3, <1>5, <1>6 DEF IInv, Undisturbed

\* The client preserves the invariant.
LEMMA ClientKeeps == ASSUME IInv, ClientStep \/ ClientFails PROVE IInv'
<1>1. ~Finished
  BY DEF ClientStep, ClientFails, Running, Bind, BindInUse, Connect, ConnectRefused, SendData,
         SendBroken, ClientRecv
<1>2. turn \in Ids BY <1>1, TurnIsId DEF IInv
<1>3. CASE Bind
  <2>1. TypeOK' BY <1>2, <1>3 DEF Bind, IInv, TypeOK, Ids
  <2>2. Awake' BY <1>3 DEF Bind, IInv, Awake
  <2>3. client = "bind" /\ client' = "connect" BY <1>3 DEF Bind, Running
  <2>4. Undisturbed' BY <1>3, <2>3 DEF Bind, IInv, Undisturbed, Finished
  <2> QED BY <2>1, <2>2, <2>4 DEF IInv
<1>4. CASE BindInUse
  BY <1>1, <1>4, ExitKeeps DEF BindInUse
<1>5. CASE Connect
  <2>1. TypeOK' BY <1>2, <1>5 DEF Connect, IInv, TypeOK
  <2>2. Awake' BY <1>5 DEF Connect, IInv, Awake
  <2>3. client' = "send" /\ assoc' = [assoc EXCEPT ![turn] = "up"] /\ backlog' = backlog \cup {turn}
    BY <1>5 DEF Connect
  <2>4. assoc'[turn] = "up" /\ \A c \in Ids \ {turn} : assoc'[c] = assoc[c]
    BY <1>2, <2>3 DEF IInv, TypeOK
  <2>5. ASSUME causes' = {} PROVE Undisturbed'
    <3>1. UNCHANGED <<res, turn, server, inbox, heard, causes>> BY <1>5 DEF Connect
    <3>2. \A c \in Ids : assoc'[c] = "up" => c = turn BY <2>4, <2>5, <3>1 DEF IInv, Undisturbed
    <3>3. \A c \in Ids : assoc'[c] = "down" \/ Holds(inbox'[c], "eof") => c < turn
      BY <2>4, <2>5, <3>1 DEF IInv, Undisturbed
    <3>4. \A c \in Ids : c = server'.conn \/ c \in backlog' => assoc'[c] # "none"
      BY <2>3, <2>4, <2>5, <3>1 DEF IInv, Undisturbed
    <3> QED BY <2>3, <2>4, <2>5, <3>1, <3>2, <3>3, <3>4 DEF IInv, Undisturbed, Finished
  <2> QED BY <2>1, <2>2, <2>5 DEF IInv, Undisturbed
<1>6. CASE ConnectRefused
  <2>1. causes = {} => server.pc = "socket" BY <1>1, <1>6 DEF ConnectRefused, IInv, Undisturbed
  <2>2. CASE server.pc = "socket" BY <1>1, <1>6, <2>2, ExitKeeps DEF ConnectRefused
  <2>3. CASE server.pc # "socket" BY <1>1, <1>6, <2>1, <2>3, ExitKeeps DEF ConnectRefused
  <2> QED BY <2>2, <2>3
<1>7. CASE SendData
  <2>1. UNCHANGED <<kernel, turn, res, assoc, heard, backlog, port, unacked, causes>>
    BY <1>7 DEF SendData
  <2>2. client = "send" /\ client' = "recv" /\ Deliver(turn, "data") BY <1>7 DEF SendData, Running
  <2>3. /\ inbox' \in [Ids -> Seq(Items)]
        /\ \A d \in Ids : Holds(inbox'[d], "eof") => Holds(inbox[d], "eof")
        /\ server' \in [pc : ServerCalls, conn : 0 .. Clients]
        /\ server'.conn = server.conn
        /\ server'.pc \in {"socket", "accept", "gone"} <=> server.pc \in {"socket", "accept", "gone"}
        /\ server'.pc = "gone" <=> server.pc = "gone"
        /\ signalled' \in BOOLEAN
        /\ Awake'
    BY <1>2, <2>1, <2>2, Delivery DEF Items
  <2>4. TypeOK' BY <2>1, <2>2, <2>3 DEF IInv, TypeOK
  <2>5. Undisturbed' BY <2>1, <2>2, <2>3 DEF IInv, Undisturbed, Finished
  <2> QED BY <2>3, <2>4, <2>5 DEF IInv
<1>8. CASE SendBroken
  <2>1. causes # {} BY <1>1, <1>8 DEF SendBroken, Running, IInv, Undisturbed
  <2> QED BY <1>1, <1>8, <2>1, ExitKeeps DEF SendBroken
<1>9. CASE ClientRecv
  <2>1. causes = {} => heard[turn] = "data"
    BY <1>2, <1>9 DEF ClientRecv, IInv, Undisturbed, TypeOK
  <2> QED BY <1>1, <1>9, <2>1, ExitKeeps DEF ClientRecv
<1>10. CASE ClientFails
  BY <1>1, <1>10, ExitKeeps DEF ClientFails
<1> QED
  BY <1>3, <1>4, <1>5, <1>6, <1>7, <1>8, <1>9, <1>10 DEF ClientStep

-----------------------------------------------------------------------------
\* What the end of the server's side does to the connections cs.
LEMMA HangingUp ==
    ASSUME IInv, NEW cs, Hangup(cs)
    PROVE  /\ assoc' \in [Ids -> {"none", "up", "down"}]
           /\ heard' \in [Ids -> {"nothing", "data", "eof"}]
           /\ \A c \in Ids : assoc'[c] = "none" <=> assoc[c] = "none"
           /\ \A c \in Ids : assoc'[c] = "up" <=> assoc[c] = "up" /\ c \notin cs
           /\ \A c \in Ids : assoc'[c] = "down" => assoc[c] = "down" \/ c \in cs
           /\ \A c \in Ids : heard[c] = "data" \/ c \notin cs => heard'[c] = heard[c]
BY DEF Hangup, IInv, TypeOK

\* The server that hangs up cs, whose clients are through unless a call failed,
\* and that accepts again or is gone.
LEMMA HangupKeeps ==
    ASSUME IInv, NEW cs, Hangup(cs), NEW pc \in {"accept", "gone"},
           server' = [pc |-> pc, conn |-> 0],
           pc = "gone" /\ causes' = {} => Finished,
           inbox' \in [Ids -> Seq(Items)],
           \A c \in Ids : Holds(inbox'[c], "eof") => Holds(inbox[c], "eof"),
           backlog' \subseteq backlog,
           causes' \in {causes, causes \cup {"call"}},
           UNCHANGED <<kernel, turn, res, client, port, signalled, unacked>>,
           causes' = {} => \A c \in Ids : c \in cs => c < turn
    PROVE  IInv'
<1>1. TypeOK'
  BY HangingUp, ClientsAssumption DEF IInv, TypeOK, ServerCalls
<1>2. Awake' BY DEF IInv, Awake
<1>3. ASSUME causes' = {} PROVE Undisturbed'
  <2>1. causes = {} /\ (Finished' <=> Finished) BY <1>3 DEF Finished
  <2>2. ~Finished => turn \in Ids /\ turn \notin cs
    <3>1. SUFFICES ASSUME ~Finished PROVE turn \in Ids /\ turn \notin cs OBVIOUS
    <3>2. turn \in Ids BY <3>1, TurnIsId DEF IInv
    <3> QED BY <3>2, <1>3 DEF Ids
  <2>3. ~Finished' => (assoc'[turn'] = "up" <=> client' \in {"send", "recv"})
    BY <2>1, <2>2, HangingUp DEF IInv, Undisturbed
  <2>4. \A c \in Ids : assoc'[c] = "up" => c = turn'
    BY <2>1, HangingUp DEF IInv, Undisturbed
  <2>5. \A c \in Ids : assoc'[c] = "down" \/ Holds(inbox'[c], "eof") => c < turn'
    BY <1>3, <2>1, HangingUp DEF IInv, Undisturbed
  <2>6. \A c \in Ids : c = server'.conn \/ c \in backlog' => assoc'[c] # "none"
    BY <2>1, HangingUp DEF IInv, Undisturbed, Ids
  <2>7. \A c \in Ids : heard'[c] # "eof" /\ (c < turn' => heard'[c] = "data")
    BY <1>3, <2>1, HangingUp DEF IInv, Undisturbed
  <2>8. res' = "PASS" /\ (server'.pc = "gone" => Finished')
    BY <1>3, <2>1 DEF IInv, Undisturbed
  <2> QED BY <2>3, <2>4, <2>5, <2>6, <2>7, <2>8 DEF Undisturbed
<1> QED BY <1>1, <1>2, <1>3 DEF IInv, Undisturbed

\* The server preserves the invariant.
LEMMA ServerKeeps == ASSUME IInv, ServerStep \/ ServerReturns \/ ServerBreaks PROVE IInv'
<1> DEFINE c == server.conn
<1>1. /\ c \in 0 .. Clients
      /\ server.pc \notin {"socket", "accept", "gone"} => c \in Ids /\ inbox[c] \in Seq(Items)
  BY ClientsAssumption DEF IInv, TypeOK, Ids
<1>2. CASE Listen
  <2>1. TypeOK' BY <1>2 DEF Listen, At, IInv, TypeOK, ServerCalls
  <2>2. Awake' BY <1>2 DEF Listen, At, IInv, TypeOK, Awake
  <2>3. Undisturbed' BY <1>2 DEF Listen, At, IInv, TypeOK, Undisturbed, Finished
  <2> QED BY <2>1, <2>2, <2>3 DEF IInv
<1>3. CASE Accept
  <2>1. PICK d \in backlog :
            server' = [pc |-> "events", conn |-> d] /\ backlog' = backlog \ {d}
    BY <1>3 DEF Accept
  <2>2. d \in Ids /\ d \in 0 .. Clients /\ d # 0 BY <2>1, ClientsAssumption DEF IInv, TypeOK, Ids
  <2>3. TypeOK' BY <1>3, <2>1, <2>2 DEF Accept, IInv, TypeOK, ServerCalls
  <2>4. Awake' BY <1>3, <2>1 DEF Accept, Awake
  <2>5. Undisturbed' BY <1>3, <2>1, <2>2 DEF Accept, IInv, Undisturbed, Finished
  <2> QED BY <2>3, <2>4, <2>5 DEF IInv
<1>4. CASE EnableEvents
  <2>1. server.pc = "events" /\ server' = At("nonblock")
        /\ UNCHANGED <<kernel, turn, res, client, assoc, heard, backlog, port, unacked, causes>>
    BY <1>4 DEF EnableEvents
  <2>2. c \in Ids /\ inbox[c] \in Seq(Items) BY <1>1, <2>1
  <2>3. /\ Append(inbox[c], "dry") \in Seq(Items)
        /\ Holds(Append(inbox[c], "dry"), "eof") => Holds(inbox[c], "eof")
    BY <2>2, AppendItem DEF Items
  <2>4. \/ inbox' = inbox
        \/ inbox' = [inbox EXCEPT ![c] = Append(inbox[c], "dry")]
    BY <1>4 DEF EnableEvents
  <2>5. /\ inbox' \in [Ids -> Seq(Items)]
        /\ \A d \in Ids : Holds(inbox'[d], "eof") => Holds(inbox[d], "eof")
    <3>1. inbox \in [Ids -> Seq(Items)] BY DEF IInv, TypeOK
    <3>2. CASE inbox' = inbox BY <3>1, <3>2
    <3>3. CASE inbox' = [inbox EXCEPT ![c] = Append(inbox[c], "dry")]
      BY <2>2, <2>3, <3>1, <3>3, OtherQueue
    <3> QED BY <2>4, <3>2, <3>3
  <2>6. signalled' \in BOOLEAN /\ (kernel = "fixed" /\ ~signalled => ~signalled')
    BY <1>4 DEF EnableEvents, IInv, TypeOK
  <2>7. server' \in [pc : ServerCalls, conn : 0 .. Clients] /\ server'.conn = c /\ server'.pc = "nonblock"
    BY <2>1 DEF At, IInv, TypeOK, ServerCalls
  <2>8. TypeOK' BY <2>1, <2>5, <2>6, <2>7 DEF IInv, TypeOK
  <2>9. Awake' BY <2>1, <2>6, <2>7 DEF IInv, Awake
  <2>10. Undisturbed' BY <2>1, <2>5, <2>7 DEF IInv, Undisturbed, Finished
  <2> QED BY <2>8, <2>9, <2>10 DEF IInv
<1>5. CASE MakeNodelayNonblock \/ Select
  <2>1. UNCHANGED <<kernel, turn, res, client, assoc, heard, inbox, backlog, port, signalled,
                    unacked, causes>>
    BY <1>5 DEF MakeNodelayNonblock, Select
  <2>2. server.pc \in {"nonblock", "select"}
    BY <1>5 DEF MakeNodelayNonblock, Select
  <2>3. /\ server' \in [pc : ServerCalls, conn : 0 .. Clients]
        /\ server'.conn = c
        /\ server'.pc \in {"select", "recv", "asleep"}
        /\ server'.pc = "asleep" => inbox[c] = <<>>
    BY <1>5 DEF MakeNodelayNonblock, Select, At, IInv, TypeOK, ServerCalls
  <2>4. TypeOK' BY <2>1, <2>2, <2>3 DEF IInv, TypeOK
  <2>5. Awake' BY <2>1, <2>3 DEF IInv, Awake
  <2>6. Undisturbed' BY <2>1, <2>3 DEF IInv, Undisturbed, Finished
  <2> QED BY <2>4, <2>5, <2>6 DEF IInv
<1>6. CASE ServerRecv
  <2>1. server.pc = "recv" /\ inbox[c] # <<>> /\ c \in Ids /\ inbox[c] \in Seq(Items)
    BY <1>1, <1>6 DEF ServerRecv
  <2>2. /\ Tail(inbox[c]) \in Seq(Items)
        /\ Holds(Tail(inbox[c]), "eof") => Holds(inbox[c], "eof")
        /\ Head(inbox[c]) = "eof" => Holds(inbox[c], "eof")
        /\ Head(inbox[c]) \in Items
    BY <2>1, TailItem
  <2>3. inbox' = [inbox EXCEPT ![c] = Tail(inbox[c])]
        /\ UNCHANGED <<kernel, turn, res, client, backlog, port, signalled, unacked, causes>>
    BY <1>6 DEF ServerRecv
  <2>4. /\ inbox' \in [Ids -> Seq(Items)]
        /\ \A d \in Ids : Holds(inbox'[d], "eof") => Holds(inbox[d], "eof")
    <3>1. inbox \in [Ids -> Seq(Items)] BY DEF IInv, TypeOK
    <3> QED BY <2>1, <2>2, <2>3, <3>1, OtherQueue
  <2>5. CASE Head(inbox[c]) = "eof"
    <3>1. CloseConn BY <1>6, <2>5 DEF ServerRecv, ReadResult
    <3>2. causes = {} => c < turn BY <2>1, <2>2, <2>5 DEF IInv, Undisturbed
    <3> QED BY <2>3, <2>4, <3>1, <3>2, HangupKeeps DEF CloseConn
  <2>6. CASE Head(inbox[c]) # "eof"
    <3>1. UNCHANGED <<assoc, heard>> /\ \E pc \in {"select", "send"} : server' = At(pc)
      BY <1>6, <2>6, <2>2 DEF ServerRecv, ReadResult, Items
    <3>2. /\ server' \in [pc : ServerCalls, conn : 0 .. Clients]
          /\ server'.conn = c
          /\ server'.pc \in {"select", "send"}
      BY <3>1 DEF At, IInv, TypeOK, ServerCalls
    <3>3. TypeOK' BY <2>1, <2>3, <2>4, <3>1, <3>2 DEF IInv, TypeOK
    <3>4. Awake' BY <2>3, <3>2 DEF IInv, Awake
    <3>5. Undisturbed' BY <2>1, <2>3, <2>4, <3>1, <3>2 DEF IInv, Undisturbed, Finished
    <3> QED BY <3>3, <3>4, <3>5 DEF IInv
  <2> QED BY <2>5, <2>6
<1>7. CASE Respond
  <2>1. server.pc = "send" /\ c \in Ids /\ server' = At("select") /\ unacked' = TRUE
        /\ UNCHANGED <<kernel, turn, res, client, assoc, inbox, backlog, port, signalled, causes>>
    BY <1>1, <1>7 DEF Respond
  <2>2. server' \in [pc : ServerCalls, conn : 0 .. Clients] /\ server'.conn = c /\ server'.pc = "select"
    BY <2>1 DEF At, IInv, TypeOK, ServerCalls
  <2>3. /\ heard' \in [Ids -> {"nothing", "data", "eof"}]
        /\ \A d \in Ids : heard'[d] = heard[d] \/ heard'[d] = "data"
    BY <1>7, <2>1 DEF Respond, IInv, TypeOK
  <2>4. TypeOK' BY <2>1, <2>2, <2>3 DEF IInv, TypeOK
  <2>5. Awake' BY <2>1, <2>2 DEF IInv, Awake
  <2>6. Undisturbed' BY <2>1, <2>2, <2>3 DEF IInv, Undisturbed, Finished
  <2> QED BY <2>4, <2>5, <2>6 DEF IInv
<1>8. CASE RespondBroken
  <2>1. c \in Ids /\ assoc[c] # "up" BY <1>1, <1>8 DEF RespondBroken
  <2>2. causes = {} => c < turn BY <2>1 DEF IInv, TypeOK, Undisturbed
  <2> QED BY <1>8, <2>2, HangupKeeps DEF RespondBroken, CloseConn, IInv, TypeOK
<1>9. CASE KillServer
  <2>1. \A d \in Ids : Finished => d < turn BY ClientsAssumption DEF IInv, TypeOK, Finished, Ids
  <2> QED BY <1>9, <2>1, HangupKeeps DEF KillServer, ServerGone, IInv, TypeOK
<1>10. CASE ServerReturns
  BY <1>10, HangupKeeps DEF ServerReturns, ServerGone, IInv, TypeOK
<1>11. CASE ServerBreaks
  BY <1>11, HangupKeeps DEF ServerBreaks, CloseConn, IInv, TypeOK
<1> QED
  BY <1>2, <1>3, <1>4, <1>5, <1>6, <1>7, <1>8, <1>9, <1>10, <1>11 DEF ServerStep

\* The kernel preserves the invariant.
LEMMA KernelKeeps == ASSUME IInv, ReleasePort \/ Sack PROVE IInv'
<1>1. CASE ReleasePort
  <2>1. TypeOK' BY <1>1, ClientsAssumption DEF ReleasePort, IInv, TypeOK
  <2>2. Awake' BY <1>1 DEF ReleasePort, IInv, Awake
  <2>3. Undisturbed' BY <1>1 DEF ReleasePort, IInv, Undisturbed, Finished
  <2> QED BY <2>1, <2>2, <2>3 DEF IInv
<1>2. CASE Sack
  <2>1. UNCHANGED <<kernel, turn, res, client, assoc, heard, backlog, port, causes>>
        /\ server.conn \in Ids /\ Deliver(server.conn, "dry") /\ unacked' = FALSE
    BY <1>2, ClientsAssumption DEF Sack, IInv, TypeOK, Ids
  <2>2. /\ inbox' \in [Ids -> Seq(Items)]
        /\ \A d \in Ids : Holds(inbox'[d], "eof") => Holds(inbox[d], "eof")
        /\ server' \in [pc : ServerCalls, conn : 0 .. Clients]
        /\ server'.conn = server.conn
        /\ server'.pc \in {"socket", "accept", "gone"} <=> server.pc \in {"socket", "accept", "gone"}
        /\ server'.pc = "gone" <=> server.pc = "gone"
        /\ signalled' \in BOOLEAN
        /\ Awake'
    BY <2>1, Delivery DEF Items
  <2>3. TypeOK' BY <2>1, <2>2 DEF IInv, TypeOK
  <2>4. Undisturbed' BY <2>1, <2>2 DEF IInv, Undisturbed, Finished
  <2> QED BY <2>2, <2>3, <2>4 DEF IInv
<1> QED BY <1>1, <1>2

-----------------------------------------------------------------------------
\* The invariant holds in every reachable state.
THEOREM InductiveInvariant == Spec => []IInv
<1>1. IInv /\ UNCHANGED vars => IInv'
  BY DEF IInv, TypeOK, Awake, Undisturbed, Finished, vars
<1>2. IInv /\ [Next]_vars => IInv'
  BY <1>1, ClientKeeps, ServerKeeps, KernelKeeps DEF Next
<1> QED BY Initially, <1>2, PTL DEF Spec

\* Every variable has its type, the queues of the sockets included.
THEOREM TypeCorrectness == Spec => []TypeOK
<1>1. IInv => TypeOK BY DEF IInv
<1> QED BY <1>1, InductiveInvariant, PTL

-----------------------------------------------------------------------------
(* The two processes never wait for each other. *)

\* What the arrival of an item changes for the two invariants.
LEMMA Arrival ==
    ASSUME TypeOK, NEW c \in Ids, NEW item \in Items, Deliver(c, item)
    PROVE  /\ server'.conn = server.conn
           /\ server' = server \/ (server.pc = "asleep" /\ server'.pc = "select")
           /\ server'.pc = "asleep" => item # "eof" \/ server.conn # c
           /\ \A d \in Ids : \A x : Holds(inbox'[d], x) <=> Holds(inbox[d], x) \/ (d = c /\ x = item)
<1>1. /\ server'.conn = server.conn
      /\ server' = server \/ (server.pc = "asleep" /\ server'.pc = "select")
  BY DEF Deliver, At, TypeOK
<1>2. server'.pc = "asleep" => item # "eof" \/ server.conn # c
  BY DEF Deliver, At, TypeOK
<1>3. inbox[c] \in Seq(Items) BY DEF TypeOK
<1>4. inbox' = [inbox EXCEPT ![c] = Append(inbox[c], item)] BY DEF Deliver
<1>5. inbox'[c] = Append(inbox[c], item) /\ \A d \in Ids \ {c} : inbox'[d] = inbox[d]
  BY <1>4 DEF TypeOK
<1>6. \A x : Holds(inbox'[c], x) <=> Holds(inbox[c], x) \/ x = item
  BY <1>3, <1>5, AppendItem
<1>7. \A d \in Ids : \A x : Holds(inbox'[d], x) <=> Holds(inbox[d], x) \/ (d = c /\ x = item)
  BY <1>5, <1>6
<1> QED BY <1>1, <1>2, <1>7

\* The initial states satisfy both.
LEMMA ServedInitially == Init => Connected /\ Owed
BY DEF Init, Connected, Owed, Running, Ids

\* The end of a client: its connection has its end in the queue.
LEMMA ExitServes ==
    ASSUME TypeOK, Connected, ~Finished, NEW status, NEW why, Exit(status, why)
    PROVE  Connected' /\ Owed'
<1>1. turn \in Ids /\ turn < turn + 1 BY TurnIsId DEF TypeOK
<1>2. turn' = turn + 1 /\ client' = "bind" /\ backlog' = backlog BY DEF Exit
<1>3. \A c \in Ids : c < turn \/ c = turn => c < turn' BY <1>1, <1>2 DEF Ids
<1>4. Owed' BY <1>2 DEF Owed, Running
<1>5. CASE assoc[turn] = "up"
  <2>1. assoc' = [assoc EXCEPT ![turn] = "down"] /\ Deliver(turn, "eof") BY <1>5 DEF Exit
  <2>2. assoc'[turn] = "down" /\ \A c \in Ids \ {turn} : assoc'[c] = assoc[c]
    BY <1>1, <2>1 DEF TypeOK
  <2>3. /\ server'.conn = server.conn
        /\ server' = server \/ (server.pc = "asleep" /\ server'.pc = "select")
        /\ server'.pc = "asleep" => server.conn # turn
        /\ \A d \in Ids : Holds(inbox'[d], "eof") <=> Holds(inbox[d], "eof") \/ d = turn
    BY <1>1, <2>1, Arrival DEF Items
  <2>4. server.pc = "asleep" => server.conn \in Ids BY DEF TypeOK, Ids
  <2>5. \A c \in Ids : assoc'[c] # "none" => c < turn' BY <1>1, <1>3, <2>2 DEF Connected
  <2>6. \A c \in Ids : assoc'[c] # "up" BY <2>2 DEF Connected
  <2>7. \A c \in Ids : c = server'.conn \/ c \in backlog' => assoc'[c] = "down" /\ Holds(inbox'[c], "eof")
    BY <1>2, <2>2, <2>3 DEF Connected
  <2>8. server'.pc = "asleep" => ~Holds(inbox'[server'.conn], "eof")
    BY <2>3, <2>4 DEF Connected
  <2>9. server'.conn \notin backlog' /\ (server'.pc = "gone" => backlog' = {})
    BY <1>2, <2>3 DEF Connected
  <2> QED BY <1>4, <2>5, <2>6, <2>7, <2>8, <2>9 DEF Connected
<1>6. CASE assoc[turn] # "up"
  <2>1. UNCHANGED <<assoc, inbox, server>> BY <1>6 DEF Exit
  <2>2. \A c \in Ids : assoc'[c] # "none" => c < turn' BY <1>3, <2>1 DEF Connected
  <2>3. \A c \in Ids : assoc'[c] # "up" BY <1>6, <2>1 DEF Connected
  <2> QED BY <1>2, <1>4, <2>1, <2>2, <2>3 DEF Connected
<1> QED BY <1>5, <1>6

\* The client.
LEMMA ClientServes ==
    ASSUME TypeOK, Connected, Owed, ClientStep \/ ClientFails
    PROVE  Connected' /\ Owed'
<1>1. ~Finished
  BY DEF ClientStep, ClientFails, Running, Bind, BindInUse, Connect, ConnectRefused, SendData,
         SendBroken, ClientRecv
<1>2. turn \in Ids BY <1>1, TurnIsId
<1>3. CASE Bind
  <2>1. Connected' BY <1>3 DEF Bind, Running, Connected
  <2>2. Owed' BY <1>3 DEF Bind, Owed, Running
  <2> QED BY <2>1, <2>2
<1>4. CASE Connect
  <2>1. /\ client = "connect" /\ client' = "send" /\ server.pc # "gone"
        /\ assoc' = [assoc EXCEPT ![turn] = "up"] /\ backlog' = backlog \cup {turn}
        /\ UNCHANGED <<turn, server, inbox>>
    BY <1>4 DEF Connect, Running
  <2>2. assoc'[turn] = "up" /\ \A c \in Ids \ {turn} : assoc'[c] = assoc[c]
    BY <1>2, <2>1 DEF TypeOK
  <2>3. server.conn # turn
    <3>1. assoc[turn] = "none" BY <1>2, <2>1 DEF Connected, Ids
    <3> QED BY <1>2, <3>1 DEF Connected
  <2>4. Connected' BY <2>1, <2>2, <2>3 DEF Connected
  <2>5. Owed' BY <2>1 DEF Owed, Running
  <2> QED BY <2>4, <2>5
<1>5. CASE SendData
  <2>1. /\ client = "send" /\ client' = "recv" /\ assoc[turn] = "up" /\ Deliver(turn, "data")
        /\ UNCHANGED <<turn, assoc, backlog>>
    BY <1>5 DEF SendData, Running
  <2>2. /\ server'.conn = server.conn
        /\ server' = server \/ (server.pc = "asleep" /\ server'.pc = "select")
        /\ \A d \in Ids : Holds(inbox'[d], "eof") <=> Holds(inbox[d], "eof")
        /\ Holds(inbox'[turn], "data")
    BY <1>2, <2>1, Arrival DEF Items
  <2>3. server.pc = "asleep" => server.conn \in Ids BY DEF TypeOK, Ids
  <2>4. Connected' BY <2>1, <2>2, <2>3 DEF Connected
  <2>5. Owed' BY <1>2, <2>1, <2>2 DEF Owed, Connected
  <2> QED BY <2>4, <2>5
<1>6. CASE BindInUse \/ ConnectRefused \/ SendBroken \/ ClientRecv \/ ClientFails
  BY <1>1, <1>6, ExitServes DEF BindInUse, ConnectRefused, SendBroken, ClientRecv, ClientFails
<1> QED BY <1>3, <1>4, <1>5, <1>6 DEF ClientStep

\* The server that hangs up its connection, or everything.
LEMMA HangupServes ==
    ASSUME TypeOK, Connected, Owed, NEW cs, Hangup(cs),
           NEW pc \in {"accept", "gone"}, server' = [pc |-> pc, conn |-> 0],
           \/ cs = {server.conn} /\ backlog' = backlog /\ pc = "accept"
           \/ cs = {server.conn} \cup backlog /\ backlog' = {},
           UNCHANGED <<turn, client>>,
           \A c \in Ids : c # server.conn => inbox'[c] = inbox[c]
    PROVE  Connected' /\ Owed'
<1>1. /\ \A c \in Ids : assoc'[c] = IF c \in cs /\ assoc[c] = "up" THEN "down" ELSE assoc[c]
      /\ \A c \in Ids : heard'[c] = IF c \in cs /\ heard[c] = "nothing" THEN "eof" ELSE heard[c]
  BY DEF Hangup
<1>2. /\ \A c \in Ids : assoc'[c] = "none" <=> assoc[c] = "none"
      /\ \A c \in Ids : assoc'[c] = "up" <=> assoc[c] = "up" /\ c \notin cs
      /\ \A c \in Ids \ cs : assoc'[c] = assoc[c]
      /\ \A c \in Ids : heard'[c] = "nothing" => heard[c] = "nothing" /\ c \notin cs
  BY <1>1
<1>3. server'.conn = 0 /\ server'.pc = pc /\ 0 \notin Ids /\ 0 \notin backlog'
  BY DEF TypeOK, Ids
<1>4. \A c \in Ids : c \in backlog' => c \notin cs /\ c \in backlog /\ c # server.conn
  BY DEF Connected
<1>5. \A c \in Ids : assoc'[c] # "none" => c < turn' \/ (c = turn' /\ client' \in {"send", "recv"})
  BY <1>2 DEF Connected
<1>6. \A c \in Ids : assoc'[c] = "up" => c = turn' /\ c \in backlog'
  BY <1>2 DEF Connected
<1>7. \A c \in Ids : c \in backlog' => assoc'[c] = assoc[c] /\ inbox'[c] = inbox[c]
  BY <1>2, <1>4
<1>8. Connected' BY <1>3, <1>4, <1>5, <1>6, <1>7 DEF Connected
<1>9. ASSUME Running("recv")', heard'[turn'] = "nothing"
      PROVE  turn' \in backlog' /\ Holds(inbox'[turn'], "data")
  <2>1. ~Finished /\ Running("recv") BY <1>9 DEF Running, Finished
  <2>2. turn \in Ids BY <2>1, TurnIsId
  <2>3. heard[turn] = "nothing" /\ turn \notin cs BY <1>2, <1>9, <2>2
  <2>4. turn # server.conn BY <2>3
  <2>5. turn \in backlog /\ Holds(inbox[turn], "data") BY <2>1, <2>3, <2>4 DEF Owed
  <2> QED BY <2>2, <2>3, <2>4, <2>5
<1> QED BY <1>8, <1>9 DEF Owed

\* The server that goes on with the connection it has, if any.
LEMMA GoingOnServes ==
    ASSUME TypeOK, Connected, Owed, NEW pc \in ServerCalls \ {"gone"}, server' = At(pc),
           UNCHANGED <<turn, client, assoc, backlog>>,
           \A c \in Ids : Holds(inbox'[c], "eof") <=> Holds(inbox[c], "eof"),
           pc = "asleep" => server.conn \in Ids /\ ~Holds(inbox[server.conn], "eof"),
           \A c \in Ids : heard'[c] = "nothing" => heard[c] = "nothing",
           \A c \in Ids : c # server.conn => inbox'[c] = inbox[c],
           heard'[server.conn] = "nothing" =>
               \/ pc = "send"
               \/ server.pc # "send" /\ (Holds(inbox[server.conn], "data") => Holds(inbox'[server.conn], "data"))
    PROVE  Connected' /\ Owed'
<1>1. server'.conn = server.conn /\ server'.pc = pc BY DEF At, TypeOK
<1>2. Connected' BY <1>1 DEF Connected
<1>3. ASSUME Running("recv")', heard'[turn'] = "nothing"
      PROVE  \/ turn' \in backlog' /\ Holds(inbox'[turn'], "data")
             \/ server'.conn = turn' /\ (server'.pc = "send" \/ Holds(inbox'[turn'], "data"))
  <2>1. ~Finished /\ Running("recv") BY <1>3 DEF Running, Finished
  <2>2. turn \in Ids BY <2>1, TurnIsId
  <2>3. heard[turn] = "nothing" BY <1>3, <2>2
  <2>4. CASE server.conn = turn BY <1>1, <1>3, <2>1, <2>3, <2>4 DEF Owed, Connected
  <2>5. CASE server.conn # turn BY <1>1, <2>1, <2>2, <2>3, <2>5 DEF Owed
  <2> QED BY <2>4, <2>5
<1> QED BY <1>2, <1>3 DEF Owed

\* The server.
LEMMA ServerServes ==
    ASSUME TypeOK, Connected, Owed, ServerStep \/ ServerReturns \/ ServerBreaks
    PROVE  Connected' /\ Owed'
<1> DEFINE c == server.conn
<1>1. /\ server.pc \notin {"socket", "accept", "gone"} => c \in Ids /\ inbox[c] \in Seq(Items)
      /\ server.pc \in {"socket", "accept", "gone"} => c \notin Ids
  BY DEF TypeOK, Ids
<1>2. CASE Listen \/ MakeNodelayNonblock \/ Select
  <2>1. UNCHANGED <<turn, client, assoc, heard, inbox, backlog>> /\ server.pc \notin {"send", "gone"}
    BY <1>2 DEF Listen, MakeNodelayNonblock, Select
  <2>2. PICK pc \in {"accept", "select", "recv", "asleep"} :
            server' = At(pc) /\ (pc = "asleep" => server.pc = "select" /\ inbox[c] = <<>>)
    BY <1>2 DEF Listen, MakeNodelayNonblock, Select
  <2>3. pc = "asleep" => c \in Ids /\ ~Holds(inbox[c], "eof") BY <1>1, <2>2, EmptyQueue
  <2> QED BY <2>1, <2>2, <2>3, GoingOnServes DEF ServerCalls
<1>3. CASE Accept
  <2>1. PICK d \in backlog :
            server' = [pc |-> "events", conn |-> d] /\ backlog' = backlog \ {d}
    BY <1>3 DEF Accept
  <2>2. server.pc = "accept" /\ UNCHANGED <<turn, client, assoc, heard, inbox>>
    BY <1>3 DEF Accept
  <2>3. d \in Ids /\ c \notin Ids BY <1>1, <2>1, <2>2 DEF TypeOK
  <2>4. Connected' BY <2>1, <2>2, <2>3 DEF Connected
  <2>5. Owed'
    <3>1. ~Finished => turn \in Ids BY TurnIsId
    <3> QED BY <2>1, <2>2, <2>3, <3>1 DEF Owed, Running, Finished
  <2> QED BY <2>4, <2>5
<1>4. CASE EnableEvents
  <2>1. server.pc = "events" /\ server' = At("nonblock")
        /\ UNCHANGED <<turn, client, assoc, heard, backlog>>
    BY <1>4 DEF EnableEvents
  <2>2. c \in Ids /\ inbox[c] \in Seq(Items) BY <1>1, <2>1
  <2>3. \A x : Holds(Append(inbox[c], "dry"), x) <=> Holds(inbox[c], x) \/ x = "dry"
    BY <2>2, AppendItem DEF Items
  <2>4. \/ inbox' = inbox
        \/ inbox' = [inbox EXCEPT ![c] = Append(inbox[c], "dry")]
    BY <1>4 DEF EnableEvents
  <2>5. /\ \A d \in Ids : d # c => inbox'[d] = inbox[d]
        /\ inbox'[c] = inbox[c] \/ inbox'[c] = Append(inbox[c], "dry")
    BY <2>2, <2>4 DEF TypeOK
  <2>6. Holds(inbox'[c], "eof") <=> Holds(inbox[c], "eof") BY <2>3, <2>5
  <2>7. Holds(inbox[c], "data") => Holds(inbox'[c], "data") BY <2>3, <2>5
  <2> QED BY <2>1, <2>5, <2>6, <2>7, GoingOnServes DEF ServerCalls
<1>5. CASE ServerRecv
  <2>1. server.pc = "recv" /\ inbox[c] # <<>> /\ c \in Ids /\ inbox[c] \in Seq(Items)
    BY <1>1, <1>5 DEF ServerRecv
  <2>2. /\ \A x : Holds(Tail(inbox[c]), x) => Holds(inbox[c], x)
        /\ \A x : Holds(inbox[c], x) => Head(inbox[c]) = x \/ Holds(Tail(inbox[c]), x)
        /\ Head(inbox[c]) \in Items
    BY <2>1, TailItem
  <2>3. inbox' = [inbox EXCEPT ![c] = Tail(inbox[c])]
        /\ UNCHANGED <<turn, client, backlog>>
    BY <1>5 DEF ServerRecv
  <2>4. inbox'[c] = Tail(inbox[c]) /\ \A d \in Ids : d # c => inbox'[d] = inbox[d]
    BY <2>1, <2>3 DEF TypeOK
  <2>5. CASE Head(inbox[c]) = "eof"
    <3>1. CloseConn BY <1>5, <2>5 DEF ServerRecv, ReadResult
    <3> QED BY <2>3, <2>4, <3>1, HangupServes DEF CloseConn
  <2>6. CASE Head(inbox[c]) = "data"
    <3>1. UNCHANGED <<assoc, heard>> /\ server' = At("send")
      BY <1>5, <2>6 DEF ServerRecv, ReadResult
    <3>2. Holds(inbox'[c], "eof") <=> Holds(inbox[c], "eof") BY <2>2, <2>4, <2>6
    <3> QED BY <2>3, <2>4, <3>1, <3>2, GoingOnServes DEF ServerCalls
  <2>7. CASE Head(inbox[c]) = "dry"
    <3>1. UNCHANGED <<assoc, heard>> /\ server' = At("select")
      BY <1>5, <2>7 DEF ServerRecv, ReadResult
    <3>2. Holds(inbox'[c], "eof") <=> Holds(inbox[c], "eof") BY <2>2, <2>4, <2>7
    <3>3. Holds(inbox[c], "data") => Holds(inbox'[c], "data") BY <2>2, <2>4, <2>7
    <3> QED BY <2>1, <2>3, <2>4, <3>1, <3>2, <3>3, GoingOnServes DEF ServerCalls
  <2> QED BY <2>2, <2>5, <2>6, <2>7 DEF Items
<1>6. CASE Respond
  <2>1. server.pc = "send" /\ c \in Ids /\ server' = At("select")
        /\ UNCHANGED <<turn, client, assoc, inbox, backlog>>
    BY <1>1, <1>6 DEF Respond
  <2>2. /\ heard'[c] # "nothing"
        /\ \A d \in Ids : heard'[d] = "nothing" => heard[d] = "nothing"
    BY <1>6, <2>1 DEF Respond, TypeOK
  <2> QED BY <2>1, <2>2, GoingOnServes DEF ServerCalls
<1>7. CASE RespondBroken
  BY <1>7, HangupServes DEF RespondBroken, CloseConn
<1>8. CASE KillServer
  BY <1>8, HangupServes DEF KillServer, ServerGone
<1>9. CASE ServerReturns
  BY <1>9, HangupServes DEF ServerReturns, ServerGone
<1>10. CASE ServerBreaks
  BY <1>10, HangupServes DEF ServerBreaks, CloseConn
<1> QED
  BY <1>2, <1>3, <1>4, <1>5, <1>6, <1>7, <1>8, <1>9, <1>10 DEF ServerStep

\* The kernel.
LEMMA KernelServes ==
    ASSUME TypeOK, Connected, Owed, ReleasePort \/ Sack
    PROVE  Connected' /\ Owed'
<1>1. CASE ReleasePort
  <2>1. port < turn /\ backlog' = backlog \ {port}
        /\ UNCHANGED <<turn, client, server, assoc, heard, inbox>>
    BY <1>1 DEF ReleasePort
  <2>2. port # turn BY <2>1 DEF TypeOK
  <2>3. Connected' BY <2>1, <2>2 DEF Connected
  <2>4. Owed' BY <2>1, <2>2 DEF Owed, Running, Finished
  <2> QED BY <2>3, <2>4
<1>2. CASE Sack
  <2>1. UNCHANGED <<turn, client, assoc, heard, backlog>> /\ Deliver(server.conn, "dry")
    BY <1>2 DEF Sack
  <2>2. server.conn \in Ids BY <1>2 DEF Sack, TypeOK, Ids
  <2>3. /\ server'.conn = server.conn
        /\ server' = server \/ (server.pc = "asleep" /\ server'.pc = "select")
        /\ \A d \in Ids : Holds(inbox'[d], "eof") <=> Holds(inbox[d], "eof")
        /\ \A d \in Ids : Holds(inbox'[d], "data") <=> Holds(inbox[d], "data")
    BY <2>1, <2>2, Arrival DEF Items
  <2>4. Connected' BY <2>1, <2>2, <2>3 DEF Connected
  <2>5. Owed'
    <3>1. ~Finished => turn \in Ids BY TurnIsId
    <3> QED BY <2>1, <2>3, <3>1 DEF Owed, Running, Finished
  <2> QED BY <2>4, <2>5
<1> QED BY <1>1, <1>2

\* A client that waits is connected to the server, accepted or not, and its data
\* are there; the server is awake, or sleeps over them.
THEOREM NoMutualWait == Spec => []NeverBothWait
<1>1. Connected /\ Owed /\ UNCHANGED vars => (Connected /\ Owed)'
  BY DEF Connected, Owed, Running, Finished, vars
<1>2. TypeOK /\ Connected /\ Owed /\ [Next]_vars => (Connected /\ Owed)'
  BY <1>1, ClientServes, ServerServes, KernelServes DEF Next
<1>3. IInv /\ Connected /\ Owed => NeverBothWait
  <2> SUFFICES ASSUME IInv, Connected, Owed, BothWait
               PROVE  kernel = "lingers" /\ MissedWakeup /\ server.conn = turn /\ Holds(inbox[turn], "data")
    BY DEF NeverBothWait
  <2>1. TypeOK /\ turn \in Ids BY TurnIsId DEF IInv, BothWait, Running
  <2>2. \/ turn \in backlog /\ Holds(inbox[turn], "data")
        \/ server.conn = turn /\ (server.pc = "send" \/ Holds(inbox[turn], "data"))
    BY DEF BothWait, Owed
  <2>3. server.pc = "asleep"
    <3>1. server.pc \in {"gone", "accept"} => server.conn \notin Ids BY <2>1 DEF TypeOK, Ids
    <3> QED BY <2>1, <2>2, <3>1 DEF BothWait, Connected
  <2>4. server.conn = turn
    <3>1. server.conn \in Ids BY <2>1, <2>3 DEF TypeOK, Ids
    <3> QED BY <2>3, <3>1 DEF Connected
  <2>5. Holds(inbox[turn], "data") BY <2>2, <2>3, <2>4 DEF Connected
  <2>6. inbox[turn] # <<>> BY <2>5 DEF Holds
  <2>7. kernel = "lingers" BY <2>1, <2>3, <2>4, <2>6, KernelsAssumption DEF IInv, Awake, TypeOK
  <2> QED BY <2>3, <2>4, <2>5, <2>6, <2>7 DEF MissedWakeup
<1> QED BY ServedInitially, TypeCorrectness, InductiveInvariant, <1>2, <1>3, PTL DEF Spec

\* A case that passes without a failed call has had every client answered.
THEOREM EveryClientAnswered == Spec => []PassMeansAnswered
<1>1. IInv => PassMeansAnswered
  <2>1. TypeOK /\ Finished => \A c \in Ids : c < turn BY ClientsAssumption DEF TypeOK, Finished, Ids
  <2> QED BY <2>1 DEF IInv, Undisturbed, PassMeansAnswered
<1> QED BY <1>1, InductiveInvariant, PTL

\* A case that fails has a cause other than the kernel's wake-ups.
THEOREM FailureHasCause == Spec => []FailHasCause
<1>1. IInv => FailHasCause BY DEF IInv, Undisturbed, FailHasCause
<1> QED BY <1>1, InductiveInvariant, PTL
=============================================================================
