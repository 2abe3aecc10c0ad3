------------------------------- MODULE StTopo -------------------------------
(***************************************************************************)
(* The topologies on network namespaces: netns.sh with netns_cs.sh         *)
(* ("plain"), netns_bridge_cs.sh ("bridge") and netns_team_cs.sh ("team"), *)
(* as st_setup and st_clean run them in a shell, command by command.       *)
(*                                                                         *)
(* No command's status is looked at: one that cannot do its work leaves    *)
(* everything as it was and the next is run.  The shell is interactive:    *)
(* Ctrl-C ends what it runs and keeps its functions and arrays; a new      *)
(* shell, or a new sctp-tests, starts without them.  Every shell has its   *)
(* prefix (-o), which names its namespaces, but neither the two veth       *)
(* devices on the host by which every pair begins, nor the daemons of the  *)
(* teams, which teamd knows by the name of the team alone.                 *)
(***************************************************************************)
EXTENDS Naturals, SequencesExt

CONSTANTS
    Prefix,     \* one shell at a time for each
    TopoOf,     \* the topology that is used with a prefix
    Pairs,      \* veth pairs of a topology, 2 or 4
    Orderly,    \* nothing is begun while another prefix is half set up or clean
    SameShell   \* teams are cleaned by the shell that set them up

\* The words that stand for places without a prefix.
ASSUME PrefixAssumption == Prefix \cap {"host", "orphan", "none"} = {}
ASSUME TopoAssumption == TopoOf \in [Prefix -> {"plain", "bridge", "team"}]
ASSUME PairsAssumption == Pairs \in Nat \ {0}
ASSUME UseAssumption == Orderly \in BOOLEAN /\ SameShell \in BOOLEAN

Roles == {"c", "s"}
Namespaces == Prefix \X Roles
Host == <<"host", "host">>

\* A namespace whose name is deleted lives on as long as a teamd runs in it;
\* nobody can enter it any more.
Orphan(r) == <<"orphan", r>>
Places == Namespaces \cup {Host} \cup {Orphan(r) : r \in Roles}
Nowhere == <<"none", "none">>

VARIABLES
    shell,      \* of each prefix: its functions, whether the arrays are set,
                \* the commands left to run, and what the last ones were for
    nss,        \* the namespaces that have a name
    links,      \* the veth pairs, as sets of two ends <<place, device>>
    bridges,    \* the places that have a bridge
    daemon,     \* of each role: where the teamd of its team runs
    ports,      \* the ends that are ports of the bridge or team of their place
    addrs       \* the devices <<place, device>> that have their addresses

vars == <<shell, nss, links, bridges, daemon, ports, addrs>>
host == <<nss, links, bridges, daemon, ports, addrs>>

Eth(k) == <<"eth", k>>
VethName(n) == <<"veth", n>>
Master == <<"master", 0>>
Devices == {VethName(0), VethName(1), Master} \cup {Eth(k) : k \in 1 .. Pairs}
Ends == Places \X Devices
Cmd(op, r, k) == [op |-> op, role |-> r, k |-> k]

TypeOK ==
    /\ \A p \in Prefix :
        /\ shell[p].fns \subseteq Roles
        /\ shell[p].arrays \in BOOLEAN
        /\ shell[p].todo # <<>> => shell[p].is \in {"rising", "falling"}
        /\ shell[p].is \in {"down", "rising", "up", "falling"}
    /\ nss \subseteq Namespaces
    /\ \A l \in links : l \subseteq Ends /\ Cardinality(l) = 2
    /\ \A l, m \in links : l # m => l \cap m = {}
    /\ bridges \subseteq nss
    /\ daemon \in [Roles -> Namespaces \cup {Orphan(r) : r \in Roles} \cup {Nowhere}]
    /\ ports \subseteq UNION links
    /\ addrs \subseteq Ends

Init ==
    /\ shell = [p \in Prefix |->
                   [fns |-> {}, arrays |-> FALSE, todo |-> <<>>, is |-> "down"]]
    /\ nss = {} /\ links = {} /\ bridges = {}
    /\ daemon = [r \in Roles |-> Nowhere]
    /\ ports = {} /\ addrs = {}

-----------------------------------------------------------------------------
(* The commands of st_topo_setup and st_topo_clean. *)

Creating == <<Cmd("run_create", "c", 0), Cmd("ns_add", "c", 0),
              Cmd("run_create", "s", 0), Cmd("ns_add", "s", 0)>>

\* Three commands for each pair.
Pairing ==
    [n \in 1 .. 3 * Pairs |->
        LET k == (n + 2) \div 3
        IN  CASE n % 3 = 1 -> Cmd("veth_add", "c", k)
              [] n % 3 = 2 -> Cmd("veth_assign", "c", k)
              [] n % 3 = 0 -> Cmd("veth_assign", "s", k)]

Porting(r) == [k \in 1 .. Pairs |-> Cmd("port", r, k)]
Addressing(r) == [k \in 1 .. Pairs |-> Cmd("addr", r, k)]

Setup(topo) ==
    CASE topo = "plain" ->
            Creating \o Pairing \o Addressing("c") \o Addressing("s")
      [] topo = "bridge" ->
            Creating \o Pairing \o <<Cmd("bridge", "c", 0), Cmd("bridge", "s", 0)>>
            \o Porting("c") \o Porting("s") \o <<Cmd("addr", "c", 0), Cmd("addr", "s", 0)>>
      [] topo = "team" ->
            Creating \o Pairing \o <<Cmd("team", "c", 0)>> \o Porting("c")
            \o <<Cmd("team", "s", 0)>> \o Porting("s")
            \o <<Cmd("addr", "c", 0), Cmd("addr", "s", 0)>>

Destroying == <<Cmd("ns_del", "c", 0), Cmd("unset", "c", 0),
                Cmd("ns_del", "s", 0), Cmd("unset", "s", 0)>>

\* (Mutant: the namespaces before the teams.)
CleanNamespacesFirst(topo) ==
    Destroying \o (IF topo = "team"
                   THEN <<Cmd("team_kill", "c", 0), Cmd("team_kill", "s", 0)>> ELSE <<>>)

Clean(topo) ==
    CASE topo = "plain" -> Destroying
      [] topo = "bridge" ->
            <<Cmd("bridge_del", "c", 0), Cmd("bridge_del", "s", 0)>> \o Destroying
      [] topo = "team" ->
            <<Cmd("team_kill", "c", 0), Cmd("team_kill", "s", 0)>> \o Destroying

-----------------------------------------------------------------------------
(* The shells. *)

Idle(p) == shell[p].todo = <<>>

Settled(p) == Idle(p) /\ shell[p].is \in {"up", "down"}
MayBegin(p) == Idle(p) /\ (Orderly => \A q \in Prefix \ {p} : Settled(q))

\* st_topo_setup sets the arrays before it runs a command.
StSetup(p) ==
    /\ MayBegin(p)
    /\ shell' = [shell EXCEPT ![p] =
                    [@ EXCEPT !.arrays = TRUE, !.todo = Setup(TopoOf[p]), !.is = "rising"]]
    /\ UNCHANGED host

StClean(p) ==
    /\ MayBegin(p)
    /\ SameShell /\ TopoOf[p] = "team" => shell[p].arrays /\ shell[p].fns = Roles
    /\ shell' = [shell EXCEPT ![p] =
                    [@ EXCEPT !.todo = Clean(TopoOf[p]), !.is = "falling"]]
    /\ UNCHANGED host

Interrupt(p) ==
    /\ ~Idle(p)
    /\ shell' = [shell EXCEPT ![p].todo = <<>>]
    /\ UNCHANGED host

\* exit, and the next sctp-tests with the same prefix.
NewShell(p) ==
    /\ Idle(p)
    /\ shell[p].arrays \/ shell[p].fns # {}
    /\ shell' = [shell EXCEPT ![p] = [@ EXCEPT !.fns = {}, !.arrays = FALSE]]
    /\ UNCHANGED host

-----------------------------------------------------------------------------
(* The commands, one action each. *)

Current(p) == Head(shell[p].todo)
Ns(p) == <<p, Current(p).role>>

\* The shell after its next command.
After(p) ==
    [shell[p] EXCEPT
        !.todo = Tail(@),
        !.is = IF Len(shell[p].todo) > 1 THEN @ ELSE IF @ = "rising" THEN "up" ELSE "down"]

Runs(p, op) == ~Idle(p) /\ Current(p).op = op
Done(p) == shell' = [shell EXCEPT ![p] = After(p)]

\* A command inside the namespace is run through st_c_run or st_s_run.
Enters(p) == Current(p).role \in shell[p].fns /\ Ns(p) \in nss

Taken == UNION links

RunCreate(p) ==
    /\ Runs(p, "run_create")
    /\ shell' = [shell EXCEPT ![p] = [After(p) EXCEPT !.fns = @ \cup {Current(p).role}]]
    /\ UNCHANGED host

NsAdd(p) ==
    /\ Runs(p, "ns_add")
    /\ nss' = nss \cup {Ns(p)}
    /\ Done(p)
    /\ UNCHANGED <<links, bridges, daemon, ports, addrs>>

\* (Mutant: names by the number of the pair.)
VethAddByPair(p) ==
    /\ Runs(p, "veth_add")
    /\ links' = links \cup {{<<Host, VethName(2 * Current(p).k)>>,
                             <<Host, VethName(2 * Current(p).k + 1)>>}}
    /\ Done(p)
    /\ UNCHANGED <<nss, bridges, daemon, ports, addrs>>

\* ip link add veth0 type veth peer name veth1
VethAdd(p) ==
    /\ Runs(p, "veth_add")
    /\ links' = IF {<<Host, VethName(0)>>, <<Host, VethName(1)>>} \cap Taken = {}
                THEN links \cup {{<<Host, VethName(0)>>, <<Host, VethName(1)>>}} ELSE links
    /\ Done(p)
    /\ UNCHANGED <<nss, bridges, daemon, ports, addrs>>

\* ip link set veth0 name eth1 netns st-c: not if the name is taken there.
\* (Mutant: veth0 for both sides.)
OrigAlways(role) == VethName(0)
Orig(role) == VethName(IF role = "c" THEN 0 ELSE 1)

VethAssign(p) ==
    /\ Runs(p, "veth_assign")
    /\ LET from == <<Host, Orig(Current(p).role)>>
           to == <<Ns(p), Eth(Current(p).k)>>
       IN  links' = IF from \in Taken /\ Ns(p) \in nss /\ to \notin Taken
                    THEN {IF from \in l THEN (l \ {from}) \cup {to} ELSE l : l \in links}
                    ELSE links
    /\ Done(p)
    /\ UNCHANGED <<nss, bridges, daemon, ports, addrs>>

BridgeCreate(p) ==
    /\ Runs(p, "bridge")
    /\ bridges' = IF Enters(p) THEN bridges \cup {Ns(p)} ELSE bridges
    /\ Done(p)
    /\ UNCHANGED <<nss, links, daemon, ports, addrs>>

\* teamd -d -t: one daemon for a name, on the whole host.
TeamCreate(p) ==
    /\ Runs(p, "team")
    /\ daemon' = IF Enters(p) /\ daemon[Current(p).role] = Nowhere
                 THEN [daemon EXCEPT ![Current(p).role] = Ns(p)] ELSE daemon
    /\ Done(p)
    /\ UNCHANGED <<nss, links, bridges, ports, addrs>>

HasMaster(place) == place \in bridges \/ \E r \in Roles : daemon[r] = place

\* The port of the bridge, or of the team that teamdctl finds by its name.
PortAdd(p) ==
    /\ Runs(p, "port")
    /\ LET end == <<Ns(p), Eth(Current(p).k)>>
       IN  ports' = IF Enters(p) /\ HasMaster(Ns(p)) /\ end \in Taken
                    THEN ports \cup {end} ELSE ports
    /\ Done(p)
    /\ UNCHANGED <<nss, links, bridges, daemon, addrs>>

AddrAssign(p) ==
    /\ Runs(p, "addr")
    /\ LET dev == <<Ns(p), IF Current(p).k = 0 THEN Master ELSE Eth(Current(p).k)>>
           exists == IF Current(p).k = 0 THEN HasMaster(Ns(p)) ELSE dev \in Taken
       IN  addrs' = IF Enters(p) /\ exists THEN addrs \cup {dev} ELSE addrs
    /\ Done(p)
    /\ UNCHANGED <<nss, links, bridges, daemon, ports>>

\* The master at a place goes, and with it its ports' membership.
MasterGone(place) ==
    /\ ports' = {e \in ports : e[1] # place}
    /\ addrs' = addrs \ {<<place, Master>>}

BridgeDestroy(p) ==
    /\ Runs(p, "bridge_del")
    /\ IF Enters(p) /\ shell[p].arrays /\ Ns(p) \in bridges
       THEN bridges' = bridges \ {Ns(p)} /\ MasterGone(Ns(p))
       ELSE UNCHANGED <<bridges, ports, addrs>>
    /\ Done(p)
    /\ UNCHANGED <<nss, links, daemon>>

\* (Mutant: the ports of what goes stay.)
PlaceGoneKeepsPorts(place) ==
    LET lost == {l \in links : \E e \in l : e[1] = place}
    IN  /\ links' = links \ lost
        /\ addrs' = {d \in addrs : d[1] # place}
        /\ UNCHANGED ports

\* A place ceases to exist: every pair that has an end there goes.
PlaceGone(place) ==
    LET lost == {l \in links : \E e \in l : e[1] = place}
    IN  /\ links' = links \ lost
        /\ ports' = ports \ UNION lost
        /\ addrs' = {d \in addrs : d[1] # place /\ d \notin UNION lost}

\* teamd -t -k, for the names in the array.
TeamDestroy(p) ==
    /\ Runs(p, "team_kill")
    /\ LET r == Current(p).role IN
       IF Enters(p) /\ shell[p].arrays /\ daemon[r] # Nowhere
       THEN /\ daemon' = [daemon EXCEPT ![r] = Nowhere]
            /\ IF daemon[r] = Orphan(r)
               THEN PlaceGone(Orphan(r))
               ELSE MasterGone(daemon[r]) /\ UNCHANGED links
       ELSE UNCHANGED <<daemon, links, ports, addrs>>
    /\ Done(p)
    /\ UNCHANGED <<nss, bridges>>

\* ip netns del: the namespace goes with all that is in it, or is an orphan.
NsDel(p) ==
    /\ Runs(p, "ns_del")
    /\ nss' = nss \ {Ns(p)}
    /\ bridges' = bridges \ {Ns(p)}
    /\ LET r == Current(p).role
           Moved(e) == IF e[1] = Ns(p) THEN <<Orphan(r), e[2]>> ELSE e
       IN  IF daemon[r] = Ns(p)
           THEN /\ daemon' = [daemon EXCEPT ![r] = Orphan(r)]
                /\ links' = {{Moved(e) : e \in l} : l \in links}
                /\ ports' = {Moved(e) : e \in ports}
                /\ addrs' = {Moved(d) : d \in addrs}
           ELSE PlaceGone(Ns(p)) /\ UNCHANGED daemon
    /\ Done(p)

Unset(p) ==
    /\ Runs(p, "unset")
    /\ shell' = [shell EXCEPT ![p] = [After(p) EXCEPT !.fns = @ \ {Current(p).role}]]
    /\ UNCHANGED host

Command(p) ==
    \/ RunCreate(p) \/ NsAdd(p) \/ VethAdd(p) \/ VethAssign(p)
    \/ BridgeCreate(p) \/ TeamCreate(p) \/ PortAdd(p) \/ AddrAssign(p)
    \/ BridgeDestroy(p) \/ TeamDestroy(p) \/ NsDel(p) \/ Unset(p)

Next ==
    \E p \in Prefix :
        StSetup(p) \/ StClean(p) \/ Interrupt(p) \/ NewShell(p) \/ Command(p)

Spec == Init /\ [][Next]_vars

-----------------------------------------------------------------------------
OnHost == {l \in links : \E e \in l : e[1] = Host}

Wired(p) ==
    /\ {p} \X Roles \subseteq nss
    /\ {l \in links : \E e \in l : e[1] \in {p} \X Roles}
        = {{<<<<p, "c">>, Eth(k)>>, <<<<p, "s">>, Eth(k)>>} : k \in 1 .. Pairs}

Mastered(p) ==
    TopoOf[p] # "plain" =>
        \A r \in Roles :
            /\ HasMaster(<<p, r>>)
            /\ {<<<<p, r>>, Eth(k)>> : k \in 1 .. Pairs} \subseteq ports

Addressed(p) ==
    \A r \in Roles :
        {d[2] : d \in {d \in addrs : d[1] = <<p, r>>}}
            = IF TopoOf[p] = "plain" THEN {Eth(k) : k \in 1 .. Pairs} ELSE {Master}

\* A set up that came to its end gives the whole topology, whatever earlier set
\* ups and cleans of the same topology left half done, and it stays as long as
\* shells with other prefixes come and go.
SetupIsComplete ==
    \A p \in Prefix : shell[p].is = "up" => Wired(p) /\ Mastered(p) /\ Addressed(p)

\* "use 'st_clean' to clean env": a clean that came to its end leaves no
\* namespace, no device and no daemon of the topology.
CleanIsComplete ==
    \A p \in Prefix : shell[p].is = "down" =>
        /\ ({p} \X Roles) \cap nss = {}
        /\ \A e \in Taken : e[1] \notin {p} \X Roles
        /\ TopoOf[p] = "team" =>
            \A r \in Roles : daemon[r] \notin {<<p, r>>, Orphan(r)}

\* What half done set ups leave on the host is one pair at most, however often
\* they are tried: every later one finds it by its name.
OneOnHost == Cardinality(OnHost) <= 1
=============================================================================
