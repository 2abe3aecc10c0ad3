---------------------------- MODULE StTopo_proofs ----------------------------
(***************************************************************************)
(* What is true of the topologies for every number of prefixes and pairs:  *)
(*   - what half done set ups leave on the host (OnePairOnHost) and the    *)
(*     types (TypeCorrectness), however the shells are used;               *)
(*   - that a clean is complete (CleansComplete), when teams are cleaned   *)
(*     by the shells that set them up;                                     *)
(*   - that a set up is complete and stays so (SetupsComplete), when,      *)
(*     besides, one prefix at a time is at work and one uses teams.        *)
(* The last two are by what a program has done after n of its commands     *)
(* (FallInv, RiseInv), so the places of the commands come first.           *)
(***************************************************************************)
EXTENDS StTopo, FiniteSetTheorems, SequenceTheorems, TLAPS

\* The two devices by which a pair begins.
HostEnd(n) == <<Host, VethName(n)>>
Fresh == {HostEnd(0), HostEnd(1)}

\* An end on the host has one of the two names, and all such ends are of one
\* pair: the next cannot be created before the last has left by both its ends.
HostInv ==
    /\ \A l \in links : \A e \in l : e[1] = Host => e \in Fresh
    /\ \A l, m \in OnHost : l = m

-----------------------------------------------------------------------------
\* The place of a shell's command is not the host, and neither is an orphan.
LEMMA Elsewhere ==
    ASSUME NEW p \in Prefix, NEW r
    PROVE  <<p, r>> # Host /\ Orphan(r) # Host
<1>1. p # "host"
  BY PrefixAssumption
<1> QED BY <1>1 DEF Host, Orphan

\* A step after which every pair is one that was there before.
LEMMA Fewer ==
    ASSUME HostInv, links' \subseteq links
    PROVE  HostInv'
BY DEF HostInv, OnHost

\* A step that replaces pairs and brings none of their ends to the host.
LEMMA Replaced ==
    ASSUME HostInv, NEW F,
           \A l \in links' : \E m \in links : l = F[m],
           \A l \in links : \A e \in F[l] : e[1] = Host => e \in l
    PROVE  HostInv'
<1>1. ASSUME NEW l \in links', NEW e \in l, e[1] = Host
      PROVE  \E m \in OnHost : l = F[m] /\ e \in m
  <2>1. PICK m \in links : l = F[m]
    OBVIOUS
  <2>2. e \in m
    BY <1>1, <2>1
  <2> QED BY <1>1, <2>1, <2>2 DEF OnHost
<1>2. ASSUME NEW l \in links', NEW e \in l, e[1] = Host PROVE e \in Fresh
  BY <1>1, <1>2 DEF HostInv, OnHost
<1>3. ASSUME NEW l \in OnHost', NEW m \in OnHost' PROVE l = m
  <2>1. \E k \in OnHost : l = F[k]
    BY <1>1 DEF OnHost
  <2>2. \E k \in OnHost : m = F[k]
    BY <1>1 DEF OnHost
  <2> QED BY <2>1, <2>2 DEF HostInv
<1> QED BY <1>2, <1>3 DEF HostInv

-----------------------------------------------------------------------------
\* ip link add: there is no pair on the host yet, or the command fails.
LEMMA VethAddKeeps ==
    ASSUME HostInv, NEW p \in Prefix, VethAdd(p)
    PROVE  HostInv'
<1>1. CASE Fresh \cap Taken # {}
  <2>1. links' = links
    BY <1>1 DEF VethAdd, Fresh, HostEnd
  <2> QED BY <2>1, Fewer
<1>2. CASE Fresh \cap Taken = {}
  <2>1. links' = links \cup {Fresh}
    BY <1>2 DEF VethAdd, Fresh, HostEnd
  <2>2. \A l \in links : \A e \in l : e[1] # Host
    BY <1>2 DEF HostInv, Taken
  <2>3. \A l \in links' : \A e \in l : e[1] = Host => l = Fresh /\ e \in Fresh
    BY <2>1, <2>2
  <2> QED BY <2>3 DEF HostInv, OnHost
<1> QED BY <1>1, <1>2

\* ip link set ... netns: one end leaves the host.
LEMMA VethAssignKeeps ==
    ASSUME HostInv, NEW p \in Prefix, VethAssign(p)
    PROVE  HostInv'
<1> DEFINE from == <<Host, Orig(Current(p).role)>>
           to == <<Ns(p), Eth(Current(p).k)>>
           F == [l \in links |-> IF from \in l THEN (l \ {from}) \cup {to} ELSE l]
<1>1. links' = links \/ links' = {IF from \in l THEN (l \ {from}) \cup {to} ELSE l : l \in links}
  BY DEF VethAssign
<1>2. CASE links' = links
  BY <1>2, Fewer
<1>3. CASE links' = {IF from \in l THEN (l \ {from}) \cup {to} ELSE l : l \in links}
  <2>1. to[1] # Host
    BY Elsewhere DEF Ns
  <2> HIDE DEF from, to
  <2>2. \A l \in links' : \E m \in links : l = F[m]
    BY <1>3
  <2>3. \A l \in links : \A e \in F[l] : e[1] = Host => e \in l
    BY <2>1
  <2> HIDE DEF F
  <2> QED BY <2>2, <2>3, Replaced
<1> QED BY <1>1, <1>2, <1>3

\* ip netns del: what is in the namespace goes, or becomes an orphan.
LEMMA NsDelKeeps ==
    ASSUME HostInv, NEW p \in Prefix, NsDel(p)
    PROVE  HostInv'
<1> DEFINE r == Current(p).role
           Moved(e) == IF e[1] = Ns(p) THEN <<Orphan(r), e[2]>> ELSE e
           F == [l \in links |-> {Moved(e) : e \in l}]
<1>1. links' = {{Moved(e) : e \in l} : l \in links} \/ PlaceGone(Ns(p))
  BY DEF NsDel
<1>2. CASE PlaceGone(Ns(p))
  <2>1. links' \subseteq links
    BY <1>2 DEF PlaceGone
  <2> QED BY <2>1, Fewer
<1>3. CASE links' = {{Moved(e) : e \in l} : l \in links}
  <2>1. Orphan(r) # Host
    BY Elsewhere
  <2> HIDE DEF r
  <2>2. \A l \in links' : \E m \in links : l = F[m]
    BY <1>3
  <2>3. ASSUME NEW l \in links, NEW e \in F[l], e[1] = Host PROVE e \in l
    <3>1. PICK d \in l : e = Moved(d)
      BY <2>3
    <3>2. d[1] # Ns(p)
      BY <2>1, <2>3, <3>1
    <3> QED BY <3>1, <3>2
  <2> HIDE DEF F
  <2> QED BY <2>2, <2>3, Replaced
<1> QED BY <1>1, <1>2, <1>3

-----------------------------------------------------------------------------
\* There is nothing on the host in the beginning.
LEMMA HostInitially == Init => HostInv
BY DEF Init, HostInv, OnHost

\* Every step of every shell preserves the invariant.
LEMMA HostPreserved == HostInv /\ [Next]_vars => HostInv'
<1> SUFFICES ASSUME HostInv, [Next]_vars PROVE HostInv'
  OBVIOUS
<1>1. CASE UNCHANGED vars
  BY <1>1, Fewer DEF vars
<1>2. ASSUME NEW p \in Prefix, StSetup(p) \/ StClean(p) \/ Interrupt(p) \/ NewShell(p)
      PROVE  HostInv'
  BY <1>2, Fewer DEF StSetup, StClean, Interrupt, NewShell, host
<1>3. ASSUME NEW p \in Prefix, Command(p) PROVE HostInv'
  <2>1. CASE RunCreate(p) \/ NsAdd(p) \/ Unset(p)
    BY <2>1, Fewer DEF RunCreate, NsAdd, Unset, host
  <2>2. CASE VethAdd(p)
    BY <2>2, VethAddKeeps
  <2>3. CASE VethAssign(p)
    BY <2>3, VethAssignKeeps
  <2>4. CASE BridgeCreate(p) \/ TeamCreate(p) \/ PortAdd(p) \/ AddrAssign(p) \/ BridgeDestroy(p)
    BY <2>4, Fewer DEF BridgeCreate, TeamCreate, PortAdd, AddrAssign, BridgeDestroy
  <2>5. CASE TeamDestroy(p)
    <3>1. links' = links \/ PlaceGone(Orphan(Current(p).role))
      BY <2>5 DEF TeamDestroy
    <3>2. links' \subseteq links
      BY <3>1 DEF PlaceGone
    <3> QED BY <3>2, Fewer
  <2>6. CASE NsDel(p)
    BY <2>6, NsDelKeeps
  <2> QED BY <1>3, <2>1, <2>2, <2>3, <2>4, <2>5, <2>6 DEF Command
<1> QED BY <1>1, <1>2, <1>3 DEF Next

\* Whatever the shells do, there is at most one pair on the host, with its two
\* names.
THEOREM HostInvariant == Spec => []HostInv
BY HostInitially, HostPreserved, PTL DEF Spec

\* However often set ups are begun and interrupted, in whatever order, what they
\* leave on the host is one pair at most.
THEOREM OnePairOnHost == Spec => []OneOnHost
<1>1. HostInv => OneOnHost
  <2> SUFFICES ASSUME HostInv PROVE OneOnHost
    OBVIOUS
  <2>1. CASE OnHost = {}
    BY <2>1, FS_EmptySet DEF OneOnHost
  <2>2. CASE OnHost # {}
    <3>1. PICK l \in OnHost : OnHost = {l}
      BY <2>2 DEF HostInv
    <3>2. Cardinality(OnHost) = 1
      BY <3>1, FS_Singleton
    <3> QED BY <3>2 DEF OneOnHost
  <2> QED BY <2>1, <2>2
<1> QED BY <1>1, HostInvariant, PTL
-----------------------------------------------------------------------------
(* The commands and their places in the programs. *)

Ops == {"run_create", "ns_add", "veth_add", "veth_assign", "bridge", "team", "port", "addr",
        "bridge_del", "team_kill", "ns_del", "unset"}
Commands == [op : Ops, role : Roles, k : 0 .. Pairs]

\* The command of each action, for a role and, where there is one for each, a pair.
First(r) == IF r = "c" THEN 0 ELSE 1
Wiring == 4 + 3 * Pairs
CreateAt(r) == 1 + 2 * First(r)
GroupAt(topo, r) ==
    Wiring + 1 + IF r = "c" THEN 0 ELSE IF topo = "team" THEN Pairs + 1 ELSE 1
PortAt(topo, r, k) ==
    IF topo = "team" THEN GroupAt(topo, r) + k
    ELSE Wiring + 2 + k + IF r = "c" THEN 0 ELSE Pairs
AddrAt(topo, r, k) ==
    IF topo = "plain" THEN Wiring + k + IF r = "c" THEN 0 ELSE Pairs
    ELSE Wiring + 2 * Pairs + 3 + First(r)
KillAt(r) == 1 + First(r)
DelAt(topo, r) == 2 * First(r) + IF topo = "plain" THEN 1 ELSE 3

\* Command c is the n-th of st_topo_setup, of st_topo_clean.
SetupStep(topo, n, c) ==
    \/ \E r \in Roles : c = Cmd("run_create", r, 0) /\ n = CreateAt(r)
    \/ \E r \in Roles : c = Cmd("ns_add", r, 0) /\ n = CreateAt(r) + 1
    \/ \E k \in 1 .. Pairs :
          \/ c = Cmd("veth_add", "c", k) /\ n = 3 * k + 2
          \/ c = Cmd("veth_assign", "c", k) /\ n = 3 * k + 3
          \/ c = Cmd("veth_assign", "s", k) /\ n = 3 * k + 4
    \/ /\ topo # "plain"
       /\ \E r \in Roles : c = Cmd(topo, r, 0) /\ n = GroupAt(topo, r)
    \/ /\ topo # "plain"
       /\ \E r \in Roles : \E k \in 1 .. Pairs : c = Cmd("port", r, k) /\ n = PortAt(topo, r, k)
    \/ /\ topo = "plain"
       /\ \E r \in Roles : \E k \in 1 .. Pairs : c = Cmd("addr", r, k) /\ n = AddrAt(topo, r, k)
    \/ /\ topo # "plain"
       /\ \E r \in Roles : c = Cmd("addr", r, 0) /\ n = AddrAt(topo, r, 0)

CleanStep(topo, n, c) ==
    \/ topo = "bridge" /\ \E r \in Roles : c = Cmd("bridge_del", r, 0) /\ n = KillAt(r)
    \/ topo = "team" /\ \E r \in Roles : c = Cmd("team_kill", r, 0) /\ n = KillAt(r)
    \/ \E r \in Roles : c = Cmd("ns_del", r, 0) /\ n = DelAt(topo, r)
    \/ \E r \in Roles : c = Cmd("unset", r, 0) /\ n = DelAt(topo, r) + 1

\* The constants, as the arithmetic below uses them.
LEMMA Constants ==
    /\ Pairs \in Nat /\ Pairs >= 1
    /\ Wiring = 4 + 3 * Pairs /\ Wiring \in Nat
    /\ Roles = {"c", "s"}
    /\ \A p \in Prefix : TopoOf[p] \in {"plain", "bridge", "team"}
BY PairsAssumption, TopoAssumption DEF Roles, Wiring

\* What a program is made of.
LEMMA IsCommand ==
    ASSUME NEW o \in Ops, NEW r \in Roles, NEW k \in 0 .. Pairs
    PROVE  Cmd(o, r, k) \in Commands
BY DEF Cmd, Commands

\* st_netns_ns_create.
LEMMA CreatingIs ==
    /\ Creating \in Seq(Commands) /\ Len(Creating) = 4
    /\ \A n \in 1 .. 4, topo \in {"plain", "bridge", "team"} : SetupStep(topo, n, Creating[n])
<1>1. Creating \in Seq(Commands) /\ Len(Creating) = 4
  <2>1. \A r \in Roles : Cmd("run_create", r, 0) \in Commands /\ Cmd("ns_add", r, 0) \in Commands
    BY IsCommand, Constants DEF Ops
  <2> QED BY <2>1, Constants DEF Creating
<1>2. ASSUME NEW n \in 1 .. 4 PROVE
      \/ \E r \in Roles : Creating[n] = Cmd("run_create", r, 0) /\ n = CreateAt(r)
      \/ \E r \in Roles : Creating[n] = Cmd("ns_add", r, 0) /\ n = CreateAt(r) + 1
  <2>1. n = 1 \/ n = 2 \/ n = 3 \/ n = 4
    OBVIOUS
  <2>2. CreateAt("c") = 1 /\ CreateAt("s") = 3
    BY DEF CreateAt, First
  <2> QED BY <2>1, <2>2 DEF Creating, Roles
<1> QED BY <1>1, <1>2 DEF SetupStep

\* The pairs, three commands each, one pair after the other.
LEMMA PairingIs ==
    /\ Pairing \in Seq(Commands) /\ Len(Pairing) = 3 * Pairs
    /\ \A n \in 1 .. 3 * Pairs, topo \in {"plain", "bridge", "team"} :
           SetupStep(topo, n + 4, Pairing[n])
<1>1. ASSUME NEW n \in 1 .. 3 * Pairs
      PROVE  \E k \in 1 .. Pairs :
                \/ Pairing[n] = Cmd("veth_add", "c", k) /\ n + 4 = 3 * k + 2
                \/ Pairing[n] = Cmd("veth_assign", "c", k) /\ n + 4 = 3 * k + 3
                \/ Pairing[n] = Cmd("veth_assign", "s", k) /\ n + 4 = 3 * k + 4
  <2> DEFINE k == (n + 2) \div 3
  <2>1. n \in Nat /\ n <= 3 * Pairs /\ n >= 1 /\ Pairs \in Nat
    BY Constants
  <2>2. k \in Int /\ n % 3 \in {0, 1, 2}
    BY <2>1
  <2>3. k \in 1 .. Pairs /\ n + 2 >= 3 * k /\ n + 2 < 3 * k + 3
    BY <2>1
  <2>4. /\ n % 3 = 1 => n + 4 = 3 * k + 2
        /\ n % 3 = 2 => n + 4 = 3 * k + 3
        /\ n % 3 = 0 => n + 4 = 3 * k + 4
    BY <2>1
  <2>5. Pairing[n] = CASE n % 3 = 1 -> Cmd("veth_add", "c", k)
                       [] n % 3 = 2 -> Cmd("veth_assign", "c", k)
                       [] n % 3 = 0 -> Cmd("veth_assign", "s", k)
    BY DEF Pairing
  <2> HIDE DEF k
  <2>6. n % 3 = 1 \/ n % 3 = 2 \/ n % 3 = 0
    BY <2>2
  <2> QED BY <2>3, <2>4, <2>5, <2>6
<1>2. ASSUME NEW n \in 1 .. 3 * Pairs PROVE Pairing[n] \in Commands
  <2>1. PICK k \in 1 .. Pairs : Pairing[n] \in {Cmd("veth_add", "c", k), Cmd("veth_assign", "c", k),
                                               Cmd("veth_assign", "s", k)}
    BY <1>1
  <2>2. k \in 0 .. Pairs
    BY Constants
  <2>3. /\ Cmd("veth_add", "c", k) \in Commands
        /\ Cmd("veth_assign", "c", k) \in Commands
        /\ Cmd("veth_assign", "s", k) \in Commands
    BY <2>2, IsCommand, Constants DEF Ops
  <2> QED BY <2>1, <2>3
<1>3. Pairing = [n \in 1 .. 3 * Pairs |-> Pairing[n]]
  BY DEF Pairing
<1>4. Pairing \in [1 .. 3 * Pairs -> Commands] /\ 3 * Pairs \in Nat
  BY <1>2, <1>3, Constants
<1>5. Pairing \in Seq(Commands) /\ Len(Pairing) = 3 * Pairs
  BY <1>4
<1> QED BY <1>1, <1>5 DEF SetupStep

\* A part of a program that follows another.
LEMMA Appended ==
    ASSUME NEW s \in Seq(Commands), NEW t \in Seq(Commands), NEW topo, NEW l, NEW m,
           l = Len(s), m = Len(t),
           \A n \in 1 .. l : SetupStep(topo, n, s[n]),
           \A n \in 1 .. m : SetupStep(topo, l + n, t[n])
    PROVE  /\ s \o t \in Seq(Commands) /\ Len(s \o t) = l + m
           /\ \A n \in 1 .. l + m : SetupStep(topo, n, (s \o t)[n])
<1>1. /\ s \o t \in Seq(Commands) /\ Len(s \o t) = l + m
      /\ \A n \in 1 .. l + m : (s \o t)[n] = IF n <= l THEN s[n] ELSE t[n - l]
  BY ConcatProperties
<1>2. ASSUME NEW n \in 1 .. l + m PROVE SetupStep(topo, n, (s \o t)[n])
  <2>1. CASE n <= l
    BY <1>1, <2>1
  <2>2. CASE n > l
    <3>1. n - l \in 1 .. m /\ l + (n - l) = n
      BY <2>2
    <3>2. SetupStep(topo, l + (n - l), t[n - l])
      BY <3>1
    <3> QED BY <1>1, <2>2, <3>1, <3>2
  <2> QED BY <2>1, <2>2
<1> QED BY <1>1, <1>2

\* A part with a command for each pair.
LEMMA OneEach ==
    ASSUME NEW o \in Ops, NEW r \in Roles
    PROVE  LET s == [k \in 1 .. Pairs |-> Cmd(o, r, k)]
           IN  s \in Seq(Commands) /\ Len(s) = Pairs /\ \A k \in 1 .. Pairs : s[k] = Cmd(o, r, k)
<1> DEFINE s == [k \in 1 .. Pairs |-> Cmd(o, r, k)]
<1>1. \A k \in 1 .. Pairs : Cmd(o, r, k) \in Commands
  BY IsCommand, Constants
<1>2. s \in [1 .. Pairs -> Commands]
  BY <1>1
<1>3. s \in Seq(Commands) /\ Len(s) = Pairs
  BY <1>2, Constants
<1> QED BY <1>3

\* Every command of a set up is where SetupStep says.
LEMMA SetupIs ==
    ASSUME NEW topo \in {"plain", "bridge", "team"}
    PROVE  /\ Setup(topo) \in Seq(Commands)
           /\ Len(Setup(topo)) = Wiring + 2 * Pairs + IF topo = "plain" THEN 0 ELSE 4
           /\ \A n \in 1 .. Len(Setup(topo)) : SetupStep(topo, n, Setup(topo)[n])
<1> DEFINE Base == Creating \o Pairing
           Named == <<Cmd("addr", "c", 0), Cmd("addr", "s", 0)>>
<1>0. /\ Base \in Seq(Commands) /\ Len(Base) = Wiring
      /\ \A n \in 1 .. Wiring : SetupStep(topo, n, Base[n])
  <2>1. \A n \in 1 .. 3 * Pairs : SetupStep(topo, 4 + n, Pairing[n])
    <3>1. \A n \in 1 .. 3 * Pairs : n + 4 = 4 + n
      BY Constants
    <3> QED BY <3>1, PairingIs
  <2>2. /\ Base \in Seq(Commands) /\ Len(Base) = 4 + 3 * Pairs
        /\ \A n \in 1 .. 4 + 3 * Pairs : SetupStep(topo, n, Base[n])
    <3>1. /\ Creating \in Seq(Commands) /\ 4 = Len(Creating)
          /\ Pairing \in Seq(Commands) /\ 3 * Pairs = Len(Pairing)
          /\ \A n \in 1 .. 4 : SetupStep(topo, n, Creating[n])
      BY CreatingIs, PairingIs
    <3> DEFINE m == 3 * Pairs
    <3> HIDE DEF m
    <3>2. LET s == Creating \o Pairing
          IN  /\ s \in Seq(Commands) /\ Len(s) = 4 + m
              /\ \A n \in 1 .. 4 + m : SetupStep(topo, n, s[n])
      BY <2>1, <3>1, Appended DEF m
    <3> QED BY <3>2 DEF m
  <2> QED BY <2>2, Constants
<1>1. \A r \in Roles :
        /\ Porting(r) \in Seq(Commands) /\ Len(Porting(r)) = Pairs
        /\ \A k \in 1 .. Pairs : Porting(r)[k] = Cmd("port", r, k)
        /\ Addressing(r) \in Seq(Commands) /\ Len(Addressing(r)) = Pairs
        /\ \A k \in 1 .. Pairs : Addressing(r)[k] = Cmd("addr", r, k)
  BY OneEach DEF Porting, Addressing, Ops
<1>2. \A r \in Roles : /\ Cmd("addr", r, 0) \in Commands /\ Cmd("bridge", r, 0) \in Commands
                         /\ Cmd("team", r, 0) \in Commands
  BY IsCommand, Constants DEF Ops
<1>3. Named \in Seq(Commands) /\ Len(Named) = 2 /\ Named[1] = Cmd("addr", "c", 0) /\ Named[2] = Cmd("addr", "s", 0)
  BY <1>2, Constants
<1> HIDE DEF Base, Named
<1>4. CASE topo = "plain"
  <2> DEFINE X1 == Base \o Addressing("c")
  <2>1. ASSUME NEW n \in 1 .. Pairs
        PROVE  /\ SetupStep(topo, Wiring + n, Addressing("c")[n])
               /\ SetupStep(topo, (Wiring + Pairs) + n, Addressing("s")[n])
    BY <1>1, <1>4, Constants DEF SetupStep, First, CreateAt, GroupAt, PortAt, AddrAt
  <2>2. /\ X1 \in Seq(Commands) /\ Len(X1) = Wiring + Pairs
        /\ \A n \in 1 .. Wiring + Pairs : SetupStep(topo, n, X1[n])
    BY <1>0, <1>1, <2>1, Appended, Constants
  <2> HIDE DEF X1
  <2>3. LET s == X1 \o Addressing("s")
        IN  /\ s \in Seq(Commands) /\ Len(s) = (Wiring + Pairs) + Pairs
            /\ \A n \in 1 .. (Wiring + Pairs) + Pairs : SetupStep(topo, n, s[n])
    BY <2>2, <2>1, <1>1, Appended, Constants
  <2>4. Setup(topo) = X1 \o Addressing("s")
    BY <1>4 DEF Setup, X1, Base
  <2>5. Len(Setup(topo)) = Wiring + 2 * Pairs + IF topo = "plain" THEN 0 ELSE 4
    BY <2>3, <2>4, <1>4, Constants
  <2> QED BY <2>3, <2>4, <2>5
<1>5. CASE topo = "bridge"
  <2> DEFINE Groups == <<Cmd("bridge", "c", 0), Cmd("bridge", "s", 0)>>
             X1 == Base \o Groups
             X2 == X1 \o Porting("c")
             X3 == X2 \o Porting("s")
  <2>1. /\ Groups \in Seq(Commands) /\ Len(Groups) = 2
        /\ Groups[1] = Cmd("bridge", "c", 0) /\ Groups[2] = Cmd("bridge", "s", 0)
    BY <1>2, Constants
  <2> HIDE DEF Groups
  <2>2. ASSUME NEW n \in 1 .. 2
        PROVE  /\ SetupStep(topo, Wiring + n, Groups[n])
               /\ SetupStep(topo, ((Wiring + 2 + Pairs) + Pairs) + n, Named[n])
    <3>1. n = 1 \/ n = 2
      OBVIOUS
    <3> QED BY <3>1, <2>1, <1>3, <1>5, Constants DEF SetupStep, First, CreateAt, GroupAt, PortAt, AddrAt
  <2>3. ASSUME NEW n \in 1 .. Pairs
        PROVE  /\ SetupStep(topo, (Wiring + 2) + n, Porting("c")[n])
               /\ SetupStep(topo, (Wiring + 2 + Pairs) + n, Porting("s")[n])
    BY <1>1, <1>5, Constants DEF SetupStep, First, CreateAt, GroupAt, PortAt, AddrAt
  <2>4. /\ X1 \in Seq(Commands) /\ Len(X1) = Wiring + 2
        /\ \A n \in 1 .. Wiring + 2 : SetupStep(topo, n, X1[n])
    BY <1>0, <2>1, <2>2, Appended, Constants
  <2> HIDE DEF X1
  <2>5. /\ X2 \in Seq(Commands) /\ Len(X2) = Wiring + 2 + Pairs
        /\ \A n \in 1 .. Wiring + 2 + Pairs : SetupStep(topo, n, X2[n])
    BY <1>1, <2>3, <2>4, Appended, Constants
  <2> HIDE DEF X2
  <2>6. /\ X3 \in Seq(Commands) /\ Len(X3) = (Wiring + 2 + Pairs) + Pairs
        /\ \A n \in 1 .. (Wiring + 2 + Pairs) + Pairs : SetupStep(topo, n, X3[n])
    BY <1>1, <2>3, <2>5, Appended, Constants
  <2> HIDE DEF X3
  <2>7. LET s == X3 \o Named
        IN  /\ s \in Seq(Commands) /\ Len(s) = ((Wiring + 2 + Pairs) + Pairs) + 2
            /\ \A n \in 1 .. ((Wiring + 2 + Pairs) + Pairs) + 2 : SetupStep(topo, n, s[n])
    BY <1>3, <2>2, <2>6, Appended, Constants
  <2>8. Setup(topo) = X3 \o Named
    BY <1>5 DEF Setup, Base, Groups, Named, X1, X2, X3
  <2>9. Len(Setup(topo)) = Wiring + 2 * Pairs + IF topo = "plain" THEN 0 ELSE 4
    BY <2>7, <2>8, <1>5, Constants
  <2> QED BY <2>7, <2>8, <2>9
<1>6. CASE topo = "team"
  <2> DEFINE Group(r) == <<Cmd("team", r, 0)>>
             X1 == Base \o Group("c")
             X2 == X1 \o Porting("c")
             X3 == X2 \o Group("s")
             X4 == X3 \o Porting("s")
  <2>1. \A r \in Roles : Group(r) \in Seq(Commands) /\ Len(Group(r)) = 1 /\ Group(r)[1] = Cmd("team", r, 0)
    BY <1>2, Constants
  <2> HIDE DEF Group
  <2>2. ASSUME NEW n \in 1 .. 2
        PROVE  SetupStep(topo, ((Wiring + 1 + Pairs + 1) + Pairs) + n, Named[n])
    <3>1. n = 1 \/ n = 2
      OBVIOUS
    <3> QED BY <3>1, <2>1, <1>3, <1>6, Constants DEF SetupStep, First, CreateAt, GroupAt, PortAt, AddrAt
  <2>0. ASSUME NEW n \in 1 .. 1
        PROVE  /\ SetupStep(topo, Wiring + n, Group("c")[n])
               /\ SetupStep(topo, (Wiring + 1 + Pairs) + n, Group("s")[n])
    BY <2>1, <1>6, Constants DEF SetupStep, First, CreateAt, GroupAt, PortAt, AddrAt
  <2>3. ASSUME NEW n \in 1 .. Pairs
        PROVE  /\ SetupStep(topo, (Wiring + 1) + n, Porting("c")[n])
               /\ SetupStep(topo, (Wiring + 1 + Pairs + 1) + n, Porting("s")[n])
    BY <1>1, <1>6, Constants DEF SetupStep, First, CreateAt, GroupAt, PortAt, AddrAt
  <2>4. /\ X1 \in Seq(Commands) /\ Len(X1) = Wiring + 1
        /\ \A n \in 1 .. Wiring + 1 : SetupStep(topo, n, X1[n])
    BY <1>0, <2>1, <2>0, Appended, Constants
  <2> HIDE DEF X1
  <2>5. /\ X2 \in Seq(Commands) /\ Len(X2) = Wiring + 1 + Pairs
        /\ \A n \in 1 .. Wiring + 1 + Pairs : SetupStep(topo, n, X2[n])
    BY <1>1, <2>3, <2>4, Appended, Constants
  <2> HIDE DEF X2
  <2>6. /\ X3 \in Seq(Commands) /\ Len(X3) = Wiring + 1 + Pairs + 1
        /\ \A n \in 1 .. Wiring + 1 + Pairs + 1 : SetupStep(topo, n, X3[n])
    BY <2>1, <2>0, <2>5, Appended, Constants
  <2> HIDE DEF X3
  <2>7. /\ X4 \in Seq(Commands) /\ Len(X4) = (Wiring + 1 + Pairs + 1) + Pairs
        /\ \A n \in 1 .. (Wiring + 1 + Pairs + 1) + Pairs : SetupStep(topo, n, X4[n])
    BY <1>1, <2>3, <2>6, Appended, Constants
  <2> HIDE DEF X4
  <2>8. LET s == X4 \o Named
        IN  /\ s \in Seq(Commands) /\ Len(s) = ((Wiring + 1 + Pairs + 1) + Pairs) + 2
            /\ \A n \in 1 .. ((Wiring + 1 + Pairs + 1) + Pairs) + 2 : SetupStep(topo, n, s[n])
    BY <1>3, <2>2, <2>7, Appended, Constants
  <2>9. Setup(topo) = X4 \o Named
    BY <1>6 DEF Setup, Base, Group, Named, X1, X2, X3, X4
  <2>10. Len(Setup(topo)) = Wiring + 2 * Pairs + IF topo = "plain" THEN 0 ELSE 4
    BY <2>8, <2>9, <1>6, Constants
  <2> QED BY <2>8, <2>9, <2>10
<1> QED BY <1>4, <1>5, <1>6

\* Every command of a clean is where CleanStep says.
LEMMA CleanIs ==
    ASSUME NEW topo \in {"plain", "bridge", "team"}
    PROVE  /\ Clean(topo) \in Seq(Commands)
           /\ Len(Clean(topo)) = IF topo = "plain" THEN 4 ELSE 6
           /\ \A n \in 1 .. Len(Clean(topo)) : CleanStep(topo, n, Clean(topo)[n])
<1> DEFINE Free == IF topo = "bridge" THEN <<Cmd("bridge_del", "c", 0), Cmd("bridge_del", "s", 0)>>
                   ELSE <<Cmd("team_kill", "c", 0), Cmd("team_kill", "s", 0)>>
<1>1. \A o \in Ops, r \in Roles : Cmd(o, r, 0) \in Commands
  BY IsCommand, Constants
<1>2. /\ Destroying \in Seq(Commands) /\ Len(Destroying) = 4
      /\ Destroying[1] = Cmd("ns_del", "c", 0) /\ Destroying[2] = Cmd("unset", "c", 0)
      /\ Destroying[3] = Cmd("ns_del", "s", 0) /\ Destroying[4] = Cmd("unset", "s", 0)
  <2>1. \A r \in Roles : Cmd("ns_del", r, 0) \in Commands /\ Cmd("unset", r, 0) \in Commands
    BY <1>1 DEF Ops
  <2> QED BY <2>1, Constants DEF Destroying
<1>3. CASE topo = "plain"
  <2>1. Clean(topo) = Destroying
    BY <1>3 DEF Clean
  <2>2. ASSUME NEW n \in 1 .. 4 PROVE CleanStep(topo, n, Destroying[n])
    <3>1. n = 1 \/ n = 2 \/ n = 3 \/ n = 4
      OBVIOUS
    <3> QED BY <3>1, <1>2, <1>3 DEF CleanStep, Roles, First, KillAt, DelAt
  <2> QED BY <1>2, <1>3, <2>1, <2>2
<1>4. CASE topo # "plain"
  <2>1. Clean(topo) = Free \o Destroying
    BY <1>4 DEF Clean
  <2>2. /\ Free \in Seq(Commands) /\ Len(Free) = 2
        /\ Free[1] = Cmd(IF topo = "bridge" THEN "bridge_del" ELSE "team_kill", "c", 0)
        /\ Free[2] = Cmd(IF topo = "bridge" THEN "bridge_del" ELSE "team_kill", "s", 0)
    <3>1. \A r \in Roles : Cmd("bridge_del", r, 0) \in Commands /\ Cmd("team_kill", r, 0) \in Commands
      BY <1>1 DEF Ops
    <3> QED BY <3>1, Constants
  <2> HIDE DEF Free
  <2>3. /\ Clean(topo) \in Seq(Commands) /\ Len(Clean(topo)) = 6
        /\ \A n \in 1 .. 6 : Clean(topo)[n] = IF n <= 2 THEN Free[n] ELSE Destroying[n - 2]
    <3>1. /\ Free \o Destroying \in Seq(Commands)
          /\ Len(Free \o Destroying) = Len(Free) + Len(Destroying)
          /\ \A i \in 1 .. Len(Free) + Len(Destroying) :
                 (Free \o Destroying)[i] = IF i <= Len(Free) THEN Free[i] ELSE Destroying[i - Len(Free)]
      BY <1>2, <2>2, ConcatProperties
    <3> QED BY <3>1, <1>2, <2>1, <2>2
  <2>4. ASSUME NEW n \in 1 .. 6 PROVE CleanStep(topo, n, Clean(topo)[n])
    <3>1. n = 1 \/ n = 2 \/ n = 3 \/ n = 4 \/ n = 5 \/ n = 6
      OBVIOUS
    <3>2. /\ Clean(topo)[1] = Free[1] /\ Clean(topo)[2] = Free[2]
          /\ Clean(topo)[3] = Destroying[1] /\ Clean(topo)[4] = Destroying[2]
          /\ Clean(topo)[5] = Destroying[3] /\ Clean(topo)[6] = Destroying[4]
      BY <2>3
    <3> QED BY <3>1, <3>2, <1>2, <1>4, <2>2 DEF CleanStep, Roles, First, KillAt, DelAt
  <2> QED BY <1>4, <2>3, <2>4
<1> QED BY <1>3, <1>4
-----------------------------------------------------------------------------
(* The shells. *)

\* What the shell of p runs, and how many of its commands are behind it.
Program(p) == IF shell[p].is = "rising" THEN Setup(TopoOf[p]) ELSE Clean(TopoOf[p])
Count(p) == Len(Program(p)) - Len(shell[p].todo)

Stages == {"down", "rising", "up", "falling"}
ShellType == [fns : SUBSET Roles, arrays : BOOLEAN, todo : Seq(Commands), is : Stages]

\* What is left to run is the rest of one of the two programs.
ShellInv ==
    /\ shell \in [Prefix -> ShellType]
    /\ \A p \in Prefix : ~Idle(p) =>
        /\ shell[p].is \in {"rising", "falling"}
        /\ Count(p) \in Nat
        /\ \A i \in 1 .. Len(shell[p].todo) : shell[p].todo[i] = Program(p)[Count(p) + i]

\* How far the set up, or the clean, of p is: all of it when it came to its end,
\* nothing when it was interrupted.
Risen(p) ==
    IF shell[p].is = "up" THEN Len(Setup(TopoOf[p]))
    ELSE IF shell[p].is = "rising" /\ ~Idle(p) THEN Count(p) ELSE 0

Fallen(p) ==
    IF shell[p].is = "down" THEN Len(Clean(TopoOf[p]))
    ELSE IF shell[p].is = "falling" /\ ~Idle(p) THEN Count(p) ELSE 0

\* The shell of p after its command, with the functions f.
Advances(p, f) == shell' = [shell EXCEPT ![p] = [After(p) EXCEPT !.fns = f]]

\* Programs have commands.
LEMMA ProgramType ==
    ASSUME NEW p \in Prefix
    PROVE  /\ Setup(TopoOf[p]) \in Seq(Commands) /\ Len(Setup(TopoOf[p])) \in Nat \ {0}
           /\ Setup(TopoOf[p]) # <<>>
           /\ Clean(TopoOf[p]) \in Seq(Commands) /\ Len(Clean(TopoOf[p])) \in Nat \ {0}
           /\ Clean(TopoOf[p]) # <<>>
           /\ Program(p) \in Seq(Commands) /\ Len(Program(p)) \in Nat \ {0}
<1>1. TopoOf[p] \in {"plain", "bridge", "team"}
  BY Constants
<1>2. Setup(TopoOf[p]) \in Seq(Commands) /\ Len(Setup(TopoOf[p])) \in Nat \ {0}
  <2>1. Len(Setup(TopoOf[p])) = Wiring + 2 * Pairs + IF TopoOf[p] = "plain" THEN 0 ELSE 4
    BY <1>1, SetupIs
  <2>2. Wiring + 2 * Pairs \in Nat \ {0} /\ Wiring + 2 * Pairs + 4 \in Nat \ {0}
    BY Constants
  <2> QED BY <1>1, <2>1, <2>2, SetupIs, Constants
<1>3. Clean(TopoOf[p]) \in Seq(Commands) /\ Len(Clean(TopoOf[p])) \in Nat \ {0}
  <2>1. Len(Clean(TopoOf[p])) = IF TopoOf[p] = "plain" THEN 4 ELSE 6
    BY <1>1, CleanIs
  <2>2. Len(Clean(TopoOf[p])) \in Nat \ {0}
    BY <2>1
  <2>3. Clean(TopoOf[p]) \in Seq(Commands)
    BY <1>1, CleanIs
  <2> QED BY <2>2, <2>3
<1> QED BY <1>2, <1>3 DEF Program

\* The command that is next has its place in the program.
LEMMA NextCommand ==
    ASSUME ShellInv, NEW p \in Prefix, ~Idle(p)
    PROVE  /\ Current(p) \in Commands
           /\ shell[p].is \in {"rising", "falling"}
           /\ shell[p].is = "rising" =>
                 /\ Risen(p) \in Nat /\ Risen(p) + 1 \in 1 .. Len(Setup(TopoOf[p]))
                 /\ SetupStep(TopoOf[p], Risen(p) + 1, Current(p))
           /\ shell[p].is = "falling" =>
                 /\ Fallen(p) \in Nat /\ Fallen(p) + 1 \in 1 .. Len(Clean(TopoOf[p]))
                 /\ CleanStep(TopoOf[p], Fallen(p) + 1, Current(p))
<1>1. /\ shell[p].todo \in Seq(Commands) /\ shell[p].todo # <<>>
      /\ shell[p].is \in {"rising", "falling"} /\ Count(p) \in Nat
      /\ \A i \in 1 .. Len(shell[p].todo) : shell[p].todo[i] = Program(p)[Count(p) + i]
  BY DEF ShellInv, ShellType, Idle
<1>2. Len(shell[p].todo) \in Nat \ {0} /\ Current(p) = shell[p].todo[1] /\ Current(p) \in Commands
  BY <1>1, EmptySeq, HeadTailProperties DEF Current
<1>3. Current(p) = Program(p)[Count(p) + 1] /\ Count(p) + 1 \in 1 .. Len(Program(p))
  <2>1. Len(shell[p].todo) \in Nat \ {0} /\ Len(Program(p)) \in Nat
    BY <1>2, ProgramType
  <2>2. Count(p) = Len(Program(p)) - Len(shell[p].todo)
    BY DEF Count
  <2>3. Count(p) + 1 \in 1 .. Len(Program(p))
    BY <1>1, <2>1, <2>2
  <2>4. shell[p].todo[1] = Program(p)[Count(p) + 1]
    BY <1>1, <2>1
  <2> QED BY <1>2, <2>3, <2>4
<1>0. TopoOf[p] \in {"plain", "bridge", "team"}
  BY Constants
<1>4. CASE shell[p].is = "rising"
  <2>1. Program(p) = Setup(TopoOf[p]) /\ Risen(p) = Count(p)
    BY <1>4 DEF Program, Risen
  <2>2. \A n \in 1 .. Len(Setup(TopoOf[p])) : SetupStep(TopoOf[p], n, Setup(TopoOf[p])[n])
    BY <1>0, SetupIs
  <2> QED BY <1>1, <1>2, <1>3, <1>4, <2>1, <2>2
<1>5. CASE shell[p].is = "falling"
  <2>1. Program(p) = Clean(TopoOf[p]) /\ Fallen(p) = Count(p)
    BY <1>5 DEF Program, Fallen
  <2>2. \A n \in 1 .. Len(Clean(TopoOf[p])) : CleanStep(TopoOf[p], n, Clean(TopoOf[p])[n])
    BY <1>0, CleanIs
  <2> QED BY <1>1, <1>2, <1>3, <1>5, <2>1, <2>2
<1> QED BY <1>1, <1>4, <1>5

\* What is said of a shell that does not move.
LEMMA OthersStay ==
    ASSUME NEW q \in Prefix, shell'[q] = shell[q]
    PROVE  /\ Risen(q)' = Risen(q) /\ Fallen(q)' = Fallen(q)
           /\ Idle(q)' = Idle(q) /\ Settled(q)' = Settled(q)
           /\ Count(q)' = Count(q) /\ Program(q)' = Program(q)
BY DEF Risen, Fallen, Idle, Settled, Count, Program

\* Most commands leave the functions as they are.
LEMMA DoneAdvances ==
    ASSUME ShellInv, NEW p \in Prefix, Done(p)
    PROVE  Advances(p, shell[p].fns) /\ shell[p].fns \in SUBSET Roles
<1>1. shell[p] \in ShellType
  BY DEF ShellInv
<1>2. After(p) = [After(p) EXCEPT !.fns = shell[p].fns]
  BY <1>1 DEF After, ShellType
<1> QED BY <1>1, <1>2 DEF Done, Advances, ShellType

\* A command that is done: the same program, one command further, or its end.
LEMMA Advanced ==
    ASSUME ShellInv, NEW p \in Prefix, ~Idle(p), NEW f \in SUBSET Roles, Advances(p, f)
    PROVE  /\ ShellInv'
           /\ \A q \in Prefix \ {p} : shell'[q] = shell[q]
           /\ shell'[p].fns = f /\ shell'[p].arrays = shell[p].arrays
           /\ shell[p].is = "rising" =>
                 /\ shell'[p].is \in {"rising", "up"}
                 /\ shell'[p].todo = <<>> => shell'[p].is = "up"
                 /\ Risen(p)' = Risen(p) + 1 /\ Fallen(p)' = 0
           /\ shell[p].is = "falling" =>
                 /\ shell'[p].is \in {"falling", "down"}
                 /\ shell'[p].todo = <<>> => shell'[p].is = "down"
                 /\ Risen(p)' = 0 /\ Fallen(p)' = Fallen(p) + 1
<1> DEFINE t == shell[p].todo
<1>1. /\ shell[p] \in ShellType /\ t \in Seq(Commands) /\ t # <<>>
      /\ shell[p].is \in {"rising", "falling"} /\ Count(p) \in Nat
      /\ \A i \in 1 .. Len(t) : t[i] = Program(p)[Count(p) + i]
  BY DEF ShellInv, ShellType, Idle
<1>2. /\ Tail(t) \in Seq(Commands) /\ Len(Tail(t)) = Len(t) - 1 /\ Len(t) \in Nat \ {0}
      /\ \A i \in 1 .. Len(Tail(t)) : Tail(t)[i] = t[i + 1]
  BY <1>1, EmptySeq, HeadTailProperties
<1>3. /\ \A q \in Prefix \ {p} : shell'[q] = shell[q]
      /\ shell' = [shell EXCEPT ![p] = shell'[p]]
      /\ shell'[p] = [After(p) EXCEPT !.fns = f]
  BY DEF Advances, ShellInv
<1>4. /\ shell'[p] \in ShellType
      /\ shell'[p].fns = f /\ shell'[p].arrays = shell[p].arrays /\ shell'[p].todo = Tail(t)
      /\ shell'[p].is = IF Len(t) > 1 THEN shell[p].is
                        ELSE IF shell[p].is = "rising" THEN "up" ELSE "down"
  BY <1>1, <1>2, <1>3 DEF After, ShellType, Stages
<1>5. Tail(t) = <<>> <=> ~(Len(t) > 1)
  <2> HIDE DEF t
  <2> DEFINE u == Tail(t)
  <2>0. u \in Seq(Commands) /\ Len(u) = Len(t) - 1 /\ Len(t) \in Nat \ {0}
    BY <1>2
  <2> HIDE DEF u
  <2>1. u # <<>> => Len(u) \in Nat \ {0}
    BY <2>0, EmptySeq
  <2>2. u = <<>> => Len(u) = 0
    BY EmptySeq
  <2>3. u = <<>> <=> ~(Len(t) > 1)
    BY <2>0, <2>1, <2>2
  <2> QED BY <2>3 DEF u
<1> HIDE DEF t
<1>6. CASE Len(t) > 1
  <2>0. shell'[p].is = shell[p].is /\ ~Idle(p)' /\ Program(p)' = Program(p)
    BY <1>4, <1>5, <1>6 DEF Idle, Program
  <2>1. /\ shell'[p].is = shell[p].is /\ ~Idle(p)' /\ Program(p)' = Program(p)
        /\ Count(p)' = Count(p) + 1
    <3>1. Count(p)' = Len(Program(p)) - (Len(t) - 1) /\ Count(p) = Len(Program(p)) - Len(t)
      BY <2>0, <1>2, <1>4 DEF Count, t
    <3>2. Len(Program(p)) \in Nat /\ Len(t) \in Nat
      BY <1>2, ProgramType
    <3> QED BY <2>0, <3>1, <3>2
  <2>2. \A i \in 1 .. Len(Tail(t)) : Tail(t)[i] = Program(p)[Count(p) + 1 + i]
    <3> TAKE i \in 1 .. Len(Tail(t))
    <3>1. Tail(t)[i] = t[i + 1] /\ i + 1 \in 1 .. Len(t) /\ Count(p) + 1 + i = Count(p) + (i + 1)
      BY <1>1, <1>2
    <3> QED BY <1>1, <3>1
  <2>3. ShellInv'
    <3>1. shell' \in [Prefix -> ShellType]
      BY <1>3, <1>4 DEF ShellInv
    <3>2. ASSUME NEW q \in Prefix, ~Idle(q)'
          PROVE  /\ shell'[q].is \in {"rising", "falling"} /\ Count(q)' \in Nat
                 /\ \A i \in 1 .. Len(shell'[q].todo) : shell'[q].todo[i] = Program(q)'[Count(q)' + i]
      <4>1. CASE q = p
        BY <4>1, <1>1, <1>4, <2>1, <2>2
      <4>2. CASE q # p
        <5>1. shell'[q] = shell[q]
          BY <4>2, <1>3
        <5> QED BY <5>1, <3>2, OthersStay DEF ShellInv
      <4> QED BY <4>1, <4>2
    <3> QED BY <3>1, <3>2 DEF ShellInv
  <2>4. /\ shell[p].is = "rising" => Risen(p)' = Risen(p) + 1 /\ Fallen(p)' = 0
        /\ shell[p].is = "falling" => Risen(p)' = 0 /\ Fallen(p)' = Fallen(p) + 1
    BY <2>1 DEF Risen, Fallen
  <2> QED BY <1>1, <1>3, <1>4, <1>5, <1>6, <2>1, <2>3, <2>4 DEF Idle
<1>7. CASE ~(Len(t) > 1)
  <2>1. /\ shell'[p].is = IF shell[p].is = "rising" THEN "up" ELSE "down"
        /\ Idle(p)' /\ Len(t) = 1
    BY <1>2, <1>4, <1>5, <1>7 DEF Idle
  <2>2. ShellInv'
    <3>1. shell' \in [Prefix -> ShellType]
      BY <1>3, <1>4 DEF ShellInv
    <3>2. ASSUME NEW q \in Prefix, ~Idle(q)'
          PROVE  /\ shell'[q].is \in {"rising", "falling"} /\ Count(q)' \in Nat
                 /\ \A i \in 1 .. Len(shell'[q].todo) : shell'[q].todo[i] = Program(q)'[Count(q)' + i]
      <4>1. q # p
        BY <2>1, <3>2
      <4>2. shell'[q] = shell[q]
        BY <4>1, <1>3
      <4> QED BY <4>2, <3>2, OthersStay DEF ShellInv
    <3> QED BY <3>1, <3>2 DEF ShellInv
  <2>3. Count(p) = Len(Program(p)) - 1
    BY <2>1 DEF Count, t
  <2>4. /\ shell[p].is = "rising" => Risen(p)' = Risen(p) + 1 /\ Fallen(p)' = 0
        /\ shell[p].is = "falling" => Risen(p)' = 0 /\ Fallen(p)' = Fallen(p) + 1
    BY <2>1, <2>3, <1>1, ProgramType DEF Risen, Fallen, Program
  <2> QED BY <1>1, <1>3, <1>4, <2>1, <2>2, <2>4
<1> QED BY <1>6, <1>7

\* A shell that begins a program, stops or is started anew.
LEMMA Begins ==
    ASSUME ShellInv, NEW p \in Prefix, NEW s \in ShellType, shell' = [shell EXCEPT ![p] = s],
           \/ s.todo = <<>>
           \/ s.is = "rising" /\ s.todo = Setup(TopoOf[p])
           \/ s.is = "falling" /\ s.todo = Clean(TopoOf[p])
    PROVE  /\ ShellInv' /\ shell'[p] = s
           /\ \A q \in Prefix \ {p} : shell'[q] = shell[q]
           /\ s.todo # <<>> => Risen(p)' = 0 /\ Fallen(p)' = 0
<1>1. shell' \in [Prefix -> ShellType] /\ shell'[p] = s /\ \A q \in Prefix \ {p} : shell'[q] = shell[q]
  BY DEF ShellInv
<1>2. s.todo # <<>> => Count(p)' = 0 /\ Program(p)' = s.todo /\ s.is \in {"rising", "falling"}
  <2>1. s.todo # <<>> => Program(p)' = s.todo /\ s.is \in {"rising", "falling"}
    BY <1>1 DEF Program
  <2>2. Len(s.todo) \in Nat
    BY LenProperties DEF ShellType
  <2>3. Count(p)' = Len(Program(p)') - Len(shell'[p].todo)
    BY DEF Count
  <2> QED BY <1>1, <2>1, <2>2, <2>3
<1>3. ASSUME NEW q \in Prefix, ~Idle(q)'
      PROVE  /\ shell'[q].is \in {"rising", "falling"} /\ Count(q)' \in Nat
             /\ \A i \in 1 .. Len(shell'[q].todo) : shell'[q].todo[i] = Program(q)'[Count(q)' + i]
  <2>1. CASE q = p
    <3>1. s.todo # <<>>
      BY <1>1, <1>3, <2>1 DEF Idle
    <3>2. \A i \in 1 .. Len(s.todo) : s.todo[i] = s.todo[0 + i]
      BY LenProperties DEF ShellType
    <3> QED BY <3>1, <3>2, <1>1, <1>2, <2>1
  <2>2. CASE q # p
    <3>1. shell'[q] = shell[q]
      BY <1>1, <2>2
    <3> QED BY <3>1, <1>3, OthersStay DEF ShellInv
  <2> QED BY <2>1, <2>2
<1>4. ShellInv'
  BY <1>1, <1>3 DEF ShellInv
<1> QED BY <1>1, <1>2, <1>4 DEF Risen, Fallen, Idle

\* st_setup starts from the first command.
LEMMA SetupBegins ==
    ASSUME ShellInv, NEW p \in Prefix, StSetup(p)
    PROVE  /\ ShellInv' /\ Risen(p)' = 0 /\ Fallen(p)' = 0
           /\ \A q \in Prefix \ {p} : shell'[q] = shell[q]
           /\ shell'[p].is = "rising"
<1> DEFINE s == [shell[p] EXCEPT !.arrays = TRUE, !.todo = Setup(TopoOf[p]), !.is = "rising"]
<1>1. s \in ShellType /\ shell' = [shell EXCEPT ![p] = s] /\ s.todo = Setup(TopoOf[p]) /\ s.is = "rising"
  <2>1. shell[p] \in ShellType /\ Setup(TopoOf[p]) \in Seq(Commands)
    BY ProgramType DEF ShellInv
  <2>2. s \in ShellType /\ s.todo = Setup(TopoOf[p]) /\ s.is = "rising"
    BY <2>1 DEF ShellType, Stages
  <2>3. shell' = [shell EXCEPT ![p] = s]
    BY DEF StSetup
  <2> QED BY <2>2, <2>3
<1> HIDE DEF s
<1> QED BY <1>1, Begins, ProgramType

\* st_clean does, with the functions and arrays the shell has.
LEMMA CleanBegins ==
    ASSUME ShellInv, NEW p \in Prefix, StClean(p)
    PROVE  /\ ShellInv' /\ Risen(p)' = 0 /\ Fallen(p)' = 0
           /\ \A q \in Prefix \ {p} : shell'[q] = shell[q]
           /\ shell'[p].is = "falling"
           /\ shell'[p].fns = shell[p].fns /\ shell'[p].arrays = shell[p].arrays
<1> DEFINE s == [shell[p] EXCEPT !.todo = Clean(TopoOf[p]), !.is = "falling"]
<1>1. /\ s \in ShellType /\ shell' = [shell EXCEPT ![p] = s] /\ s.todo = Clean(TopoOf[p])
      /\ s.is = "falling" /\ s.fns = shell[p].fns /\ s.arrays = shell[p].arrays
  <2>1. shell[p] \in ShellType /\ Clean(TopoOf[p]) \in Seq(Commands)
    BY ProgramType DEF ShellInv
  <2>2. /\ s \in ShellType /\ s.todo = Clean(TopoOf[p]) /\ s.is = "falling"
        /\ s.fns = shell[p].fns /\ s.arrays = shell[p].arrays
    BY <2>1 DEF ShellType, Stages
  <2>3. shell' = [shell EXCEPT ![p] = s]
    BY DEF StClean
  <2> QED BY <2>2, <2>3
<1> HIDE DEF s
<1> QED BY <1>1, Begins, ProgramType

\* Ctrl-C leaves neither set up nor clean.
LEMMA Interrupted ==
    ASSUME ShellInv, NEW p \in Prefix, Interrupt(p)
    PROVE  /\ ShellInv' /\ Risen(p)' = 0 /\ Fallen(p)' = 0
           /\ \A q \in Prefix \ {p} : shell'[q] = shell[q]
           /\ shell'[p].is \in {"rising", "falling"}
<1> DEFINE s == [shell[p] EXCEPT !.todo = <<>>]
<1>1. /\ s \in ShellType /\ shell' = [shell EXCEPT ![p] = s] /\ s.todo = <<>>
      /\ s.is \in {"rising", "falling"}
  <2>1. <<>> \in Seq(Commands)
    BY EmptySeq
  <2>2. shell[p] \in ShellType /\ ~Idle(p)
    BY DEF Interrupt, ShellInv
  <2>3. s \in ShellType /\ s.todo = <<>> /\ s.is = shell[p].is
    BY <2>1, <2>2 DEF ShellType
  <2>4. shell' = [shell EXCEPT ![p] = s]
    BY DEF Interrupt
  <2> QED BY <2>2, <2>3, <2>4 DEF ShellInv
<1> HIDE DEF s
<1>2. ShellInv' /\ shell'[p] = s /\ \A q \in Prefix \ {p} : shell'[q] = shell[q]
  BY <1>1, Begins
<1> QED BY <1>1, <1>2 DEF Risen, Fallen, Idle

\* A new shell is where the one before was.
LEMMA StartedAnew ==
    ASSUME ShellInv, NEW p \in Prefix, NewShell(p)
    PROVE  /\ ShellInv' /\ Risen(p)' = Risen(p) /\ Fallen(p)' = Fallen(p)
           /\ \A q \in Prefix \ {p} : shell'[q] = shell[q]
           /\ shell'[p].is = shell[p].is /\ Idle(p)' /\ Idle(p)
<1> DEFINE s == [shell[p] EXCEPT !.fns = {}, !.arrays = FALSE]
<1>1. /\ s \in ShellType /\ shell' = [shell EXCEPT ![p] = s] /\ s.todo = <<>>
      /\ s.is = shell[p].is /\ Idle(p)
  BY DEF NewShell, ShellInv, ShellType, Idle
<1> HIDE DEF s
<1>2. ShellInv' /\ shell'[p] = s /\ \A q \in Prefix \ {p} : shell'[q] = shell[q]
  BY <1>1, Begins
<1> QED BY <1>1, <1>2 DEF Risen, Fallen, Idle
-----------------------------------------------------------------------------
(* Devices and places. *)

\* A pair has two ends, and an end is of one pair.
LinkInv ==
    /\ \A l \in links : \E a, b \in Ends : a # b /\ l = {a, b}
    /\ \A l, m \in links : \A e \in l : e \in m => l = m

\* Every device is in a place that exists.
PlaceInv ==
    /\ nss \subseteq Namespaces /\ bridges \subseteq nss
    /\ daemon \in [Roles -> nss \cup {Orphan(r) : r \in Roles} \cup {Nowhere}]
    /\ \A r \in Roles : daemon[r] \in nss => \E p \in Prefix : daemon[r] = <<p, r>>
    /\ \A r, q \in Roles : daemon[r] = Orphan(q) => r = q
    /\ \A e \in Taken : \/ e[1] = Host \/ e[1] \in nss
                        \/ \E r \in Roles : e[1] = Orphan(r) /\ daemon[r] = Orphan(r)
    /\ \A e \in ports : e \in Taken /\ e[1] # Host
    /\ addrs \subseteq Ends

\* Namespaces, the host and the orphans are different places.
LEMMA PlacesDiffer ==
    /\ \A p \in Prefix, r, q \in Roles :
          <<p, r>> # Host /\ <<p, r>> # Orphan(q) /\ <<p, r>> # Nowhere
    /\ \A r \in Roles : Orphan(r) # Host /\ Orphan(r) # Nowhere
    /\ \A r, q \in Roles : Orphan(r) = Orphan(q) => r = q
    /\ \A n \in Namespaces : n # Host /\ n # Nowhere /\ \A q \in Roles : n # Orphan(q)
<1>1. \A p \in Prefix : p # "host" /\ p # "orphan" /\ p # "none"
  BY PrefixAssumption
<1> QED BY <1>1 DEF Host, Orphan, Nowhere, Namespaces

\* Ends are devices in places.
LEMMA EndsAre ==
    /\ \A e \in Ends : e = <<e[1], e[2]>> /\ e[1] \in Places /\ e[2] \in Devices
    /\ \A a \in Places, d \in Devices : <<a, d>> \in Ends
    /\ \A p \in Prefix, r \in Roles : <<p, r>> \in Places
    /\ \A r \in Roles : Orphan(r) \in Places
    /\ Host \in Places
    /\ \A k \in 1 .. Pairs : Eth(k) \in Devices
    /\ Master \in Devices /\ VethName(0) \in Devices /\ VethName(1) \in Devices
    /\ VethName(0) # VethName(1)
BY DEF Ends, Places, Namespaces, Devices, VethName

\* Only ends are taken.
LEMMA TakenAreEnds == LinkInv => Taken \subseteq Ends
BY DEF LinkInv, Taken

\* The arguments of a command.
LEMMA CommandArgs ==
    ASSUME ShellInv, NEW p \in Prefix, ~Idle(p)
    PROVE  /\ Current(p).role \in Roles /\ Current(p).k \in 0 .. Pairs
           /\ Ns(p) \in Namespaces /\ Ns(p) \in Places
           /\ Current(p).op \in {"veth_assign", "port"} => Current(p).k \in 1 .. Pairs
<1>1. Current(p) \in Commands
  BY NextCommand
<1>2. Current(p).role \in Roles /\ Current(p).k \in 0 .. Pairs
  BY <1>1 DEF Commands
<1>3. ASSUME Current(p).op \in {"veth_assign", "port"} PROVE Current(p).k \in 1 .. Pairs
  <2>1. TopoOf[p] \in {"plain", "bridge", "team"}
    BY Constants
  <2>2. CASE shell[p].is = "rising"
    <3>1. SetupStep(TopoOf[p], Risen(p) + 1, Current(p))
      BY <2>2, NextCommand
    <3> QED BY <1>3, <2>1, <3>1 DEF SetupStep, Cmd
  <2>3. CASE shell[p].is = "falling"
    <3>1. CleanStep(TopoOf[p], Fallen(p) + 1, Current(p))
      BY <2>3, NextCommand
    <3> QED BY <1>3, <2>1, <3>1 DEF CleanStep, Cmd
  <2> QED BY <2>2, <2>3, NextCommand
<1> QED BY <1>2, <1>3 DEF Ns, Namespaces, Places

\* Pairs that go leave the others as they are.
LEMMA LinksLost ==
    ASSUME LinkInv, links' \subseteq links
    PROVE  LinkInv' /\ Taken' \subseteq Taken
BY DEF LinkInv, Taken

\* Ends that change their names or places without becoming equal.
LEMMA Renamed ==
    ASSUME LinkInv, NEW G, \A e \in Taken : G[e] \in Ends,
           \A d, e \in Taken : G[d] = G[e] => d = e,
           links' = {{G[e] : e \in l} : l \in links}
    PROVE  LinkInv' /\ \A e : e \in Taken' <=> \E d \in Taken : e = G[d]
<1>1. \A l \in links : \A e \in l : e \in Taken
  BY DEF Taken
<1>2. ASSUME NEW n \in links' PROVE \E a, b \in Ends : a # b /\ n = {a, b}
  <2>1. PICK l \in links : n = {G[e] : e \in l}
    OBVIOUS
  <2>2. PICK a, b \in Ends : a # b /\ l = {a, b}
    BY DEF LinkInv
  <2>3. a \in Taken /\ b \in Taken /\ n = {G[a], G[b]}
    BY <1>1, <2>1, <2>2
  <2>4. G[a] # G[b] /\ G[a] \in Ends /\ G[b] \in Ends
    BY <2>2, <2>3
  <2> QED BY <2>3, <2>4
<1>3. ASSUME NEW m \in links', NEW n \in links', NEW e \in m, e \in n PROVE m = n
  <2>1. PICK k \in links : m = {G[d] : d \in k}
    OBVIOUS
  <2>2. PICK l \in links : n = {G[d] : d \in l}
    OBVIOUS
  <2>3. PICK c \in k : e = G[c]
    BY <2>1
  <2>4. PICK d \in l : e = G[d]
    BY <1>3, <2>2
  <2>5. c = d
    BY <1>1, <2>3, <2>4
  <2>6. k = l
    BY <2>5 DEF LinkInv
  <2> QED BY <2>1, <2>2, <2>6
<1>4. LinkInv'
  BY <1>2, <1>3 DEF LinkInv
<1>5. \A e : e \in Taken' <=> \E d \in Taken : e = G[d]
  BY DEF Taken
<1> QED BY <1>4, <1>5

\* A pair is created only under names that are free.
LEMMA VethAddPlaces ==
    ASSUME LinkInv, PlaceInv, NEW p \in Prefix, VethAdd(p)
    PROVE  LinkInv' /\ PlaceInv'
<1> DEFINE new == {<<Host, VethName(0)>>, <<Host, VethName(1)>>}
<1>1. UNCHANGED <<nss, bridges, daemon, ports, addrs>>
  BY DEF VethAdd
<1>2. CASE new \cap Taken = {}
  <2>1. links' = links \cup {new}
    BY <1>2 DEF VethAdd
  <2>2. \E a, b \in Ends : a # b /\ new = {a, b}
    BY EndsAre
  <2>3. \A l \in links : \A e \in l : e \notin new
    BY <1>2 DEF Taken
  <2>4. LinkInv'
    <3>1. \A l \in links' : \E a, b \in Ends : a # b /\ l = {a, b}
      BY <2>1, <2>2 DEF LinkInv
    <3>2. \A l, m \in links' : \A e \in l : e \in m => l = m
      <4> HIDE DEF new
      <4>1. \A l, m \in links : \A e \in l : e \in m => l = m
        BY DEF LinkInv
      <4> QED BY <2>1, <2>3, <4>1
    <3> QED BY <3>1, <3>2 DEF LinkInv
  <2>5. Taken' = Taken \cup new
    BY <2>1 DEF Taken
  <2>6. PlaceInv'
    BY <1>1, <2>5 DEF PlaceInv
  <2> QED BY <2>4, <2>6
<1>3. CASE new \cap Taken # {}
  <2>1. links' = links
    BY <1>3 DEF VethAdd
  <2> QED BY <1>1, <2>1 DEF LinkInv, PlaceInv, Taken
<1> QED BY <1>2, <1>3

\* An end is moved only to a namespace that exists, under a name free there.
LEMMA VethAssignPlaces ==
    ASSUME ShellInv, LinkInv, PlaceInv, NEW p \in Prefix, VethAssign(p)
    PROVE  LinkInv' /\ PlaceInv'
<1> DEFINE from == <<Host, Orig(Current(p).role)>>
           to == <<Ns(p), Eth(Current(p).k)>>
           G == [e \in Taken |-> IF e = from THEN to ELSE e]
<1>1. UNCHANGED <<nss, bridges, daemon, ports, addrs>>
  BY DEF VethAssign
<1>2. /\ Current(p).k \in 1 .. Pairs /\ Ns(p) \in Places /\ Ns(p) # Host
  BY CommandArgs, PlacesDiffer DEF VethAssign, Runs
<1>3. to \in Ends /\ to[1] = Ns(p) /\ from[1] = Host
  BY <1>2, EndsAre
<1>4. CASE from \in Taken /\ Ns(p) \in nss /\ to \notin Taken
  <2> HIDE DEF from, to
  <2>0. links' = {IF from \in l THEN (l \ {from}) \cup {to} ELSE l : l \in links}
    BY <1>4 DEF VethAssign, from, to
  <2>1. \A l \in links : (IF from \in l THEN (l \ {from}) \cup {to} ELSE l) = {G[e] : e \in l}
    <3> TAKE l \in links
    <3>1. \A e \in l : e \in Taken
      BY DEF Taken
    <3>2. CASE from \in l
      BY <3>1, <3>2
    <3>3. CASE from \notin l
      BY <3>1, <3>3
    <3> QED BY <3>2, <3>3
  <2>2. links' = {{G[e] : e \in l} : l \in links}
    <3> DEFINE F(l) == IF from \in l THEN (l \ {from}) \cup {to} ELSE l
               I(l) == {G[e] : e \in l}
    <3>1. links' = {F(l) : l \in links} /\ \A l \in links : F(l) = I(l)
      BY <2>0, <2>1
    <3> HIDE DEF F, I
    <3>2. links' = {I(l) : l \in links}
      BY <3>1
    <3> QED BY <3>2 DEF I
  <2>3. /\ \A e \in Taken : G[e] \in Ends
        /\ \A d, e \in Taken : G[d] = G[e] => d = e
    BY <1>3, <1>4, TakenAreEnds
  <2>4. LinkInv' /\ \A e : e \in Taken' <=> \E d \in Taken : e = G[d]
    <3> HIDE DEF G
    <3> QED BY <2>2, <2>3, Renamed
  <2>5. \A e \in Taken' : e = to \/ e \in Taken
    BY <2>4
  <2>6. \A e \in Taken : e[1] # Host => e \in Taken'
    <3> TAKE e \in Taken
    <3>1. e[1] # Host => G[e] = e
      BY <1>3
    <3> QED BY <3>1, <2>4
  <2>7. PlaceInv'
    BY <1>1, <1>3, <1>4, <2>5, <2>6 DEF PlaceInv
  <2> QED BY <2>4, <2>7
<1>5. CASE ~(from \in Taken /\ Ns(p) \in nss /\ to \notin Taken)
  <2>1. links' = links
    BY <1>5 DEF VethAssign
  <2> QED BY <1>1, <2>1 DEF LinkInv, PlaceInv, Taken
<1> QED BY <1>4, <1>5

\* All that is at a place goes with it.
LEMMA GonePlaces ==
    ASSUME LinkInv, PlaceInv, NEW place, PlaceGone(place)
    PROVE  /\ LinkInv' /\ links' \subseteq links /\ Taken' \subseteq Taken
           /\ \A e \in Taken' : e[1] # place
           /\ \A e \in ports' : e \in Taken' /\ e[1] # Host
           /\ addrs' \subseteq addrs
           /\ \A l \in links : (\A e \in l : e[1] # place) => l \in links'
<1> DEFINE lost == {l \in links : \E e \in l : e[1] = place}
<1>1. /\ links' = links \ lost
      /\ ports' = ports \ UNION lost
      /\ addrs' = {d \in addrs : d[1] # place /\ d \notin UNION lost}
  BY DEF PlaceGone
<1>2. \A e \in Taken' : e[1] # place
  BY <1>1 DEF Taken
<1>3. \A e \in ports' : e \in Taken' /\ e[1] # Host
  <2> TAKE e \in ports'
  <2>1. e \in ports /\ e \notin UNION lost
    BY <1>1
  <2>2. PICK l \in links : e \in l
    BY <2>1 DEF PlaceInv, Taken
  <2>3. l \in links'
    BY <1>1, <2>1, <2>2
  <2> QED BY <2>1, <2>2, <2>3 DEF PlaceInv, Taken
<1> QED BY <1>1, <1>2, <1>3, LinksLost

\* The daemon's end is the end of its team, and of the orphan it ran in.
LEMMA TeamDestroyPlaces ==
    ASSUME ShellInv, LinkInv, PlaceInv, NEW p \in Prefix, TeamDestroy(p)
    PROVE  LinkInv' /\ PlaceInv'
<1> DEFINE r == Current(p).role
<1>0. r \in Roles
  BY CommandArgs DEF TeamDestroy, Runs
<1>1. UNCHANGED <<nss, bridges>>
  BY DEF TeamDestroy
<1> HIDE DEF r
<1>2. CASE Enters(p) /\ shell[p].arrays /\ daemon[r] # Nowhere
  <2>1. /\ daemon' = [daemon EXCEPT ![r] = Nowhere]
        /\ IF daemon[r] = Orphan(r) THEN PlaceGone(Orphan(r))
           ELSE MasterGone(daemon[r]) /\ UNCHANGED links
    BY <1>2 DEF TeamDestroy, r
  <2>2. /\ daemon' \in [Roles -> nss \cup {Orphan(q) : q \in Roles} \cup {Nowhere}]
        /\ \A q \in Roles : daemon'[q] # Nowhere => daemon'[q] = daemon[q]
        /\ \A q \in Roles : q # r => daemon'[q] = daemon[q]
    BY <1>0, <2>1 DEF PlaceInv
  <2>3. CASE daemon[r] = Orphan(r)
    <3>1. PlaceGone(Orphan(r))
      BY <2>1, <2>3
    <3>2. /\ LinkInv' /\ Taken' \subseteq Taken /\ addrs' \subseteq addrs
          /\ \A e \in Taken' : e[1] # Orphan(r)
          /\ \A e \in ports' : e \in Taken' /\ e[1] # Host
      BY <3>1, GonePlaces
    <3>3. \A e \in Taken' : \/ e[1] = Host \/ e[1] \in nss
                            \/ \E q \in Roles : e[1] = Orphan(q) /\ daemon'[q] = Orphan(q)
      BY <2>2, <3>2 DEF PlaceInv
    <3>4. PlaceInv'
      BY <1>1, <2>2, <3>2, <3>3, PlacesDiffer DEF PlaceInv
    <3> QED BY <3>2, <3>4
  <2>4. CASE daemon[r] # Orphan(r)
    <3>1. /\ links' = links /\ Taken' = Taken /\ ports' \subseteq ports /\ addrs' \subseteq addrs
      BY <2>1, <2>4 DEF MasterGone, Taken
    <3>2. LinkInv'
      BY <3>1 DEF LinkInv
    <3>3. \A e \in Taken' : \/ e[1] = Host \/ e[1] \in nss
                            \/ \E q \in Roles : e[1] = Orphan(q) /\ daemon'[q] = Orphan(q)
      BY <2>2, <2>4, <3>1 DEF PlaceInv
    <3>4. PlaceInv'
      BY <1>1, <2>2, <3>1, <3>3, PlacesDiffer DEF PlaceInv
    <3> QED BY <3>2, <3>4
  <2> QED BY <2>3, <2>4
<1>3. CASE ~(Enters(p) /\ shell[p].arrays /\ daemon[r] # Nowhere)
  <2>1. UNCHANGED <<daemon, links, ports, addrs>>
    BY <1>3 DEF TeamDestroy, r
  <2> QED BY <1>1, <2>1 DEF LinkInv, PlaceInv, Taken
<1> QED BY <1>2, <1>3

\* A deleted namespace takes its devices along, or keeps them as an orphan.
LEMMA NsDelPlaces ==
    ASSUME ShellInv, LinkInv, PlaceInv, NEW p \in Prefix, NsDel(p)
    PROVE  LinkInv' /\ PlaceInv'
<1> DEFINE r == Current(p).role
           Moved(e) == IF e[1] = Ns(p) THEN <<Orphan(r), e[2]>> ELSE e
<1>0. r \in Roles /\ Ns(p) \in Namespaces /\ Ns(p) = <<p, r>>
  BY CommandArgs DEF NsDel, Runs, Ns
<1>1. nss' = nss \ {Ns(p)} /\ bridges' = bridges \ {Ns(p)}
  BY DEF NsDel
<1>2. nss' \subseteq Namespaces /\ bridges' \subseteq nss'
  BY <1>1 DEF PlaceInv
<1>3. CASE daemon[r] = Ns(p)
  <2>1. /\ daemon' = [daemon EXCEPT ![r] = Orphan(r)]
        /\ links' = {{Moved(e) : e \in l} : l \in links}
        /\ ports' = {Moved(e) : e \in ports}
        /\ addrs' = {Moved(d) : d \in addrs}
    BY <1>3 DEF NsDel
  <2> HIDE DEF r
  <2>2. Orphan(r) # Host /\ Ns(p) # Host /\ Ns(p) # Orphan(r) /\ \A q \in Roles : Ns(p) # Orphan(q)
    BY <1>0, PlacesDiffer
  <2>3. \A e \in Taken : e[1] # Orphan(r)
    BY <1>0, <1>3, <2>2, PlacesDiffer DEF PlaceInv
  <2>4. \A e \in Ends : Moved(e) \in Ends
    BY <1>0, EndsAre
  <2> DEFINE G == [e \in Taken |-> Moved(e)]
  <2>5. \A d, e \in Taken : G[d] = G[e] => d = e
    <3> SUFFICES ASSUME NEW d \in Taken, NEW e \in Taken, Moved(d) = Moved(e) PROVE d = e
      OBVIOUS
    <3>1. d = <<d[1], d[2]>> /\ e = <<e[1], e[2]>>
      BY EndsAre, TakenAreEnds
    <3>2. d[1] # Orphan(r) /\ e[1] # Orphan(r)
      BY <2>3
    <3> QED BY <3>1, <3>2
  <2>6. links' = {{G[e] : e \in l} : l \in links}
    <3>1. \A l \in links : {Moved(e) : e \in l} = {G[e] : e \in l}
      <4> TAKE l \in links
      <4>1. \A e \in l : G[e] = Moved(e)
        BY DEF Taken
      <4> HIDE DEF G, Moved
      <4> QED BY <4>1
    <3> QED BY <2>1, <3>1
  <2>7. \A e \in Taken : G[e] \in Ends
    BY <2>4, TakenAreEnds
  <2>8. LinkInv' /\ \A e : e \in Taken' <=> \E d \in Taken : e = G[d]
    <3> HIDE DEF G
    <3> QED BY <2>5, <2>6, <2>7, Renamed
  <2>9. \A e \in ports' : e \in Taken' /\ e[1] # Host
    <3> TAKE e \in ports'
    <3>1. PICK d \in ports : e = Moved(d)
      BY <2>1
    <3>2. d \in Taken /\ d[1] # Host
      BY DEF PlaceInv
    <3>3. e = G[d]
      BY <3>1, <3>2
    <3> QED BY <3>1, <3>2, <3>3, <2>2, <2>8
  <2>10. addrs' \subseteq Ends
    BY <2>1, <2>4 DEF PlaceInv
  <2>11. /\ daemon' \in [Roles -> nss' \cup {Orphan(q) : q \in Roles} \cup {Nowhere}]
         /\ \A q \in Roles : q # r => daemon'[q] = daemon[q]
         /\ daemon'[r] = Orphan(r)
         /\ \A q \in Roles : q # r => daemon[q] # Ns(p)
    <3>1. \A q \in Roles : q # r => daemon[q] # Ns(p)
      <4> SUFFICES ASSUME NEW q \in Roles, q # r, daemon[q] = Ns(p) PROVE FALSE
        OBVIOUS
      <4>1. daemon[q] \in nss
        BY <1>0, PlacesDiffer DEF PlaceInv
      <4> QED BY <4>1, <1>0 DEF PlaceInv
    <3> QED BY <3>1, <1>0, <1>1, <2>1 DEF PlaceInv
  <2>12. \A e \in Taken' : \/ e[1] = Host \/ e[1] \in nss'
                           \/ \E q \in Roles : e[1] = Orphan(q) /\ daemon'[q] = Orphan(q)
    <3> TAKE e \in Taken'
    <3>1. PICK d \in Taken : e = Moved(d)
      BY <2>8
    <3>2. CASE d[1] = Ns(p)
      BY <1>0, <3>1, <3>2, <2>11
    <3>3. CASE d[1] # Ns(p)
      <4>1. e = d
        BY <3>1, <3>3
      <4> QED BY <4>1, <3>3, <1>1, <2>3, <2>11 DEF PlaceInv
    <3> QED BY <3>2, <3>3
  <2>13. /\ \A q \in Roles : daemon'[q] \in nss' => \E o \in Prefix : daemon'[q] = <<o, q>>
         /\ \A q, s \in Roles : daemon'[q] = Orphan(s) => q = s
    BY <1>0, <1>1, <2>11, PlacesDiffer DEF PlaceInv
  <2> QED BY <1>2, <2>8, <2>9, <2>10, <2>11, <2>12, <2>13 DEF PlaceInv
<1>4. CASE daemon[r] # Ns(p)
  <2>1. PlaceGone(Ns(p)) /\ daemon' = daemon
    BY <1>4 DEF NsDel
  <2> HIDE DEF r
  <2>2. /\ LinkInv' /\ Taken' \subseteq Taken /\ addrs' \subseteq addrs
        /\ \A e \in Taken' : e[1] # Ns(p)
        /\ \A e \in ports' : e \in Taken' /\ e[1] # Host
    BY <2>1, GonePlaces
  <2>3. \A q \in Roles : daemon[q] # Ns(p)
    <3> SUFFICES ASSUME NEW q \in Roles, daemon[q] = Ns(p) PROVE FALSE
      OBVIOUS
    <3>1. daemon[q] \in nss
      BY <1>0, PlacesDiffer DEF PlaceInv
    <3> QED BY <3>1, <1>0, <1>4 DEF PlaceInv
  <2>4. daemon' \in [Roles -> nss' \cup {Orphan(q) : q \in Roles} \cup {Nowhere}]
    BY <1>1, <2>1, <2>3 DEF PlaceInv
  <2> QED BY <1>1, <1>2, <2>1, <2>2, <2>4 DEF PlaceInv
<1> QED BY <1>3, <1>4

\* Holds however the shells are used.
GenInv == ShellInv /\ LinkInv /\ PlaceInv

\* Each command leaves the shell at its next command.
LEMMA CommandAdvances ==
    ASSUME ShellInv, NEW p \in Prefix, Command(p)
    PROVE  ~Idle(p) /\ \E f \in SUBSET Roles :
              /\ Advances(p, f)
              /\ f = IF Current(p).op = "run_create" THEN shell[p].fns \cup {Current(p).role}
                     ELSE IF Current(p).op = "unset" THEN shell[p].fns \ {Current(p).role}
                     ELSE shell[p].fns
<1>1. ~Idle(p)
  BY DEF Command, RunCreate, NsAdd, VethAdd, VethAssign, BridgeCreate, TeamCreate, PortAdd,
         AddrAssign, BridgeDestroy, TeamDestroy, NsDel, Unset, Runs
<1>2. Current(p).role \in Roles /\ shell[p] \in ShellType /\ shell[p].fns \in SUBSET Roles
  BY <1>1, CommandArgs DEF ShellInv, ShellType
<1>3. After(p).fns = shell[p].fns
  BY <1>2 DEF After, ShellType
<1>4. CASE RunCreate(p)
  BY <1>2, <1>3, <1>4, <1>1 DEF RunCreate, Runs, Advances
<1>5. CASE Unset(p)
  BY <1>2, <1>3, <1>5, <1>1 DEF Unset, Runs, Advances
<1>6. CASE Done(p) /\ Current(p).op \notin {"run_create", "unset"}
  BY <1>1, <1>6, DoneAdvances
<1>7. Command(p) => RunCreate(p) \/ Unset(p) \/ (Done(p) /\ Current(p).op \notin {"run_create", "unset"})
  BY DEF Command, NsAdd, VethAdd, VethAssign, BridgeCreate, TeamCreate, PortAdd,
         AddrAssign, BridgeDestroy, TeamDestroy, NsDel, Runs
<1> QED BY <1>4, <1>5, <1>6, <1>7

\* What a command does to the shells.
LEMMA CommandShell ==
    ASSUME ShellInv, NEW p \in Prefix, Command(p)
    PROVE  /\ ShellInv'
           /\ \A q \in Prefix \ {p} : shell'[q] = shell[q]
           /\ shell'[p].arrays = shell[p].arrays
           /\ shell'[p].fns = IF Current(p).op = "run_create" THEN shell[p].fns \cup {Current(p).role}
                              ELSE IF Current(p).op = "unset" THEN shell[p].fns \ {Current(p).role}
                              ELSE shell[p].fns
           /\ shell[p].is = "rising" =>
                 /\ shell'[p].is \in {"rising", "up"}
                 /\ shell'[p].todo = <<>> => shell'[p].is = "up"
                 /\ Risen(p)' = Risen(p) + 1 /\ Fallen(p)' = 0
           /\ shell[p].is = "falling" =>
                 /\ shell'[p].is \in {"falling", "down"}
                 /\ shell'[p].todo = <<>> => shell'[p].is = "down"
                 /\ Risen(p)' = 0 /\ Fallen(p)' = Fallen(p) + 1
<1>1. PICK f \in SUBSET Roles :
          /\ Advances(p, f)
          /\ f = IF Current(p).op = "run_create" THEN shell[p].fns \cup {Current(p).role}
                 ELSE IF Current(p).op = "unset" THEN shell[p].fns \ {Current(p).role}
                 ELSE shell[p].fns
  BY CommandAdvances
<1>2. ~Idle(p)
  BY CommandAdvances
<1> QED BY <1>1, <1>2, Advanced

\* What a command does to the devices and their places.
LEMMA CommandPlaces ==
    ASSUME GenInv, NEW p \in Prefix, Command(p)
    PROVE  LinkInv' /\ PlaceInv'
<1> USE DEF GenInv
<1>1. ~Idle(p)
  BY CommandAdvances
<1>2. /\ Current(p).role \in Roles /\ Current(p).k \in 0 .. Pairs
      /\ Ns(p) \in Namespaces /\ Ns(p) \in Places /\ Ns(p) # Host
      /\ Current(p).op = "port" => Current(p).k \in 1 .. Pairs
  BY <1>1, CommandArgs, PlacesDiffer
<1>3. CASE RunCreate(p) \/ Unset(p)
  BY <1>3 DEF RunCreate, Unset, host, LinkInv, PlaceInv, Taken
<1>4. CASE NsAdd(p)
  <2>1. nss' = nss \cup {Ns(p)} /\ UNCHANGED <<links, bridges, daemon, ports, addrs>>
    BY <1>4 DEF NsAdd
  <2>2. \A r \in Roles : daemon[r] \in nss' => \E q \in Prefix : daemon[r] = <<q, r>>
    <3> SUFFICES ASSUME NEW r \in Roles, daemon[r] \in nss' PROVE \E q \in Prefix : daemon[r] = <<q, r>>
      OBVIOUS
    <3>1. daemon[r] \in Namespaces
      BY <1>2, <2>1 DEF PlaceInv
    <3>2. daemon[r] \in nss
      BY <3>1, PlacesDiffer DEF PlaceInv
    <3> QED BY <3>2 DEF PlaceInv
  <2>3. daemon' \in [Roles -> nss' \cup {Orphan(r) : r \in Roles} \cup {Nowhere}]
    BY <2>1 DEF PlaceInv
  <2> QED BY <1>2, <2>1, <2>2, <2>3 DEF LinkInv, PlaceInv, Taken
<1>5. CASE VethAdd(p)
  BY <1>5, VethAddPlaces
<1>6. CASE VethAssign(p)
  BY <1>6, VethAssignPlaces
<1>7. CASE BridgeCreate(p)
  <2>1. UNCHANGED <<nss, links, daemon, ports, addrs>> /\ bridges' \subseteq nss
    BY <1>7 DEF BridgeCreate, Enters, PlaceInv
  <2> QED BY <2>1 DEF LinkInv, PlaceInv, Taken
<1>8. CASE TeamCreate(p)
  <2> DEFINE r == Current(p).role
  <2>1. UNCHANGED <<nss, links, bridges, ports, addrs>>
    BY <1>8 DEF TeamCreate
  <2>2. CASE Enters(p) /\ daemon[r] = Nowhere
    <3>1. daemon' = [daemon EXCEPT ![r] = Ns(p)] /\ Ns(p) \in nss /\ Ns(p) = <<p, r>>
      BY <1>8, <2>2 DEF TeamCreate, Enters, Ns
    <3> HIDE DEF r
    <3>2. daemon' \in [Roles -> nss \cup {Orphan(q) : q \in Roles} \cup {Nowhere}]
      BY <3>1 DEF PlaceInv
    <3>3. \A q \in Roles : daemon'[q] # daemon[q] => q = r /\ daemon[q] = Nowhere /\ daemon'[q] = <<p, r>>
      BY <2>2, <3>1 DEF PlaceInv
    <3>4. \A q \in Roles : daemon'[q] \in nss => \E o \in Prefix : daemon'[q] = <<o, q>>
      BY <3>3 DEF PlaceInv
    <3>5. \A q, s \in Roles : daemon'[q] = Orphan(s) => q = s
      BY <3>3, PlacesDiffer DEF PlaceInv
    <3>6. \A q \in Roles : daemon[q] = Orphan(q) => daemon'[q] = Orphan(q)
      BY <3>3, PlacesDiffer
    <3> QED BY <2>1, <3>2, <3>4, <3>5, <3>6 DEF LinkInv, PlaceInv, Taken
  <2>3. CASE ~(Enters(p) /\ daemon[r] = Nowhere)
    <3>1. daemon' = daemon
      BY <1>8, <2>3 DEF TeamCreate
    <3> QED BY <2>1, <3>1 DEF LinkInv, PlaceInv, Taken
  <2> QED BY <2>2, <2>3
<1>9. CASE PortAdd(p)
  <2> DEFINE end == <<Ns(p), Eth(Current(p).k)>>
  <2>1. /\ UNCHANGED <<nss, links, bridges, daemon, addrs>>
        /\ ports' = ports \/ (end \in Taken /\ ports' = ports \cup {end})
    BY <1>9 DEF PortAdd
  <2>2. end[1] # Host
    BY <1>2
  <2> HIDE DEF end
  <2> QED BY <2>1, <2>2 DEF LinkInv, PlaceInv, Taken
<1>10. CASE AddrAssign(p)
  <2> DEFINE dev == <<Ns(p), IF Current(p).k = 0 THEN Master ELSE Eth(Current(p).k)>>
  <2>1. /\ UNCHANGED <<nss, links, bridges, daemon, ports>>
        /\ addrs' = addrs \/ addrs' = addrs \cup {dev}
    BY <1>10 DEF AddrAssign
  <2>2. dev \in Ends
    BY <1>2, EndsAre, Constants
  <2> HIDE DEF dev
  <2> QED BY <2>1, <2>2 DEF LinkInv, PlaceInv, Taken
<1>11. CASE BridgeDestroy(p)
  <2>1. /\ UNCHANGED <<nss, links, daemon>>
        /\ bridges' \subseteq bridges /\ ports' \subseteq ports /\ addrs' \subseteq addrs
    BY <1>11 DEF BridgeDestroy, MasterGone
  <2> QED BY <2>1 DEF LinkInv, PlaceInv, Taken
<1>12. CASE TeamDestroy(p)
  BY <1>12, TeamDestroyPlaces
<1>13. CASE NsDel(p)
  BY <1>13, NsDelPlaces
<1> QED BY <1>3, <1>4, <1>5, <1>6, <1>7, <1>8, <1>9, <1>10, <1>11, <1>12, <1>13 DEF Command

\* It holds of a host without topologies.
LEMMA GenInitially == Init => GenInv
<1> SUFFICES ASSUME Init PROVE GenInv
  OBVIOUS
<1>1. ShellInv
  <2>1. <<>> \in Seq(Commands)
    BY EmptySeq
  <2> QED BY <2>1 DEF Init, ShellInv, ShellType, Stages, Idle
<1>2. LinkInv
  BY DEF Init, LinkInv
<1>3. PlaceInv
  BY PlacesDiffer DEF Init, PlaceInv, Taken
<1> QED BY <1>1, <1>2, <1>3 DEF GenInv

\* And after every step.
LEMMA GenPreserved == GenInv /\ [Next]_vars => GenInv'
<1> SUFFICES ASSUME GenInv, [Next]_vars PROVE GenInv'
  OBVIOUS
<1>1. ASSUME UNCHANGED host PROVE LinkInv' /\ PlaceInv'
  BY <1>1 DEF host, GenInv, LinkInv, PlaceInv, Taken
<1>2. CASE UNCHANGED vars
  <2>1. ShellInv'
    BY <1>2 DEF vars, GenInv, ShellInv, Idle, Count, Program
  <2> QED BY <1>1, <1>2, <2>1 DEF vars, host, GenInv
<1>3. ASSUME NEW p \in Prefix, StSetup(p) \/ StClean(p) \/ Interrupt(p) \/ NewShell(p)
      PROVE  GenInv'
  <2>1. ShellInv'
    BY <1>3, SetupBegins, CleanBegins, Interrupted, StartedAnew DEF GenInv
  <2>2. UNCHANGED host
    BY <1>3 DEF StSetup, StClean, Interrupt, NewShell
  <2> QED BY <1>1, <2>1, <2>2 DEF GenInv
<1>4. ASSUME NEW p \in Prefix, Command(p) PROVE GenInv'
  BY <1>4, CommandShell, CommandPlaces DEF GenInv
<1> QED BY <1>2, <1>3, <1>4 DEF Next

\* Whatever the shells do, in whatever order: every shell is at a command of one
\* of its programs, every device has one end of one pair and is in a place that
\* exists.
THEOREM WorldInvariant == Spec => []GenInv
BY GenInitially, GenPreserved, PTL DEF Spec

\* The type invariant, for every number of shells and pairs.
THEOREM TypeCorrectness == Spec => []TypeOK
<1>1. GenInv => TypeOK
  <2> SUFFICES ASSUME GenInv PROVE TypeOK
    OBVIOUS
  <2>1. ASSUME NEW l \in links PROVE l \subseteq Ends /\ Cardinality(l) = 2
    <3>1. PICK a, b \in Ends : a # b /\ l = {a, b}
      BY DEF GenInv, LinkInv
    <3>2. IsFiniteSet({b}) /\ Cardinality({b}) = 1
      BY FS_Singleton
    <3>3. Cardinality({b} \cup {a}) = 2
      <4>1. Cardinality({b} \cup {a}) = IF a \in {b} THEN Cardinality({b}) ELSE Cardinality({b}) + 1
        BY <3>2, FS_AddElement
      <4> QED BY <3>1, <3>2, <4>1
    <3>4. l = {b} \cup {a}
      BY <3>1
    <3> QED BY <3>1, <3>3, <3>4
  <2>2. \A l, m \in links : l # m => l \cap m = {}
    BY DEF GenInv, LinkInv
  <2>3. \A p \in Prefix :
          /\ shell[p].fns \subseteq Roles /\ shell[p].arrays \in BOOLEAN
          /\ shell[p].todo # <<>> => shell[p].is \in {"rising", "falling"}
          /\ shell[p].is \in {"down", "rising", "up", "falling"}
    BY DEF GenInv, ShellInv, ShellType, Stages, Idle
  <2>4. daemon \in [Roles -> Namespaces \cup {Orphan(r) : r \in Roles} \cup {Nowhere}]
    BY DEF GenInv, PlaceInv
  <2>5. nss \subseteq Namespaces /\ bridges \subseteq nss /\ ports \subseteq UNION links /\ addrs \subseteq Ends
    BY DEF GenInv, PlaceInv, Taken
  <2> QED BY <2>1, <2>2, <2>3, <2>4, <2>5 DEF TypeOK
<1> QED BY <1>1, WorldInvariant, PTL
-----------------------------------------------------------------------------
(* Cleans. *)

\* A command and its place in the program.
Placed(p) ==
    LET topo == TopoOf[p]
        o == Current(p).op
        r == Current(p).role
        k == Current(p).k
    IN  \/ /\ shell[p].is = "rising"
           /\ \/ o = "run_create" /\ Risen(p) + 1 = CreateAt(r)
              \/ o = "ns_add" /\ Risen(p) + 1 = CreateAt(r) + 1
              \/ o = "veth_add" /\ k \in 1 .. Pairs /\ Risen(p) + 1 = 3 * k + 2
              \/ /\ o = "veth_assign" /\ k \in 1 .. Pairs
                 /\ Risen(p) + 1 = 3 * k + IF r = "c" THEN 3 ELSE 4
              \/ o = topo /\ topo # "plain" /\ Risen(p) + 1 = GroupAt(topo, r)
              \/ /\ o = "port" /\ topo # "plain" /\ k \in 1 .. Pairs
                 /\ Risen(p) + 1 = PortAt(topo, r, k)
              \/ /\ o = "addr" /\ k \in IF topo = "plain" THEN 1 .. Pairs ELSE {0}
                 /\ Risen(p) + 1 = AddrAt(topo, r, k)
        \/ /\ shell[p].is = "falling"
           /\ \/ o = "bridge_del" /\ topo = "bridge" /\ Fallen(p) + 1 = KillAt(r)
              \/ o = "team_kill" /\ topo = "team" /\ Fallen(p) + 1 = KillAt(r)
              \/ o = "ns_del" /\ Fallen(p) + 1 = DelAt(topo, r)
              \/ o = "unset" /\ Fallen(p) + 1 = DelAt(topo, r) + 1

\* The next command has its place.
LEMMA CommandPlaced ==
    ASSUME ShellInv, NEW p \in Prefix, ~Idle(p)
    PROVE  Placed(p)
<1>0. \A o, r, k : Cmd(o, r, k).op = o /\ Cmd(o, r, k).role = r /\ Cmd(o, r, k).k = k
  BY DEF Cmd
<1>1. CASE shell[p].is = "rising"
  <2>1. SetupStep(TopoOf[p], Risen(p) + 1, Current(p))
    BY <1>1, NextCommand
  <2> QED BY <1>0, <1>1, <2>1, Constants DEF SetupStep, Placed
<1>2. CASE shell[p].is = "falling"
  <2>1. CleanStep(TopoOf[p], Fallen(p) + 1, Current(p))
    BY <1>2, NextCommand
  <2> QED BY <1>0, <1>2, <2>1 DEF CleanStep, Placed
<1> QED BY <1>1, <1>2, NextCommand

\* No daemon outlives its namespace, and none runs outside a topology of teams.
TeamInv ==
    \A r \in Roles :
        /\ daemon[r] # Orphan(r)
        /\ \A p \in Prefix : daemon[r] = <<p, r>> => TopoOf[p] = "team"

\* What a clean has done so far, and what it can still do.
FallInv ==
    \A p \in Prefix :
        /\ \A r \in Roles : Fallen(p) >= DelAt(TopoOf[p], r) => <<p, r>> \notin nss
        /\ TopoOf[p] = "team" =>
              /\ \A r \in Roles : Fallen(p) >= KillAt(r) => daemon[r] # <<p, r>>
              /\ shell[p].is = "falling" /\ ~Idle(p) /\ Fallen(p) < 2 =>
                     shell[p].arrays /\ shell[p].fns = Roles

\* Holds when teams are cleaned by the shells that set them up.
CleanInv == GenInv /\ TeamInv /\ FallInv

\* The team has gone before its namespace.
LEMMA NoOrphan ==
    ASSUME CleanInv, NEW p \in Prefix, NsDel(p)
    PROVE  PlaceGone(Ns(p)) /\ UNCHANGED daemon /\ nss' = nss \ {Ns(p)} /\ bridges' = bridges \ {Ns(p)}
<1> DEFINE r == Current(p).role
<1>1. ~Idle(p) /\ Current(p).op = "ns_del"
  BY DEF NsDel, Runs
<1>2. r \in Roles /\ Ns(p) = <<p, r>> /\ shell[p].is = "falling" /\ Fallen(p) + 1 = DelAt(TopoOf[p], r)
  BY <1>1, CommandArgs, CommandPlaced, Constants DEF CleanInv, GenInv, Placed, Ns
<1>3. daemon[r] # Ns(p)
  <2>1. CASE TopoOf[p] = "team"
    <3>1. Fallen(p) >= KillAt(r)
      BY <1>1, <1>2, <2>1, NextCommand DEF DelAt, KillAt, First, CleanInv, GenInv
    <3> QED BY <1>2, <2>1, <3>1 DEF CleanInv, FallInv
  <2>2. CASE TopoOf[p] # "team"
    BY <1>2, <2>2 DEF CleanInv, TeamInv
  <2> QED BY <2>1, <2>2
<1> QED BY <1>3 DEF NsDel

\* What a command of one shell does to the namespaces and daemons of the others.
LEMMA NamesChange ==
    ASSUME CleanInv, NEW p \in Prefix, Command(p)
    PROVE  /\ \A n \in nss' : n \in nss \/ (n = Ns(p) /\ Current(p).op = "ns_add")
           /\ \A r \in Roles : \/ daemon'[r] = daemon[r] \/ daemon'[r] = Nowhere
                               \/ /\ daemon'[r] = <<p, r>> /\ TopoOf[p] = "team"
                                  /\ Current(p).op = "team"
<1>1. ~Idle(p) /\ Current(p).role \in Roles
  BY CommandAdvances, CommandArgs DEF CleanInv, GenInv
<1>2. CASE NsAdd(p)
  BY <1>2 DEF NsAdd, Runs
<1>3. CASE TeamCreate(p)
  <2>1. Current(p).op = "team" /\ TopoOf[p] = "team"
    BY <1>1, <1>3, CommandPlaced, Constants DEF TeamCreate, Runs, Placed, CleanInv, GenInv
  <2>2. \A r \in Roles : daemon'[r] = daemon[r] \/ daemon'[r] = <<p, r>>
    BY <1>1, <1>3 DEF TeamCreate, Ns, CleanInv, GenInv, PlaceInv
  <2> QED BY <1>3, <2>1, <2>2 DEF TeamCreate
<1>4. CASE TeamDestroy(p)
  BY <1>1, <1>4 DEF TeamDestroy, CleanInv, GenInv, PlaceInv
<1>5. CASE NsDel(p)
  BY <1>5, NoOrphan
<1>6. CASE UNCHANGED <<nss, daemon>>
  BY <1>6
<1>7. NsAdd(p) \/ TeamCreate(p) \/ TeamDestroy(p) \/ NsDel(p) \/ UNCHANGED <<nss, daemon>>
  BY DEF Command, RunCreate, Unset, host, VethAdd, VethAssign, BridgeCreate, PortAdd, AddrAssign, BridgeDestroy
<1> QED BY <1>2, <1>3, <1>4, <1>5, <1>6, <1>7

\* The daemons start in namespaces of teams alone, and die before them.
LEMMA TeamPreserved ==
    ASSUME CleanInv, NEW p \in Prefix, Command(p)
    PROVE  TeamInv'
<1> SUFFICES ASSUME NEW r \in Roles
             PROVE  /\ daemon'[r] # Orphan(r)
                    /\ \A q \in Prefix : daemon'[r] = <<q, r>> => TopoOf[q] = "team"
  BY DEF TeamInv
<1> QED BY NamesChange, PlacesDiffer DEF CleanInv, TeamInv

\* The next command of a clean.
LEMMA OwnFall ==
    ASSUME CleanInv, NEW p \in Prefix, Command(p), shell[p].is = "falling"
    PROVE  /\ \A r \in Roles : Fallen(p)' >= DelAt(TopoOf[p], r) => <<p, r>> \notin nss'
           /\ TopoOf[p] = "team" =>
                 /\ \A r \in Roles : Fallen(p)' >= KillAt(r) => daemon'[r] # <<p, r>>
                 /\ Fallen(p)' < 2 => shell'[p].arrays /\ shell'[p].fns = Roles
<1> DEFINE n == Fallen(p)
           o == Current(p).op
           c == Current(p).role
<1>1. ~Idle(p) /\ c \in Roles /\ Fallen(p)' = n + 1 /\ n \in Nat /\ Ns(p) = <<p, c>>
  BY CommandAdvances, CommandArgs, CommandShell, NextCommand DEF CleanInv, GenInv, Ns
<1>2. \/ o = "bridge_del" /\ TopoOf[p] = "bridge" /\ n + 1 = KillAt(c)
      \/ o = "team_kill" /\ TopoOf[p] = "team" /\ n + 1 = KillAt(c)
      \/ o = "ns_del" /\ n + 1 = DelAt(TopoOf[p], c)
      \/ o = "unset" /\ n + 1 = DelAt(TopoOf[p], c) + 1
  BY <1>1, CommandPlaced DEF Placed, CleanInv, GenInv
<1>3. \A m \in nss' : m \in nss
  BY <1>2, NamesChange, Constants
<1>4. \A r \in Roles : daemon'[r] = daemon[r] \/ daemon'[r] = Nowhere
  BY <1>2, NamesChange, Constants
<1>5. o = "ns_del" => Ns(p) \notin nss'
  <2>1. o = "ns_del" => NsDel(p)
    BY DEF Command, RunCreate, NsAdd, VethAdd, VethAssign, BridgeCreate, TeamCreate, PortAdd,
           AddrAssign, BridgeDestroy, TeamDestroy, Unset, Runs
  <2> QED BY <2>1 DEF NsDel
<1>6. ASSUME NEW r \in Roles, n + 1 >= DelAt(TopoOf[p], r) PROVE <<p, r>> \notin nss'
  <2>1. CASE n >= DelAt(TopoOf[p], r)
    BY <1>3, <2>1 DEF CleanInv, FallInv
  <2>2. CASE n + 1 = DelAt(TopoOf[p], r)
    <3>1. o = "ns_del" /\ r = c
      BY <1>1, <1>2, <2>2 DEF DelAt, KillAt, First, Roles
    <3> QED BY <3>1, <1>1, <1>5
  <2>3. DelAt(TopoOf[p], r) \in Nat
    BY DEF DelAt, First
  <2> QED BY <1>1, <1>6, <2>1, <2>2, <2>3
<1>7. ASSUME TopoOf[p] = "team", NEW r \in Roles, n + 1 >= KillAt(r) PROVE daemon'[r] # <<p, r>>
  <2>1. CASE n >= KillAt(r)
    <3>1. daemon[r] # <<p, r>>
      BY <1>7, <2>1 DEF CleanInv, FallInv
    <3> QED BY <1>4, <3>1, PlacesDiffer
  <2>2. CASE n + 1 = KillAt(r)
    <3>1. o = "team_kill" /\ r = c /\ n < 2
      BY <1>1, <1>2, <1>7, <2>2 DEF DelAt, KillAt, First, Roles
    <3>2. shell[p].arrays /\ shell[p].fns = Roles
      BY <3>1, <1>1, <1>7 DEF CleanInv, FallInv
    <3>3. TeamDestroy(p)
      BY <3>1 DEF Command, RunCreate, NsAdd, VethAdd, VethAssign, BridgeCreate, TeamCreate, PortAdd,
             AddrAssign, BridgeDestroy, NsDel, Unset, Runs
    <3>4. CASE daemon[r] = <<p, r>>
      <4>1. <<p, r>> \in nss /\ daemon[r] # Nowhere
        BY <3>4, PlacesDiffer DEF CleanInv, GenInv, PlaceInv
      <4>2. daemon' = [daemon EXCEPT ![r] = Nowhere]
        BY <1>1, <3>1, <3>2, <3>3, <4>1 DEF TeamDestroy, Enters
      <4> QED BY <4>2, PlacesDiffer DEF CleanInv, GenInv, PlaceInv
    <3>5. CASE daemon[r] # <<p, r>>
      BY <1>4, <3>5, PlacesDiffer
    <3> QED BY <3>4, <3>5
  <2>3. KillAt(r) \in Nat
    BY DEF KillAt, First
  <2> QED BY <1>1, <1>7, <2>1, <2>2, <2>3
<1>8. ASSUME TopoOf[p] = "team", n + 1 < 2 PROVE shell'[p].arrays /\ shell'[p].fns = Roles
  <2>1. shell[p].arrays /\ shell[p].fns = Roles
    BY <1>1, <1>8 DEF CleanInv, FallInv
  <2>2. o # "unset" /\ o # "run_create"
    BY <1>1, <1>2, <1>8 DEF DelAt, KillAt, First
  <2> QED BY <2>1, <2>2, CommandShell DEF CleanInv, GenInv
<1> QED BY <1>1, <1>6, <1>7, <1>8

\* No command brings back what a clean of another prefix destroyed.
LEMMA FallPreserved ==
    ASSUME CleanInv, NEW p \in Prefix, Command(p)
    PROVE  FallInv'
<1>1. ASSUME NEW q \in Prefix
      PROVE  /\ \A r \in Roles : Fallen(q)' >= DelAt(TopoOf[q], r) => <<q, r>> \notin nss'
             /\ TopoOf[q] = "team" =>
                   /\ \A r \in Roles : Fallen(q)' >= KillAt(r) => daemon'[r] # <<q, r>>
                   /\ shell'[q].is = "falling" /\ ~Idle(q)' /\ Fallen(q)' < 2 =>
                          shell'[q].arrays /\ shell'[q].fns = Roles
  <2>1. CASE q = p /\ shell[p].is = "falling"
    BY <2>1, OwnFall
  <2>2. CASE q = p /\ shell[p].is = "rising"
    <3>1. Fallen(p)' = 0 /\ shell'[p].is # "falling"
      BY <2>2, CommandShell DEF CleanInv, GenInv
    <3>2. \A r \in Roles : ~(0 >= DelAt(TopoOf[p], r)) /\ ~(0 >= KillAt(r))
      BY DEF DelAt, KillAt, First
    <3> QED BY <2>2, <3>1, <3>2
  <2>3. CASE q # p
    <3>1. shell'[q] = shell[q]
      BY <2>3, CommandShell DEF CleanInv, GenInv
    <3>2. Fallen(q)' = Fallen(q) /\ Idle(q)' = Idle(q)
      BY <3>1, OthersStay
    <3>3. Ns(p) # <<q, Current(p).role>> /\ \A r \in Roles : Ns(p) # <<q, r>> /\ <<p, r>> # <<q, r>>
      BY <2>3 DEF Ns
    <3>4. \A r \in Roles : <<q, r>> \in nss' => <<q, r>> \in nss
      BY <3>3, NamesChange
    <3>5. \A r \in Roles : daemon'[r] = <<q, r>> => daemon[r] = <<q, r>>
      BY <3>3, NamesChange, PlacesDiffer
    <3> QED BY <3>1, <3>2, <3>4, <3>5 DEF CleanInv, FallInv
  <2> QED BY <2>1, <2>2, <2>3, CommandAdvances, NextCommand DEF CleanInv, GenInv
<1> QED BY <1>1 DEF FallInv

\* Before the first set up all prefixes are clean.
LEMMA CleanInitially == Init => CleanInv
<1> SUFFICES ASSUME Init PROVE CleanInv
  OBVIOUS
<1>1. TeamInv
  BY PlacesDiffer DEF Init, TeamInv
<1>2. FallInv
  BY PlacesDiffer DEF Init, FallInv, Idle
<1> QED BY <1>1, <1>2, GenInitially DEF CleanInv

\* Every step keeps it, given the shell that can stop the daemons.
LEMMA CleanPreserved ==
    ASSUME SameShell PROVE CleanInv /\ [Next]_vars => CleanInv'
<1> SUFFICES ASSUME CleanInv, [Next]_vars PROVE CleanInv'
  OBVIOUS
<1>0. GenInv' /\ ShellInv
  BY GenPreserved DEF CleanInv, GenInv
<1>1. ASSUME UNCHANGED host PROVE TeamInv'
  BY <1>1 DEF host, CleanInv, TeamInv
<1>2. CASE UNCHANGED vars
  BY <1>0, <1>1, <1>2 DEF vars, host, CleanInv, FallInv, Fallen, Idle, Count, Program
<1>3. ASSUME NEW p \in Prefix, UNCHANGED host, \A q \in Prefix \ {p} : shell'[q] = shell[q],
             \/ /\ Fallen(p)' = 0
                /\ TopoOf[p] = "team" /\ shell'[p].is = "falling" /\ ~Idle(p)' =>
                       shell'[p].arrays /\ shell'[p].fns = Roles
             \/ Fallen(p)' = Fallen(p) /\ Idle(p)'
      PROVE  CleanInv'
  <2>1. ASSUME NEW q \in Prefix
        PROVE  /\ \A r \in Roles : Fallen(q)' >= DelAt(TopoOf[q], r) => <<q, r>> \notin nss'
               /\ TopoOf[q] = "team" =>
                     /\ \A r \in Roles : Fallen(q)' >= KillAt(r) => daemon'[r] # <<q, r>>
                     /\ shell'[q].is = "falling" /\ ~Idle(q)' /\ Fallen(q)' < 2 =>
                            shell'[q].arrays /\ shell'[q].fns = Roles
    <3>1. CASE q = p /\ Fallen(p)' = Fallen(p) /\ Idle(p)'
      BY <1>3, <3>1 DEF CleanInv, FallInv, host
    <3>2. CASE q = p /\ ~(Fallen(p)' = Fallen(p) /\ Idle(p)')
      <4>1. \A r \in Roles : ~(0 >= DelAt(TopoOf[p], r)) /\ ~(0 >= KillAt(r))
        BY DEF DelAt, KillAt, First
      <4>2. Fallen(p)' = 0
        BY <1>3, <3>2
      <4> QED BY <1>3, <3>2, <4>1, <4>2
    <3>3. CASE q # p
      <4>1. Fallen(q)' = Fallen(q) /\ Idle(q)' = Idle(q) /\ shell'[q] = shell[q]
        BY <1>3, <3>3, OthersStay
      <4> QED BY <1>3, <4>1 DEF CleanInv, FallInv, host
    <3> QED BY <3>1, <3>2, <3>3
  <2>2. FallInv'
    BY <2>1 DEF FallInv
  <2> QED BY <1>0, <1>1, <1>3, <2>2 DEF CleanInv
<1>4. ASSUME NEW p \in Prefix, StSetup(p) \/ StClean(p) \/ Interrupt(p) \/ NewShell(p)
      PROVE  CleanInv'
  <2>1. UNCHANGED host
    BY <1>4 DEF StSetup, StClean, Interrupt, NewShell
  <2>2. CASE StSetup(p)
    BY <1>0, <1>3, <2>1, <2>2, SetupBegins
  <2>3. CASE StClean(p)
    <3>1. TopoOf[p] = "team" => shell[p].arrays /\ shell[p].fns = Roles
      BY <2>3 DEF StClean
    <3> QED BY <1>0, <1>3, <2>1, <2>3, <3>1, CleanBegins
  <2>4. CASE Interrupt(p)
    <3>1. Idle(p)'
      BY <1>0, <2>4 DEF Interrupt, Idle, ShellInv, ShellType
    <3> QED BY <1>0, <1>3, <2>1, <2>4, <3>1, Interrupted
  <2>5. CASE NewShell(p)
    BY <1>0, <1>3, <2>1, <2>5, StartedAnew
  <2> QED BY <1>4, <2>2, <2>3, <2>4, <2>5
<1>5. ASSUME NEW p \in Prefix, Command(p) PROVE CleanInv'
  BY <1>0, <1>5, TeamPreserved, FallPreserved DEF CleanInv
<1> QED BY <1>2, <1>4, <1>5 DEF Next

\* A clean that came to its end leaves no namespace, no device and no daemon of its
\* topology, whatever set ups and cleans were interrupted before it, for every
\* number of shells at work at once: provided the teams are cleaned by a shell
\* that has the functions and the arrays of their set up.
THEOREM CleansComplete ==
    ASSUME SameShell PROVE Spec => []CleanIsComplete
<1>1. CleanInv => CleanIsComplete
  <2> SUFFICES ASSUME CleanInv, NEW p \in Prefix, shell[p].is = "down"
               PROVE  /\ ({p} \X Roles) \cap nss = {}
                      /\ \A e \in Taken : e[1] \notin {p} \X Roles
                      /\ TopoOf[p] = "team" =>
                            \A r \in Roles : daemon[r] \notin {<<p, r>>, Orphan(r)}
    BY DEF CleanIsComplete
  <2>1. TopoOf[p] \in {"plain", "bridge", "team"}
    BY Constants
  <2>2. Fallen(p) = IF TopoOf[p] = "plain" THEN 4 ELSE 6
    BY <2>1, CleanIs DEF Fallen
  <2>3. \A r \in Roles : Fallen(p) >= DelAt(TopoOf[p], r)
    BY <2>1, <2>2 DEF DelAt, First
  <2>4. \A r \in Roles : TopoOf[p] = "team" => Fallen(p) >= KillAt(r)
    BY <2>2 DEF KillAt, First
  <2>5. \A r \in Roles : <<p, r>> \notin nss
    BY <2>3 DEF CleanInv, FallInv
  <2>6. \A e \in Taken : e[1] \notin {p} \X Roles
    <3> SUFFICES ASSUME NEW e \in Taken, NEW r \in Roles, e[1] = <<p, r>> PROVE FALSE
      OBVIOUS
    <3>1. e[1] # Host /\ \A q \in Roles : e[1] # Orphan(q)
      BY PlacesDiffer
    <3>2. e[1] \in nss
      BY <3>1 DEF CleanInv, GenInv, PlaceInv
    <3> QED BY <2>5, <3>2
  <2>7. TopoOf[p] = "team" => \A r \in Roles : daemon[r] \notin {<<p, r>>, Orphan(r)}
    BY <2>4 DEF CleanInv, FallInv, TeamInv
  <2> QED BY <2>5, <2>6, <2>7
<1> QED BY <1>1, CleanInitially, CleanPreserved, PTL DEF Spec
-----------------------------------------------------------------------------
(* Set ups: pairs, sides and the order of work. *)

\* One prefix is at work at a time.
Orders == \A p, q \in Prefix : p # q => Settled(p) \/ Settled(q)

\* The two ends of a pair in its place, and the pair on its way there from the host.
EndOf(p, r, k) == <<<<p, r>>, Eth(k)>>
Half(p, k) == {EndOf(p, "c", k), HostEnd(1)}
Pair(p, k) == {EndOf(p, "c", k), EndOf(p, "s", k)}

\* A pair is on the host, half way or in its place, and it is half way only when
\* those before it are in theirs.
PairInv ==
    /\ \A l \in links :
          \/ l = Fresh
          \/ \E p \in Prefix : \E k \in 1 .. Pairs : l = Half(p, k) \/ l = Pair(p, k)
    /\ \A p \in Prefix : \A k \in 1 .. Pairs :
          Half(p, k) \in links => \A j \in 1 .. k - 1 : Pair(p, j) \in links

\* Only devices of the topology have addresses.
AddrInv ==
    \A d \in addrs : \E p \in Prefix : \E r \in Roles :
        /\ d[1] = <<p, r>>
        /\ IF TopoOf[p] = "plain" THEN \E k \in 1 .. Pairs : d[2] = Eth(k) ELSE d[2] = Master

\* The devices that get addresses, and the bridge or team of a side.
Names(p) == IF TopoOf[p] = "plain" THEN 1 .. Pairs ELSE {0}
Device(k) == IF k = 0 THEN Master ELSE Eth(k)
Grouped(p, r) == IF TopoOf[p] = "team" THEN daemon[r] = <<p, r>> ELSE <<p, r>> \in bridges

\* What a set up has done so far.
RoleRises(p, r) ==
    /\ Risen(p) >= CreateAt(r) /\ shell[p].is = "rising" => r \in shell[p].fns
    /\ Risen(p) >= CreateAt(r) + 1 => <<p, r>> \in nss
    /\ TopoOf[p] # "plain" =>
          /\ Risen(p) >= GroupAt(TopoOf[p], r) => Grouped(p, r)
          /\ \A k \in 1 .. Pairs :
                Risen(p) >= PortAt(TopoOf[p], r, k) => EndOf(p, r, k) \in ports
    /\ \A k \in Names(p) :
          Risen(p) >= AddrAt(TopoOf[p], r, k) => <<<<p, r>>, Device(k)>> \in addrs

PairRises(p, k) ==
    /\ Risen(p) >= 3 * k + 4 => Pair(p, k) \in links
    /\ Risen(p) = 3 * k + 3 => Pair(p, k) \in links \/ Half(p, k) \in links
    /\ Risen(p) = 3 * k + 2 => Pair(p, k) \in links \/ Half(p, k) \in links \/ Fresh \in links

RiseInv ==
    \A p \in Prefix :
        /\ \A r \in Roles : RoleRises(p, r)
        /\ \A k \in 1 .. Pairs : PairRises(p, k)

\* Holds when, besides, one prefix at a time is half set up or clean.
SetupInv == CleanInv /\ Orders /\ PairInv /\ AddrInv /\ RiseInv

\* teamd knows its teams by names without a prefix: one prefix uses them.
OneTeam == \A p, q \in Prefix : TopoOf[p] = "team" /\ TopoOf[q] = "team" => p = q

\* Ends with different names are different.
LEMMA DevicesDiffer ==
    /\ \A p, q \in Prefix, r, s \in Roles, j, k \in Nat :
          EndOf(p, r, j) = EndOf(q, s, k) => p = q /\ r = s /\ j = k
    /\ \A p \in Prefix, r \in Roles, k, n \in Nat : EndOf(p, r, k) # HostEnd(n)
    /\ HostEnd(0) # HostEnd(1)
    /\ \A p \in Prefix, r \in Roles, k \in Nat : EndOf(p, r, k)[1] = <<p, r>>
    /\ \A n \in Nat : HostEnd(n)[1] = Host
<1>1. \A p \in Prefix, r \in Roles, k, n \in Nat : EndOf(p, r, k) # HostEnd(n)
  BY PlacesDiffer DEF EndOf, HostEnd
<1> QED BY <1>1 DEF EndOf, HostEnd, Eth, VethName

\* A pair that is in its place is not half way, and neither is on the host.
LEMMA PairsDiffer ==
    ASSUME LinkInv, NEW p \in Prefix, NEW k \in 1 .. Pairs
    PROVE  /\ ~(Pair(p, k) \in links /\ Half(p, k) \in links)
           /\ \A q \in Prefix, j \in 1 .. Pairs :
                 /\ Half(p, k) \in links /\ Half(q, j) \in links => p = q /\ j = k
                 /\ EndOf(q, "c", j) \in Half(p, k) \cup Pair(p, k) => p = q /\ j = k
                 /\ EndOf(q, "s", j) \notin Half(p, k) \cup Fresh
                 /\ EndOf(q, "c", j) \notin Fresh
                 /\ EndOf(q, "s", j) \in Pair(p, k) => p = q /\ j = k
           /\ ~(Half(p, k) \in links /\ Fresh \in links)
           /\ HostEnd(0) \notin Half(p, k) \cup Pair(p, k) /\ HostEnd(1) \notin Pair(p, k)
           /\ Half(p, k) # Pair(p, k) /\ Half(p, k) # Fresh /\ Pair(p, k) # Fresh
<1>0. 1 .. Pairs \subseteq Nat /\ 0 \in Nat /\ 1 \in Nat /\ "c" \in Roles /\ "s" \in Roles /\ "c" # "s"
  BY Constants
<1>1. HostEnd(0) \notin Half(p, k) \cup Pair(p, k) /\ HostEnd(1) \notin Pair(p, k)
  BY <1>0, DevicesDiffer DEF Half, Pair
<1>2. HostEnd(1) \in Half(p, k) /\ EndOf(p, "c", k) \in Half(p, k) /\ EndOf(p, "c", k) \in Pair(p, k)
      /\ HostEnd(0) \in Fresh /\ HostEnd(1) \in Fresh
  BY DEF Half, Pair, Fresh
<1>3. Half(p, k) # Pair(p, k) /\ Half(p, k) # Fresh /\ Pair(p, k) # Fresh
  BY <1>1, <1>2
<1>4. ~(Pair(p, k) \in links /\ Half(p, k) \in links)
  BY <1>2, <1>3 DEF LinkInv
<1>5. ~(Half(p, k) \in links /\ Fresh \in links)
  BY <1>2, <1>3 DEF LinkInv
<1>6. ASSUME NEW q \in Prefix, NEW j \in 1 .. Pairs
      PROVE  /\ EndOf(q, "c", j) \in Half(p, k) \cup Pair(p, k) => p = q /\ j = k
             /\ EndOf(q, "s", j) \notin Half(p, k) \cup Fresh
             /\ EndOf(q, "c", j) \notin Fresh
             /\ EndOf(q, "s", j) \in Pair(p, k) => p = q /\ j = k
  BY <1>0, DevicesDiffer DEF Half, Pair, Fresh
<1>7. ASSUME NEW q \in Prefix, NEW j \in 1 .. Pairs, Half(p, k) \in links, Half(q, j) \in links
      PROVE  p = q /\ j = k
  <2>1. Half(p, k) = Half(q, j)
    BY <1>7, <1>2 DEF LinkInv, Half
  <2>2. EndOf(q, "c", j) \in Half(p, k)
    BY <2>1 DEF Half
  <2> QED BY <2>2, <1>6
<1> QED BY <1>1, <1>3, <1>4, <1>5, <1>6, <1>7

\* The number of commands of a set up.
LEMMA SetupLength ==
    ASSUME NEW p \in Prefix
    PROVE  Len(Setup(TopoOf[p])) = Wiring + 2 * Pairs + IF TopoOf[p] = "plain" THEN 0 ELSE 4
<1>1. TopoOf[p] \in {"plain", "bridge", "team"}
  BY Constants
<1> QED BY <1>1, SetupIs

\* No pair of a settled prefix is half way.
LEMMA NoneHalfWay ==
    ASSUME SetupInv, NEW p \in Prefix, Settled(p), NEW k \in 1 .. Pairs
    PROVE  Half(p, k) \notin links
<1> SUFFICES ASSUME Half(p, k) \in links PROVE FALSE
  OBVIOUS
<1>1. CASE shell[p].is = "up"
  <2>1. Risen(p) >= 3 * k + 4
    BY <1>1, SetupLength, Constants DEF Risen
  <2>2. Pair(p, k) \in links
    BY <2>1 DEF SetupInv, RiseInv, PairRises
  <2> QED BY <2>2, PairsDiffer DEF SetupInv, CleanInv, GenInv
<1>2. CASE shell[p].is = "down"
  <2>1. TopoOf[p] \in {"plain", "bridge", "team"}
    BY Constants
  <2>2. Fallen(p) = IF TopoOf[p] = "plain" THEN 4 ELSE 6
    BY <1>2, <2>1, CleanIs DEF Fallen
  <2>3. Fallen(p) >= DelAt(TopoOf[p], "c")
    BY <2>1, <2>2 DEF DelAt, First
  <2>4. <<p, "c">> \notin nss
    BY <2>3 DEF SetupInv, CleanInv, FallInv, Roles
  <2>5. EndOf(p, "c", k) \in Taken /\ EndOf(p, "c", k)[1] = <<p, "c">>
    BY DEF Taken, Half, EndOf
  <2> QED BY <2>4, <2>5, PlacesDiffer DEF SetupInv, CleanInv, GenInv, PlaceInv, Roles
<1> QED BY <1>1, <1>2 DEF Settled

\* One prefix at a time, step by step.
LEMMA OrdersKept ==
    ASSUME Orderly, ShellInv, Orders, NEW p \in Prefix,
           StSetup(p) \/ StClean(p) \/ Interrupt(p) \/ NewShell(p) \/ Command(p)
    PROVE  Orders'
<1>1. CASE StSetup(p) \/ StClean(p)
  <2>1. \A q \in Prefix \ {p} : Settled(q) /\ shell'[q] = shell[q]
    BY <1>1, SetupBegins, CleanBegins DEF StSetup, StClean, MayBegin
  <2>2. \A q \in Prefix \ {p} : Settled(q)'
    BY <2>1, OthersStay
  <2> QED BY <2>2 DEF Orders
<1>2. CASE Interrupt(p) \/ Command(p)
  <2>1. ~Settled(p)
    BY <1>2, CommandAdvances DEF Interrupt, Settled
  <2>2. \A q \in Prefix \ {p} : Settled(q) /\ shell'[q] = shell[q]
    BY <1>2, <2>1, Interrupted, CommandShell DEF Orders
  <2>3. \A q \in Prefix \ {p} : Settled(q)'
    BY <2>2, OthersStay
  <2> QED BY <2>3 DEF Orders
<1>3. CASE NewShell(p)
  <2>1. \A q \in Prefix \ {p} : Settled(q)' = Settled(q)
    BY <1>3, StartedAnew, OthersStay
  <2>2. Settled(p)' = Settled(p)
    BY <1>3, StartedAnew DEF Settled
  <2>3. \A q \in Prefix : Settled(q)' = Settled(q)
    BY <2>1, <2>2
  <2> QED BY <2>3 DEF Orders
<1> QED BY <1>1, <1>2, <1>3

\* One fact for each kind of command: which action it is.
LEMMA ActionOf ==
    ASSUME NEW p \in Prefix, Command(p)
    PROVE  /\ Current(p).op = "run_create" => RunCreate(p)
           /\ Current(p).op = "ns_add" => NsAdd(p)
           /\ Current(p).op = "veth_add" => VethAdd(p)
           /\ Current(p).op = "veth_assign" => VethAssign(p)
           /\ Current(p).op = "bridge" => BridgeCreate(p)
           /\ Current(p).op = "team" => TeamCreate(p)
           /\ Current(p).op = "port" => PortAdd(p)
           /\ Current(p).op = "addr" => AddrAssign(p)
           /\ Current(p).op = "bridge_del" => BridgeDestroy(p)
           /\ Current(p).op = "team_kill" => TeamDestroy(p)
           /\ Current(p).op = "ns_del" => NsDel(p)
           /\ Current(p).op = "unset" => Unset(p)
BY DEF Command, RunCreate, NsAdd, VethAdd, VethAssign, BridgeCreate, TeamCreate, PortAdd,
       AddrAssign, BridgeDestroy, TeamDestroy, NsDel, Unset, Runs

\* A set up destroys nothing.
LEMMA Grows ==
    ASSUME SetupInv, NEW p \in Prefix, Command(p), shell[p].is = "rising"
    PROVE  /\ nss \subseteq nss' /\ bridges \subseteq bridges'
           /\ \A r \in Roles : daemon[r] # Nowhere => daemon'[r] = daemon[r]
           /\ \A q \in Prefix, k \in 1 .. Pairs : Pair(q, k) \in links => Pair(q, k) \in links'
           /\ ports \subseteq ports' /\ addrs \subseteq addrs'
<1>1. ~Idle(p) /\ Current(p).role \in Roles
  BY CommandAdvances, CommandArgs DEF SetupInv, CleanInv, GenInv
<1>2. Current(p).op \in {"run_create", "ns_add", "veth_add", "veth_assign", "bridge", "team", "port", "addr"}
  BY <1>1, CommandPlaced, Constants DEF Placed, SetupInv, CleanInv, GenInv
<1>3. CASE RunCreate(p)
  BY <1>3 DEF RunCreate, host
<1>4. CASE NsAdd(p)
  BY <1>4 DEF NsAdd
<1>5. CASE VethAdd(p)
  BY <1>5 DEF VethAdd
<1>6. CASE VethAssign(p)
  <2> DEFINE from == <<Host, Orig(Current(p).role)>>
             to == <<Ns(p), Eth(Current(p).k)>>
  <2>1. \/ links' = links
        \/ links' = {IF from \in l THEN (l \ {from}) \cup {to} ELSE l : l \in links}
    BY <1>6 DEF VethAssign
  <2>2. from \in {HostEnd(0), HostEnd(1)}
    BY DEF HostEnd, Orig
  <2> HIDE DEF from, to
  <2>3. ASSUME NEW q \in Prefix, NEW k \in 1 .. Pairs, Pair(q, k) \in links PROVE Pair(q, k) \in links'
    <3>1. from \notin Pair(q, k)
      BY <2>2, PairsDiffer DEF SetupInv, CleanInv, GenInv
    <3> QED BY <2>1, <2>3, <3>1
  <2>4. UNCHANGED <<nss, bridges, daemon, ports, addrs>>
    BY <1>6 DEF VethAssign
  <2> QED BY <2>3, <2>4
<1>7. CASE BridgeCreate(p)
  BY <1>7 DEF BridgeCreate
<1>8. CASE TeamCreate(p)
  BY <1>1, <1>8 DEF TeamCreate, SetupInv, CleanInv, GenInv, PlaceInv
<1>9. CASE PortAdd(p)
  BY <1>9 DEF PortAdd
<1>10. CASE AddrAssign(p)
  BY <1>10 DEF AddrAssign
<1> QED BY <1>2, <1>3, <1>4, <1>5, <1>6, <1>7, <1>8, <1>9, <1>10, ActionOf

\* A clean takes nothing from other prefixes.
LEMMA Foreign ==
    ASSUME SetupInv, OneTeam, NEW p \in Prefix, Command(p), shell[p].is = "falling",
           NEW q \in Prefix \ {p}
    PROVE  /\ \A r \in Roles : /\ <<q, r>> \in nss => <<q, r>> \in nss'
                               /\ Grouped(q, r) => Grouped(q, r)'
           /\ \A k \in 1 .. Pairs : Pair(q, k) \in links => Pair(q, k) \in links'
           /\ \A e \in ports : e[1] \in {q} \X Roles => e \in ports'
           /\ \A d \in addrs : d[1] \in {q} \X Roles => d \in addrs'
<1> DEFINE c == Current(p).role
<1>1. ~Idle(p) /\ c \in Roles /\ Ns(p) = <<p, c>>
  BY CommandAdvances, CommandArgs DEF SetupInv, CleanInv, GenInv, Ns
<1>2. /\ Current(p).op \in {"bridge_del", "team_kill", "ns_del", "unset"}
      /\ Current(p).op = "team_kill" => TopoOf[p] = "team"
  BY <1>1, CommandPlaced DEF Placed, SetupInv, CleanInv, GenInv
<1> HIDE DEF c
<1>3. \A r, s \in Roles : <<q, r>> # <<p, s>>
  OBVIOUS
<1>4. \A a \in {q} \X Roles : a # Ns(p)
  BY <1>1, <1>3
<1>5. CASE Unset(p)
  BY <1>5 DEF Unset, host, Grouped
<1>6. CASE BridgeDestroy(p)
  <2>1. /\ UNCHANGED <<nss, links, daemon>> /\ bridges \ {Ns(p)} \subseteq bridges'
        /\ ports' = ports \/ ports' = {e \in ports : e[1] # Ns(p)}
        /\ addrs' = addrs \/ addrs' = addrs \ {<<Ns(p), Master>>}
    BY <1>6 DEF BridgeDestroy, MasterGone
  <2>2. \A d \in addrs : d[1] \in {q} \X Roles => d # <<Ns(p), Master>>
    BY <1>4
  <2> QED BY <1>4, <2>1, <2>2 DEF Grouped
<1>7. CASE TeamDestroy(p)
  <2>1. TopoOf[q] # "team"
    BY <1>2, <1>7 DEF OneTeam, TeamDestroy, Runs
  <2>2. UNCHANGED <<nss, bridges>>
    BY <1>7 DEF TeamDestroy
  <2>3. daemon[c] # Orphan(c)
    BY <1>1 DEF SetupInv, CleanInv, TeamInv
  <2>4. \/ UNCHANGED <<links, ports, addrs>>
        \/ daemon[c] # Nowhere /\ MasterGone(daemon[c]) /\ UNCHANGED links
    BY <1>7, <2>3 DEF TeamDestroy, c
  <2>5. daemon[c] # Nowhere => \A r \in Roles : daemon[c] # <<q, r>>
    <3> SUFFICES ASSUME NEW r \in Roles, daemon[c] = <<q, r>> PROVE FALSE
      OBVIOUS
    <3>1. daemon[c] \in nss
      BY <1>1, PlacesDiffer DEF SetupInv, CleanInv, GenInv, PlaceInv
    <3>2. PICK o \in Prefix : daemon[c] = <<o, c>>
      BY <1>1, <3>1 DEF SetupInv, CleanInv, GenInv, PlaceInv
    <3>3. TopoOf[o] = "team" /\ o = q
      BY <1>1, <3>2 DEF SetupInv, CleanInv, TeamInv
    <3> QED BY <2>1, <3>3
  <2>6. CASE UNCHANGED <<links, ports, addrs>>
    BY <2>1, <2>2, <2>6 DEF Grouped
  <2>7. CASE daemon[c] # Nowhere /\ MasterGone(daemon[c]) /\ UNCHANGED links
    <3>1. ports' = {e \in ports : e[1] # daemon[c]} /\ addrs' = addrs \ {<<daemon[c], Master>>}
      BY <2>7 DEF MasterGone
    <3>2. \A a \in {q} \X Roles : a # daemon[c]
      BY <2>5, <2>7
    <3>3. \A d \in addrs : d[1] \in {q} \X Roles => d # <<daemon[c], Master>>
      BY <3>2
    <3> QED BY <2>1, <2>2, <2>7, <3>1, <3>2, <3>3 DEF Grouped
  <2> QED BY <2>4, <2>6, <2>7
<1>8. CASE NsDel(p)
  <2> DEFINE lost == {l \in links : \E e \in l : e[1] = Ns(p)}
  <2>1. /\ UNCHANGED daemon /\ nss' = nss \ {Ns(p)} /\ bridges' = bridges \ {Ns(p)}
        /\ links' = links \ lost /\ ports' = ports \ UNION lost
        /\ addrs' = {d \in addrs : d[1] # Ns(p) /\ d \notin UNION lost}
    BY <1>8, NoOrphan DEF SetupInv, PlaceGone
  <2>2. ASSUME NEW l \in lost, NEW e \in l, e[1] \in {q} \X Roles PROVE FALSE
    <3>1. PICK d \in l : d[1] = Ns(p)
      OBVIOUS
    <3>2. l \in links
      OBVIOUS
    <3>3. Host \notin {q} \X Roles /\ Host # Ns(p)
      BY <1>1, PlacesDiffer
    <3>4. l # Fresh
      BY <2>2, <3>3, Constants, DevicesDiffer DEF Fresh
    <3>5. PICK o \in Prefix, k \in 1 .. Pairs : l = Half(o, k) \/ l = Pair(o, k)
      BY <3>2, <3>4 DEF SetupInv, PairInv
    <3>6. \A f \in l : f[1] = Host \/ f[1] = <<o, "c">> \/ f[1] = <<o, "s">>
      BY <3>5 DEF Half, Pair, EndOf, HostEnd
    <3>7. o = q
      BY <2>2, <3>3, <3>6
    <3>8. o = p
      BY <1>1, <3>1, <3>3, <3>6
    <3> QED BY <3>7, <3>8
  <2>3. ASSUME NEW k \in 1 .. Pairs, Pair(q, k) \in links PROVE Pair(q, k) \in links'
    <3>1. EndOf(q, "c", k) \in Pair(q, k) /\ EndOf(q, "c", k)[1] \in {q} \X Roles
      BY Constants DEF Pair, EndOf
    <3>2. Pair(q, k) \notin lost
      BY <2>2, <3>1
    <3> QED BY <2>1, <2>3, <3>2
  <2> HIDE DEF lost
  <2>4. \A e : e[1] \in {q} \X Roles => e \notin UNION lost /\ e[1] # Ns(p)
    BY <1>4, <2>2
  <2>5. \A r \in Roles : <<q, r>> # Ns(p)
    BY <1>4
  <2> QED BY <2>1, <2>3, <2>4, <2>5 DEF Grouped
<1> QED BY <1>2, <1>5, <1>6, <1>7, <1>8, ActionOf
-----------------------------------------------------------------------------
(* The pairs. *)

\* Only the prefix that is at work has a pair that is half way.
LEMMA HalfIsOwn ==
    ASSUME SetupInv, NEW p \in Prefix, ~Idle(p), NEW q \in Prefix, NEW k \in 1 .. Pairs,
           Half(q, k) \in links
    PROVE  q = p
<1> SUFFICES ASSUME q # p PROVE FALSE
  OBVIOUS
<1>1. Settled(q)
  BY DEF SetupInv, Orders, Settled
<1> QED BY <1>1, NoneHalfWay

\* What has a given end.
LEMMA LinkOf ==
    ASSUME SetupInv
    PROVE  /\ \A l \in links : HostEnd(0) \in l => l = Fresh
           /\ \A l \in links : HostEnd(1) \in l =>
                 l = Fresh \/ \E q \in Prefix : \E j \in 1 .. Pairs : l = Half(q, j)
           /\ \A p \in Prefix, k \in 1 .. Pairs :
                 /\ EndOf(p, "c", k) \in Taken => Half(p, k) \in links \/ Pair(p, k) \in links
                 /\ EndOf(p, "s", k) \in Taken => Pair(p, k) \in links
           /\ \A p \in Prefix, k \in 1 .. Pairs : Pair(p, k) \in links =>
                 EndOf(p, "c", k) \in Taken /\ EndOf(p, "s", k) \in Taken
           /\ \A p \in Prefix, k \in 1 .. Pairs : Half(p, k) \in links => EndOf(p, "c", k) \in Taken
<1>0. /\ LinkInv
      /\ \A l \in links : \/ l = Fresh
                          \/ \E q \in Prefix : \E j \in 1 .. Pairs : l = Half(q, j) \/ l = Pair(q, j)
  BY DEF SetupInv, CleanInv, GenInv, PairInv
<1>1. \A l \in links : HostEnd(0) \in l => l = Fresh
  BY <1>0, PairsDiffer
<1>2. \A l \in links : HostEnd(1) \in l =>
         l = Fresh \/ \E q \in Prefix : \E j \in 1 .. Pairs : l = Half(q, j)
  BY <1>0, PairsDiffer
<1>3. ASSUME NEW p \in Prefix, NEW k \in 1 .. Pairs, EndOf(p, "c", k) \in Taken
      PROVE  Half(p, k) \in links \/ Pair(p, k) \in links
  <2>1. PICK l \in links : EndOf(p, "c", k) \in l
    BY <1>3 DEF Taken
  <2>2. l # Fresh
    BY <1>0, <2>1, PairsDiffer
  <2>3. PICK q \in Prefix, j \in 1 .. Pairs : l = Half(q, j) \/ l = Pair(q, j)
    BY <1>0, <2>2
  <2>4. q = p /\ j = k
    BY <1>0, <2>1, <2>3, PairsDiffer
  <2> QED BY <2>3, <2>4
<1>4. ASSUME NEW p \in Prefix, NEW k \in 1 .. Pairs, EndOf(p, "s", k) \in Taken
      PROVE  Pair(p, k) \in links
  <2>1. PICK l \in links : EndOf(p, "s", k) \in l
    BY <1>4 DEF Taken
  <2>2. l # Fresh
    BY <1>0, <2>1, PairsDiffer
  <2>3. PICK q \in Prefix, j \in 1 .. Pairs : l = Half(q, j) \/ l = Pair(q, j)
    BY <1>0, <2>2
  <2>4. l = Pair(q, j) /\ q = p /\ j = k
    BY <1>0, <2>1, <2>3, PairsDiffer
  <2> QED BY <2>4
<1>5. \A p \in Prefix, k \in 1 .. Pairs : Pair(p, k) \in links =>
         EndOf(p, "c", k) \in Taken /\ EndOf(p, "s", k) \in Taken
  BY DEF Taken, Pair
<1>6. \A p \in Prefix, k \in 1 .. Pairs : Half(p, k) \in links => EndOf(p, "c", k) \in Taken
  BY DEF Taken, Half
<1> QED BY <1>1, <1>2, <1>3, <1>4, <1>5, <1>6

\* The commands that make pairs, from their places in the program.
LEMMA PairCommand ==
    ASSUME ShellInv, NEW p \in Prefix, ~Idle(p), shell[p].is = "rising", NEW k \in 1 .. Pairs
    PROVE  /\ Risen(p) + 1 = 3 * k + 2 => Current(p).op = "veth_add"
           /\ Risen(p) + 1 = 3 * k + 3 =>
                 Current(p).op = "veth_assign" /\ Current(p).role = "c" /\ Current(p).k = k
           /\ Risen(p) + 1 = 3 * k + 4 =>
                 Current(p).op = "veth_assign" /\ Current(p).role = "s" /\ Current(p).k = k
<1> DEFINE n == Risen(p)
           c == Current(p).role
           j == Current(p).k
           topo == TopoOf[p]
<1>1. n \in Nat /\ c \in {"c", "s"} /\ j \in Nat /\ k \in Nat /\ k <= Pairs /\ k >= 1 /\ Pairs \in Nat
  BY NextCommand, CommandArgs, Constants
<1>2. Placed(p)
  BY CommandPlaced
<1>3. CreateAt(c) \in {1, 3} /\ (topo # "plain" => GroupAt(topo, c) >= 5 + 3 * Pairs)
  BY <1>1 DEF CreateAt, GroupAt, First, Wiring
<1>4. topo # "plain" => PortAt(topo, c, j) >= 5 + 3 * Pairs
  BY <1>1 DEF PortAt, GroupAt, Wiring
<1>5. j \in (IF topo = "plain" THEN 1 .. Pairs ELSE {0}) => AddrAt(topo, c, j) >= 5 + 3 * Pairs
  BY <1>1 DEF AddrAt, First, Wiring
<1>6. \/ n + 1 < 5 \/ n + 1 >= 5 + 3 * Pairs
      \/ Current(p).op = "veth_add" /\ n + 1 = 3 * j + 2
      \/ Current(p).op = "veth_assign" /\ n + 1 = 3 * j + IF c = "c" THEN 3 ELSE 4
  BY <1>1, <1>2, <1>3, <1>4, <1>5 DEF Placed
<1> HIDE DEF n, c, j
<1>7. /\ n + 1 = 3 * k + 2 => Current(p).op = "veth_add"
      /\ n + 1 = 3 * k + 3 => Current(p).op = "veth_assign" /\ c = "c" /\ j = k
      /\ n + 1 = 3 * k + 4 => Current(p).op = "veth_assign" /\ c = "s" /\ j = k
  BY <1>1, <1>6
<1> QED BY <1>7 DEF n, c, j

\* The other commands of a set up, from theirs.
LEMMA RoleCommand ==
    ASSUME ShellInv, NEW p \in Prefix, ~Idle(p), shell[p].is = "rising", NEW r \in Roles
    PROVE  /\ Risen(p) + 1 = CreateAt(r) => Current(p).op = "run_create" /\ Current(p).role = r
           /\ Risen(p) + 1 = CreateAt(r) + 1 => Current(p).op = "ns_add" /\ Current(p).role = r
           /\ TopoOf[p] # "plain" =>
                 /\ Risen(p) + 1 = GroupAt(TopoOf[p], r) =>
                       Current(p).op = TopoOf[p] /\ Current(p).role = r
                 /\ \A k \in 1 .. Pairs : Risen(p) + 1 = PortAt(TopoOf[p], r, k) =>
                       Current(p).op = "port" /\ Current(p).role = r /\ Current(p).k = k
           /\ \A k \in Names(p) : Risen(p) + 1 = AddrAt(TopoOf[p], r, k) =>
                 Current(p).op = "addr" /\ Current(p).role = r /\ Current(p).k = k
<1> DEFINE n == Risen(p)
           o == Current(p).op
           c == Current(p).role
           j == Current(p).k
           topo == TopoOf[p]
<1>1. /\ n \in Nat /\ c \in {"c", "s"} /\ r \in {"c", "s"} /\ j \in Nat /\ j <= Pairs
      /\ Pairs \in Nat /\ Pairs >= 1 /\ topo \in {"plain", "bridge", "team"}
  BY NextCommand, CommandArgs, Constants
<1>2. Placed(p)
  BY CommandPlaced
<1>3. \/ o = "run_create" /\ n + 1 = CreateAt(c)
      \/ o = "ns_add" /\ n + 1 = CreateAt(c) + 1
      \/ n + 1 >= 5 /\ n + 1 <= 4 + 3 * Pairs
      \/ o = topo /\ topo # "plain" /\ n + 1 = GroupAt(topo, c)
      \/ o = "port" /\ topo # "plain" /\ j >= 1 /\ n + 1 = PortAt(topo, c, j)
      \/ o = "addr" /\ j \in (IF topo = "plain" THEN 1 .. Pairs ELSE {0}) /\ n + 1 = AddrAt(topo, c, j)
  BY <1>1, <1>2 DEF Placed
<1> HIDE DEF n, o, c, j, topo
<1>4. ASSUME topo = "plain"
      PROVE  /\ n + 1 = CreateAt(r) => o = "run_create" /\ c = r
             /\ n + 1 = CreateAt(r) + 1 => o = "ns_add" /\ c = r
             /\ \A k \in 1 .. Pairs : n + 1 = AddrAt(topo, r, k) => o = "addr" /\ c = r /\ j = k
  BY <1>1, <1>3, <1>4 DEF CreateAt, AddrAt, First, Wiring
<1>5. ASSUME topo = "bridge"
      PROVE  /\ n + 1 = CreateAt(r) => o = "run_create" /\ c = r
             /\ n + 1 = CreateAt(r) + 1 => o = "ns_add" /\ c = r
             /\ n + 1 = GroupAt(topo, r) => o = topo /\ c = r
             /\ \A k \in 1 .. Pairs : n + 1 = PortAt(topo, r, k) => o = "port" /\ c = r /\ j = k
             /\ n + 1 = AddrAt(topo, r, 0) => o = "addr" /\ c = r /\ j = 0
  BY <1>1, <1>3, <1>5 DEF CreateAt, GroupAt, PortAt, AddrAt, First, Wiring
<1>6. ASSUME topo = "team"
      PROVE  /\ n + 1 = CreateAt(r) => o = "run_create" /\ c = r
             /\ n + 1 = CreateAt(r) + 1 => o = "ns_add" /\ c = r
             /\ n + 1 = GroupAt(topo, r) => o = topo /\ c = r
             /\ \A k \in 1 .. Pairs : n + 1 = PortAt(topo, r, k) => o = "port" /\ c = r /\ j = k
             /\ n + 1 = AddrAt(topo, r, 0) => o = "addr" /\ c = r /\ j = 0
  BY <1>1, <1>3, <1>6 DEF CreateAt, GroupAt, PortAt, AddrAt, First, Wiring
<1>7. /\ n + 1 = CreateAt(r) => o = "run_create" /\ c = r
      /\ n + 1 = CreateAt(r) + 1 => o = "ns_add" /\ c = r
      /\ topo # "plain" =>
            /\ n + 1 = GroupAt(topo, r) => o = topo /\ c = r
            /\ \A k \in 1 .. Pairs : n + 1 = PortAt(topo, r, k) => o = "port" /\ c = r /\ j = k
      /\ \A k \in (IF topo = "plain" THEN 1 .. Pairs ELSE {0}) :
            n + 1 = AddrAt(topo, r, k) => o = "addr" /\ c = r /\ j = k
  BY <1>1, <1>4, <1>5, <1>6
<1> QED BY <1>7 DEF n, o, c, j, topo, Names

\* A new pair is on the host, or one that is there already is that of this step.
LEMMA AddMakes ==
    ASSUME SetupInv, NEW p \in Prefix, Command(p), shell[p].is = "rising", NEW k \in 1 .. Pairs,
           Risen(p) + 1 = 3 * k + 2
    PROVE  Pair(p, k) \in links' \/ Half(p, k) \in links' \/ Fresh \in links'
<1>1. ~Idle(p) /\ VethAdd(p) /\ Risen(p) \in Nat
  BY CommandAdvances, PairCommand, ActionOf, NextCommand DEF SetupInv, CleanInv, GenInv
<1>2. CASE Fresh \cap Taken = {}
  BY <1>1, <1>2 DEF VethAdd, Fresh, HostEnd
<1>3. CASE Fresh \cap Taken # {}
  <2>1. links' = links
    BY <1>1, <1>3 DEF VethAdd, Fresh, HostEnd
  <2>2. PICK l \in links : HostEnd(0) \in l \/ HostEnd(1) \in l
    BY <1>3 DEF Fresh, Taken
  <2>3. CASE l = Fresh
    BY <2>1, <2>3
  <2>4. CASE l # Fresh
    <3>1. PICK q \in Prefix, j \in 1 .. Pairs : l = Half(q, j)
      BY <2>2, <2>4, LinkOf
    <3>2. Half(p, j) \in links
      BY <1>1, <2>2, <3>1, HalfIsOwn
    <3>3. CASE j = k
      BY <2>1, <3>2, <3>3
    <3>4. CASE j > k
      <4>1. k \in 1 .. j - 1
        BY <3>4, Constants
      <4> QED BY <2>1, <3>2, <4>1 DEF SetupInv, PairInv
    <3>5. CASE j < k
      <4>1. Risen(p) >= 3 * j + 4
        BY <1>1, <3>5, Constants
      <4>2. Pair(p, j) \in links
        BY <4>1 DEF SetupInv, RiseInv, PairRises
      <4> QED BY <3>2, <4>2, PairsDiffer DEF SetupInv, CleanInv, GenInv
    <3> QED BY <3>3, <3>4, <3>5, Constants
  <2> QED BY <2>3, <2>4
<1> QED BY <1>2, <1>3

\* veth0 goes to the client's side.
LEMMA AssignClient ==
    ASSUME SetupInv, NEW p \in Prefix, Command(p), shell[p].is = "rising", NEW k \in 1 .. Pairs,
           Risen(p) + 1 = 3 * k + 3
    PROVE  /\ Pair(p, k) \in links' \/ Half(p, k) \in links'
           /\ links' = links \/ links' = (links \ {Fresh}) \cup {Half(p, k)}
<1>0. LinkInv /\ ShellInv
  BY DEF SetupInv, CleanInv, GenInv
<1>1. /\ ~Idle(p) /\ VethAssign(p) /\ Risen(p) \in Nat
      /\ Current(p).role = "c" /\ Current(p).k = k
  BY <1>0, CommandAdvances, PairCommand, ActionOf, NextCommand
<1> DEFINE from == HostEnd(0)
           to == EndOf(p, "c", k)
<1>2. links' = IF from \in Taken /\ Ns(p) \in nss /\ to \notin Taken
               THEN {IF from \in l THEN (l \ {from}) \cup {to} ELSE l : l \in links} ELSE links
  BY <1>1 DEF VethAssign, HostEnd, EndOf, Orig, Ns
<1>3. CASE from \in Taken /\ Ns(p) \in nss /\ to \notin Taken
  <2>1. Fresh \in links /\ from \in Fresh
    BY <1>3, LinkOf DEF Taken
  <2>2. (Fresh \ {from}) \cup {to} = Half(p, k)
    BY Constants, DevicesDiffer DEF Fresh, Half
  <2>3. links' = (links \ {Fresh}) \cup {(Fresh \ {from}) \cup {to}}
    <3> DEFINE m == Fresh
    <3>1. m \in links /\ from \in m
      BY <2>1
    <3> HIDE DEF from, to, m
    <3>2. \A l \in links : from \in l <=> l = m
      BY <1>0, <3>1 DEF LinkInv
    <3>3. links' = (links \ {m}) \cup {(m \ {from}) \cup {to}}
      BY <1>2, <1>3, <3>1, <3>2
    <3> QED BY <3>3 DEF m
  <2> QED BY <2>2, <2>3
<1>4. CASE ~(from \in Taken /\ Ns(p) \in nss /\ to \notin Taken)
  <2>1. links' = links
    BY <1>2, <1>4
  <2>2. Pair(p, k) \in links \/ Half(p, k) \in links \/ Fresh \in links
    <3>1. Risen(p) = 3 * k + 2
      BY <1>1, Constants
    <3> QED BY <3>1 DEF SetupInv, RiseInv, PairRises
  <2>3. CASE Fresh \in links
    <3>1. from \in Taken
      BY <2>3 DEF Taken, Fresh
    <3>2. Ns(p) \in nss
      <4>1. Risen(p) >= CreateAt("c") + 1
        BY <1>1, Constants DEF CreateAt, First
      <4> QED BY <1>1, <4>1, Constants DEF Ns, SetupInv, RiseInv, RoleRises
    <3>3. to \in Taken
      BY <1>4, <3>1, <3>2
    <3> QED BY <2>1, <3>3, LinkOf
  <2> QED BY <2>1, <2>2, <2>3
<1> QED BY <1>3, <1>4, <1>0

\* veth1 to the server's: the pair is in its place.
LEMMA AssignServer ==
    ASSUME SetupInv, NEW p \in Prefix, Command(p), shell[p].is = "rising", NEW k \in 1 .. Pairs,
           Risen(p) + 1 = 3 * k + 4
    PROVE  /\ Pair(p, k) \in links'
           /\ links' = links \/ links' = (links \ {Half(p, k)}) \cup {Pair(p, k)}
<1>0. LinkInv /\ ShellInv
  BY DEF SetupInv, CleanInv, GenInv
<1>1. /\ ~Idle(p) /\ VethAssign(p) /\ Risen(p) \in Nat
      /\ Current(p).role = "s" /\ Current(p).k = k
  BY <1>0, CommandAdvances, PairCommand, ActionOf, NextCommand
<1> DEFINE from == HostEnd(1)
           to == EndOf(p, "s", k)
<1>2. links' = IF from \in Taken /\ Ns(p) \in nss /\ to \notin Taken
               THEN {IF from \in l THEN (l \ {from}) \cup {to} ELSE l : l \in links} ELSE links
  BY <1>1 DEF VethAssign, HostEnd, EndOf, Orig, Ns
<1>3. Risen(p) = 3 * k + 3
  BY <1>1, Constants
<1>4. CASE Pair(p, k) \in links
  BY <1>2, <1>4, LinkOf
<1>5. CASE Half(p, k) \in links
  <2>1. from \in Taken /\ from \in Half(p, k)
    BY <1>5 DEF Taken, Half
  <2>2. Ns(p) \in nss
    <3>1. Risen(p) >= CreateAt("s") + 1
      BY <1>1, <1>3, Constants DEF CreateAt, First
    <3> QED BY <1>1, <3>1, Constants DEF Ns, SetupInv, RiseInv, RoleRises
  <2>3. to \notin Taken
    BY <1>0, <1>5, LinkOf, PairsDiffer
  <2>4. (Half(p, k) \ {from}) \cup {to} = Pair(p, k)
    <3>1. EndOf(p, "c", k) # from
      BY Constants, DevicesDiffer
    <3> QED BY <3>1 DEF Half, Pair
  <2>5. links' = (links \ {Half(p, k)}) \cup {(Half(p, k) \ {from}) \cup {to}}
    <3>1. links' = {IF from \in l THEN (l \ {from}) \cup {to} ELSE l : l \in links}
      BY <1>2, <2>1, <2>2, <2>3
    <3> DEFINE m == Half(p, k)
    <3>2. m \in links /\ from \in m
      BY <1>5, <2>1
    <3> HIDE DEF from, to, m
    <3>3. \A l \in links : from \in l <=> l = m
      BY <1>0, <3>2 DEF LinkInv
    <3>4. links' = (links \ {m}) \cup {(m \ {from}) \cup {to}}
      BY <3>1, <3>2, <3>3
    <3> QED BY <3>4 DEF m
  <2> QED BY <2>4, <2>5
<1> QED BY <1>3, <1>4, <1>5 DEF SetupInv, RiseInv, PairRises

\* A namespace goes only when no pair is half way.
LEMMA NoHalfAfterDel ==
    ASSUME SetupInv, NEW p \in Prefix, NsDel(p), NEW q \in Prefix, NEW k \in 1 .. Pairs
    PROVE  Half(q, k) \notin links'
<1> SUFFICES ASSUME Half(q, k) \in links' PROVE FALSE
  OBVIOUS
<1>0. LinkInv /\ ShellInv /\ PlaceInv
  BY DEF SetupInv, CleanInv, GenInv
<1>1. ~Idle(p) /\ Current(p).op = "ns_del"
  BY DEF NsDel, Runs
<1>2. PlaceGone(Ns(p)) /\ nss' = nss \ {Ns(p)}
  BY NoOrphan DEF SetupInv
<1>3. Half(q, k) \in links /\ \A e \in Half(q, k) : e[1] # Ns(p)
  <2>1. links' = links \ {l \in links : \E e \in l : e[1] = Ns(p)}
    BY <1>2 DEF PlaceGone
  <2> QED BY <2>1
<1>4. q = p
  BY <1>1, <1>3, HalfIsOwn
<1>5. EndOf(p, "c", k) \in Taken /\ EndOf(p, "c", k)[1] = <<p, "c">> /\ Ns(p) # <<p, "c">>
  BY <1>3, <1>4 DEF Taken, Half, EndOf
<1>6. <<p, "c">> \in nss
  BY <1>0, <1>5, PlacesDiffer, Constants DEF PlaceInv
<1>7. /\ shell[p].is = "falling" /\ Fallen(p) + 1 = DelAt(TopoOf[p], Current(p).role)
      /\ Fallen(p) \in Nat /\ Current(p).role = "s"
  BY <1>0, <1>1, <1>5, CommandPlaced, CommandArgs, NextCommand, Constants DEF Placed, Ns
<1>8. Fallen(p) >= DelAt(TopoOf[p], "c")
  BY <1>7 DEF DelAt, First
<1> QED BY <1>6, <1>8, Constants DEF SetupInv, CleanInv, FallInv

\* No command leaves a pair elsewhere, or half way behind one that is missing.
LEMMA PairKept ==
    ASSUME SetupInv, NEW p \in Prefix, Command(p)
    PROVE  PairInv'
<1>0. ShellInv /\ LinkInv /\ ~Idle(p) /\ PairInv
  BY CommandAdvances DEF SetupInv, CleanInv, GenInv
<1>1. ASSUME \A l \in links' : l \in links \/ l = Fresh
                             \/ \E q \in Prefix : \E k \in 1 .. Pairs : l = Half(q, k) \/ l = Pair(q, k),
             \A q \in Prefix : \A k \in 1 .. Pairs :
                Half(q, k) \in links' => \A j \in 1 .. k - 1 : Pair(q, j) \in links'
      PROVE  PairInv'
  BY <1>0, <1>1 DEF PairInv
<1>2. ASSUME links' = links PROVE PairInv'
  BY <1>0, <1>2 DEF PairInv
<1>3. ASSUME shell[p].is = "rising", NEW q \in Prefix, NEW k \in 1 .. Pairs, Half(q, k) \in links
      PROVE  \A j \in 1 .. k - 1 : Pair(q, j) \in links'
  <2> TAKE j \in 1 .. k - 1
  <2>1. j \in 1 .. Pairs
    BY Constants
  <2>2. Pair(q, j) \in links
    BY <1>0, <1>3 DEF PairInv
  <2> QED BY <1>3, <2>1, <2>2, Grows
<1>4. CASE VethAdd(p)
  <2>1. links' = links \/ links' = links \cup {Fresh}
    BY <1>4 DEF VethAdd, Fresh, HostEnd
  <2>2. \A q \in Prefix : \A k \in 1 .. Pairs : Half(q, k) # Fresh
    BY <1>0, PairsDiffer
  <2>3. \A q \in Prefix : \A k \in 1 .. Pairs : Half(q, k) \in links' =>
           \A j \in 1 .. k - 1 : Pair(q, j) \in links'
    BY <1>0, <2>1, <2>2 DEF PairInv
  <2> QED BY <1>1, <2>1, <2>3
<1>5. CASE VethAssign(p)
  <2> DEFINE k == Current(p).k
  <2>1. /\ shell[p].is = "rising" /\ k \in 1 .. Pairs /\ Risen(p) \in Nat
        /\ Risen(p) + 1 = 3 * k + 3 \/ Risen(p) + 1 = 3 * k + 4
    BY <1>0, <1>5, CommandPlaced, NextCommand, Constants DEF VethAssign, Runs, Placed
  <2> HIDE DEF k
  <2>2. CASE Risen(p) + 1 = 3 * k + 3
    <3>1. links' = links \/ links' = (links \ {Fresh}) \cup {Half(p, k)}
      BY <2>1, <2>2, AssignClient
    <3>2. ASSUME NEW q \in Prefix, NEW i \in 1 .. Pairs, Half(q, i) = Half(p, k)
          PROVE  \A j \in 1 .. i - 1 : Pair(q, j) \in links'
      <4> TAKE j \in 1 .. i - 1
      <4>1. q = p /\ i = k
        <5>1. EndOf(q, "c", i) \in Half(p, k)
          BY <3>2 DEF Half
        <5> QED BY <1>0, <2>1, <5>1, PairsDiffer
      <4>2. j \in 1 .. Pairs /\ Risen(p) >= 3 * j + 4
        BY <2>1, <2>2, <4>1, Constants
      <4>3. Pair(p, j) \in links
        BY <4>2 DEF SetupInv, RiseInv, PairRises
      <4> QED BY <2>1, <4>1, <4>2, <4>3, Grows
    <3>3. \A q \in Prefix : \A i \in 1 .. Pairs : Half(q, i) \in links' =>
             \A j \in 1 .. i - 1 : Pair(q, j) \in links'
      BY <1>3, <2>1, <3>1, <3>2
    <3> QED BY <1>1, <2>1, <3>1, <3>3
  <2>3. CASE Risen(p) + 1 = 3 * k + 4
    <3>1. links' = links \/ links' = (links \ {Half(p, k)}) \cup {Pair(p, k)}
      BY <2>1, <2>3, AssignServer
    <3>2. \A q \in Prefix : \A i \in 1 .. Pairs : Half(q, i) # Pair(p, k)
      <4> TAKE q \in Prefix
      <4> TAKE i \in 1 .. Pairs
      <4>1. HostEnd(1) \in Half(q, i)
        BY DEF Half
      <4> QED BY <1>0, <2>1, <4>1, PairsDiffer
    <3>3. \A q \in Prefix : \A i \in 1 .. Pairs : Half(q, i) \in links' =>
             \A j \in 1 .. i - 1 : Pair(q, j) \in links'
      BY <1>3, <2>1, <3>1, <3>2
    <3> QED BY <1>1, <2>1, <3>1, <3>3
  <2> QED BY <2>1, <2>2, <2>3
<1>6. CASE TeamDestroy(p)
  <2>1. daemon[Current(p).role] # Orphan(Current(p).role)
    BY <1>0, CommandArgs DEF SetupInv, CleanInv, TeamInv
  <2>2. links' = links
    BY <1>6, <2>1 DEF TeamDestroy
  <2> QED BY <1>2, <2>2
<1>7. CASE NsDel(p)
  <2>1. links' \subseteq links
    BY <1>7, NoOrphan DEF SetupInv, PlaceGone
  <2>2. \A q \in Prefix : \A k \in 1 .. Pairs : Half(q, k) \notin links'
    BY <1>7, NoHalfAfterDel
  <2> QED BY <1>1, <2>1, <2>2
<1>8. VethAdd(p) \/ VethAssign(p) \/ TeamDestroy(p) \/ NsDel(p) \/ links' = links
  BY DEF Command, RunCreate, NsAdd, BridgeCreate, TeamCreate, PortAdd, AddrAssign, BridgeDestroy,
         Unset, host
<1> QED BY <1>2, <1>4, <1>5, <1>6, <1>7, <1>8

\* Addresses are for the bridge or team, or for the pairs where there is none.
LEMMA AddrKept ==
    ASSUME SetupInv, NEW p \in Prefix, Command(p)
    PROVE  AddrInv'
<1>0. ShellInv /\ ~Idle(p) /\ AddrInv /\ Current(p).role \in Roles /\ Ns(p) = <<p, Current(p).role>>
  BY CommandAdvances, CommandArgs DEF SetupInv, CleanInv, GenInv, Ns
<1>1. ASSUME addrs' \subseteq addrs PROVE AddrInv'
  BY <1>0, <1>1 DEF AddrInv
<1>2. CASE AddrAssign(p)
  <2> DEFINE k == Current(p).k
             dev == <<Ns(p), IF k = 0 THEN Master ELSE Eth(k)>>
  <2>1. k \in IF TopoOf[p] = "plain" THEN 1 .. Pairs ELSE {0}
    BY <1>0, <1>2, CommandPlaced, Constants DEF AddrAssign, Runs, Placed
  <2>2. addrs' = addrs \/ addrs' = addrs \cup {dev}
    BY <1>2 DEF AddrAssign
  <2>3. dev[1] = <<p, Current(p).role>> /\ dev[2] = IF k = 0 THEN Master ELSE Eth(k)
    BY <1>0
  <2>4. IF TopoOf[p] = "plain" THEN \E i \in 1 .. Pairs : dev[2] = Eth(i) ELSE dev[2] = Master
    BY <2>1, <2>3, Constants
  <2> HIDE DEF dev
  <2> QED BY <1>0, <2>2, <2>3, <2>4 DEF AddrInv
<1>3. CASE BridgeDestroy(p)
  BY <1>1, <1>3 DEF BridgeDestroy, MasterGone
<1>4. CASE TeamDestroy(p)
  <2>1. daemon[Current(p).role] # Orphan(Current(p).role)
    BY <1>0 DEF SetupInv, CleanInv, TeamInv
  <2> QED BY <1>1, <1>4, <2>1 DEF TeamDestroy, MasterGone
<1>5. CASE NsDel(p)
  BY <1>1, <1>5, NoOrphan DEF SetupInv, PlaceGone
<1>6. AddrAssign(p) \/ BridgeDestroy(p) \/ TeamDestroy(p) \/ NsDel(p) \/ addrs' = addrs
  BY DEF Command, RunCreate, NsAdd, VethAdd, VethAssign, BridgeCreate, TeamCreate, PortAdd, Unset, host
<1> QED BY <1>1, <1>2, <1>3, <1>4, <1>5, <1>6
-----------------------------------------------------------------------------
(* The sides, and the topologies of the others. *)

\* What stays of the topology of q, whoever runs a command: a set up destroys
\* nothing, a clean nothing of other prefixes.
LEMMA Kept ==
    ASSUME SetupInv, OneTeam, NEW p \in Prefix, Command(p), NEW q \in Prefix,
           q # p \/ shell[p].is = "rising"
    PROVE  /\ \A r \in Roles : /\ <<q, r>> \in nss => <<q, r>> \in nss'
                               /\ Grouped(q, r) => Grouped(q, r)'
           /\ \A k \in 1 .. Pairs : Pair(q, k) \in links => Pair(q, k) \in links'
           /\ \A r \in Roles : \A k \in 1 .. Pairs : EndOf(q, r, k) \in ports => EndOf(q, r, k) \in ports'
           /\ \A r \in Roles : \A k : <<<<q, r>>, Device(k)>> \in addrs => <<<<q, r>>, Device(k)>> \in addrs'
<1>1. shell[p].is \in {"rising", "falling"}
  BY CommandAdvances, NextCommand DEF SetupInv, CleanInv, GenInv
<1>2. CASE shell[p].is = "rising"
  <2>1. \A r \in Roles : Grouped(q, r) => Grouped(q, r)'
    BY <1>2, Grows, PlacesDiffer DEF Grouped
  <2> QED BY <1>2, <2>1, Grows
<1>3. CASE shell[p].is = "falling"
  <2>1. q \in Prefix \ {p}
    BY <1>3
  <2>2. /\ \A r \in Roles : /\ <<q, r>> \in nss => <<q, r>> \in nss'
                            /\ Grouped(q, r) => Grouped(q, r)'
        /\ \A k \in 1 .. Pairs : Pair(q, k) \in links => Pair(q, k) \in links'
        /\ \A e \in ports : e[1] \in {q} \X Roles => e \in ports'
        /\ \A d \in addrs : d[1] \in {q} \X Roles => d \in addrs'
    BY <1>3, <2>1, Foreign
  <2>3. \A r \in Roles : \A k : <<<<q, r>>, Device(k)>>[1] \in {q} \X Roles /\ EndOf(q, r, k)[1] \in {q} \X Roles
    BY DEF EndOf
  <2> QED BY <2>2, <2>3
<1> QED BY <1>1, <1>2, <1>3

\* The pairs of the prefix whose set up goes on.
LEMMA OwnPairs ==
    ASSUME SetupInv, NEW p \in Prefix, Command(p), shell[p].is = "rising", NEW k \in 1 .. Pairs
    PROVE  PairRises(p, k)'
<1>0. ShellInv /\ ~Idle(p)
  BY CommandAdvances DEF SetupInv, CleanInv, GenInv
<1>1. Risen(p)' = Risen(p) + 1 /\ Risen(p) \in Nat /\ k \in Nat
  <2>1. Risen(p)' = Risen(p) + 1
    BY <1>0, CommandShell
  <2>2. Risen(p) \in Nat
    BY <1>0, NextCommand
  <2> QED BY <2>1, <2>2
<1>2. ASSUME Risen(p) + 1 >= 3 * k + 4 PROVE Pair(p, k) \in links'
  <2>1. CASE Risen(p) >= 3 * k + 4
    <3>1. Pair(p, k) \in links
      BY <2>1 DEF SetupInv, RiseInv, PairRises
    <3> QED BY <3>1, Grows
  <2>2. CASE Risen(p) + 1 = 3 * k + 4
    BY <2>2, AssignServer
  <2> QED BY <1>1, <1>2, <2>1, <2>2
<1> QED BY <1>1, <1>2, AssignClient, AddMakes DEF PairRises

\* One side of the prefix whose set up goes on.
LEMMA OwnRole ==
    ASSUME SetupInv, OneTeam, NEW p \in Prefix, Command(p), shell[p].is = "rising", NEW r \in Roles
    PROVE  RoleRises(p, r)'
<1> DEFINE n == Risen(p)
           topo == TopoOf[p]
<1>0. ShellInv /\ LinkInv /\ PlaceInv /\ ~Idle(p)
  BY CommandAdvances DEF SetupInv, CleanInv, GenInv
<1>1. /\ Risen(p)' = n + 1 /\ n \in Nat /\ Pairs \in Nat /\ Pairs >= 1
      /\ r \in {"c", "s"} /\ topo \in {"plain", "bridge", "team"}
  BY <1>0, CommandShell, NextCommand, Constants
<1>2. RoleRises(p, r)
  BY DEF SetupInv, RiseInv
<1>3. Current(p).op # "unset"
  BY <1>0, CommandPlaced, Constants DEF Placed
<1>4. shell[p].fns \subseteq shell'[p].fns
  BY <1>0, <1>3, CommandShell
<1>5. ASSUME n + 1 >= CreateAt(r) PROVE r \in shell'[p].fns
  <2>1. CASE n + 1 = CreateAt(r)
    <3>1. Current(p).op = "run_create" /\ Current(p).role = r
      BY <1>0, <2>1, RoleCommand
    <3>2. shell'[p].fns = shell[p].fns \cup {r}
      BY <1>0, <3>1, CommandShell
    <3> QED BY <3>2
  <2>2. CASE n >= CreateAt(r)
    BY <1>2, <1>4, <2>2 DEF RoleRises
  <2>3. CreateAt(r) \in Nat
    BY <1>1 DEF CreateAt, First
  <2> QED BY <1>1, <1>5, <2>1, <2>2, <2>3
<1>6. ASSUME n + 1 >= CreateAt(r) + 1 PROVE <<p, r>> \in nss'
  <2>1. CASE n + 1 = CreateAt(r) + 1
    <3>1. NsAdd(p) /\ Current(p).role = r
      BY <1>0, <2>1, RoleCommand, ActionOf
    <3> QED BY <3>1 DEF NsAdd, Ns
  <2>2. CASE n >= CreateAt(r) + 1
    BY <1>2, <2>2, Grows DEF RoleRises
  <2>3. CreateAt(r) \in Nat
    BY <1>1 DEF CreateAt, First
  <2> QED BY <1>1, <1>6, <2>1, <2>2, <2>3
\* From the fifth command on, this side's commands find its namespace.
<1>7. ASSUME n >= Wiring, Current(p).role = r PROVE Enters(p) /\ Ns(p) = <<p, r>>
  <2>1. n >= CreateAt(r) + 1 /\ n >= CreateAt(r)
    BY <1>1, <1>7, Constants DEF CreateAt, First
  <2> QED BY <1>2, <1>7, <2>1 DEF RoleRises, Enters, Ns
<1>8. ASSUME topo # "plain", n + 1 >= GroupAt(topo, r) PROVE Grouped(p, r)'
  <2>1. CASE n >= GroupAt(topo, r)
    BY <1>2, <1>8, <2>1, Kept DEF RoleRises
  <2>2. CASE n + 1 = GroupAt(topo, r)
    <3>1. Current(p).op = topo /\ Current(p).role = r /\ n >= Wiring
      <4>1. GroupAt(topo, r) >= Wiring + 1
        BY <1>1, Constants DEF GroupAt
      <4> QED BY <1>0, <1>1, <1>8, <2>2, <4>1, RoleCommand, Constants
    <3>2. Enters(p) /\ Ns(p) = <<p, r>>
      BY <1>7, <3>1
    <3>3. CASE topo = "bridge"
      <4>1. BridgeCreate(p)
        BY <3>1, <3>3, ActionOf
      <4> QED BY <3>2, <3>3, <4>1 DEF BridgeCreate, Grouped
    <3>4. CASE topo = "team"
      <4>1. TeamCreate(p)
        BY <3>1, <3>4, ActionOf
      <4>2. CASE daemon[r] = Nowhere
        BY <1>0, <3>1, <3>2, <3>4, <4>1, <4>2 DEF TeamCreate, Grouped, PlaceInv
      <4>3. CASE daemon[r] # Nowhere
        <5>1. daemon[r] # Orphan(r) /\ \A q \in Prefix : daemon[r] = <<q, r>> => TopoOf[q] = "team"
          BY DEF SetupInv, CleanInv, TeamInv
        <5>2. daemon[r] \in nss
          <6>1. daemon[r] \in nss \cup {Orphan(q) : q \in Roles} \cup {Nowhere}
            BY <1>0 DEF PlaceInv
          <6> QED BY <1>0, <4>3, <5>1, <6>1 DEF PlaceInv
        <5>3. PICK q \in Prefix : daemon[r] = <<q, r>>
          BY <1>0, <5>2 DEF PlaceInv
        <5>4. q = p
          BY <3>4, <5>1, <5>3 DEF OneTeam
        <5>5. daemon'[r] = daemon[r]
          BY <4>3, <1>2, Grows
        <5> QED BY <3>4, <5>3, <5>4, <5>5 DEF Grouped
      <4> QED BY <4>2, <4>3
    <3> QED BY <1>1, <1>8, <3>3, <3>4
  <2>3. GroupAt(topo, r) \in Nat
    BY <1>1, Constants DEF GroupAt
  <2> QED BY <1>1, <1>8, <2>1, <2>2, <2>3
<1>9. ASSUME topo # "plain", NEW k \in 1 .. Pairs, n + 1 >= PortAt(topo, r, k)
      PROVE  EndOf(p, r, k) \in ports'
  <2>1. CASE n >= PortAt(topo, r, k)
    <3>1. EndOf(p, r, k) \in ports
      BY <1>2, <1>9, <2>1 DEF RoleRises
    <3> QED BY <3>1, Grows
  <2>2. CASE n + 1 = PortAt(topo, r, k)
    <3>1. PortAt(topo, r, k) >= GroupAt(topo, r) + 1 /\ PortAt(topo, r, k) >= Wiring + 2
          /\ GroupAt(topo, r) \in Nat
      BY <1>1, <1>9, Constants DEF PortAt, GroupAt
    <3>2. PortAdd(p) /\ Current(p).role = r /\ Current(p).k = k
      BY <1>0, <1>9, <2>2, RoleCommand, ActionOf
    <3>3. n >= Wiring /\ n >= GroupAt(topo, r) /\ n >= 3 * k + 4
      BY <1>1, <2>2, <3>1, Constants
    <3>4. Enters(p) /\ Ns(p) = <<p, r>>
      BY <1>7, <3>2, <3>3
    <3>5. HasMaster(Ns(p))
      BY <1>2, <1>9, <3>3, <3>4 DEF RoleRises, Grouped, HasMaster
    <3>6. EndOf(p, r, k) \in Taken
      <4>1. Pair(p, k) \in links
        BY <3>3 DEF SetupInv, RiseInv, PairRises
      <4> QED BY <1>1, <4>1, LinkOf
    <3> QED BY <3>2, <3>4, <3>5, <3>6 DEF PortAdd, EndOf
  <2>3. PortAt(topo, r, k) \in Nat
    BY <1>1, Constants DEF PortAt, GroupAt
  <2> QED BY <1>1, <1>9, <2>1, <2>2, <2>3
<1>10. ASSUME NEW k \in Names(p), n + 1 >= AddrAt(topo, r, k)
       PROVE  <<<<p, r>>, Device(k)>> \in addrs'
  <2>1. CASE n >= AddrAt(topo, r, k)
    <3>1. <<<<p, r>>, Device(k)>> \in addrs
      BY <1>2, <1>10, <2>1 DEF RoleRises
    <3> QED BY <3>1, Grows
  <2>2. CASE n + 1 = AddrAt(topo, r, k)
    <3>1. AddrAssign(p) /\ Current(p).role = r /\ Current(p).k = k
      BY <1>0, <1>10, <2>2, RoleCommand, ActionOf
    <3>2. AddrAt(topo, r, k) >= Wiring + 1 /\ (topo = "plain" => k \in 1 .. Pairs) /\ (topo # "plain" => k = 0)
          /\ (topo # "plain" => AddrAt(topo, r, k) >= GroupAt(topo, r) + 1) /\ GroupAt(topo, r) \in Nat
      BY <1>1, <1>10, Constants DEF AddrAt, GroupAt, First, Names
    <3>3. n >= Wiring /\ (topo # "plain" => n >= GroupAt(topo, r)) /\ (topo = "plain" => n >= 3 * k + 4)
      BY <1>1, <2>2, <3>2, Constants
    <3>4. Enters(p) /\ Ns(p) = <<p, r>>
      BY <1>7, <3>1, <3>3
    <3>5. CASE topo = "plain"
      <4>1. Pair(p, k) \in links
        BY <3>2, <3>3, <3>5 DEF SetupInv, RiseInv, PairRises
      <4>2. EndOf(p, r, k) \in Taken /\ k # 0
        BY <1>1, <3>2, <3>5, <4>1, LinkOf
      <4> QED BY <3>1, <3>4, <4>2 DEF AddrAssign, EndOf, Device
    <3>6. CASE topo # "plain"
      <4>1. HasMaster(Ns(p)) /\ k = 0
        BY <1>2, <3>2, <3>3, <3>4, <3>6 DEF RoleRises, Grouped, HasMaster
      <4> QED BY <3>1, <3>4, <4>1 DEF AddrAssign, Device
    <3> QED BY <3>5, <3>6
  <2>3. AddrAt(topo, r, k) \in Nat
    BY <1>1, <1>10, Constants DEF AddrAt, First, Names
  <2> QED BY <1>1, <1>10, <2>1, <2>2, <2>3
<1>11. Names(p)' = Names(p)
  BY DEF Names
<1> QED BY <1>1, <1>5, <1>6, <1>8, <1>9, <1>10, <1>11 DEF RoleRises

\* Nothing is said of a set up that has not begun.
LEMMA NotRisen ==
    ASSUME NEW p \in Prefix, Risen(p)' = 0
    PROVE  /\ \A r \in Roles : RoleRises(p, r)'
           /\ \A k \in 1 .. Pairs : PairRises(p, k)'
<1>1. \A k \in 1 .. Pairs : PairRises(p, k)'
  BY Constants DEF PairRises
<1>2. ASSUME NEW r \in Roles PROVE RoleRises(p, r)'
  <2>1. r \in {"c", "s"} /\ TopoOf[p] \in {"plain", "bridge", "team"}
    BY Constants
  <2>2. CreateAt(r) >= 1 /\ CreateAt(r) + 1 >= 1 /\ GroupAt(TopoOf[p], r) >= 1
    BY <2>1, Constants DEF CreateAt, GroupAt, First
  <2>3. \A k \in 1 .. Pairs : PortAt(TopoOf[p], r, k) >= 1
    BY <2>1, Constants DEF PortAt, GroupAt
  <2>4. \A k \in Names(p) : AddrAt(TopoOf[p], r, k) >= 1
    BY <2>1, Constants DEF AddrAt, First, Names
  <2>5. Names(p)' = Names(p)
    BY DEF Names
  <2>6. CreateAt(r) \in Nat /\ GroupAt(TopoOf[p], r) \in Nat
        /\ (\A k \in 1 .. Pairs : PortAt(TopoOf[p], r, k) \in Nat)
        /\ \A k \in Names(p) : AddrAt(TopoOf[p], r, k) \in Nat
    BY <2>1, Constants DEF CreateAt, AddrAt, PortAt, GroupAt, First, Names
  <2> QED BY <2>2, <2>3, <2>4, <2>5, <2>6 DEF RoleRises
<1> QED BY <1>1, <1>2

\* A prefix that is at rest keeps what its last set up made.
LEMMA OthersRise ==
    ASSUME SetupInv, OneTeam, NEW p \in Prefix, Command(p), NEW q \in Prefix \ {p}
    PROVE  /\ \A r \in Roles : RoleRises(q, r)'
           /\ \A k \in 1 .. Pairs : PairRises(q, k)'
<1>0. ShellInv /\ ~Idle(p)
  BY CommandAdvances DEF SetupInv, CleanInv, GenInv
<1>1. shell'[q] = shell[q] /\ Risen(q)' = Risen(q)
  <2>1. shell'[q] = shell[q]
    BY <1>0, CommandShell
  <2> QED BY <2>1, OthersStay
<1>2. Settled(q)
  BY <1>0 DEF SetupInv, Orders, Settled
<1>3. CASE shell[q].is = "down"
  <2>1. Risen(q)' = 0
    BY <1>1, <1>3 DEF Risen
  <2> QED BY <2>1, NotRisen
<1>4. CASE shell[q].is = "up"
  <2>1. ASSUME NEW k \in 1 .. Pairs PROVE PairRises(q, k)'
    <3>1. Risen(q) >= 3 * k + 4 /\ Risen(q) # 3 * k + 3 /\ Risen(q) # 3 * k + 2
      BY <1>4, SetupLength, Constants DEF Risen
    <3>2. Pair(q, k) \in links
      BY <3>1 DEF SetupInv, RiseInv, PairRises
    <3>3. Pair(q, k) \in links'
      BY <3>2, Kept
    <3> QED BY <1>1, <3>1, <3>3 DEF PairRises
  <2>2. ASSUME NEW r \in Roles PROVE RoleRises(q, r)'
    <3>1. RoleRises(q, r)
      BY DEF SetupInv, RiseInv
    <3>2. /\ <<q, r>> \in nss => <<q, r>> \in nss'
          /\ Grouped(q, r) => Grouped(q, r)'
          /\ \A k \in 1 .. Pairs : EndOf(q, r, k) \in ports => EndOf(q, r, k) \in ports'
          /\ \A k : <<<<q, r>>, Device(k)>> \in addrs => <<<<q, r>>, Device(k)>> \in addrs'
      BY Kept
    <3>3. Names(q)' = Names(q)
      BY DEF Names
    <3> QED BY <1>1, <1>4, <3>1, <3>2, <3>3 DEF RoleRises
  <2> QED BY <2>1, <2>2
<1> QED BY <1>2, <1>3, <1>4 DEF Settled

\* All prefixes, after a command of one.
LEMMA RiseKept ==
    ASSUME SetupInv, OneTeam, NEW p \in Prefix, Command(p)
    PROVE  RiseInv'
<1>0. ShellInv /\ ~Idle(p) /\ shell[p].is \in {"rising", "falling"}
  BY CommandAdvances, NextCommand DEF SetupInv, CleanInv, GenInv
<1>1. CASE shell[p].is = "rising"
  BY <1>1, OwnRole, OwnPairs, OthersRise DEF RiseInv
<1>2. CASE shell[p].is = "falling"
  <2>1. Risen(p)' = 0
    BY <1>0, <1>2, CommandShell
  <2> QED BY <2>1, NotRisen, OthersRise DEF RiseInv
<1> QED BY <1>0, <1>1, <1>2

\* Steps that run no command.
LEMMA RestKept ==
    ASSUME SetupInv, UNCHANGED host,
           \A p \in Prefix :
              \/ Risen(p)' = 0
              \/ Risen(p)' = Risen(p) /\ shell'[p] = shell[p]
              \/ Risen(p)' = Risen(p) /\ shell'[p].is = shell[p].is /\ Idle(p)
    PROVE  PairInv' /\ AddrInv' /\ RiseInv'
<1>1. PairInv' /\ AddrInv'
  BY DEF host, SetupInv, PairInv, AddrInv
<1>2. ASSUME NEW p \in Prefix
      PROVE  /\ \A r \in Roles : RoleRises(p, r)'
             /\ \A k \in 1 .. Pairs : PairRises(p, k)'
  <2>0. /\ \A r \in Roles : RoleRises(p, r)
        /\ \A k \in 1 .. Pairs : PairRises(p, k)
    BY DEF SetupInv, RiseInv
  <2>1. CASE Risen(p)' = 0
    BY <2>1, NotRisen
  <2>2. CASE Risen(p)' = Risen(p) /\ shell'[p].is = shell[p].is /\ (Idle(p) \/ shell'[p] = shell[p])
    <3>1. ASSUME NEW k \in 1 .. Pairs PROVE PairRises(p, k)'
      BY <2>0, <2>2 DEF PairRises, host
    <3>2. ASSUME NEW r \in Roles PROVE RoleRises(p, r)'
      <4>1. Risen(p)' >= CreateAt(r) /\ shell'[p].is = "rising" => r \in shell'[p].fns
        <5>1. CASE shell'[p] = shell[p]
          BY <2>0, <2>2, <5>1 DEF RoleRises
        <5>2. CASE Idle(p) /\ shell[p].is = "rising"
          <6>1. Risen(p)' = 0 /\ ~(0 >= CreateAt(r))
            BY <2>2, <5>2 DEF Risen, CreateAt, First
          <6> QED BY <6>1
        <5> QED BY <2>2, <5>1, <5>2
      <4>2. Names(p)' = Names(p) /\ Grouped(p, r)' = Grouped(p, r)
        BY DEF Names, Grouped, host
      <4> QED BY <2>0, <2>2, <4>1, <4>2 DEF RoleRises, host
    <3> QED BY <3>1, <3>2
  <2> QED BY <2>1, <2>2
<1>3. RiseInv'
  BY <1>2 DEF RiseInv
<1> QED BY <1>1, <1>3

\* Nothing has risen in the beginning.
LEMMA SetupInitially == Init => SetupInv
<1> SUFFICES ASSUME Init PROVE SetupInv
  OBVIOUS
<1>1. Orders /\ \A p \in Prefix : Risen(p) = 0
  BY DEF Init, Orders, Settled, Idle, Risen
<1>2. PairInv /\ AddrInv
  BY DEF Init, PairInv, AddrInv
<1>3. RiseInv
  <2> SUFFICES ASSUME NEW p \in Prefix
               PROVE  /\ \A r \in Roles : RoleRises(p, r)
                      /\ \A k \in 1 .. Pairs : PairRises(p, k)
    BY DEF RiseInv
  <2>1. \A k \in 1 .. Pairs : PairRises(p, k)
    BY <1>1, Constants DEF PairRises
  <2>2. ASSUME NEW r \in Roles PROVE RoleRises(p, r)
    <3>1. r \in {"c", "s"} /\ TopoOf[p] \in {"plain", "bridge", "team"}
      BY Constants
    <3>2. ~(0 >= CreateAt(r)) /\ ~(0 >= CreateAt(r) + 1) /\ ~(0 >= GroupAt(TopoOf[p], r))
      BY <3>1, Constants DEF CreateAt, GroupAt, First
    <3>3. \A k \in 1 .. Pairs : ~(0 >= PortAt(TopoOf[p], r, k))
      BY <3>1, Constants DEF PortAt, GroupAt
    <3>4. \A k \in Names(p) : ~(0 >= AddrAt(TopoOf[p], r, k))
      BY <3>1, Constants DEF AddrAt, First, Names
    <3> QED BY <1>1, <3>2, <3>3, <3>4 DEF RoleRises
  <2> QED BY <2>1, <2>2
<1> QED BY <1>1, <1>2, <1>3, CleanInitially DEF SetupInv

\* Every step keeps it, given the order of work.
LEMMA SetupPreserved ==
    ASSUME Orderly, SameShell, OneTeam PROVE SetupInv /\ [Next]_vars => SetupInv'
<1> SUFFICES ASSUME SetupInv, [Next]_vars PROVE SetupInv'
  OBVIOUS
<1>0. CleanInv' /\ ShellInv /\ Orders
  BY CleanPreserved DEF SetupInv, CleanInv, GenInv
<1>1. CASE UNCHANGED vars
  <2>1. \A p \in Prefix : Risen(p)' = Risen(p) /\ shell'[p] = shell[p] /\ Settled(p)' = Settled(p)
    BY <1>1 DEF vars, Risen, Settled, Idle, Count, Program
  <2>2. Orders'
    BY <1>0, <2>1 DEF Orders
  <2>3. UNCHANGED host
    BY <1>1 DEF vars, host
  <2> QED BY <1>0, <2>1, <2>2, <2>3, RestKept DEF SetupInv
<1>2. ASSUME NEW p \in Prefix, StSetup(p) \/ StClean(p) \/ Interrupt(p) \/ NewShell(p)
      PROVE  SetupInv'
  <2>1. UNCHANGED host
    BY <1>2 DEF StSetup, StClean, Interrupt, NewShell
  <2>2. \A q \in Prefix \ {p} : Risen(q)' = Risen(q) /\ shell'[q] = shell[q]
    <3>1. \A q \in Prefix \ {p} : shell'[q] = shell[q]
      BY <1>0, <1>2, SetupBegins, CleanBegins, Interrupted, StartedAnew
    <3> QED BY <3>1, OthersStay
  <2>3. Risen(p)' = 0 \/ (Risen(p)' = Risen(p) /\ shell'[p].is = shell[p].is /\ Idle(p))
    BY <1>0, <1>2, SetupBegins, CleanBegins, Interrupted, StartedAnew
  <2>4. Orders'
    BY <1>0, <1>2, OrdersKept
  <2> QED BY <1>0, <2>1, <2>2, <2>3, <2>4, RestKept DEF SetupInv
<1>3. ASSUME NEW p \in Prefix, Command(p) PROVE SetupInv'
  BY <1>0, <1>3, OrdersKept, PairKept, AddrKept, RiseKept DEF SetupInv
<1> QED BY <1>1, <1>2, <1>3 DEF Next

\* A set up that has done all its commands has done its work.
LEMMA RisenIsComplete ==
    ASSUME SetupInv, NEW p \in Prefix, shell[p].is = "up"
    PROVE  Wired(p) /\ Mastered(p) /\ Addressed(p)
<1>0. /\ LinkInv /\ TopoOf[p] \in {"plain", "bridge", "team"} /\ Pairs \in Nat /\ Pairs >= 1
      /\ Roles = {"c", "s"}
  BY Constants DEF SetupInv, CleanInv, GenInv
<1>1. /\ Risen(p) = Wiring + 2 * Pairs + IF TopoOf[p] = "plain" THEN 0 ELSE 4
      /\ Wiring = 4 + 3 * Pairs
  BY SetupLength, Constants DEF Risen
<1>2. \A r \in Roles : RoleRises(p, r)
  BY DEF SetupInv, RiseInv
<1>3. \A r \in Roles : <<p, r>> \in nss
  <2> TAKE r \in Roles
  <2>1. Risen(p) >= CreateAt(r) + 1
    BY <1>0, <1>1 DEF CreateAt, First
  <2> QED BY <1>2, <2>1 DEF RoleRises
<1>4. \A k \in 1 .. Pairs : Pair(p, k) \in links
  <2> TAKE k \in 1 .. Pairs
  <2>1. Risen(p) >= 3 * k + 4
    BY <1>0, <1>1
  <2> QED BY <2>1 DEF SetupInv, RiseInv, PairRises
<1>5. Wired(p)
  <2>1. ASSUME NEW l \in links, NEW e \in l, e[1] \in {p} \X Roles
        PROVE  \E k \in 1 .. Pairs : l = Pair(p, k)
    <3>1. e[1] # Host
      BY <2>1, PlacesDiffer
    <3>2. l # Fresh
      BY <3>1 DEF Fresh, HostEnd
    <3>3. PICK q \in Prefix, k \in 1 .. Pairs : l = Half(q, k) \/ l = Pair(q, k)
      BY <3>2 DEF SetupInv, PairInv
    <3>4. e[1] \in {q} \X Roles
      BY <1>0, <3>1, <3>3 DEF Half, Pair, EndOf, HostEnd
    <3>5. q = p
      BY <2>1, <3>4
    <3>6. l # Half(p, k)
      BY <1>0, <1>4, PairsDiffer
    <3> QED BY <3>3, <3>5, <3>6
  <2>2. ASSUME NEW k \in 1 .. Pairs
        PROVE  Pair(p, k) \in links /\ \E e \in Pair(p, k) : e[1] \in {p} \X Roles
    <3>1. EndOf(p, "c", k) \in Pair(p, k) /\ EndOf(p, "c", k)[1] \in {p} \X Roles
      BY <1>0 DEF Pair, EndOf
    <3> QED BY <1>4, <3>1
  <2>3. {l \in links : \E e \in l : e[1] \in {p} \X Roles} = {Pair(p, k) : k \in 1 .. Pairs}
    BY <2>1, <2>2
  <2>4. {p} \X Roles \subseteq nss
    BY <1>3
  <2> QED BY <2>3, <2>4 DEF Wired, Pair, EndOf
<1>6. Mastered(p)
  <2> SUFFICES ASSUME TopoOf[p] # "plain", NEW r \in Roles
               PROVE  HasMaster(<<p, r>>) /\ \A k \in 1 .. Pairs : EndOf(p, r, k) \in ports
    BY DEF Mastered, EndOf
  <2>1. Risen(p) >= GroupAt(TopoOf[p], r)
    BY <1>0, <1>1 DEF GroupAt
  <2>2. Grouped(p, r)
    BY <1>2, <2>1 DEF RoleRises
  <2>3. \A k \in 1 .. Pairs : Risen(p) >= PortAt(TopoOf[p], r, k)
    BY <1>0, <1>1 DEF PortAt, GroupAt
  <2>4. \A k \in 1 .. Pairs : EndOf(p, r, k) \in ports
    BY <1>2, <2>3 DEF RoleRises
  <2> QED BY <2>2, <2>4 DEF Grouped, HasMaster
<1>7. Addressed(p)
  <2> SUFFICES ASSUME NEW r \in Roles
               PROVE  {d[2] : d \in {d \in addrs : d[1] = <<p, r>>}}
                         = IF TopoOf[p] = "plain" THEN {Eth(k) : k \in 1 .. Pairs} ELSE {Master}
    BY DEF Addressed
  <2>1. \A k \in Names(p) : Risen(p) >= AddrAt(TopoOf[p], r, k)
    BY <1>0, <1>1 DEF AddrAt, First, Names
  <2>2. \A k \in Names(p) : <<<<p, r>>, Device(k)>> \in addrs
    BY <1>2, <2>1 DEF RoleRises
  <2>3. ASSUME NEW d \in addrs, d[1] = <<p, r>>
        PROVE  IF TopoOf[p] = "plain" THEN \E k \in 1 .. Pairs : d[2] = Eth(k) ELSE d[2] = Master
    BY <2>3 DEF SetupInv, AddrInv
  <2>4. CASE TopoOf[p] = "plain"
    <3>1. \A k \in 1 .. Pairs : <<<<p, r>>, Eth(k)>> \in addrs
      BY <1>0, <2>2, <2>4 DEF Names, Device
    <3> QED BY <2>3, <2>4, <3>1
  <2>5. CASE TopoOf[p] # "plain"
    <3>1. <<<<p, r>>, Master>> \in addrs
      BY <2>2, <2>5 DEF Names, Device
    <3> QED BY <2>3, <2>5, <3>1
  <2> QED BY <2>4, <2>5
<1> QED BY <1>5, <1>6, <1>7

\* A set up that came to its end gives the whole topology, whatever earlier set ups
\* and cleans left half done, and the topology stays while other prefixes come
\* and go, for every number of prefixes and pairs: provided nothing is begun
\* while another prefix is half set up or clean, teams are cleaned by the shell
\* that set them up, and one prefix uses them.
THEOREM SetupsComplete ==
    ASSUME Orderly, SameShell, OneTeam PROVE Spec => []SetupIsComplete
<1>1. SetupInv => SetupIsComplete
  BY RisenIsComplete DEF SetupIsComplete
<1> QED BY <1>1, SetupInitially, SetupPreserved, PTL DEF Spec
=============================================================================
