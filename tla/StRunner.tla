---------------------------- MODULE StRunner ----------------------------
(***************************************************************************)
(* `sctp-tests run': the loop of st_case_schedule() over a list of cases.  *)
(* Everything happens in one shell, into which the scripts of the cases    *)
(* and of the topologies are sourced: their functions, the variable Topo   *)
(* and the directory stack pass from one case to the next unless the       *)
(* runner takes them back.                                                 *)
(***************************************************************************)
EXTENDS Naturals, Sequences, SequencesExt

CONSTANTS
    Plans,      \* the lists of cases that st_parse_testcase() may yield
    CaseFiles,  \* the case scripts that exist
    TopoFiles,  \* the topology scripts that exist under topos/
    TopoOf,     \* what a case script assigns to Topo; NoTopo when nothing
    Defines,    \* the do_* functions that a case script defines
    DirOf,      \* the directory of a case script
    Including,  \* the case scripts that source a script of their directory
    Pushing,    \* the cases whose functions call pushd and popd unchecked
    Root,       \* the directory in which the run is started
    NoTopo, None

Functions3 == {"do_setup", "do_test", "do_clean"}
Listed == UNION {{p[k] : k \in 1 .. Len(p)} : p \in Plans}

ASSUME PlansAssumption == Plans \subseteq Seq(Listed)
ASSUME CaseAssumption ==
    /\ TopoOf \in [Listed -> TopoFiles \cup {TopoOf[c] : c \in Listed}]
    /\ Defines \in [Listed -> SUBSET Functions3]
    /\ DirOf \in [Listed -> {DirOf[c] : c \in Listed}]
    /\ \A c \in Listed : DirOf[c] # Root
ASSUME NameAssumption == NoTopo \notin TopoFiles /\ None \notin TopoFiles \cup Listed

VARIABLES
    plan,      \* the list that the loop goes through
    idx,       \* how many cases of it have been begun
    stage,     \* where the loop is
    Topo,      \* the shell variable
    topofn,    \* the topology whose st_topo_setup/clean the shell has
    fn,        \* the case whose do_* the shell has, for each of the three
    dirs,      \* the directory stack; the last one is the working directory
    up,        \* the topologies that are set up on the host
    started,   \* the cases that have been set up and not cleaned
    finished   \* the cases that the loop has gone through

vars == <<plan, idx, stage, Topo, topofn, fn, dirs, up, started, finished>>

NoFunctions == [f \in Functions3 |-> None]

Init ==
    /\ plan \in Plans /\ idx = 0 /\ stage = "next"
    /\ Topo = NoTopo /\ topofn = None /\ fn = NoFunctions
    /\ dirs = <<Root>> /\ up = {} /\ started = {} /\ finished = << >>

Case == plan[idx]
Pwd == Last(dirs)

\* bash keeps the last directory: popd fails on a stack of one.
Popd(s) == IF Len(s) > 1 THEN Front(s) ELSE s

\* st_env_pushd with the relative path of a list: it leads nowhere from another
\* directory, and a case that does not exist may lack its directory too.
Pushd(c) ==
    {dirs} \cup (IF Pwd = Root THEN {Append(dirs, DirOf[c])} ELSE {})

BeginCase ==
    /\ stage = "next" /\ idx < Len(plan)
    /\ idx' = idx + 1
    /\ LET c == plan[idx + 1]
       IN  IF c \in CaseFiles /\ Pwd = Root
           THEN dirs' = Append(dirs, DirOf[c])
           ELSE dirs' \in Pushd(c)
    /\ stage' = "validate"
    /\ UNCHANGED <<plan, Topo, topofn, fn, up, started, finished>>

(***************************************************************************)
(* st_case_validate() and, in it, st_topo_validate().  Sourcing replaces   *)
(* what the script defines and leaves everything else as it was.           *)
(***************************************************************************)
Sourced(c) == IF c \in Including /\ Pwd # DirOf[c] THEN {} ELSE Defines[c]

\* A st_topo_validate() that sources only the first topology.
LoadCaseOnce(c) ==
    /\ fn' = [f \in Functions3 |-> IF f \in Sourced(c) THEN c ELSE fn[f]]
    /\ Topo' = IF TopoOf[c] # NoTopo THEN TopoOf[c] ELSE Topo
    /\ topofn' = IF Topo' \in TopoFiles /\ topofn = None THEN Topo' ELSE topofn

LoadCase(c) ==
    /\ fn' = [f \in Functions3 |-> IF f \in Sourced(c) THEN c ELSE fn[f]]
    /\ Topo' = IF TopoOf[c] # NoTopo THEN TopoOf[c] ELSE Topo
    /\ topofn' = IF Topo' \in TopoFiles THEN Topo' ELSE topofn

Validate ==
    /\ stage = "validate" /\ Case \in CaseFiles
    /\ LoadCase(Case)
    /\ stage' = IF Topo' \in TopoFiles \cup {NoTopo} THEN "setup" ELSE "aborted"
    /\ UNCHANGED <<plan, idx, dirs, up, started, finished>>

\* A loop that goes on with the next case.
NoSuchCaseSkipped ==
    /\ stage = "validate" /\ Case \notin CaseFiles
    /\ stage' = "leave"
    /\ UNCHANGED <<plan, idx, Topo, topofn, fn, dirs, up, started, finished>>

\* `|| return 1' ends the whole run.
NoSuchCase ==
    /\ stage = "validate" /\ Case \notin CaseFiles
    /\ stage' = "aborted"
    /\ UNCHANGED <<plan, idx, Topo, topofn, fn, dirs, up, started, finished>>

\* A do_* function whose pushd has failed still does its popd.
Stray(f) == {dirs} \cup (IF fn[f] \in Pushing THEN {Popd(dirs)} ELSE {})

SetupCase ==
    /\ stage = "setup"
    /\ up' = up \cup ({topofn} \ {None})
    /\ started' = started \cup ({fn["do_setup"]} \ {None})
    /\ dirs' \in Stray("do_setup")
    /\ stage' = "test"
    /\ UNCHANGED <<plan, idx, Topo, topofn, fn, finished>>

TestCase ==
    /\ stage = "test"
    /\ dirs' \in Stray("do_test")
    /\ stage' = "clean"
    /\ UNCHANGED <<plan, idx, Topo, topofn, fn, up, started, finished>>

\* A st_do_clean() without its `unset', and one that forgets the topology.
CleanKeepsFunctions ==
    /\ stage = "clean"
    /\ started' = started \ {fn["do_clean"]}
    /\ up' = up \ {topofn}
    /\ stage' = "leave"
    /\ UNCHANGED <<plan, idx, Topo, topofn, fn, dirs, finished>>

CleanLeavesTopology ==
    /\ stage = "clean"
    /\ started' = started \ {fn["do_clean"]}
    /\ Topo' = NoTopo
    /\ fn' = NoFunctions
    /\ stage' = "leave"
    /\ UNCHANGED <<plan, idx, topofn, dirs, up, finished>>

CleanCase ==
    /\ stage = "clean"
    /\ started' = started \ {fn["do_clean"]}
    /\ up' = up \ {topofn}
    /\ Topo' = NoTopo
    /\ fn' = NoFunctions
    /\ stage' = "leave"
    /\ UNCHANGED <<plan, idx, topofn, dirs, finished>>

\* A loop that forgets st_env_popd.
LeaveWithoutPopd ==
    /\ stage = "leave"
    /\ finished' = Append(finished, Case)
    /\ stage' = "next"
    /\ UNCHANGED <<plan, idx, Topo, topofn, fn, dirs, up, started>>

LeaveCase ==
    /\ stage = "leave"
    /\ dirs' = Popd(dirs)
    /\ finished' = Append(finished, Case)
    /\ stage' = "next"
    /\ UNCHANGED <<plan, idx, Topo, topofn, fn, up, started>>

EndOfList ==
    /\ stage = "next" /\ idx = Len(plan)
    /\ stage' = "done"
    /\ UNCHANGED <<plan, idx, Topo, topofn, fn, dirs, up, started, finished>>

Next ==
    \/ BeginCase \/ Validate \/ NoSuchCase \/ SetupCase \/ TestCase \/ CleanCase
    \/ LeaveCase \/ EndOfList

\* The shell goes on; a do_test that hangs is a matter of SnSession.
Spec == Init /\ [][Next]_vars /\ WF_vars(Next)

(***************************************************************************)
(* Properties.                                                             *)
(***************************************************************************)
Stages == {"next", "validate", "setup", "test", "clean", "leave", "done", "aborted"}

\* Every variable has its type.
TypeOK ==
    /\ plan \in Plans /\ idx \in 0 .. Len(plan) /\ stage \in Stages
    /\ topofn \in TopoFiles \cup {None}
    /\ fn \in [Functions3 -> Listed \cup {None}]
    /\ dirs \in Seq({Root} \cup {DirOf[c] : c \in Listed}) /\ dirs # << >>
    /\ up \subseteq TopoFiles /\ started \subseteq Listed
    /\ finished \in Seq(Listed)
    /\ stage \notin {"next", "done"} => idx > 0

\* Between two cases the shell is where the run was started, so that the next
\* relative path of the list leads somewhere, although a case may have popped
\* the directory that st_case_schedule() had pushed for it.
AtRoot == stage \in {"next", "done"} => dirs = <<Root>>

\* A case is set up, tested and cleaned by its own functions: none of another
\* case is left where it defines none, and none of its own is missing.
OwnFunctions ==
    stage \in {"setup", "test", "clean"} =>
        \A f \in Functions3 :
            fn[f] = IF f \in Defines[Case] THEN Case ELSE None

\* Between two cases, and when the run ends or gives up, no topology is up and
\* every case that was set up has been cleaned, if it has a do_clean.
HostClean ==
    stage \in {"next", "done", "aborted"} =>
        /\ up = {}
        /\ \A c \in started : "do_clean" \notin Defines[c]

\* While a case is tested the only topology that is up is the one it names.
OneTopology ==
    stage \in {"test", "clean"} /\ TopoOf[Case] # NoTopo => up = {TopoOf[Case]}

\* A case that names no topology runs on the host itself.
NoneMeansNone ==
    stage \in {"test", "clean"} /\ TopoOf[Case] = NoTopo => up = {}

\* The cases gone through are, in order, those of the list before the first one
\* that cannot be loaded, and the run gets to there.
Loadable(c) == c \in CaseFiles /\ TopoOf[c] \in TopoFiles \cup {NoTopo}

Scheduled ==
    LET before == {k \in 0 .. Len(plan) : \A i \in 1 .. k : Loadable(plan[i])}
    IN  SubSeq(plan, 1, CHOOSE k \in before : \A j \in before : j <= k)

RunsTheList == <>[](finished = Scheduled)
==========================================================================
