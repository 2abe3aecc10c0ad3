-------------------------- MODULE StRunner_proofs --------------------------
(***************************************************************************)
(* Proofs about StRunner for every set of cases and topologies and every   *)
(* list: what one case may leave behind for the next.                      *)
(***************************************************************************)
EXTENDS StRunner, SequenceTheorems, TLAPS

USE DEF Functions3, NoFunctions, Stages

(***************************************************************************)
(* The inductive invariant.  Each conjunct says what one piece of the      *)
(* shell's state is worth at each stage of the loop.                       *)
(***************************************************************************)
AtWork == {"setup", "test", "clean"}

\* The shell is in the directory where it was started or, in a case, in the
\* case's; before the case is sourced it has got there.
DirsInv ==
    /\ stage \in {"next", "done"} => dirs = <<Root>>
    /\ stage = "validate" /\ Case \in CaseFiles => dirs = <<Root, DirOf[Case]>>
    /\ dirs = <<Root>> \/ (idx > 0 /\ dirs = <<Root, DirOf[Case]>>)

\* The functions are those of the case that is at work, and nobody's else.
FnInv ==
    /\ stage \in {"next", "validate", "leave", "done"} => fn = NoFunctions
    /\ OwnFunctions

\* What is set up on the host belongs to the case at work.
HostInv ==
    /\ stage \notin {"test", "clean"} => up = {}
    /\ stage \in {"test", "clean"} => up = {topofn} \ {None}
    /\ stage \in AtWork /\ TopoOf[Case] # NoTopo =>
           topofn = TopoOf[Case] /\ TopoOf[Case] \in TopoFiles
    /\ \A c \in started : "do_clean" \notin Defines[c]
                          \/ (stage \in {"test", "clean"} /\ c = Case)

ShellInv == TypeOK /\ DirsInv /\ FnInv /\ HostInv

\* The case at hand is one of the list.
LEMMA CaseListed ==
    ASSUME TypeOK, idx > 0
    PROVE  Case \in Listed /\ idx \in 1 .. Len(plan)
<1>1. plan \in Plans /\ idx \in 1 .. Len(plan)
  BY PlansAssumption DEF TypeOK
<1> QED BY <1>1 DEF Case, Listed

\* The case that comes next is one of the list.
LEMMA NextListed ==
    ASSUME TypeOK, idx < Len(plan)
    PROVE  plan[idx + 1] \in Listed /\ idx + 1 \in 1 .. Len(plan)
<1>1. plan \in Plans /\ idx + 1 \in 1 .. Len(plan)
  BY PlansAssumption DEF TypeOK
<1> QED BY <1>1 DEF Listed

\* The two directory stacks there are, their tops, and what popd leaves.
LEMMA Stacks ==
    ASSUME NEW d
    PROVE  /\ Last(<<Root>>) = Root /\ Last(<<Root, d>>) = d
           /\ Popd(<<Root>>) = <<Root>> /\ Popd(<<Root, d>>) = <<Root>>
           /\ Append(<<Root>>, d) = <<Root, d>>
<1> DEFINE S == {Root, d}
           r == <<Root>>
           rd == <<Root, d>>
<1>1. r \in Seq(S) /\ rd \in Seq(S) /\ Len(r) = 1 /\ Len(rd) = 2
      /\ r[1] = Root /\ rd[1] = Root /\ rd[2] = d
      /\ Root \in S /\ d \in S
  OBVIOUS
<1> HIDE DEF S, r, rd
<1>2. SubSeq(rd, 1, 1) = r
  <2>1. /\ SubSeq(rd, 1, 1) \in Seq(S) /\ Len(SubSeq(rd, 1, 1)) = 1
        /\ SubSeq(rd, 1, 1)[1] = Root
    BY <1>1, SubSeqProperties, Z3
  <2>2. \A i \in 1 .. Len(r) : SubSeq(rd, 1, 1)[i] = r[i]
    BY <1>1, <2>1
  <2> QED BY <1>1, <2>1, <2>2, SeqEqual
<1>3. Append(r, d) = rd
  <2>1. /\ Append(r, d) \in Seq(S) /\ Len(Append(r, d)) = 2
        /\ Append(r, d)[1] = Root /\ Append(r, d)[2] = d
    <3>1. r \in Seq(S) /\ d \in S
      BY ONLY <1>1
    <3>2. /\ Append(r, d) \in Seq(S)
          /\ Len(Append(r, d)) = Len(r) + 1
          /\ Append(r, d)[Len(r) + 1] = d
      BY ONLY <3>1, AppendProperties, Zenon
    <3>3. \A i \in 1 .. Len(r) : Append(r, d)[i] = r[i]
      <4> TAKE i \in 1 .. Len(r)
      <4> QED BY ONLY <3>1, i \in 1 .. Len(r), AppendProperties, SMT
    <3> QED BY <1>1, <3>2, <3>3
  <2>2. \A i \in 1 .. Len(rd) : Append(r, d)[i] = rd[i]
    BY <1>1, <2>1
  <2> QED BY <1>1, <2>1, <2>2, SeqEqual
<1>4. Last(r) = Root /\ Last(rd) = d
  BY <1>1 DEF Last
<1>5. Popd(r) = r /\ Popd(rd) = r
  BY <1>1, <1>2 DEF Popd, Front
<1> QED BY <1>3, <1>4, <1>5 DEF r, rd

\* Both are stacks of directories.
LEMMA StackTypes ==
    ASSUME NEW c \in Listed
    PROVE  \A s \in {<<Root>>, <<Root, DirOf[c]>>} :
               s \in Seq({Root} \cup {DirOf[e] : e \in Listed}) /\ s # << >>
<1> DEFINE S == {Root} \cup {DirOf[e] : e \in Listed}
<1>1. Root \in S /\ DirOf[c] \in S
  OBVIOUS
<1> HIDE DEF S
<1>2. <<Root>> \in Seq(S) /\ <<Root, DirOf[c]>> \in Seq(S)
  BY <1>1
<1>3. <<Root>> # << >> /\ <<Root, DirOf[c]>> # << >>
  OBVIOUS
<1> QED BY <1>2, <1>3 DEF S

\* A function of a case leaves the shell where it was or at the root.
LEMMA StrayStacks ==
    ASSUME ShellInv, idx > 0, NEW f, dirs' \in Stray(f)
    PROVE  dirs' = <<Root>> \/ dirs' = <<Root, DirOf[Case]>>
  BY Stacks DEF ShellInv, DirsInv, Stray

\* The shell starts with nothing.
LEMMA ShellInit == Init => ShellInv
<1> SUFFICES ASSUME Init PROVE ShellInv
  OBVIOUS
<1>1. plan \in Plans /\ plan \in Seq(Listed)
  BY PlansAssumption DEF Init
<1>2. TypeOK
  BY <1>1 DEF Init, TypeOK
<1> QED BY <1>2 DEF Init, ShellInv, DirsInv, FnInv, HostInv, OwnFunctions, AtWork

LEMMA BeginKeeps == ASSUME ShellInv, BeginCase PROVE ShellInv'
<1> DEFINE c == plan[idx + 1]
<1>1. c \in Listed /\ idx + 1 \in 1 .. Len(plan) /\ idx \in Nat
  BY NextListed, PlansAssumption DEF BeginCase, ShellInv, TypeOK
<1>2. Case' = c /\ plan' = plan /\ idx' = idx + 1
  BY DEF BeginCase, Case
<1>3. dirs = <<Root>> /\ Pwd = Root
  BY Stacks DEF BeginCase, ShellInv, DirsInv, Pwd
<1>4. dirs' = <<Root>> \/ dirs' = <<Root, DirOf[c]>>
  BY <1>3, Stacks DEF BeginCase, Pushd
<1>5. c \in CaseFiles => dirs' = <<Root, DirOf[c]>>
  BY <1>3, Stacks DEF BeginCase
<1>6. TypeOK'
  <2>1. dirs' \in Seq({Root} \cup {DirOf[e] : e \in Listed}) /\ dirs' # << >>
    BY <1>1, <1>4, StackTypes
  <2>2. idx' \in 0 .. Len(plan') /\ idx' > 0 /\ stage' = "validate"
    BY <1>1, <1>2 DEF BeginCase
  <2> QED BY <1>2, <2>1, <2>2 DEF BeginCase, ShellInv, TypeOK
<1>7. DirsInv'
  BY <1>1, <1>2, <1>4, <1>5 DEF BeginCase, DirsInv
<1>8. FnInv' /\ HostInv'
  BY DEF BeginCase, ShellInv, FnInv, HostInv, OwnFunctions, AtWork
<1> QED BY <1>6, <1>7, <1>8 DEF ShellInv

LEMMA ValidateKeeps == ASSUME ShellInv, Validate PROVE ShellInv'
<1>1. Case \in Listed /\ Case \in CaseFiles /\ Case' = Case /\ idx > 0
  BY CaseListed DEF Validate, ShellInv, TypeOK, Case
<1>2. Pwd = DirOf[Case]
  BY <1>1, Stacks DEF Validate, ShellInv, DirsInv, Pwd
<1>3. Sourced(Case) = Defines[Case] /\ Defines[Case] \subseteq Functions3
  BY <1>1, <1>2, CaseAssumption DEF Sourced
<1>4. fn = NoFunctions
  BY DEF Validate, ShellInv, FnInv
<1>5. fn' = [f \in Functions3 |-> IF f \in Defines[Case] THEN Case ELSE None]
  BY <1>3, <1>4 DEF Validate, LoadCase
<1>6. topofn' \in TopoFiles \cup {None}
  BY DEF Validate, LoadCase, ShellInv, TypeOK
<1>7. stage' = "setup" /\ TopoOf[Case] # NoTopo =>
         topofn' = TopoOf[Case] /\ TopoOf[Case] \in TopoFiles
  BY DEF Validate, LoadCase
<1>8. stage' \in {"setup", "aborted"}
  BY DEF Validate
<1>9. TypeOK'
  BY <1>1, <1>5, <1>6, <1>8 DEF Validate, ShellInv, TypeOK
<1>10. DirsInv' /\ FnInv'
  BY <1>1, <1>5, <1>8 DEF Validate, ShellInv, DirsInv, FnInv, OwnFunctions
<1>11. HostInv'
  BY <1>1, <1>7, <1>8 DEF Validate, ShellInv, HostInv, AtWork
<1> QED BY <1>9, <1>10, <1>11 DEF ShellInv

LEMMA NoSuchKeeps == ASSUME ShellInv, NoSuchCase PROVE ShellInv'
<1>1. Case' = Case
  BY DEF NoSuchCase, Case
<1> QED BY <1>1 DEF NoSuchCase, ShellInv, TypeOK, DirsInv, FnInv, HostInv, OwnFunctions, AtWork

LEMMA SetupKeeps == ASSUME ShellInv, SetupCase PROVE ShellInv'
<1>1. Case \in Listed /\ Case' = Case /\ idx > 0
  BY CaseListed DEF SetupCase, ShellInv, TypeOK, Case
<1>2. dirs' = <<Root>> \/ dirs' = <<Root, DirOf[Case]>>
  BY <1>1, StrayStacks DEF SetupCase
<1>3. fn["do_setup"] \in {Case, None}
  BY DEF SetupCase, ShellInv, FnInv, OwnFunctions
<1>4. TypeOK'
  BY <1>1, <1>2, <1>3, StackTypes DEF SetupCase, ShellInv, TypeOK
<1>5. DirsInv' /\ FnInv'
  BY <1>1, <1>2 DEF SetupCase, ShellInv, DirsInv, FnInv, OwnFunctions
<1>6. HostInv'
  BY <1>1, <1>3 DEF SetupCase, ShellInv, HostInv, AtWork
<1> QED BY <1>4, <1>5, <1>6 DEF ShellInv

LEMMA TestKeeps == ASSUME ShellInv, TestCase PROVE ShellInv'
<1>1. Case \in Listed /\ Case' = Case /\ idx > 0
  BY CaseListed DEF TestCase, ShellInv, TypeOK, Case
<1>2. dirs' = <<Root>> \/ dirs' = <<Root, DirOf[Case]>>
  BY <1>1, StrayStacks DEF TestCase
<1>3. TypeOK'
  BY <1>1, <1>2, StackTypes DEF TestCase, ShellInv, TypeOK
<1>4. DirsInv' /\ FnInv'
  BY <1>1, <1>2 DEF TestCase, ShellInv, DirsInv, FnInv, OwnFunctions
<1>5. HostInv'
  BY <1>1 DEF TestCase, ShellInv, HostInv, AtWork
<1> QED BY <1>3, <1>4, <1>5 DEF ShellInv

LEMMA CleanKeeps == ASSUME ShellInv, CleanCase PROVE ShellInv'
<1>1. Case \in Listed /\ Case' = Case /\ idx > 0
  BY CaseListed DEF CleanCase, ShellInv, TypeOK, Case
<1>2. "do_clean" \in Defines[Case] => fn["do_clean"] = Case
  BY DEF CleanCase, ShellInv, FnInv, OwnFunctions
<1>3. up' = {}
  BY DEF CleanCase, ShellInv, HostInv
<1>4. TypeOK'
  BY <1>1, <1>3 DEF CleanCase, ShellInv, TypeOK
<1>5. DirsInv' /\ FnInv'
  BY <1>1 DEF CleanCase, ShellInv, DirsInv, FnInv, OwnFunctions
<1>6. HostInv'
  BY <1>1, <1>2, <1>3 DEF CleanCase, ShellInv, HostInv, AtWork
<1> QED BY <1>4, <1>5, <1>6 DEF ShellInv

LEMMA LeaveKeeps == ASSUME ShellInv, LeaveCase \/ EndOfList PROVE ShellInv'
<1>1. CASE LeaveCase
  <2>1. Case \in Listed /\ Case' = Case
    BY <1>1, CaseListed DEF LeaveCase, ShellInv, TypeOK, Case
  <2>2. dirs' = <<Root>>
    BY <1>1, Stacks DEF LeaveCase, ShellInv, DirsInv
  <2>3. TypeOK'
    BY <1>1, <2>1, <2>2 DEF LeaveCase, ShellInv, TypeOK
  <2> QED BY <1>1, <2>1, <2>2, <2>3
          DEF LeaveCase, ShellInv, DirsInv, FnInv, HostInv, OwnFunctions, AtWork
<1>2. CASE EndOfList
  <2>1. Case' = Case
    BY <1>2 DEF EndOfList, Case
  <2> QED BY <1>2, <2>1
          DEF EndOfList, ShellInv, TypeOK, DirsInv, FnInv, HostInv, OwnFunctions, AtWork
<1> QED BY <1>1, <1>2

\* Whatever the lists and the scripts, the shell's state stays what the loop
\* takes it for.
THEOREM ShellInvariant == Spec => []ShellInv
<1>1. Init => ShellInv
  BY ShellInit
<1>2. ShellInv /\ [Next]_vars => ShellInv'
  <2> SUFFICES ASSUME ShellInv, [Next]_vars PROVE ShellInv'
    OBVIOUS
  <2>1. CASE Next
    BY <2>1, BeginKeeps, ValidateKeeps, NoSuchKeeps, SetupKeeps, TestKeeps, CleanKeeps,
       LeaveKeeps DEF Next
  <2>2. CASE UNCHANGED vars
    <3>1. Case' = Case
      BY <2>2 DEF vars, Case
    <3> QED BY <2>2, <3>1
            DEF vars, ShellInv, TypeOK, DirsInv, FnInv, HostInv, OwnFunctions, AtWork
  <2> QED BY <2>1, <2>2
<1> QED BY <1>1, <1>2, PTL DEF Spec

\* Every variable of the shell has its type.
THEOREM ShellTypes == Spec => []TypeOK
<1>1. ShellInv => TypeOK
  BY DEF ShellInv
<1> QED BY <1>1, ShellInvariant, PTL

\* Between two cases the shell is where the run was started, whatever the
\* unchecked pushd and popd of a case have done.
THEOREM BackAtRoot == Spec => []AtRoot
<1>1. ShellInv => AtRoot
  BY DEF ShellInv, DirsInv, AtRoot
<1> QED BY <1>1, ShellInvariant, PTL

\* No case is set up, tested or cleaned by a function of another case.
THEOREM FunctionsAreOwn == Spec => []OwnFunctions
<1>1. ShellInv => OwnFunctions
  BY DEF ShellInv, FnInv
<1> QED BY <1>1, ShellInvariant, PTL

\* Between two cases, and when a run gives up, nothing is left on the host that
\* a clean function would have taken down.
THEOREM HostIsClean == Spec => []HostClean
<1>1. ShellInv => HostClean
  BY DEF ShellInv, HostInv, HostClean
<1> QED BY <1>1, ShellInvariant, PTL

\* A case that names a topology runs in it and in no other.
THEOREM TheOneTopology == Spec => []OneTopology
<1>1. ShellInv => OneTopology
  <2> SUFFICES ASSUME ShellInv, stage \in {"test", "clean"}, TopoOf[Case] # NoTopo
               PROVE  up = {TopoOf[Case]}
    BY DEF OneTopology
  <2>1. up = {topofn} \ {None} /\ topofn = TopoOf[Case] /\ topofn # None
    BY NameAssumption DEF ShellInv, HostInv, AtWork
  <2> QED BY <2>1
<1> QED BY <1>1, ShellInvariant, PTL
============================================================================
