------------------------ MODULE PageSharingRefinement ------------------------
(***************************************************************************)
(* Proofs that the page-sharing worker loses no KNOWN_MODULE record and   *)
(* implements the registry of PageSharingRegistry, for every value of the *)
(* constants, as long as none of the failures that the run ps_sticky_rc   *)
(* shows to break it can occur.                                            *)
(***************************************************************************)
EXTENDS PageSharingProofs

(* The failures that leave an error in rc while the module loops go on:  *)
(* a failed version lookup or VirtualQuery of a new module, a failed      *)
(* kernel size query, and the kernel modules whose path the code builds   *)
(* wrongly (line 640), whose version lookup always fails.  Excluding the  *)
(* failures of the kernel query also excludes the early return of line    *)
(* 507, which drops the new tree with its records.                        *)
NoStickyErrors ==
  /\ Faults \cap {"version", "query", "kquery"} = {}
  /\ KernelPathMods = {}

(* In addition, no failure makes a pass skip some of the loaded modules:  *)
(* a failed snapshot or OpenProcess, or a failed RTMemAllocZ that ends a  *)
(* module loop early.                                                     *)
NoSkippedModules ==
  /\ NoStickyErrors
  /\ Faults \cap {"snapshot", "alloc"} = {}

-----------------------------------------------------------------------------
(* At most one kernel module is in neither system32 nor drivers: a second *)
(* one's record would be inserted under the NULL key the first one took,  *)
(* RTAvlPVInsert would fail, and the record would be lost (line 691).     *)
OneMissing == \A m1, m2 \in KernelMissing : m1 = m2

(* Inside the module loops rc is a success.                               *)
RcOK == stage \in {"mods", "kmods"} => rc = "OK"

(* The NULL key is taken in the new tree only by the missing kernel       *)
(* module, once the kernel loop has read it.                              *)
NullFresh ==
  NULL \in DOMAIN newTree =>
    \/ stage = "end"
    \/ /\ stage = "kmods" /\ modIdx \in Nat
       /\ \A i \in modIdx .. Len(ModOrder) : ModOrder[i] \notin KernelMissing

(* The inductive invariant of NoLeakedRecord.                             *)
LInv == NoLeakedRecord /\ RcOK /\ NullFresh

(* The processes at positions 1 .. n of the snapshot, and the modules of  *)
(* a snapshot S listed before position i.                                 *)
DoneProcs(n) == {ProcOrder[q] : q \in 1 .. n} \ {SelfPid}
SeenIn(S, i) == {ModOrder[k] : k \in 1 .. i - 1} \cap S

(* The facts about the state the refinement proof needs.                  *)
PTypes ==
  /\ stage \in Stages
  /\ procIdx \in 1 .. Len(ProcOrder) + 1
  /\ modIdx \in Nat
  /\ stage = "mods" => procIdx \in 1 .. Len(ProcOrder) /\ ProcOrder[procIdx] # SelfPid
  /\ procMods \in [Procs -> SUBSET UserMods]
  /\ kmods \subseteq KernelMods
  /\ idSession \in Nat /\ session \in Nat
  /\ stage = "kmods" => HaveZwQuery
  /\ DOMAIN known \cup DOMAIN newTree \subseteq
       (IF HaveZwQuery THEN AllMods \cup {NULL} ELSE UserMods)

(* Between passes the new tree is empty, and before the first pass so is  *)
(* the known one.                                                         *)
Quiet ==
  /\ stage \in {"init", "top", "snap", "wait", "session", "exited"}
       => DOMAIN newTree = {}
  /\ stage = "init" => DOMAIN known = {}

(* A pass has taken out of the old tree every shareable module it has     *)
(* visited: those of the processes before procIdx, those of the current  *)
(* process before modIdx, and then the kernel modules before modIdx.      *)
Visited ==
  /\ stage \in {"procs", "mods"} =>
       \A p \in DoneProcs(procIdx - 1) : (procMods[p] \ Exes) \cap DOMAIN known = {}
  /\ stage = "mods" => (SeenIn(CurMods, modIdx) \ Exes) \cap DOMAIN known = {}
  /\ stage \in {"kquery", "kmods", "end"} =>
       \A p \in Procs \ {SelfPid} : (procMods[p] \ Exes) \cap DOMAIN known = {}
  /\ stage = "kmods" => SeenIn(kmods, modIdx) \cap DOMAIN known = {}
  /\ stage = "end" => kmods \cap DOMAIN known = {}

(* The inductive invariant of the refinement.                             *)
RInv == IInv /\ RcOK /\ PTypes /\ Quiet /\ Visited

-----------------------------------------------------------------------------
(* vboxServicePageSharingRegisterModule succeeds for a file that is not a *)
(* directory when neither the version lookup nor VirtualQuery fails.      *)
LEMMA RegisterOK ==
  ASSUME NoStickyErrors, NEW v \in BOOLEAN
  PROVE  vboxServicePageSharingRegisterModule(FALSE, v) = {"OK"}
BY DEF NoStickyErrors, vboxServicePageSharingRegisterModule,
       vboxServicePageSharingRetrieveFileVersion

(* Without sticky errors, rc stays a success through the module loops.    *)
LEMMA RcOKStep ==
  ASSUME NoStickyErrors, RcOK, [Next]_vars
  PROVE  RcOK'
<1>1. vboxServicePageSharingRegisterModule(FALSE, TRUE) = {"OK"}
  BY RegisterOK
<1>2. ASSUME NEW m
      PROVE  vboxServicePageSharingRegisterModule(m \in KernelPathMods, FALSE) = {"OK"}
  <2>1. (m \in KernelPathMods) = FALSE
    BY DEF NoStickyErrors
  <2> QED
    BY <2>1, RegisterOK
<1>3. CASE InspectModule
  <2>1. PICK j \in 1 .. Len(ModOrder) : UserModuleStep(ModOrder[j], j)
    BY <1>3 DEF InspectModule
  <2>2. rc = "OK"
    BY <1>3 DEF InspectModule, RcOK
  <2> DEFINE m == ModOrder[j]
  <2>3. CASE (fSkip(m) \/ FoundInNewTree(m))
             /\ UNCHANGED <<stage, procIdx, rc, known, newTree, recs>>
    BY <2>2, <2>3 DEF RcOK
  <2>4. CASE ReuseKnown(m)
    BY <2>2, <2>4 DEF RcOK, ReuseKnown
  <2>5. CASE "alloc" \in Faults /\ rc' = "ERR" /\ stage' = "procs"
    BY <2>5 DEF RcOK
  <2>6. CASE RegisterNew(m, vboxServicePageSharingRegisterModule(FALSE, TRUE))
    BY <1>1, <2>6 DEF RcOK, RegisterNew
  <2>7. CASE UNCHANGED rc
    BY <2>2, <2>7 DEF RcOK
  <2> QED
    BY <2>1, <2>3, <2>4, <2>5, <2>6, <2>7 DEF UserModuleStep
<1>4. CASE InspectKernelModule
  <2>1. PICK j \in 1 .. Len(ModOrder) : KernelModuleStep(ModOrder[j], j)
    BY <1>4 DEF InspectKernelModule
  <2> QED
    BY <1>2, <1>4, <2>1 DEF InspectKernelModule, KernelModuleStep, RcOK, RegisterNew, ReuseKnown
<1>5. CASE KernelQuery
  BY <1>5 DEF KernelQuery, RcOK, NoStickyErrors
<1>6. CASE ~InspectModule /\ ~InspectKernelModule /\ ~KernelQuery
  BY <1>6 DEF Next, Worker, Environment, vars, WorkerVars, RcOK,
              VBoxServicePageSharingInit, WorkerPoll, InspectGuestBegin,
              InspectGuestProcess, InspectModulesEnd, InspectKernelEnd,
              InspectGuestEnd, WorkerWait, WorkerSessionCheck
<1> QED
  BY <1>3, <1>4, <1>5, <1>6

(* The tree steps of the module loops when rc is a success: a record is  *)
(* moved from the old tree to the new one, or a new one may be inserted   *)
(* under a key the new tree does not have.                                *)
LStep(m) ==
  \/ UNCHANGED <<known, newTree, recs>>
  \/ m \notin DOMAIN newTree /\ rc = "OK" /\ m \in DOMAIN known /\ ReuseKnown(m)
  \/ /\ known' = known
     /\ \E key \in {m, NULL} : key \notin DOMAIN newTree /\ \E r : KeepIfOK(key, m, r)

LEMMA LStepOK ==
  ASSUME NEW m, NoLeakedRecord, LStep(m)
  PROVE  NoLeakedRecord'
<1>1. CASE UNCHANGED <<known, newTree, recs>>
  BY <1>1 DEF NoLeakedRecord, RecsOf
<1>2. CASE m \notin DOMAIN newTree /\ rc = "OK" /\ m \in DOMAIN known /\ ReuseKnown(m)
  BY <1>2 DEF ReuseKnown, Remove, Insert, NoLeakedRecord, RecsOf
<1>3. CASE known' = known
           /\ \E key \in {m, NULL} : key \notin DOMAIN newTree /\ \E r : KeepIfOK(key, m, r)
  BY <1>3 DEF KeepIfOK, Insert, NoLeakedRecord, RecsOf
<1> QED
  BY <1>1, <1>2, <1>3 DEF LStep

(* The kernel loop reads a missing module only while NULL is free.        *)
LEMMA NullFreeAt ==
  ASSUME NullFresh, stage = "kmods", NEW j \in 1 .. Len(ModOrder),
         NextModAt(kmods, modIdx, j), ModOrder[j] \in KernelMissing
  PROVE  NULL \notin DOMAIN newTree
BY DEF NullFresh, NextModAt

(* The modules of the snapshot order are not NULL.                        *)
LEMMA ModOrderNotNull ==
  ASSUME NEW j \in 1 .. Len(ModOrder)
  PROVE  ModOrder[j] # NULL
BY ConstantsOK DEF ConstantsOK, AllMods

LEMMA LeakStep ==
  ASSUME NoStickyErrors, LInv, [Next]_vars
  PROVE  NoLeakedRecord'
<1> USE DEF LStep
<1>1. CASE InspectModule
  <2>0. PICK j \in 1 .. Len(ModOrder) : UserModuleStep(ModOrder[j], j)
    BY <1>1 DEF InspectModule
  <2>1. \E m : LStep(m)
    BY <1>1, <2>0 DEF InspectModule, UserModuleStep, LInv, RcOK, FoundInNewTree, RegisterNew
  <2> QED
    BY <2>1, LStepOK DEF LInv
<1>2. CASE InspectKernelModule
  <2>0. PICK j \in 1 .. Len(ModOrder) :
          NextModAt(kmods, modIdx, j) /\ KernelModuleStep(ModOrder[j], j)
    BY <1>2 DEF InspectKernelModule
  <2>1. ModOrder[j] \in KernelMissing => NULL \notin DOMAIN newTree
    BY <1>2, <2>0, NullFreeAt DEF InspectKernelModule, LInv
  <2>2. \E m : LStep(m)
    BY <1>2, <2>0, <2>1 DEF InspectKernelModule, KernelModuleStep, LInv, RcOK,
                          FoundInNewTree, RegisterNew
  <2> QED
    BY <2>2, LStepOK DEF LInv
<1>3. CASE KernelQuery
  BY <1>3 DEF KernelQuery, NoStickyErrors, LInv, NoLeakedRecord
<1>4. CASE InspectGuestEnd
  BY <1>4 DEF InspectGuestEnd, EmptyTree, LInv, NoLeakedRecord, RecsOf
<1>5. CASE WorkerSessionCheck
  BY <1>5 DEF WorkerSessionCheck, EmptyTree, LInv, NoLeakedRecord, RecsOf
<1>6. CASE ~InspectModule /\ ~InspectKernelModule /\ ~KernelQuery
           /\ ~InspectGuestEnd /\ ~WorkerSessionCheck
  <2>1. UNCHANGED <<known, newTree, recs>>
    BY <1>6 DEF Next, Worker, Environment, vars, WorkerVars,
                VBoxServicePageSharingInit, WorkerPoll, InspectGuestBegin,
                InspectGuestProcess, InspectModulesEnd, InspectKernelEnd, WorkerWait
  <2> QED
    BY <2>1 DEF LInv, NoLeakedRecord, RecsOf
<1> QED
  BY <1>1, <1>2, <1>3, <1>4, <1>5, <1>6

(* NULL stays free in the new tree until the missing kernel module is    *)
(* read, and after that the kernel loop reads no missing module again:   *)
(* there is at most one, and the snapshot lists each module once.         *)
LEMMA NullStep ==
  ASSUME OneMissing, NullFresh, [Next]_vars
  PROVE  NullFresh'
<1>0. Len(ModOrder) \in Nat
  BY ConstantsOK DEF ConstantsOK
<1>1. CASE InspectKernelModule
  <2>1. PICK j \in 1 .. Len(ModOrder) :
          NextModAt(kmods, modIdx, j) /\ KernelModuleStep(ModOrder[j], j)
    BY <1>1 DEF InspectKernelModule
  <2> DEFINE m == ModOrder[j]
  <2>2. stage = "kmods" /\ j \in modIdx .. Len(ModOrder)
    BY <1>1, <2>1 DEF InspectKernelModule, NextModAt
  <2>3. CASE stage' = "end"
    BY <2>3 DEF NullFresh
  <2>4. CASE stage' # "end"
    <3>1. stage' = "kmods" /\ modIdx' = j + 1
      BY <2>1, <2>2, <2>4 DEF KernelModuleStep
    <3>2. \A i \in (j + 1) .. Len(ModOrder) : ModOrder[i] # m
      BY <1>0, ConstantsOK DEF ConstantsOK
    <3>3. CASE m \in KernelMissing
      <4>1. \A i \in (j + 1) .. Len(ModOrder) : ModOrder[i] \notin KernelMissing
        BY <3>2, <3>3 DEF OneMissing
      <4> QED
        BY <3>1, <4>1, <1>0 DEF NullFresh
    <3>4. CASE m \notin KernelMissing
      <4>1. DOMAIN newTree' \subseteq DOMAIN newTree \cup {m}
        BY <2>1, <2>4, <3>4 DEF KernelModuleStep, ReuseKnown, RegisterNew, KeepIfOK,
                                Insert
      <4>2. m # NULL
        BY ModOrderNotNull
      <4> QED
        BY <2>2, <3>1, <3>2, <4>1, <4>2, <1>0 DEF NullFresh
    <3> QED
      BY <3>3, <3>4
  <2> QED
    BY <2>3, <2>4
<1>2. CASE InspectModule
  <2>1. PICK j \in 1 .. Len(ModOrder) : UserModuleStep(ModOrder[j], j)
    BY <1>2 DEF InspectModule
  <2>2. DOMAIN newTree' \subseteq DOMAIN newTree \cup {ModOrder[j]}
    BY <2>1 DEF UserModuleStep, ReuseKnown, RegisterNew, KeepIfOK, Insert
  <2>3. ModOrder[j] # NULL /\ stage = "mods"
    BY <1>2, ModOrderNotNull DEF InspectModule
  <2> QED
    BY <2>2, <2>3 DEF NullFresh
<1>3. CASE InspectGuestEnd
  BY <1>3 DEF InspectGuestEnd, EmptyTree, NullFresh
<1>4. CASE InspectKernelEnd
  BY <1>4 DEF InspectKernelEnd, NullFresh
<1>5. CASE KernelQuery
  BY <1>5 DEF KernelQuery, EmptyTree, NullFresh
<1>6. CASE ~InspectModule /\ ~InspectKernelModule /\ ~KernelQuery
           /\ ~InspectGuestEnd /\ ~InspectKernelEnd
  <2>1. CASE UNCHANGED <<stage, modIdx, newTree>>
    BY <2>1 DEF NullFresh
  <2>2. CASE ~UNCHANGED <<stage, modIdx, newTree>>
    <3>1. newTree' = newTree /\ stage \notin {"kmods", "end"}
      BY <1>6, <2>2 DEF Next, Worker, Environment, vars, WorkerVars,
                  VBoxServicePageSharingInit, WorkerPoll, InspectGuestBegin,
                  InspectGuestProcess, InspectModulesEnd, WorkerWait, WorkerSessionCheck
    <3> QED
      BY <3>1 DEF NullFresh
  <2> QED
    BY <2>1, <2>2
<1> QED
  BY <1>1, <1>2, <1>3, <1>4, <1>5, <1>6

(* No KNOWN_MODULE record is lost: when no error is left in rc while the *)
(* loops of VBoxServicePageSharingInspectGuest go on, and at most one     *)
(* kernel module is missing from system32 and drivers, every record       *)
(* allocated and not freed is held by the old or the new tree, through    *)
(* snapshot and allocation failures, failed LoadLibraryEx calls, the      *)
(* NULL-keyed record of the missing kernel module, and VM restores.       *)
THEOREM NoRecordLost ==
  ASSUME NoStickyErrors, OneMissing
  PROVE  Spec => []NoLeakedRecord
<1>1. Init => LInv
  BY DEF Init, LInv, NoLeakedRecord, RcOK, NullFresh, RecsOf, EmptyTree
<1>2. LInv /\ [Next]_vars => LInv'
  BY LeakStep, RcOKStep, NullStep DEF LInv
<1> QED
  BY <1>1, <1>2, PTL DEF Spec, LInv


-----------------------------------------------------------------------------
(* Lemmas about the snapshot order.                                       *)

LEMMA LenFacts == Len(ModOrder) \in Nat /\ Len(ProcOrder) \in Nat
BY ConstantsOK DEF ConstantsOK

(* Reading the module at position j, the next one at or after i, adds it *)
(* to the modules seen.                                                   *)
LEMMA SeenStep ==
  ASSUME NEW S, NEW i \in Nat, NEW j \in 1 .. Len(ModOrder), NextModAt(S, i, j)
  PROVE  SeenIn(S, j + 1) = SeenIn(S, i) \cup {ModOrder[j]}
BY LenFacts DEF SeenIn, NextModAt

(* When no module of S is left at or after i, every module of S was seen: *)
(* the snapshot order lists every module.                                 *)
LEMMA SeenAll ==
  ASSUME NEW S \in SUBSET AllMods, NEW i \in Nat, NoModFrom(S, i)
  PROVE  S \subseteq SeenIn(S, i)
<1> SUFFICES ASSUME NEW m \in S PROVE m \in SeenIn(S, i)
  OBVIOUS
<1>1. PICK k \in 1 .. Len(ModOrder) : ModOrder[k] = m
  BY ConstantsOK DEF ConstantsOK
<1>2. k < i
  BY <1>1, LenFacts DEF NoModFrom
<1> QED
  BY <1>1, <1>2 DEF SeenIn

(* The process loop: one more position of the process snapshot.          *)
LEMMA DoneProcsStep ==
  ASSUME NEW n \in Nat \ {0}
  PROVE  DoneProcs(n) = DoneProcs(n - 1) \cup ({ProcOrder[n]} \ {SelfPid})
BY DEF DoneProcs

LEMMA DoneProcsAll == DoneProcs(Len(ProcOrder)) = Procs \ {SelfPid}
BY ConstantsOK DEF DoneProcs, Procs, ConstantsOK


LEMMA TreeDoms ==
  ASSUME NEW t, NEW m, NEW r
  PROVE  /\ DOMAIN Insert(t, m, r) = DOMAIN t \cup {m}
         /\ DOMAIN Remove(t, m) = DOMAIN t \ {m}
BY DEF Insert, Remove

(* What one step of either module loop does to the trees, in the runs     *)
(* without skipped modules: the old tree only loses keys and loses the    *)
(* module read unless it is an executable, the new tree gains at most the *)
(* module read or NULL, and the modules tracked stay the same or gain     *)
(* that module, which was not tracked and is not an executable.           *)
ModStepShape(m) ==
  /\ DOMAIN known' \subseteq DOMAIN known
  /\ m \notin DOMAIN known' \/ m \in Exes
  /\ DOMAIN newTree' \subseteq DOMAIN newTree \cup {m, NULL}
  /\ \/ Tracked' = Tracked
     \/ m \notin Tracked /\ m \notin Exes /\ Tracked' = Tracked \cup {m}

(* A new module kept with rc a success is inserted in the new tree.       *)
LEMMA KeepOKShape ==
  ASSUME NEW m, m # NULL, m \notin DOMAIN known, m \notin DOMAIN newTree, m \notin Exes,
         known' = known, KeepIfOK(m, m, "OK")
  PROVE  ModStepShape(m) /\ DOMAIN newTree' \subseteq DOMAIN newTree \cup {m}
<1>1. DOMAIN newTree' = DOMAIN newTree \cup {m}
  BY TreeDoms DEF KeepIfOK
<1>2. DOMAIN known' = DOMAIN known
  OBVIOUS
<1> QED
  BY <1>1, <1>2 DEF ModStepShape, Tracked

(* The record of a kernel module missing from system32 and drivers goes   *)
(* under NULL: no module is tracked for it.                               *)
LEMMA KeepNullShape ==
  ASSUME NEW m, m \notin DOMAIN known, known' = known, KeepIfOK(NULL, m, "OK")
  PROVE  ModStepShape(m) /\ Tracked' = Tracked
<1>1. DOMAIN newTree' = DOMAIN newTree \cup {NULL}
  BY TreeDoms DEF KeepIfOK
<1>2. Tracked' = Tracked
  BY <1>1 DEF Tracked
<1> QED
  BY <1>1, <1>2 DEF ModStepShape

(* A module found in the old tree, with rc a success, moves to the new    *)
(* one.                                                                   *)
LEMMA ReuseShape ==
  ASSUME NEW m, m # NULL, rc = "OK", m \in DOMAIN known, ReuseKnown(m)
  PROVE  ModStepShape(m) /\ DOMAIN newTree' \subseteq DOMAIN newTree \cup {m}
<1>1. DOMAIN newTree' = DOMAIN newTree \cup {m}
  BY TreeDoms DEF ReuseKnown
<1>2. DOMAIN known' = DOMAIN known \ {m}
  BY TreeDoms DEF ReuseKnown
<1> QED
  BY <1>1, <1>2 DEF ModStepShape, Tracked

LEMMA UserStepShape ==
  ASSUME NoSkippedModules, RInv, stage = "mods", NEW j \in 1 .. Len(ModOrder),
         UserModuleStep(ModOrder[j], j)
  PROVE  /\ stage' = stage /\ procIdx' = procIdx /\ modIdx' = j + 1
         /\ ModStepShape(ModOrder[j])
         /\ DOMAIN newTree' \subseteq DOMAIN newTree \cup {ModOrder[j]}
<1> DEFINE m == ModOrder[j]
<1>1. rc = "OK" /\ stage = "mods" /\ m # NULL
  BY ModOrderNotNull DEF RInv, RcOK
<1>2. CASE (fSkip(m) \/ FoundInNewTree(m))
           /\ modIdx' = j + 1 /\ UNCHANGED <<stage, procIdx, rc, known, newTree, recs>>
  BY <1>1, <1>2 DEF fSkip, FoundInNewTree, RInv, IInv, DInv, ModsDisjoint, ModStepShape,
                    Tracked
<1>3. CASE ~fSkip(m) /\ ~FoundInNewTree(m) /\ m \in DOMAIN known
           /\ ReuseKnown(m) /\ modIdx' = j + 1 /\ UNCHANGED <<stage, procIdx>>
  BY <1>1, <1>3, ReuseShape
<1>4. CASE ~fSkip(m) /\ ~FoundInNewTree(m) /\ m \notin DOMAIN known
           /\ "alloc" \in Faults
  BY <1>4 DEF NoSkippedModules
<1>5. CASE ~fSkip(m) /\ ~FoundInNewTree(m) /\ m \notin DOMAIN known
           /\ RegisterNew(m, vboxServicePageSharingRegisterModule(FALSE, TRUE))
           /\ modIdx' = j + 1 /\ UNCHANGED <<stage, procIdx, known>>
  <2>1. vboxServicePageSharingRegisterModule(FALSE, TRUE) = {"OK"}
    BY RegisterOK DEF NoSkippedModules
  <2>2. KeepIfOK(m, m, "OK")
    BY <1>5, <2>1 DEF RegisterNew
  <2> QED
    BY <1>1, <1>5, <2>2, KeepOKShape DEF fSkip, FoundInNewTree
<1>6. CASE ~fSkip(m) /\ ~FoundInNewTree(m) /\ m \notin DOMAIN known
           /\ KeepIfOK(m, m, rc) /\ modIdx' = j + 1 /\ UNCHANGED <<stage, procIdx, known>>
  BY <1>1, <1>6, KeepOKShape DEF fSkip, FoundInNewTree
<1> QED
  BY <1>2, <1>3, <1>4, <1>5, <1>6 DEF UserModuleStep

LEMMA KernelStepShape ==
  ASSUME NoSkippedModules, RInv, stage = "kmods", NEW j \in 1 .. Len(ModOrder),
         ModOrder[j] \in KernelMods, KernelModuleStep(ModOrder[j], j)
  PROVE  /\ stage' = stage /\ modIdx' = j + 1
         /\ ModStepShape(ModOrder[j])
<1> DEFINE m == ModOrder[j]
<1>1. rc = "OK" /\ stage = "kmods" /\ m # NULL
  BY ModOrderNotNull DEF RInv, RcOK
<1>2. m \notin Exes
  BY ConstantsOK DEF ConstantsOK
<1>3. CASE FoundInNewTree(m)
           /\ modIdx' = j + 1 /\ UNCHANGED <<stage, rc, known, newTree, recs>>
  BY <1>1, <1>3 DEF FoundInNewTree, RInv, IInv, DInv, ModsDisjoint, ModStepShape, Tracked
<1>4. CASE ~FoundInNewTree(m) /\ m \in DOMAIN known
           /\ ReuseKnown(m) /\ modIdx' = j + 1 /\ UNCHANGED stage
  BY <1>1, <1>4, ReuseShape
<1>5. CASE ~FoundInNewTree(m) /\ m \notin DOMAIN known /\ "alloc" \in Faults
  BY <1>5 DEF NoSkippedModules
<1>6. CASE ~FoundInNewTree(m) /\ m \notin DOMAIN known /\ m \notin KernelMissing
           /\ RegisterNew(m, vboxServicePageSharingRegisterModule(m \in KernelPathMods, FALSE))
           /\ modIdx' = j + 1 /\ UNCHANGED <<stage, known>>
  <2>1. (m \in KernelPathMods) = FALSE
    BY DEF NoSkippedModules, NoStickyErrors
  <2>2. vboxServicePageSharingRegisterModule(m \in KernelPathMods, FALSE) = {"OK"}
    BY <2>1, RegisterOK DEF NoSkippedModules
  <2>3. KeepIfOK(m, m, "OK")
    BY <1>6, <2>2 DEF RegisterNew
  <2> QED
    BY <1>1, <1>2, <1>6, <2>3, KeepOKShape DEF FoundInNewTree
<1>7. CASE ~FoundInNewTree(m) /\ m \notin DOMAIN known /\ m \in KernelMissing
           /\ KeepIfOK(NULL, m, "OK") /\ modIdx' = j + 1 /\ UNCHANGED <<stage, known>>
  BY <1>7, KeepNullShape
<1> QED
  BY <1>3, <1>4, <1>5, <1>6, <1>7 DEF KernelModuleStep


-----------------------------------------------------------------------------
(* RInv is inductive in the runs without skipped modules.                 *)

(* The part of RInv that the lemmas below show preserved.                 *)
PQV == PTypes /\ Quiet /\ Visited

LEMMA ProcAt ==
  ASSUME NEW i \in 1 .. Len(ProcOrder)
  PROVE  ProcOrder[i] \in Procs
BY ConstantsOK DEF ConstantsOK, Procs

LEMMA EmptyDom == DOMAIN EmptyTree = {}
BY DEF EmptyTree

(* Steps that start or end a pass, or run between passes.                 *)
LEMMA OuterStepsPQV ==
  ASSUME NoSkippedModules, RInv, UNCHANGED EnvVars,
         \/ VBoxServicePageSharingInit \/ WorkerPoll \/ WorkerWait
         \/ WorkerSessionCheck \/ InspectGuestEnd \/ InspectGuestBegin
  PROVE  PQV'
<1> USE EmptyDom DEF RInv, PQV, EnvVars, Stages
<1>1. CASE VBoxServicePageSharingInit
  BY <1>1 DEF VBoxServicePageSharingInit, PTypes, Quiet, Visited
<1>2. CASE WorkerPoll
  BY <1>2 DEF WorkerPoll, PTypes, Quiet, Visited
<1>3. CASE WorkerWait
  BY <1>3 DEF WorkerWait, PTypes, Quiet, Visited
<1>4. CASE WorkerSessionCheck
  BY <1>4 DEF WorkerSessionCheck, PTypes, Quiet, Visited
<1>5. CASE InspectGuestEnd
  BY <1>5 DEF InspectGuestEnd, PTypes, Quiet, Visited
<1>6. CASE InspectGuestBegin
  <2>1. DoneProcs(0) = {}
    BY DEF DoneProcs
  <2>2. stage' = "procs" /\ procIdx' = 1
    BY <1>6 DEF InspectGuestBegin, NoSkippedModules
  <2> QED
    BY <1>6, <2>1, <2>2, LenFacts DEF InspectGuestBegin, PTypes, Quiet, Visited
<1> QED
  BY <1>1, <1>2, <1>3, <1>4, <1>5, <1>6

(* The process loop of VBoxServicePageSharingInspectGuest.                *)
LEMMA GuestProcessPQV ==
  ASSUME NoSkippedModules, RInv, UNCHANGED EnvVars, InspectGuestProcess
  PROVE  PQV'
<1> USE DEF RInv, PQV, EnvVars, Stages
<1>1. stage = "procs" /\ procIdx \in 1 .. Len(ProcOrder) + 1
  BY DEF InspectGuestProcess, PTypes
<1>2. CASE procIdx > Len(ProcOrder)
  <2>1. procIdx - 1 = Len(ProcOrder)
    BY <1>1, <1>2, LenFacts
  <2>2. DoneProcs(procIdx - 1) = Procs \ {SelfPid}
    BY <2>1, DoneProcsAll
  <2> QED
    BY <1>1, <1>2, <2>2 DEF InspectGuestProcess, PTypes, Quiet, Visited
<1>3. CASE procIdx \in 1 .. Len(ProcOrder) /\ IsOwnProcess(ProcOrder[procIdx])
           /\ procIdx' = procIdx + 1 /\ UNCHANGED <<stage, modIdx, rc>>
  <2>1. procIdx \in Nat \ {0}
    BY <1>3, LenFacts
  <2>2. DoneProcs(procIdx) = DoneProcs(procIdx - 1) \cup ({ProcOrder[procIdx]} \ {SelfPid})
    BY <2>1, DoneProcsStep
  <2>3. DoneProcs(procIdx) = DoneProcs(procIdx - 1)
    BY <1>3, <2>2 DEF IsOwnProcess
  <2> QED
    BY <1>1, <1>3, <2>3 DEF InspectGuestProcess, PTypes, Quiet, Visited
<1>4. CASE procIdx \in 1 .. Len(ProcOrder) /\ ~IsOwnProcess(ProcOrder[procIdx])
           /\ stage' = "mods" /\ modIdx' = 1 /\ rc' = "OK" /\ UNCHANGED procIdx
  <2>1. SeenIn(CurMods, 1) = {}
    BY DEF SeenIn
  <2> QED
    BY <1>1, <1>4, <2>1 DEF InspectGuestProcess, IsOwnProcess, CurMods, PTypes, Quiet, Visited
<1>5. CASE "snapshot" \in Faults
  BY <1>5 DEF NoSkippedModules
<1> QED
  BY <1>1, <1>2, <1>3, <1>4, <1>5 DEF InspectGuestProcess


(* The modules of the process being inspected are user modules.           *)
LEMMA CurModsType ==
  ASSUME RInv, stage = "mods"
  PROVE  CurMods \subseteq UserMods
<1>1. ProcOrder[procIdx] \in Procs
  BY ProcAt DEF RInv, PTypes
<1> QED
  BY <1>1 DEF RInv, PTypes, CurMods

(* One module of a process.                                               *)
LEMMA ModulePQV ==
  ASSUME NoSkippedModules, RInv, UNCHANGED EnvVars, InspectModule
  PROVE  PQV'
<1>1. stage = "mods" /\ modIdx \in Nat
  BY DEF InspectModule, RInv, PTypes
<1>2. PICK j \in 1 .. Len(ModOrder) :
        NextModAt(CurMods, modIdx, j) /\ UserModuleStep(ModOrder[j], j)
  BY DEF InspectModule
<1> DEFINE m == ModOrder[j]
<1>3. /\ stage' = stage /\ procIdx' = procIdx /\ modIdx' = j + 1
      /\ ModStepShape(m) /\ DOMAIN newTree' \subseteq DOMAIN newTree \cup {m}
  BY <1>1, <1>2, UserStepShape
<1>4. SeenIn(CurMods, j + 1) = SeenIn(CurMods, modIdx) \cup {m}
  BY <1>1, <1>2, SeenStep
<1>5. m \in UserMods
  BY <1>1, <1>2, CurModsType DEF NextModAt
<1>6. CurMods' = CurMods
  BY <1>3 DEF EnvVars, CurMods
<1>7. PTypes'
  BY <1>1, <1>3, <1>5 DEF InspectModule, RInv, PTypes, ModStepShape, EnvVars, AllMods
<1>8. Visited'
  BY <1>1, <1>3, <1>4, <1>6 DEF RInv, Visited, ModStepShape, EnvVars
<1> QED
  BY <1>1, <1>3, <1>7, <1>8 DEF PQV, Quiet

(* Module32Next finds no more modules of the process.                     *)
LEMMA ModulesEndPQV ==
  ASSUME RInv, UNCHANGED EnvVars, InspectModulesEnd
  PROVE  PQV'
<1>1. stage = "mods" /\ modIdx \in Nat /\ procIdx \in 1 .. Len(ProcOrder)
      /\ ProcOrder[procIdx] # SelfPid
  BY DEF InspectModulesEnd, RInv, PTypes
<1>2. CurMods \subseteq SeenIn(CurMods, modIdx)
  BY <1>1, CurModsType, SeenAll DEF InspectModulesEnd, AllMods
<1>3. procIdx \in Nat \ {0}
  BY <1>1, LenFacts
<1>4. DoneProcs(procIdx) = DoneProcs(procIdx - 1) \cup {ProcOrder[procIdx]}
  BY <1>1, <1>3, DoneProcsStep
<1>5. (CurMods \ Exes) \cap DOMAIN known = {}
  BY <1>1, <1>2 DEF RInv, Visited
<1>6. Visited'
  BY <1>1, <1>4, <1>5 DEF InspectModulesEnd, RInv, Visited, CurMods, EnvVars
<1> QED
  BY <1>1, <1>6, LenFacts DEF InspectModulesEnd, RInv, PQV, PTypes, Quiet, EnvVars, Stages


(* The kernel query: without ZwQuerySystemInformation there are no kernel *)
(* modules to visit, and the known tree holds user modules only.          *)
LEMMA KernelQueryPQV ==
  ASSUME NoSkippedModules, RInv, UNCHANGED EnvVars, KernelQuery
  PROVE  PQV'
<1> USE DEF RInv, PQV, EnvVars, Stages
<1>1. stage = "kquery"
  BY DEF KernelQuery
<1>2. CASE ~HaveZwQuery
  <2>1. kmods \cap DOMAIN known = {}
    BY <1>2, ConstantsOK DEF ConstantsOK, PTypes
  <2> QED
    BY <1>1, <1>2, <2>1 DEF KernelQuery, PTypes, Quiet, Visited
<1>3. CASE HaveZwQuery
  <2>1. SeenIn(kmods, 1) = {}
    BY DEF SeenIn
  <2>2. stage' = "kmods" /\ modIdx' = 1 /\ UNCHANGED <<procIdx, known, newTree, idSession>>
    BY <1>3 DEF KernelQuery, NoSkippedModules, NoStickyErrors
  <2> QED
    BY <1>1, <1>3, <2>1, <2>2 DEF PTypes, Quiet, Visited
<1> QED
  BY <1>2, <1>3

(* One kernel module.                                                     *)
LEMMA KernelModulePQV ==
  ASSUME NoSkippedModules, RInv, UNCHANGED EnvVars, InspectKernelModule
  PROVE  PQV'
<1>1. stage = "kmods" /\ modIdx \in Nat /\ HaveZwQuery /\ kmods \subseteq KernelMods
  BY DEF InspectKernelModule, RInv, PTypes
<1>2. PICK j \in 1 .. Len(ModOrder) :
        NextModAt(kmods, modIdx, j) /\ KernelModuleStep(ModOrder[j], j)
  BY DEF InspectKernelModule
<1> DEFINE m == ModOrder[j]
<1>3. m \in KernelMods /\ m \notin Exes
  BY <1>1, <1>2, ConstantsOK DEF NextModAt, ConstantsOK
<1>4. /\ stage' = stage /\ modIdx' = j + 1 /\ ModStepShape(m)
  BY <1>1, <1>2, <1>3, KernelStepShape
<1>5. SeenIn(kmods, j + 1) = SeenIn(kmods, modIdx) \cup {m}
  BY <1>1, <1>2, SeenStep
<1>6. PTypes'
  BY <1>1, <1>3, <1>4 DEF InspectKernelModule, RInv, PTypes, ModStepShape, EnvVars, AllMods
<1>7. Visited'
  BY <1>1, <1>3, <1>4, <1>5 DEF RInv, Visited, ModStepShape, EnvVars
<1> QED
  BY <1>1, <1>4, <1>6, <1>7 DEF PQV, Quiet

(* The kernel-module loop ends.                                           *)
LEMMA KernelEndPQV ==
  ASSUME RInv, UNCHANGED EnvVars, InspectKernelEnd
  PROVE  PQV'
<1>1. stage = "kmods" /\ modIdx \in Nat /\ kmods \subseteq KernelMods
  BY DEF InspectKernelEnd, RInv, PTypes
<1>2. kmods \subseteq SeenIn(kmods, modIdx)
  BY <1>1, SeenAll DEF InspectKernelEnd, AllMods
<1> QED
  BY <1>1, <1>2 DEF InspectKernelEnd, RInv, PQV, PTypes, Quiet, Visited, EnvVars, Stages

(* The guest and the host: modules change between passes only, and the   *)
(* toggles and restores touch neither the trees nor the modules.          *)
LEMMA EnvironmentPQV ==
  ASSUME RInv, UNCHANGED WorkerVars, Environment
  PROVE  PQV'
<1> USE DEF RInv, PQV, WorkerVars, InPass
<1>1. CASE \E p \in Procs, m \in UserMods : GuestLoadUnload(p, m)
  BY <1>1 DEF GuestLoadUnload, PTypes, Quiet, Visited
<1>2. CASE \E m \in KernelMods : KernelLoadUnload(m)
  BY <1>2 DEF KernelLoadUnload, PTypes, Quiet, Visited
<1>3. CASE HostToggle
  BY <1>3 DEF HostToggle, PTypes, Quiet, Visited, CurMods
<1>4. CASE VMRestore
  BY <1>4 DEF VMRestore, PTypes, Quiet, Visited, CurMods
<1> QED
  BY <1>1, <1>2, <1>3, <1>4 DEF Environment


LEMMA RInvStep ==
  ASSUME NoSkippedModules, RInv, [Next]_vars
  PROVE  RInv'
<1>1. IInv'
  BY NextIInv DEF RInv
<1>2. RcOK'
  BY RcOKStep DEF RInv, NoSkippedModules
<1>3. PQV'
  <2>1. CASE Worker /\ UNCHANGED EnvVars
    BY <2>1, OuterStepsPQV, GuestProcessPQV, ModulePQV, ModulesEndPQV,
       KernelQueryPQV, KernelModulePQV, KernelEndPQV DEF Worker
  <2>2. CASE Environment /\ UNCHANGED WorkerVars
    BY <2>2, EnvironmentPQV
  <2>3. CASE UNCHANGED vars
    BY <2>3 DEF vars, RInv, PQV, PTypes, Quiet, Visited, CurMods
  <2> QED
    BY <2>1, <2>2, <2>3 DEF Next
<1> QED
  BY <1>1, <1>2, <1>3 DEF RInv, PQV

LEMMA InitRInv == Init => RInv
<1> SUFFICES ASSUME Init PROVE RInv
  OBVIOUS
<1>1. IInv
  BY InitIInv
<1> QED
  BY <1>1, EmptyDom, LenFacts DEF Init, RInv, RcOK, PTypes, Quiet, Visited, Stages


-----------------------------------------------------------------------------
(* The refinement mapping: every step of the worker or of the guest is a  *)
(* step of the registry or leaves Sharable, Tracked and idSession alone.  *)

AbsVars == <<Sharable, Tracked, idSession>>

LEMMA SharableType ==
  ASSUME PTypes
  PROVE  Sharable \subseteq AllMods
BY DEF PTypes, Sharable, AllMods

(* A step of a module loop that tracks a new module is Track.             *)
LEMMA LoopStepMaps ==
  ASSUME NEW m \in AllMods, m \in Sharable, ModStepShape(m),
         UNCHANGED <<idSession, procMods, kmods>>
  PROVE  [Registry!Next]_AbsVars
<1>1. Sharable' = Sharable
  BY DEF Sharable
<1>2. CASE Tracked' = Tracked
  BY <1>1, <1>2 DEF AbsVars
<1>3. CASE m \notin Tracked /\ Tracked' = Tracked \cup {m}
  <2>1. Registry!Track(m)
    BY <1>1, <1>3 DEF Registry!Track
  <2> QED
    BY <2>1 DEF Registry!Next
<1> QED
  BY <1>2, <1>3 DEF ModStepShape

LEMMA ModuleMaps ==
  ASSUME NoSkippedModules, RInv, UNCHANGED EnvVars, InspectModule
  PROVE  [Registry!Next]_AbsVars
<1>1. stage = "mods" /\ procIdx \in 1 .. Len(ProcOrder) /\ ProcOrder[procIdx] # SelfPid
  BY DEF InspectModule, RInv, PTypes
<1>2. PICK j \in 1 .. Len(ModOrder) :
        NextModAt(CurMods, modIdx, j) /\ UserModuleStep(ModOrder[j], j)
  BY DEF InspectModule
<1> DEFINE m == ModOrder[j]
<1>3. ModStepShape(m)
  BY <1>1, <1>2, UserStepShape
<1>4. ProcOrder[procIdx] \in Procs \ {SelfPid}
  BY <1>1, ProcAt
<1>5. m \in AllMods /\ (m \in Exes \/ m \in Sharable)
  BY <1>2, <1>4, CurModsType, <1>1 DEF NextModAt, CurMods, Sharable, AllMods
<1>6. CASE m \in Exes
  <2>1. Tracked' = Tracked /\ Sharable' = Sharable
    BY <1>3, <1>6 DEF ModStepShape, Sharable, EnvVars
  <2> QED
    BY <2>1 DEF InspectModule, AbsVars
<1>7. CASE m \in Sharable
  BY <1>3, <1>5, <1>7, LoopStepMaps DEF InspectModule, EnvVars
<1> QED
  BY <1>5, <1>6, <1>7

LEMMA KernelModuleMaps ==
  ASSUME NoSkippedModules, RInv, UNCHANGED EnvVars, InspectKernelModule
  PROVE  [Registry!Next]_AbsVars
<1>1. stage = "kmods" /\ kmods \subseteq KernelMods
  BY DEF InspectKernelModule, RInv, PTypes
<1>2. PICK j \in 1 .. Len(ModOrder) :
        NextModAt(kmods, modIdx, j) /\ KernelModuleStep(ModOrder[j], j)
  BY DEF InspectKernelModule
<1>3. ModOrder[j] \in kmods /\ ModOrder[j] \in KernelMods
  BY <1>1, <1>2 DEF NextModAt
<1>4. ModStepShape(ModOrder[j])
  BY <1>1, <1>2, <1>3, KernelStepShape
<1> QED
  BY <1>3, <1>4, LoopStepMaps DEF InspectKernelModule, EnvVars, Sharable, AllMods

(* The end of a pass drops from the tracked modules only modules of the   *)
(* old tree, which the pass has found loaded nowhere.                     *)
LEMMA GuestEndMaps ==
  ASSUME RInv, UNCHANGED EnvVars, InspectGuestEnd
  PROVE  [Registry!Next]_AbsVars
<1>1. Tracked' = DOMAIN newTree \ {NULL}
  BY EmptyDom DEF InspectGuestEnd, Tracked
<1>2. Sharable \cap DOMAIN known = {}
  BY DEF InspectGuestEnd, RInv, Visited, Sharable
<1>3. Sharable' = Sharable
  BY DEF EnvVars, Sharable
<1>4. Registry!Untrack
  BY <1>1, <1>2, <1>3 DEF InspectGuestEnd, Registry!Untrack, Tracked
<1> QED
  BY <1>4 DEF Registry!Next

(* A new session id forgets every module: the new tree is empty between   *)
(* passes, and before the first pass the known one is too.                *)
LEMMA SessionMaps ==
  ASSUME RInv, UNCHANGED EnvVars,
         \/ WorkerSessionCheck
         \/ VBoxServicePageSharingInit
  PROVE  [Registry!Next]_AbsVars
<1>1. Sharable' = Sharable
  BY DEF EnvVars, Sharable
<1>2. CASE idSession' = idSession
  BY <1>1, <1>2 DEF WorkerSessionCheck, VBoxServicePageSharingInit, AbsVars, Tracked
<1>3. CASE idSession' # idSession
  <2>1. idSession' \in Nat /\ Tracked' = {}
    BY <1>3, EmptyDom DEF WorkerSessionCheck, VBoxServicePageSharingInit,
                         RInv, PTypes, Quiet, Tracked
  <2>2. Registry!Forget
    BY <1>1, <1>3, <2>1 DEF Registry!Forget
  <2> QED
    BY <2>2 DEF Registry!Next
<1> QED
  BY <1>2, <1>3


(* Every step, in the runs without skipped modules.                       *)
LEMMA StepMaps ==
  ASSUME NoSkippedModules, RInv, RInv', [Next]_vars
  PROVE  [Registry!Next]_AbsVars
<1>1. CASE Worker /\ UNCHANGED EnvVars
  <2>1. CASE InspectModule
    BY <1>1, <2>1, ModuleMaps
  <2>2. CASE InspectKernelModule
    BY <1>1, <2>2, KernelModuleMaps
  <2>3. CASE InspectGuestEnd
    BY <1>1, <2>3, GuestEndMaps
  <2>4. CASE WorkerSessionCheck \/ VBoxServicePageSharingInit
    BY <1>1, <2>4, SessionMaps
  <2>5. CASE \/ WorkerPoll \/ InspectGuestBegin \/ InspectGuestProcess
             \/ InspectModulesEnd \/ KernelQuery \/ InspectKernelEnd \/ WorkerWait
    <3>1. UNCHANGED <<known, newTree, idSession, procMods, kmods>>
      BY <1>1, <2>5 DEF WorkerPoll, InspectGuestBegin, InspectGuestProcess,
                        InspectModulesEnd, KernelQuery, InspectKernelEnd, WorkerWait,
                        EnvVars, NoSkippedModules, NoStickyErrors
    <3> QED
      BY <3>1 DEF AbsVars, Sharable, Tracked
  <2> QED
    BY <1>1, <2>1, <2>2, <2>3, <2>4, <2>5 DEF Worker
<1>2. CASE Environment /\ UNCHANGED WorkerVars
  <2>1. UNCHANGED <<Tracked, idSession>>
    BY <1>2 DEF WorkerVars, Tracked
  <2>2. Sharable' \subseteq AllMods
    BY DEF RInv, PTypes, Sharable, AllMods
  <2>3. Registry!Change
    BY <2>1, <2>2 DEF Registry!Change
  <2> QED
    BY <2>3 DEF Registry!Next
<1>3. CASE UNCHANGED vars
  BY <1>3 DEF vars, AbsVars, Sharable, Tracked
<1> QED
  BY <1>1, <1>2, <1>3 DEF Next

(* The worker implements the registry, for every set of processes and     *)
(* modules and every snapshot order, when no failure leaves an error in   *)
(* rc or makes a pass skip loaded modules: it starts tracking a module    *)
(* only while another process or the kernel has it loaded, and it stops   *)
(* tracking one only when no process has it loaded any more, or when the  *)
(* VM was restored into a new session.                                    *)
THEOREM WorkerRefinesRegistry ==
  ASSUME NoSkippedModules
  PROVE  Spec => RegistryRefinement
<1>1. Init => Registry!Init
  <2> SUFFICES ASSUME Init PROVE Registry!Init
    OBVIOUS
  <2>1. RInv
    BY InitRInv
  <2>2. Sharable \subseteq AllMods
    BY <2>1, SharableType DEF RInv
  <2> QED
    BY <2>2, EmptyDom DEF Init, Registry!Init, Tracked
<1>2. Init => RInv
  BY InitRInv
<1>3. RInv /\ [Next]_vars => RInv'
  BY RInvStep
<1>4. RInv /\ RInv' /\ [Next]_vars => [Registry!Next]_AbsVars
  BY StepMaps
<1> QED
  BY <1>1, <1>2, <1>3, <1>4, PTL
     DEF Spec, RegistryRefinement, Registry!Spec, Registry!vars, AbsVars

=============================================================================
