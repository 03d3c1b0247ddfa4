------------------------- MODULE PageSharingProofs -------------------------
(***************************************************************************)
(* Proofs about the PageSharing model of the page-fusion worker, for every *)
(* value of its constants.                                                 *)
(***************************************************************************)
EXTENDS PageSharing, FiniteSetTheorems, TLAPS

-----------------------------------------------------------------------------
(* The type of the variables.                                             *)

(* PSTypeOK with the finiteness of the allocated records that             *)
(* RTMemAllocZ's fresh record, NewRec, relies on.                         *)
TInv == PSTypeOK /\ IsFiniteSet(recs)

(* The part of the type about the trees and the records.                  *)
TreeTypes ==
  /\ IsTree(known) /\ IsTree(newTree)
  /\ recs \subseteq AllMods \X Nat
  /\ IsFiniteSet(recs)

(* A new KNOWN_MODULE is a record of its module that is not allocated:    *)
(* among the numbers 0 .. Cardinality(recs) one is free.                  *)
LEMMA NewRecFresh ==
  ASSUME IsFiniteSet(recs), NEW m
  PROVE  NewRec(m) \in {m} \X Nat /\ NewRec(m) \notin recs
<1> DEFINE C == Cardinality(recs)
<1>1. C \in Nat
  BY FS_CardinalityType
<1>2. \E n \in 0 .. C : <<m, n>> \notin recs
  <2> SUFFICES ASSUME \A n \in 0 .. C : <<m, n>> \in recs
               PROVE  FALSE
    OBVIOUS
  <2> DEFINE f == [n \in 0 .. C |-> <<m, n>>]
  <2>1. f \in Injection(0 .. C, recs)
    BY DEF Injection, IsInjective
  <2>2. Cardinality(0 .. C) <= C
    BY <2>1, FS_Injection
  <2>3. Cardinality(0 .. C) = C + 1
    BY <1>1, FS_Interval
  <2> QED
    BY <1>1, <2>2, <2>3
<1> QED
  BY <1>1, <1>2 DEF NewRec

(* The tree steps of the module loops: nothing changes, a record found in *)
(* the old tree moves to the new one (or is dropped), or a new record may *)
(* be made and inserted under its module's base address, which is not in  *)
(* the old tree, or under NULL.                                           *)
TreeStep(m) ==
  \/ UNCHANGED <<known, newTree, recs>>
  \/ m \in DOMAIN known /\ m \notin DOMAIN newTree /\ ReuseKnown(m)
  \/ /\ known' = known
     /\ \E key \in {m, NULL} :
          /\ key = NULL \/ key \notin DOMAIN known
          /\ \E r : KeepIfOK(key, m, r)

(* A tree step of a module loop, on a module of the snapshot order.       *)
LEMMA TreeStepTypes ==
  ASSUME TreeTypes, NEW m \in AllMods, TreeStep(m)
  PROVE  TreeTypes'
<1>1. CASE UNCHANGED <<known, newTree, recs>>
  BY <1>1 DEF TreeTypes, IsTree
<1>2. CASE m \in DOMAIN known /\ m \notin DOMAIN newTree /\ ReuseKnown(m)
  BY <1>2 DEF ReuseKnown, Remove, Insert, TreeTypes, IsTree
<1>3. CASE known' = known /\ \E key \in {m, NULL} : \E r : KeepIfOK(key, m, r)
  <2>0. PICK key \in {m, NULL} : \E r : KeepIfOK(key, m, r)
    BY <1>3
  <2>1. PICK r : KeepIfOK(key, m, r)
    BY <2>0
  <2>2. NewRec(m) \in AllMods \X Nat
    BY NewRecFresh DEF TreeTypes
  <2>3. IsFiniteSet(recs \cup {NewRec(m)})
    BY FS_AddElement DEF TreeTypes
  <2>4. key \in AllMods \cup {NULL}
    OBVIOUS
  <2> QED
    BY <1>3, <2>1, <2>2, <2>3, <2>4 DEF KeepIfOK, Insert, TreeTypes, IsTree
<1> QED
  BY <1>1, <1>2, <1>3 DEF TreeStep

(* Freeing records keeps the set finite.                                  *)
LEMMA FreeFinite ==
  ASSUME IsFiniteSet(recs), NEW X
  PROVE  IsFiniteSet(recs \ X)
BY FS_Subset


LEMMA EmptyTreeType == IsTree(EmptyTree) /\ DOMAIN EmptyTree = {}
BY DEF EmptyTree, IsTree

LEMMA RegisterType ==
  ASSUME NEW a, NEW b
  PROVE  vboxServicePageSharingRegisterModule(a, b) \subseteq {"OK", "ERR"}
BY DEF vboxServicePageSharingRegisterModule, vboxServicePageSharingRetrieveFileVersion

LEMMA ModOrderType ==
  ASSUME NEW j \in 1 .. Len(ModOrder)
  PROVE  ModOrder[j] \in AllMods
BY ConstantsOK DEF ConstantsOK

LEMMA TreeTypesStep ==
  ASSUME TreeTypes, [Next]_vars
  PROVE  TreeTypes'
<1>1. CASE InspectModule
  <2>1. PICK j \in 1 .. Len(ModOrder) : UserModuleStep(ModOrder[j], j)
    BY <1>1 DEF InspectModule
  <2>2. TreeStep(ModOrder[j])
    BY <2>1 DEF UserModuleStep, TreeStep, FoundInNewTree, RegisterNew
  <2> QED
    BY <2>2, ModOrderType, TreeStepTypes
<1>2. CASE InspectKernelModule
  <2>1. PICK j \in 1 .. Len(ModOrder) : KernelModuleStep(ModOrder[j], j)
    BY <1>2 DEF InspectKernelModule
  <2>2. TreeStep(ModOrder[j])
    BY <2>1 DEF KernelModuleStep, TreeStep, FoundInNewTree, RegisterNew
  <2> QED
    BY <2>2, ModOrderType, TreeStepTypes
<1>3. CASE InspectGuestEnd \/ WorkerSessionCheck
  <2>1. IsFiniteSet(recs \ RecsOf(known))
    BY FreeFinite DEF TreeTypes
  <2> QED
    BY <1>3, <2>1, EmptyTreeType DEF InspectGuestEnd, WorkerSessionCheck, TreeTypes
<1>4. CASE KernelQuery
  BY <1>4, EmptyTreeType DEF KernelQuery, TreeTypes
<1>5. CASE ~InspectModule /\ ~InspectKernelModule /\ ~InspectGuestEnd
           /\ ~WorkerSessionCheck /\ ~KernelQuery
  <2>1. UNCHANGED <<known, newTree, recs>>
    BY <1>5 DEF Next, Worker, Environment, vars, WorkerVars,
                VBoxServicePageSharingInit, WorkerPoll, InspectGuestBegin,
                InspectGuestProcess, InspectModulesEnd, InspectKernelEnd, WorkerWait
  <2> QED
    BY <2>1 DEF TreeTypes, IsTree
<1> QED
  BY <1>1, <1>2, <1>3, <1>4, <1>5


LEMMA TypeStep ==
  ASSUME TInv, [Next]_vars
  PROVE  TInv'
<1>1. TreeTypes
  BY DEF TInv, PSTypeOK, TreeTypes
<1>2. TreeTypes'
  BY <1>1, TreeTypesStep
<1>3. Len(ModOrder) \in Nat /\ Len(ProcOrder) \in Nat
  BY ConstantsOK DEF ConstantsOK
<1> USE <1>2, <1>3 DEF TInv, PSTypeOK, TreeTypes, Stages
<1>4. CASE Worker /\ UNCHANGED EnvVars
  <2> USE DEF EnvVars
  <2>1. CASE VBoxServicePageSharingInit \/ WorkerPoll \/ WorkerWait
             \/ WorkerSessionCheck \/ InspectGuestEnd \/ InspectGuestBegin
    BY <1>4, <2>1 DEF VBoxServicePageSharingInit, WorkerPoll, WorkerWait,
                WorkerSessionCheck, InspectGuestEnd, InspectGuestBegin
  <2>2. CASE InspectGuestProcess
    BY <1>4, <2>2 DEF InspectGuestProcess, IsOwnProcess
  <2>3. CASE InspectModulesEnd \/ InspectKernelEnd \/ KernelQuery
    BY <1>4, <2>3 DEF InspectModulesEnd, InspectKernelEnd, KernelQuery
  <2>4. CASE InspectModule
    <3>1. PICK j \in 1 .. Len(ModOrder) : UserModuleStep(ModOrder[j], j)
      BY <2>4 DEF InspectModule
    <3>2. rc' \in {"OK", "ERR"}
      BY <3>1, RegisterType DEF UserModuleStep, RegisterNew, ReuseKnown
    <3>3. \/ stage' = "mods" /\ procIdx' = procIdx /\ modIdx' = j + 1
          \/ stage' = "procs" /\ procIdx' = procIdx + 1 /\ modIdx' = modIdx
      BY <2>4, <3>1 DEF InspectModule, UserModuleStep, ReuseKnown, RegisterNew
    <3>4. UNCHANGED <<idSession, sem, passes, enabled, procMods, kmods, session, envOps>>
      BY <1>4, <2>4 DEF InspectModule
    <3>5. stage = "mods" /\ procIdx \in 1 .. Len(ProcOrder) /\ ProcOrder[procIdx] # SelfPid
      BY <2>4 DEF InspectModule
    <3>6. stage' \in Stages /\ procIdx' \in 1 .. Len(ProcOrder) + 1
          /\ modIdx' \in 1 .. Len(ModOrder) + 1
      BY <3>3, <3>5
    <3>7. stage' = "mods" => procIdx' <= Len(ProcOrder) /\ ProcOrder[procIdx'] # SelfPid
      BY <3>3, <3>5
    <3> QED
      BY <3>2, <3>4, <3>6, <3>7
  <2>5. CASE InspectKernelModule
    <3>1. PICK j \in 1 .. Len(ModOrder) : KernelModuleStep(ModOrder[j], j)
      BY <2>5 DEF InspectKernelModule
    <3>2. rc' \in {"OK", "ERR"}
      BY <3>1, RegisterType DEF KernelModuleStep, RegisterNew, ReuseKnown
    <3>3. \/ stage' = "kmods" /\ modIdx' = j + 1
          \/ stage' = "end" /\ modIdx' = modIdx
      BY <2>5, <3>1 DEF InspectKernelModule, KernelModuleStep, ReuseKnown, RegisterNew
    <3>4. UNCHANGED <<procIdx, idSession, sem, passes, enabled, procMods, kmods,
                      session, envOps>>
      BY <1>4, <2>5 DEF InspectKernelModule
    <3>5. stage' \in Stages \ {"mods"} /\ modIdx' \in 1 .. Len(ModOrder) + 1
      BY <3>3, <3>1
    <3> QED
      BY <3>2, <3>4, <3>5
  <2> QED
    BY <1>4, <2>1, <2>2, <2>3, <2>4, <2>5 DEF Worker
<1>5. CASE Environment /\ UNCHANGED WorkerVars
  <2> USE DEF WorkerVars
  <2>1. CASE \E p \in Procs, m \in UserMods : GuestLoadUnload(p, m)
    <3>1. PICK p \in Procs, m \in UserMods : GuestLoadUnload(p, m)
      BY <2>1
    <3>2. procMods' \in [Procs -> SUBSET UserMods]
      BY <3>1 DEF GuestLoadUnload
    <3> QED
      BY <1>5, <3>1, <3>2 DEF GuestLoadUnload
  <2>2. CASE \E m \in KernelMods : KernelLoadUnload(m)
    BY <1>5, <2>2 DEF KernelLoadUnload
  <2>3. CASE HostToggle
    <3>1. enabled' \in BOOLEAN /\ UNCHANGED <<procMods, kmods, session>>
      BY <2>3, Zenon DEF HostToggle
    <3> QED
      BY <1>5, <2>3, <3>1 DEF HostToggle
  <2>4. CASE VMRestore
    BY <1>5, <2>4 DEF VMRestore
  <2> QED
    BY <1>5, <2>1, <2>2, <2>3, <2>4 DEF Environment
<1>6. CASE UNCHANGED vars
  BY <1>6 DEF vars
<1> QED
  BY <1>4, <1>5, <1>6 DEF Next

(* The variables keep their types: in particular every record is a        *)
(* record of its module (RTMemAllocZ always finds a fresh KNOWN_MODULE),  *)
(* the trees hold modules of the snapshots only, and the worker inspects  *)
(* the modules of another process only, its own being skipped by         *)
(* VBoxServicePageSharingInspectGuest.                                    *)
THEOREM TypeCorrect == Spec => []PSTypeOK
<1>1. Init => TInv
  BY EmptyTreeType, FS_EmptySet, ConstantsOK
     DEF Init, TInv, PSTypeOK, ConstantsOK, Stages
<1>2. TInv /\ [Next]_vars => TInv'
  BY TypeStep
<1>3. TInv => PSTypeOK
  BY DEF TInv
<1> QED
  BY <1>1, <1>2, <1>3, PTL DEF Spec


-----------------------------------------------------------------------------
(* No record is left dangling.                                            *)

(* No record is held under two keys of a tree, and no module is in the    *)
(* old and the new tree at once: only NULL may be in both.                *)
ModsDisjoint == DOMAIN known \cap DOMAIN newTree \subseteq {NULL}
DInv ==
  /\ IsInjective(known) /\ IsInjective(newTree)
  /\ ModsDisjoint
  /\ NoDanglingRecord

(* The inductive strengthening of NoDanglingRecord: a fresh record is not *)
(* allocated yet, so it is in no tree, which the finiteness of the        *)
(* allocated records in TreeTypes gives.                                  *)
IInv == TreeTypes /\ DInv

(* Moving a record from the old tree to the new one, as                   *)
(* VBoxServicePageSharingInspectModules does, keeps the invariant: the   *)
(* record is taken out of the old tree, where no other key holds it.      *)
LEMMA ReuseKnownOK ==
  ASSUME NEW m, DInv, m \in DOMAIN known, m \notin DOMAIN newTree, ReuseKnown(m)
  PROVE  DInv'
<1>1. known' = [k \in DOMAIN known \ {m} |-> known[k]] /\ recs' = recs
  BY DEF ReuseKnown, Remove
<1>2. known[m] \notin RecsOf(newTree)
  BY DEF DInv, NoDanglingRecord, RecsOf
<1>3. \A k \in DOMAIN known \ {m} : known[k] # known[m]
  BY DEF DInv, IsInjective
<1>4. CASE rc = "OK"
  <2>1. newTree' = [k \in DOMAIN newTree \cup {m} |->
                      IF k = m THEN known[m] ELSE newTree[k]]
    BY <1>4 DEF ReuseKnown, Insert
  <2>2. IsInjective(known') /\ IsInjective(newTree')
    BY <1>1, <1>2, <2>1 DEF DInv, IsInjective, RecsOf
  <2>3. ModsDisjoint'
    BY <1>1, <2>1 DEF DInv, ModsDisjoint
  <2>4. NoDanglingRecord'
    BY <1>1, <1>2, <1>3, <2>1 DEF DInv, NoDanglingRecord, RecsOf
  <2> QED
    BY <2>2, <2>3, <2>4 DEF DInv
<1>5. CASE rc # "OK"
  BY <1>1, <1>5 DEF ReuseKnown, DInv, ModsDisjoint, IsInjective, NoDanglingRecord, RecsOf
<1> QED
  BY <1>4, <1>5

(* Inserting a freshly allocated record, under a key not in the old tree *)
(* or under NULL, keeps the invariant.                                    *)
LEMMA KeepIfOKOK ==
  ASSUME NEW key, NEW m, NEW r, TreeTypes, DInv,
         key = NULL \/ key \notin DOMAIN known,
         known' = known, KeepIfOK(key, m, r)
  PROVE  DInv'
<1>1. NewRec(m) \notin recs
  BY NewRecFresh DEF TreeTypes
<1>2. NewRec(m) \notin RecsOf(known) \cup RecsOf(newTree)
  BY <1>1 DEF DInv, NoDanglingRecord
<1>3. CASE r = "OK" /\ key \notin DOMAIN newTree
  <2>1. newTree' = [k \in DOMAIN newTree \cup {key} |->
                      IF k = key THEN NewRec(m) ELSE newTree[k]]
    BY <1>3 DEF KeepIfOK, Insert
  <2>2. recs' = recs \cup {NewRec(m)}
    BY <1>3 DEF KeepIfOK
  <2>3. IsInjective(known') /\ IsInjective(newTree')
    BY <1>2, <2>1 DEF DInv, IsInjective, RecsOf
  <2>4. ModsDisjoint'
    BY <2>1 DEF DInv, ModsDisjoint
  <2>5. NoDanglingRecord'
    BY <1>2, <2>1, <2>2 DEF DInv, NoDanglingRecord, RecsOf
  <2> QED
    BY <2>3, <2>4, <2>5 DEF DInv
<1>4. CASE r = "OK" /\ key \in DOMAIN newTree
  <2>1. newTree' = newTree /\ recs' = recs \cup {NewRec(m)}
    BY <1>4 DEF KeepIfOK, Insert
  <2> QED
    BY <2>1 DEF DInv, ModsDisjoint, IsInjective, NoDanglingRecord, RecsOf
<1>5. CASE r # "OK"
  BY <1>5 DEF KeepIfOK, DInv, ModsDisjoint, IsInjective, NoDanglingRecord, RecsOf
<1> QED
  BY <1>3, <1>4, <1>5

LEMMA TreeStepOK ==
  ASSUME NEW m, TreeTypes, DInv, TreeStep(m)
  PROVE  DInv'
<1>1. CASE UNCHANGED <<known, newTree, recs>>
  BY <1>1 DEF DInv, ModsDisjoint, IsInjective, NoDanglingRecord, RecsOf
<1>2. CASE m \in DOMAIN known /\ m \notin DOMAIN newTree /\ ReuseKnown(m)
  BY <1>2, ReuseKnownOK
<1>3. CASE known' = known /\ \E key \in {m, NULL} :
             (key = NULL \/ key \notin DOMAIN known) /\ \E r : KeepIfOK(key, m, r)
  BY <1>3, KeepIfOKOK
<1> QED
  BY <1>1, <1>2, <1>3 DEF TreeStep

(* The end of a pass frees the records left in the old tree; those of the *)
(* new tree, which becomes the known one, are kept.                       *)
LEMMA InspectGuestEndOK ==
  ASSUME DInv, InspectGuestEnd
  PROVE  DInv'
<1>1. DOMAIN EmptyTree = {}
  BY DEF EmptyTree
<1> QED
  BY <1>1 DEF InspectGuestEnd, DInv, ModsDisjoint, IsInjective, NoDanglingRecord, RecsOf

(* A new session frees the records of the old tree without touching the  *)
(* new one.                                                               *)
LEMMA WorkerSessionCheckOK ==
  ASSUME DInv, WorkerSessionCheck
  PROVE  DInv'
<1>1. DOMAIN EmptyTree = {}
  BY DEF EmptyTree
<1> QED
  BY <1>1 DEF WorkerSessionCheck, DInv, ModsDisjoint, IsInjective, NoDanglingRecord, RecsOf

(* The early return of the kernel query drops the new tree and its        *)
(* records stay allocated.                                                *)
LEMMA KernelQueryOK ==
  ASSUME DInv, KernelQuery
  PROVE  DInv'
<1>1. DOMAIN EmptyTree = {}
  BY DEF EmptyTree
<1>2. newTree' \in {newTree, EmptyTree} /\ UNCHANGED <<known, recs>>
  BY DEF KernelQuery
<1> QED
  BY <1>1, <1>2 DEF DInv, ModsDisjoint, IsInjective, NoDanglingRecord, RecsOf

LEMMA InitIInv == Init => IInv
<1> SUFFICES ASSUME Init PROVE IInv
  OBVIOUS
<1>1. TreeTypes
  BY EmptyTreeType, FS_EmptySet DEF Init, TreeTypes
<1>2. DOMAIN EmptyTree = {}
  BY DEF EmptyTree
<1> QED
  BY <1>1, <1>2 DEF Init, IInv, DInv, ModsDisjoint, IsInjective, NoDanglingRecord, RecsOf

LEMMA NextIInv == IInv /\ [Next]_vars => IInv'
<1> SUFFICES ASSUME IInv, [Next]_vars PROVE IInv'
  OBVIOUS
<1>0. TreeTypes /\ TreeTypes'
  BY TreeTypesStep DEF IInv
<1> SUFFICES DInv'
  BY <1>0 DEF IInv
<1>a. DInv
  BY DEF IInv
<1>1. CASE Worker /\ UNCHANGED EnvVars
  <2>1. CASE VBoxServicePageSharingInit \/ WorkerPoll \/ InspectGuestBegin
             \/ InspectGuestProcess \/ InspectModulesEnd \/ InspectKernelEnd
             \/ WorkerWait
    <3>1. UNCHANGED <<known, newTree, recs>>
      BY <2>1 DEF VBoxServicePageSharingInit, WorkerPoll, InspectGuestBegin,
                  InspectGuestProcess, InspectModulesEnd, InspectKernelEnd, WorkerWait
    <3> QED
      BY <1>a, <3>1 DEF DInv, ModsDisjoint, IsInjective, NoDanglingRecord, RecsOf
  <2>2. CASE InspectModule
    <3>1. PICK j \in 1 .. Len(ModOrder) : UserModuleStep(ModOrder[j], j)
      BY <2>2 DEF InspectModule
    <3>2. TreeStep(ModOrder[j])
      BY <3>1 DEF UserModuleStep, TreeStep, FoundInNewTree, RegisterNew
    <3> QED
      BY <1>0, <1>a, <3>2, TreeStepOK
  <2>3. CASE InspectKernelModule
    <3>1. PICK j \in 1 .. Len(ModOrder) : KernelModuleStep(ModOrder[j], j)
      BY <2>3 DEF InspectKernelModule
    <3>2. TreeStep(ModOrder[j])
      BY <3>1 DEF KernelModuleStep, TreeStep, FoundInNewTree, RegisterNew
    <3> QED
      BY <1>0, <1>a, <3>2, TreeStepOK
  <2>4. CASE KernelQuery
    BY <1>a, <2>4, KernelQueryOK
  <2>5. CASE InspectGuestEnd
    BY <1>a, <2>5, InspectGuestEndOK
  <2>6. CASE WorkerSessionCheck
    BY <1>a, <2>6, WorkerSessionCheckOK
  <2> QED
    BY <1>1, <2>1, <2>2, <2>3, <2>4, <2>5, <2>6 DEF Worker
<1>2. CASE (Environment /\ UNCHANGED WorkerVars) \/ UNCHANGED vars
  <2>1. UNCHANGED <<known, newTree, recs>>
    BY <1>2 DEF WorkerVars, vars
  <2> QED
    BY <1>a, <2>1 DEF DInv, ModsDisjoint, IsInjective, NoDanglingRecord, RecsOf
<1> QED
  BY <1>1, <1>2 DEF Next

(* No record is left dangling: every record in the known tree or in the  *)
(* tree being built is allocated, and no record is in both, through the   *)
(* sticky rc, the early return of the kernel query, VM restores and the   *)
(* NULL-keyed records of kernel modules the code cannot find, so freeing  *)
(* the old tree's leftovers never frees a record the new tree keeps.      *)
THEOREM RecordsNotDangling == Spec => []NoDanglingRecord
<1>1. IInv => NoDanglingRecord
  BY DEF IInv, DInv
<1> QED
  BY InitIInv, NextIInv, <1>1, PTL DEF Spec

=============================================================================
