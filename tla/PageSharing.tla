----------------------------- MODULE PageSharing -----------------------------
(***************************************************************************)
(* The page-sharing worker of VBoxService (VBoxServicePageSharing.cpp), as *)
(* it runs in the child process that VBoxServicePageSharingWorkerProcess   *)
(* forks on Windows: VBoxServicePageSharingInitFork, then                  *)
(* VBoxServicePageSharingWorker with a local shutdown flag that is never   *)
(* set.                                                                    *)
(*                                                                         *)
(* Each pass of the worker (VBoxServicePageSharingInspectGuest) builds a   *)
(* new AVL tree of KNOWN_MODULE records keyed by module base address:      *)
(* every module of every other process, then every kernel module, is      *)
(* looked up in the new tree, then moved over from the old tree            *)
(* (g_pKnownModuleTree), and only if it is in neither is a new record     *)
(* allocated and registered.  What is left in the old tree is unregistered *)
(* and freed, and the new tree replaces it.  When the VM was restored into *)
(* a new session the tree is freed without unregistering.                  *)
(*                                                                         *)
(* A module is a model value standing for its base address; a record is   *)
(* <<module, n>>, n telling apart records of the same module.  A tree maps *)
(* a record's Core.Key, a module or NULL, to the record.  Every call       *)
(* into Windows that can fail is a nondeterministic choice, enabled by the *)
(* kind of failure it belongs to being in Faults.  The guest's processes   *)
(* load and unload modules only between passes: the code reads snapshots  *)
(* (CreateToolhelp32Snapshot, ZwQuerySystemInformation), and a module      *)
(* unloaded after its snapshot makes LoadLibraryEx fail, which is a fault  *)
(* of its own.                                                             *)
(***************************************************************************)
EXTENDS Naturals, Sequences, FiniteSets

CONSTANTS
  ProcOrder,       \* the processes in snapshot order, our own included
  SelfPid,         \* our own process (GetCurrentProcessId)
  UserMods,        \* the modules processes may load
  Exes,            \* those that are .exe or .com images
  KernelMods,      \* the kernel modules with flags set
  KernelPathMods,  \* kernel modules whose file-name part is empty
  KernelMissing,   \* kernel modules in neither system32 nor drivers
  ModOrder,        \* every module once: the order the snapshots list them
  Faults,          \* the kinds of failure the environment may produce
  HaveZwQuery,     \* ntdll exports ZwQuerySystemInformation
  MaxPasses,       \* bound on the passes of the worker
  MaxEnv,          \* bound on the guest's loads, unloads and toggles
  MaxSessions,     \* bound on the VM restores
  NULL             \* the NULL pointer, a key no module has

Procs == {ProcOrder[i] : i \in DOMAIN ProcOrder}
AllMods == UserMods \cup KernelMods
FaultKinds == {"init", "snapshot", "alloc", "load", "version", "query",
               "kquery", "session"}

(* The constants the proofs need.                                         *)
ASSUME ConstantsOK ==
  /\ ProcOrder \in Seq(Procs) /\ SelfPid \in Procs
  /\ Exes \subseteq UserMods
  /\ KernelPathMods \cup KernelMissing \subseteq KernelMods
  /\ KernelPathMods \cap KernelMissing = {}
  /\ UserMods \cap KernelMods = {}
  /\ ModOrder \in Seq(AllMods)
  /\ \A m \in AllMods : \E i \in 1 .. Len(ModOrder) : ModOrder[i] = m
  /\ \A i, j \in 1 .. Len(ModOrder) : ModOrder[i] = ModOrder[j] => i = j
  /\ Faults \subseteq FaultKinds
  /\ HaveZwQuery \in BOOLEAN
  /\ MaxPasses \in Nat /\ MaxEnv \in Nat /\ MaxSessions \in Nat
  /\ NULL \notin AllMods

VARIABLES
  stage,      \* where the worker is
  procIdx,    \* the process being inspected, an index into ProcOrder
  modIdx,     \* the module being inspected, an index into its list
  rc,         \* rc of VBoxServicePageSharingInspectModules / the kernel loop
  known,      \* g_pKnownModuleTree: module -> record
  newTree,    \* pNewTree of the pass in progress
  recs,       \* the KNOWN_MODULE records allocated and not freed
  idSession,  \* g_idSession
  sem,        \* g_PageSharingEvent: "live" or "nil"
  enabled,    \* what VbglR3PageSharingIsEnabled answers
  procMods,   \* the modules each process has loaded
  kmods,      \* the kernel modules loaded
  session,    \* the VMM's session id
  passes,     \* passes done
  envOps      \* guest loads, unloads and toggles done

vars == <<stage, procIdx, modIdx, rc, known, newTree, recs, idSession, sem,
          enabled, procMods, kmods, session, passes, envOps>>
WorkerVars == <<stage, procIdx, modIdx, rc, known, newTree, recs, idSession, sem,
              passes>>
EnvVars == <<enabled, procMods, kmods, session, envOps>>

-----------------------------------------------------------------------------
(* AVL trees of records: RTAvlPVInsert does nothing if the key is there.  *)
EmptyTree == [m \in {} |-> <<m, 0>>]
Insert(t, m, r) ==
  IF m \in DOMAIN t THEN t ELSE [k \in DOMAIN t \cup {m} |-> IF k = m THEN r ELSE t[k]]
Remove(t, m) == [k \in DOMAIN t \ {m} |-> t[k]]
RecsOf(t) == {t[k] : k \in DOMAIN t}

(* RTMemAllocZ of a KNOWN_MODULE: a record not in use, its Core.Key NULL  *)
(* until the code sets it.                                                *)
NewRec(m) == <<m, CHOOSE n \in 0 .. Cardinality(recs) : <<m, n>> \notin recs>>

(* Module32First / Module32Next (and the kernel loop's index): the next   *)
(* module of the snapshot S at or after position i of the snapshot order  *)
(* is the one at position j.                                              *)
NextModAt(S, i, j) ==
  /\ j \in i .. Len(ModOrder) /\ ModOrder[j] \in S
  /\ \A k \in i .. j - 1 : ModOrder[k] \notin S

(* The snapshot has no module left at or after position i.                *)
NoModFrom(S, i) == \A j \in i .. Len(ModOrder) : ModOrder[j] \notin S

(* The modules of the process being inspected.                            *)
CurMods == procMods[ProcOrder[procIdx]]

(* The shareable modules loaded: those of other processes that are not    *)
(* executables, and the kernel modules.                                   *)
Sharable ==
  (UNION {procMods[p] \ Exes : p \in Procs \ {SelfPid}}) \cup kmods

(* vboxServicePageSharingRetrieveFileVersion and                          *)
(* vboxServicePageSharingRegisterModule: the results they may return.     *)
(* The version lookup of a directory fails; VirtualQuery and the region   *)
(* table only matter when the pages are validated; the                    *)
(* VbglR3RegisterSharedModule call is commented out and stands as success.*)
vboxServicePageSharingRetrieveFileVersion(isDir) ==
  IF isDir THEN {"ERR"}
  ELSE {"OK"} \cup (IF "version" \in Faults THEN {"ERR"} ELSE {})
vboxServicePageSharingRegisterModule(isDir, fValidateMemory) ==
  vboxServicePageSharingRetrieveFileVersion(isDir)
    \cup (IF fValidateMemory /\ "query" \in Faults THEN {"ERR"} ELSE {})

(* Mutant: the extension test is left out.                                *)
fSkipNever(m) == FALSE

(* fSkip: executables and .com images are ignored for now.                *)
fSkip(m) == m \in Exes

(* Mutant: the lookup in the new tree is left out.                        *)
FoundInNewTreeNever(m) == FALSE

(* "Found it before?": RTAvlPVGet on the new tree.                        *)
FoundInNewTree(m) == m \in DOMAIN newTree

(* Mutant: our own process is not skipped.                                *)
IsOwnProcessNever(p) == FALSE

(* The process loop skips our own process.                                *)
IsOwnProcess(p) == p = SelfPid

(* The end of the loop body for a new module m, whose record has Core.Key *)
(* key: keep the record when rc is a success, else free it.  When the key *)
(* is in the new tree already, RTAvlPVInsert fails and the record is kept *)
(* nowhere (the Assert on fRet is compiled in debug builds only).         *)
KeepIfOK(key, m, rc2) ==
  /\ newTree' = IF rc2 = "OK" THEN Insert(newTree, key, NewRec(m)) ELSE newTree
  /\ recs' = IF rc2 = "OK" THEN recs \cup {NewRec(m)} ELSE recs

(* A new module whose registration returned res; its Core.Key was set     *)
(* from its base address before.                                          *)
RegisterNew(m, results) ==
  \E res \in results : rc' = res /\ KeepIfOK(m, m, res)

(* Mutant: the record is looked up in the old tree and left there.       *)
ReuseKnownGet(m) ==
  /\ newTree' = IF rc = "OK" THEN Insert(newTree, m, known[m]) ELSE newTree
  /\ UNCHANGED <<known, recs, rc>>

(* Found in the old tree: moved over, but only inserted when rc is a      *)
(* success.                                                               *)
ReuseKnown(m) ==
  /\ known' = Remove(known, m)
  /\ newTree' = IF rc = "OK" THEN Insert(newTree, m, known[m]) ELSE newTree
  /\ UNCHANGED <<recs, rc>>

-----------------------------------------------------------------------------
(* VBoxServicePageSharingInitFork calls VBoxServicePageSharingInit and    *)
(* ignores what it returns: when the semaphore or the session id cannot   *)
(* be had, the worker runs with a NIL semaphore.                          *)
VBoxServicePageSharingInit ==
  /\ stage = "init"
  /\ \/ sem' = "live" /\ idSession' = session
     \/ "init" \in Faults /\ sem' = "nil" /\ UNCHANGED idSession
  /\ stage' = "top"
  /\ UNCHANGED <<procIdx, modIdx, rc, known, newTree, recs, passes>>

(* The top of the worker loop: inspect the guest when page sharing is    *)
(* enabled.                                                               *)
WorkerPoll ==
  /\ stage = "top" /\ passes < MaxPasses
  /\ stage' = IF enabled THEN "snap" ELSE "wait"
  /\ UNCHANGED <<procIdx, modIdx, rc, known, newTree, recs, idSession, sem, passes>>

(* VBoxServicePageSharingInspectGuest takes a snapshot of the processes; *)
(* when it fails it goes on with the kernel modules.                      *)
InspectGuestBegin ==
  /\ stage = "snap"
  /\ \/ stage' = "procs" /\ procIdx' = 1
     \/ "snapshot" \in Faults /\ stage' = "kquery" /\ UNCHANGED procIdx
  /\ UNCHANGED <<modIdx, rc, known, newTree, recs, idSession, sem, passes>>

(* The next process of the snapshot: our own is skipped;                  *)
(* VBoxServicePageSharingInspectModules returns early when OpenProcess or *)
(* the module snapshot fails.                                             *)
InspectGuestProcess ==
  /\ stage = "procs"
  /\ IF procIdx > Len(ProcOrder)
     THEN stage' = "kquery" /\ UNCHANGED <<procIdx, modIdx, rc>>
     ELSE \/ IsOwnProcess(ProcOrder[procIdx])
             /\ procIdx' = procIdx + 1 /\ UNCHANGED <<stage, modIdx, rc>>
          \/ ~IsOwnProcess(ProcOrder[procIdx])
             /\ stage' = "mods" /\ modIdx' = 1 /\ rc' = "OK"
             /\ UNCHANGED procIdx
          \/ ~IsOwnProcess(ProcOrder[procIdx]) /\ "snapshot" \in Faults
             /\ procIdx' = procIdx + 1 /\ UNCHANGED <<stage, modIdx, rc>>
  /\ UNCHANGED <<known, newTree, recs, idSession, sem, passes>>

(* One module of the process: skipped when an executable or already in   *)
(* the new tree, moved over when in the old tree, else allocated, loaded  *)
(* with LoadLibraryEx and registered.  A failed allocation ends the       *)
(* process; a failed LoadLibraryEx leaves rc as it was.                   *)
UserModuleStep(m, j) ==
  \/ (fSkip(m) \/ FoundInNewTree(m))
     /\ modIdx' = j + 1 /\ UNCHANGED <<stage, procIdx, rc, known, newTree, recs>>
  \/ ~fSkip(m) /\ ~FoundInNewTree(m) /\ m \in DOMAIN known
     /\ ReuseKnown(m)
     /\ modIdx' = j + 1 /\ UNCHANGED <<stage, procIdx>>
  \/ ~fSkip(m) /\ ~FoundInNewTree(m) /\ m \notin DOMAIN known
     /\ \/ "alloc" \in Faults /\ rc' = "ERR"
           /\ stage' = "procs" /\ procIdx' = procIdx + 1
           /\ UNCHANGED <<modIdx, newTree, recs>>
        \/ RegisterNew(m, vboxServicePageSharingRegisterModule(FALSE, TRUE))
           /\ modIdx' = j + 1 /\ UNCHANGED <<stage, procIdx>>
        \/ "load" \in Faults /\ KeepIfOK(m, m, rc)
           /\ modIdx' = j + 1 /\ UNCHANGED <<stage, procIdx, rc>>
     /\ UNCHANGED known

(* The process's next module, at position j of the snapshot order.        *)
InspectModule ==
  /\ stage = "mods"
  /\ \E j \in 1 .. Len(ModOrder) :
       NextModAt(CurMods, modIdx, j) /\ UserModuleStep(ModOrder[j], j)
  /\ UNCHANGED <<idSession, sem, passes>>

(* Module32Next finds no more modules: back to the process loop.          *)
InspectModulesEnd ==
  /\ stage = "mods"
  /\ NoModFrom(CurMods, modIdx)
  /\ stage' = "procs" /\ procIdx' = procIdx + 1
  /\ UNCHANGED <<modIdx, rc, known, newTree, recs, idSession, sem, passes>>

(* The kernel modules: ZwQuerySystemInformation is asked for the size,    *)
(* then for the list.  A size of 0 returns VERR_NO_MEMORY from the whole *)
(* pass, before the old tree is cleaned up and the new one activated; any *)
(* other error of the first call is kept in rc and the pass goes on; the *)
(* allocation, the second call or GetSystemDirectory failing end the      *)
(* kernel part.                                                           *)
KernelQuery ==
  /\ stage = "kquery"
  /\ IF ~HaveZwQuery
     THEN stage' = "end" /\ UNCHANGED <<modIdx, rc, newTree, passes>>
     ELSE \/ stage' = "kmods" /\ modIdx' = 1 /\ rc' = "OK"
             /\ UNCHANGED <<newTree, passes>>
          \/ "kquery" \in Faults /\ stage' = "kmods" /\ modIdx' = 1 /\ rc' = "ERR"
             /\ UNCHANGED <<newTree, passes>>
          \/ "kquery" \in Faults /\ stage' = "end"
             /\ UNCHANGED <<modIdx, rc, newTree, passes>>
          \/ "kquery" \in Faults /\ stage' = "wait"
             /\ newTree' = EmptyTree /\ passes' = passes + 1
             /\ UNCHANGED <<modIdx, rc>>
  /\ UNCHANGED <<procIdx, known, recs, idSession, sem>>

(* One kernel module: looked up and moved over as the user modules are.   *)
(* A new one is registered under the path built from the system directory *)
(* without validating its pages.  When the file-name part is empty the    *)
(* path becomes the system directory itself (pszCurrentFile is "\\"), and *)
(* the version lookup fails; when the file is in neither system32 nor     *)
(* drivers the code breaks out (line 634) with the success of the last   *)
(* RTPathAppend in rc, before line 666 sets Core.Key: it keeps a record   *)
(* it never registered, under the NULL key of RTMemAllocZ.                *)
KernelModuleStep(m, j) ==
  \/ FoundInNewTree(m)
     /\ modIdx' = j + 1 /\ UNCHANGED <<stage, rc, known, newTree, recs>>
  \/ ~FoundInNewTree(m) /\ m \in DOMAIN known
     /\ ReuseKnown(m)
     /\ modIdx' = j + 1 /\ UNCHANGED stage
  \/ ~FoundInNewTree(m) /\ m \notin DOMAIN known
     /\ \/ "alloc" \in Faults /\ rc' = "ERR" /\ stage' = "end"
           /\ UNCHANGED <<modIdx, newTree, recs>>
        \/ m \notin KernelMissing
           /\ RegisterNew(m, vboxServicePageSharingRegisterModule(m \in KernelPathMods, FALSE))
           /\ modIdx' = j + 1 /\ UNCHANGED stage
        \/ m \in KernelMissing /\ rc' = "OK" /\ KeepIfOK(NULL, m, "OK")
           /\ modIdx' = j + 1 /\ UNCHANGED stage
     /\ UNCHANGED known

(* The next kernel module, at position j of the snapshot order.           *)
InspectKernelModule ==
  /\ stage = "kmods"
  /\ \E j \in 1 .. Len(ModOrder) :
       NextModAt(kmods, modIdx, j) /\ KernelModuleStep(ModOrder[j], j)
  /\ UNCHANGED <<procIdx, idSession, sem, passes>>

InspectKernelEnd ==
  /\ stage = "kmods"
  /\ NoModFrom(kmods, modIdx)
  /\ stage' = "end"
  /\ UNCHANGED <<procIdx, modIdx, rc, known, newTree, recs, idSession, sem, passes>>

(* The end of the pass: the records left in the old tree are unregistered *)
(* and freed (VBoxServicePageSharingEmptyTreeCallback), the host checks    *)
(* the modules, and the new tree becomes the known one.                   *)
InspectGuestEnd ==
  /\ stage = "end"
  /\ recs' = recs \ RecsOf(known)
  /\ known' = newTree
  /\ newTree' = EmptyTree
  /\ passes' = passes + 1
  /\ stage' = "wait"
  /\ UNCHANGED <<procIdx, modIdx, rc, idSession, sem>>

(* RTSemEventMultiWait: nothing signals the child's semaphore, so it      *)
(* times out after a minute; on a NIL semaphore it fails and the worker   *)
(* returns, and with it the child process.                                *)
WorkerWait ==
  /\ stage = "wait"
  /\ stage' = IF sem = "nil" THEN "exited" ELSE "session"
  /\ UNCHANGED <<procIdx, modIdx, rc, known, newTree, recs, idSession, sem, passes>>

(* A new session id means the VM was restored: the records are freed     *)
(* without unregistering them, so that the next pass registers all.       *)
WorkerSessionCheck ==
  /\ stage = "session"
  /\ stage' = "top"
  /\ IF session # idSession
     THEN \/ /\ recs' = recs \ RecsOf(known)
             /\ known' = EmptyTree
             /\ idSession' = session
          \/ "session" \in Faults /\ UNCHANGED <<recs, known, idSession>>
     ELSE UNCHANGED <<recs, known, idSession>>
  /\ UNCHANGED <<procIdx, modIdx, rc, newTree, sem, passes>>

-----------------------------------------------------------------------------
(* The guest and the host.                                                *)

InPass == stage \in {"snap", "procs", "mods", "kquery", "kmods", "end"}

(* A process loads or unloads a module, between passes.                   *)
GuestLoadUnload(p, m) ==
  /\ ~InPass /\ envOps < MaxEnv
  /\ procMods' = [procMods EXCEPT ![p] = IF m \in @ THEN @ \ {m} ELSE @ \cup {m}]
  /\ envOps' = envOps + 1
  /\ UNCHANGED <<enabled, kmods, session>>

(* A driver is loaded or unloaded, between passes.                        *)
KernelLoadUnload(m) ==
  /\ ~InPass /\ envOps < MaxEnv
  /\ kmods' = IF m \in kmods THEN kmods \ {m} ELSE kmods \cup {m}
  /\ envOps' = envOps + 1
  /\ UNCHANGED <<enabled, procMods, session>>

(* The host turns page fusion on or off.                                  *)
HostToggle ==
  /\ envOps < MaxEnv
  /\ enabled' = ~enabled
  /\ envOps' = envOps + 1
  /\ UNCHANGED <<procMods, kmods, session>>

(* The VM is saved and restored: the VMM hands out a new session id.      *)
VMRestore ==
  /\ session < MaxSessions
  /\ session' = session + 1
  /\ UNCHANGED <<enabled, procMods, kmods, envOps>>

-----------------------------------------------------------------------------
Init ==
  /\ stage = "init" /\ procIdx = 1 /\ modIdx = 1 /\ rc = "OK"
  /\ known = EmptyTree /\ newTree = EmptyTree /\ recs = {}
  /\ idSession = 0 /\ sem = "nil"
  /\ enabled \in BOOLEAN
  /\ procMods \in [Procs -> SUBSET UserMods]
  /\ kmods \in SUBSET KernelMods
  /\ session = 1 /\ passes = 0 /\ envOps = 0

Worker ==
  \/ VBoxServicePageSharingInit \/ WorkerPoll
  \/ InspectGuestBegin \/ InspectGuestProcess
  \/ InspectModule \/ InspectModulesEnd
  \/ KernelQuery \/ InspectKernelModule \/ InspectKernelEnd
  \/ InspectGuestEnd \/ WorkerWait \/ WorkerSessionCheck

Environment ==
  \/ \E p \in Procs, m \in UserMods : GuestLoadUnload(p, m)
  \/ \E m \in KernelMods : KernelLoadUnload(m)
  \/ HostToggle \/ VMRestore

Next == (Worker /\ UNCHANGED EnvVars) \/ (Environment /\ UNCHANGED WorkerVars)

Spec == Init /\ [][Next]_vars

-----------------------------------------------------------------------------
(* Properties.                                                            *)

Stages == {"init", "top", "snap", "procs", "mods", "kquery", "kmods", "end",
           "wait", "session", "exited"}
IsTree(t) == DOMAIN t \subseteq AllMods \cup {NULL} /\ \A k \in DOMAIN t : t[k] \in AllMods \X Nat

(* The type of every variable, and the worker inspects the modules of     *)
(* another process only: VBoxServicePageSharingInspectGuest skips its own *)
(* process (GetCurrentProcessId).                                         *)
PSTypeOK ==
  /\ stage \in Stages
  /\ procIdx \in 1 .. Len(ProcOrder) + 1
  /\ modIdx \in 1 .. Len(ModOrder) + 1
  /\ rc \in {"OK", "ERR"}
  /\ IsTree(known) /\ IsTree(newTree)
  /\ recs \subseteq AllMods \X Nat
  /\ idSession \in Nat /\ session \in Nat /\ sem \in {"live", "nil"}
  /\ enabled \in BOOLEAN
  /\ procMods \in [Procs -> SUBSET UserMods] /\ kmods \subseteq KernelMods
  /\ passes \in Nat /\ envOps \in Nat
  /\ stage = "mods" => procIdx <= Len(ProcOrder) /\ ProcOrder[procIdx] # SelfPid

(* Every record a tree holds is allocated, and no record is in the old    *)
(* and the new tree at once, so that freeing the leftovers of the old     *)
(* tree at the end of VBoxServicePageSharingInspectGuest, or on a new     *)
(* session, never frees a record that the new tree keeps, although a      *)
(* kernel module the code cannot find puts a NULL key in both.            *)
NoDanglingRecord ==
  /\ RecsOf(known) \cup RecsOf(newTree) \subseteq recs
  /\ RecsOf(known) \cap RecsOf(newTree) = {}

(* Every KNOWN_MODULE record allocated and not freed is held by the old   *)
(* or the new tree: none is lost while a pass moves records between them. *)
NoLeakedRecord == recs \subseteq RecsOf(known) \cup RecsOf(newTree)

(* The modules the worker tracks are those registered with the host: the *)
(* keys of both trees but NULL, whose record was never registered.        *)
Tracked == (DOMAIN known \cup DOMAIN newTree) \ {NULL}

Registry == INSTANCE PageSharingRegistry
              WITH Mods <- AllMods, loaded <- Sharable, tracked <- Tracked,
                   epoch <- idSession

(* The worker implements the registry: it starts tracking a module only   *)
(* while the module is loaded in another process or in the kernel, and    *)
(* it stops tracking one only when it is no longer loaded, or when the VM *)
(* was restored into a new session.                                       *)
RegistryRefinement == Registry!Spec

=============================================================================
