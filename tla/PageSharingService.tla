------------------------- MODULE PageSharingService -------------------------
(***************************************************************************)
(* The page-sharing service as VBoxService runs it on Windows             *)
(* (VBoxServicePageSharing.cpp): VBoxServicePageSharingInit, then the      *)
(* worker thread VBoxServicePageSharingWorkerProcess, which forks a second *)
(* VBoxService process to do the work (module PageSharing) and kills it   *)
(* when it stops; VBoxServicePageSharingStop signals the worker's          *)
(* semaphore.                                                              *)
(*                                                                         *)
(* The supervisor of VBoxService, which is not in this repository, sets    *)
(* the shutdown flag and then calls the stop callback; the child process   *)
(* may end on its own at any time (a crash, or its worker returning when   *)
(* its own initialisation failed).                                         *)
(***************************************************************************)
EXTENDS Naturals, TLAPS

CONSTANTS
  Faults,   \* the kinds of failure the environment may produce
  MaxEnv    \* bound on the host's toggles of page fusion

ASSUME ServiceConstantsOK ==
  /\ Faults \subseteq {"init", "spawn"}
  /\ MaxEnv \in Nat

VARIABLES
  ppc,       \* where the service's worker thread is
  hProcess,  \* hProcess: "nil" or "child"
  child,     \* the forked process: "none", "running", "exited", "killed"
  sem,       \* g_PageSharingEvent: "nil", "live" or "signalled"
  shutdown,  \* the supervisor's shutdown flag pfShutdown
  stopped,   \* the supervisor has called the stop callback
  enabled,   \* what VbglR3PageSharingIsEnabled answers
  envOps     \* toggles done

vars == <<ppc, hProcess, child, sem, shutdown, stopped, enabled, envOps>>

(* VBoxServicePageSharingInit: the semaphore is created; when the host    *)
(* gives no session id the service is disabled and its worker never runs. *)
VBoxServicePageSharingInit ==
  /\ ppc = "init"
  /\ \/ sem' = "live" /\ ppc' = "top"
     \/ "init" \in Faults /\ sem' = "nil" /\ ppc' = "disabled"
  /\ UNCHANGED <<hProcess, child, shutdown, stopped, enabled, envOps>>

(* A child is started only while page fusion is enabled and none was      *)
(* started before.                                                        *)
NeedChild == enabled /\ hProcess = "nil"

(* The top of the loop: start the child process when it is needed;        *)
(* RTProcGetExecutablePath or RTProcCreate may fail, leaving hProcess     *)
(* NIL for the next round.                                                *)
WorkerProcessPoll ==
  /\ ppc = "top"
  /\ \/ NeedChild /\ hProcess' = "child" /\ child' = "running"
     \/ NeedChild /\ "spawn" \in Faults /\ UNCHANGED <<hProcess, child>>
     \/ ~NeedChild /\ UNCHANGED <<hProcess, child>>
  /\ ppc' = IF shutdown THEN "exit" ELSE "wait"
  /\ UNCHANGED <<sem, shutdown, stopped, enabled, envOps>>

(* RTSemEventMultiWait returns when the semaphore is signalled (it is     *)
(* never reset) or after a minute; the shutdown flag is read again.       *)
WorkerProcessWait ==
  /\ ppc = "wait"
  /\ ppc' = IF shutdown THEN "exit" ELSE "top"
  /\ UNCHANGED <<hProcess, child, sem, shutdown, stopped, enabled, envOps>>

(* Mutant: the child is not terminated.                                   *)
WorkerProcessExitNoKill ==
  /\ ppc = "exit"
  /\ sem' = "nil" /\ ppc' = "done"
  /\ UNCHANGED <<hProcess, child, shutdown, stopped, enabled, envOps>>

(* Leaving the loop: the child, if one was started, is terminated with    *)
(* RTProcTerminate, and the semaphore is destroyed.                       *)
WorkerProcessExit ==
  /\ ppc = "exit"
  /\ child' = IF hProcess # "nil" /\ child = "running" THEN "killed" ELSE child
  /\ sem' = "nil" /\ ppc' = "done"
  /\ UNCHANGED <<hProcess, shutdown, stopped, enabled, envOps>>

(* VBoxServicePageSharingStop: the supervisor signals the semaphore.      *)
VBoxServicePageSharingStop ==
  /\ shutdown /\ ~stopped
  /\ stopped' = TRUE
  /\ sem' = IF sem = "live" THEN "signalled" ELSE sem
  /\ UNCHANGED <<ppc, hProcess, child, shutdown, enabled, envOps>>

(* The supervisor asks every service to stop.                             *)
SupervisorShutdown ==
  /\ ~shutdown /\ shutdown' = TRUE
  /\ UNCHANGED <<ppc, hProcess, child, sem, stopped, enabled, envOps>>

(* The child process ends on its own.                                     *)
ChildExits ==
  /\ child = "running" /\ child' = "exited"
  /\ UNCHANGED <<ppc, hProcess, sem, shutdown, stopped, enabled, envOps>>

(* The host turns page fusion on or off.                                  *)
HostToggle ==
  /\ envOps < MaxEnv
  /\ enabled' = ~enabled /\ envOps' = envOps + 1
  /\ UNCHANGED <<ppc, hProcess, child, sem, shutdown, stopped>>

Init ==
  /\ ppc = "init" /\ hProcess = "nil" /\ child = "none" /\ sem = "nil"
  /\ shutdown = FALSE /\ stopped = FALSE
  /\ enabled \in BOOLEAN /\ envOps = 0

ServiceThread ==
  \/ VBoxServicePageSharingInit \/ WorkerProcessPoll
  \/ WorkerProcessWait \/ WorkerProcessExit

Next ==
  \/ ServiceThread
  \/ VBoxServicePageSharingStop \/ SupervisorShutdown
  \/ ChildExits \/ HostToggle

(* The service thread is scheduled, and RTSemEventMultiWait returns       *)
(* after a minute at the latest.  The supervisor, the host and the child  *)
(* are not assumed to do anything.                                        *)
Spec == Init /\ [][Next]_vars /\ WF_vars(ServiceThread)

-----------------------------------------------------------------------------
(* Properties.                                                            *)

(* When the service's worker thread has ended, the page-fusion child     *)
(* process it forked is not running: the exit path of                     *)
(* VBoxServicePageSharingWorkerProcess terminates the child it started,   *)
(* and no child is started after it.                                      *)
NoOrphanChild == ppc = "done" => child # "running"

(* Once the supervisor asks for shutdown, the service's worker thread      *)
(* ends and no page-fusion child process is left running: the loop reads *)
(* the flag before and after each wait, and the exit path terminates the  *)
(* child it started.                                                      *)
ServiceStops ==
  shutdown ~> (ppc \in {"done", "disabled"} /\ child # "running")


-----------------------------------------------------------------------------
(* A running child is one the worker thread holds a handle to.            *)
ChildHeld == child = "running" => hProcess = "child"

(* When the worker thread of VBoxServicePageSharingWorkerProcess has      *)
(* returned, the child process it forked is not running, whatever the     *)
(* supervisor, the host and the child do.                                 *)
THEOREM ChildNotOrphaned == Spec => []NoOrphanChild
<1> DEFINE Inv == ChildHeld /\ NoOrphanChild
<1>1. Init => Inv
  BY DEF Init, ChildHeld, NoOrphanChild
<1>2. Inv /\ [Next]_vars => Inv'
  <2> SUFFICES ASSUME Inv, [Next]_vars PROVE Inv'
    OBVIOUS
  <2>1. CASE VBoxServicePageSharingInit
    BY <2>1 DEF VBoxServicePageSharingInit, ChildHeld, NoOrphanChild
  <2>2. CASE WorkerProcessPoll
    BY <2>2 DEF WorkerProcessPoll, NeedChild, ChildHeld, NoOrphanChild
  <2>3. CASE WorkerProcessWait
    BY <2>3 DEF WorkerProcessWait, ChildHeld, NoOrphanChild
  <2>4. CASE WorkerProcessExit
    BY <2>4 DEF WorkerProcessExit, ChildHeld, NoOrphanChild
  <2>5. CASE VBoxServicePageSharingStop \/ SupervisorShutdown \/ HostToggle
    BY <2>5 DEF VBoxServicePageSharingStop, SupervisorShutdown, HostToggle,
                ChildHeld, NoOrphanChild
  <2>6. CASE ChildExits
    BY <2>6 DEF ChildExits, ChildHeld, NoOrphanChild
  <2>7. CASE UNCHANGED vars
    BY <2>7 DEF vars, ChildHeld, NoOrphanChild
  <2> QED
    BY <2>1, <2>2, <2>3, <2>4, <2>5, <2>6, <2>7 DEF Next, ServiceThread
<1>3. Inv => NoOrphanChild
  OBVIOUS
<1> QED
  BY <1>1, <1>2, <1>3, PTL DEF Spec

=============================================================================
