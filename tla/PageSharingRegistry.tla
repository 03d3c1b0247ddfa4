------------------------- MODULE PageSharingRegistry -------------------------
(***************************************************************************)
(* What the page-sharing worker of VBoxService promises about the modules *)
(* it keeps track of (VBoxServicePageSharing.cpp, g_pKnownModuleTree).    *)
(*                                                                         *)
(* The guest loads and unloads modules as it likes.  The worker tracks a  *)
(* module only while the module is loaded and shareable, and it stops     *)
(* tracking a module only when the module is no longer loaded, or when it *)
(* learns that the VM was restored into a new session, in which case it   *)
(* forgets every module at once.                                           *)
(***************************************************************************)
EXTENDS Naturals

CONSTANT Mods          \* the modules the guest may load

VARIABLES
  loaded,   \* the shareable modules loaded in the guest
  tracked,  \* the modules the worker tracks
  epoch     \* the session the worker believes it is in

vars == <<loaded, tracked, epoch>>

Init ==
  /\ loaded \in SUBSET Mods
  /\ tracked = {}
  /\ epoch \in Nat

(* The guest loads or unloads modules.                                    *)
Change ==
  /\ loaded' \in SUBSET Mods
  /\ UNCHANGED <<tracked, epoch>>

(* A loaded module that is not tracked yet becomes tracked.               *)
Track(m) ==
  /\ m \in loaded \ tracked
  /\ tracked' = tracked \cup {m}
  /\ UNCHANGED <<loaded, epoch>>

(* Some modules that are no longer loaded stop being tracked.             *)
Untrack ==
  /\ tracked' \subseteq tracked
  /\ (tracked \ tracked') \cap loaded = {}
  /\ UNCHANGED <<loaded, epoch>>

(* A new session: everything is forgotten.                                *)
Forget ==
  /\ epoch' \in Nat \ {epoch}
  /\ tracked' = {}
  /\ UNCHANGED loaded

Next ==
  \/ Change
  \/ \E m \in Mods : Track(m)
  \/ Untrack
  \/ Forget

Spec == Init /\ [][Next]_vars

=============================================================================
