------------------------- MODULE ClipRequestContract -------------------------
(***************************************************************************)
(* What the X11 clipboard backend promises the frontend about its read     *)
(* requests (ClipRequestDataFromX11 and ClipCompleteDataRequestFromX11).   *)
(*                                                                         *)
(* The frontend makes a request with a cookie of its own, and the call     *)
(* returns at once.  Later the backend completes the request: it calls     *)
(* ClipCompleteDataRequestFromX11 for that cookie once, with a status.     *)
(* A request is never completed before it was made, nor twice.             *)
(***************************************************************************)
EXTENDS Naturals

CONSTANTS
  Cookies,   \* the frontend's requests
  Statuses   \* the statuses a completion may carry

VARIABLES
  requested, \* the requests made
  answers,   \* the completions of each request
  status     \* the status of each completion, or "none"

vars == <<requested, answers, status>>

Init ==
  /\ requested = {}
  /\ answers = [c \in Cookies |-> 0]
  /\ status = [c \in Cookies |-> "none"]

(* The frontend makes request c.                                          *)
Request(c) ==
  /\ c \notin requested
  /\ requested' = requested \cup {c}
  /\ UNCHANGED <<answers, status>>

(* The backend completes request c, made and not yet completed.           *)
Answer(c, rc) ==
  /\ c \in requested /\ answers[c] = 0
  /\ answers' = [answers EXCEPT ![c] = 1]
  /\ status' = [status EXCEPT ![c] = rc]
  /\ UNCHANGED requested

Next == \E c \in Cookies : Request(c) \/ \E rc \in Statuses : Answer(c, rc)

Spec == Init /\ [][Next]_vars

=============================================================================
