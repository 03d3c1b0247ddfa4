---------------------------- MODULE X11Clipboard ----------------------------
(***************************************************************************)
(* The event thread of the X11 shared-clipboard backend                    *)
(* (x11-clipboard.cpp) with the X server, one peer X11 client and the      *)
(* host side (the frontend) around it.                                     *)
(*                                                                         *)
(*  - The event thread runs clipEventThread: peek at the head X event and  *)
(*    handle an XFixes owner-change notification there, then let Xt        *)
(*    process one item: a due timer (a work item queued by the host side), *)
(*    else the wakeup pipe, else the head X event.                         *)
(*  - The host side calls ClipAnnounceFormatToX11, ClipRequestDataFromX11  *)
(*    and ClipStopX11 from other threads; each queues a 0 ms timer and     *)
(*    writes the wakeup pipe (clipQueueToEventThread).                     *)
(*  - The X server routes our selection requests to the current owner of   *)
(*    CLIPBOARD; a peer answers them later, or Xt's selection timeout      *)
(*    answers with XT_CONVERT_FAIL.  When Xt itself believes our widget    *)
(*    owns the selection, XtGetSelectionValue does a local transfer: the   *)
(*    convert procedure and the callback run inside the call.              *)
(*                                                                         *)
(* Only CLIPBOARD is modelled: the backend selects XFixes input on it      *)
(* alone; PRIMARY is grabbed and served the same way and adds nothing.     *)
(***************************************************************************)
EXTENDS ClipFormats

CONSTANTS
  Cookies,        \* the host's read requests (CLIPREADCBREQ pointers)
  NoCookie,       \* no host request: a TARGETS transfer
  NoReq,          \* a selection request that no request of ours made
  None,           \* the Unicode cache is empty (pvUnicodeCache == NULL)
  PeerOfferings,  \* the target lists the peer may offer
  PeerAsks,       \* the targets the peer may ask of us
  AnnounceMasks,  \* the VBox format masks the host may announce
  HostAsks,       \* the VBox formats the host may request
  MaxPeerOps,     \* bound on the peer's ownership changes
  MaxPeerReqs,    \* bound on the peer's requests of our selection
  MaxAnnounce     \* bound on the host's announcements

ASSUME ConstantsOK ==
  /\ IsFiniteSet(Cookies)
  /\ NoCookie \notin Cookies
  /\ PeerOfferings \subseteq Seq(STRING)
  /\ PeerAsks \subseteq STRING
  /\ AnnounceMasks \subseteq SUBSET VBoxFormatBits
  /\ HostAsks \subseteq VBoxFormatBits
  /\ PeerOfferings # {}
  /\ None \notin Nat
  /\ MaxPeerOps \in Nat /\ MaxPeerReqs \in Nat /\ MaxAnnounce \in Nat

VARIABLES
  loop,          \* where clipEventThread is
  grabOnStart,   \* fGrabClipboardOnStart
  xq,            \* X events queued for our connection, in order
  timers,        \* due Xt timers: the queued work items, in order
  pipe,          \* unread wakeup writes in the pipe
  busy,          \* fBusy
  updateNeeded,  \* fUpdateNeeded
  x11Fmt,        \* X11TextFormat
  reported,      \* the last mask passed to ClipReportX11Formats
  vboxFormats,   \* vboxFormats: what we offer as owner
  xtOwn,         \* Xt's own record that our widget owns CLIPBOARD
  selOwner,      \* the owner of CLIPBOARD at the server
  peerTargets,   \* what the peer offers
  atPeer,        \* our requests the server routed to the peer
  cache,         \* pvUnicodeCache: None or the host version cached
  hostVer,       \* version of the host clipboard, one per announcement
  lastAnnounced, \* version of the last announcement the thread applied
  requested,     \* host requests made
  compl,         \* ClipCompleteDataRequestFromX11 calls per request
  result,        \* the status of the last completion per request
  peerOps, peerReqs, anns,
  host           \* running, stopping (in ClipStopX11), stopped

vars == <<loop, grabOnStart, xq, timers, pipe, busy, updateNeeded, x11Fmt,
          reported, vboxFormats, xtOwn, selOwner, peerTargets, atPeer, cache,
          hostVer, lastAnnounced, requested, compl, result, peerOps,
          peerReqs, anns, host>>

Owners == {"us", "peer", "none"}
Results == {"OK", "NO_DATA", "TIMEOUT", "TRY_AGAIN", "NOT_IMPLEMENTED",
            "INVALID_PARAMETER", "CONV_ERROR", "NO_MEMORY"}
TargetLists == PeerOfferings \cup {clipCreateX11Targets(F) : F \in SUBSET VBoxFormatBits}
Atoms == PeerAsks \cup FormatAtoms \cup SupAtoms

(* CLIPREADX11CBREQ, and the closure of a TARGETS request.  offer is what *)
(* the peer offered when the server routed the request to it.             *)
Request ==
       [kind : {"targets"}, cookie : {NoCookie}, fmt : {NIL_CLIPX11FORMAT},
        offer : TargetLists]
  \cup [kind : {"data"}, cookie : Cookies, fmt : X11Formats \ {NIL_CLIPX11FORMAT},
        offer : TargetLists]
(* A selection request of the peer's is none of ours.                    *)
ASSUME NoReqOK == NoReq \notin Request

(* value: the pointer is non-NULL ("data"), NULL ("null"), or NULL with   *)
(* type XT_CONVERT_FAIL, which is what Xt's selection timeout passes.     *)
XEvent ==
       [type : {"fixes"}, owner : Owners]
  \cup [type : {"clear"}]
  \cup [type : {"selreq"}, target : Atoms, req : Request \cup {NoReq}]
  \cup [type : {"reply"}, req : Request, value : {"data", "null", "fail"},
        targets : TargetLists \cup {<< >>}]
WorkItem ==
       [op : {"announce"}, formats : AnnounceMasks, ver : 0 .. MaxAnnounce]
  \cup [op : {"read"}, fmt : HostAsks, cookie : Cookies]
  \cup [op : {"stop"}]

Fixes(o) == [type |-> "fixes", owner |-> o]
Clear == [type |-> "clear"]
SelReq(t, r) == [type |-> "selreq", target |-> t, req |-> r]
Reply(r, v, t) == [type |-> "reply", req |-> r, value |-> v, targets |-> t]
TargetAtom(r) == IF r.kind = "targets" THEN "TARGETS"
                 ELSE clipAtomForX11Format(r.fmt)
SrcIsNull(v) == v \in {"null", "fail"}
IsConvertFail(v) == v = "fail"

-----------------------------------------------------------------------------
(* clipReportFormatsToVBox, given the X11TextFormat it reads.             *)
clipReportFormatsToVBox(f) == reported' = clipVBoxFormatForX11Format(f)

clipReportEmptyX11CB ==
  x11Fmt' = NIL_CLIPX11FORMAT /\ clipReportFormatsToVBox(NIL_CLIPX11FORMAT)

clipUpdateX11Targets(t) ==
  LET f == clipGetTextFormatFromTargets(t)
  IN  x11Fmt' = f /\ clipReportFormatsToVBox(f)

(* XtGetSelectionValue when Xt does not think we own the selection: the   *)
(* server sends the request to the owner and the answer comes as events.  *)
(* q is the X queue as it stands when the call is made.                   *)
ServerConvertSelection(q, r) ==
  CASE selOwner = "none" -> xq' = Append(q, Reply(r, "null", << >>)) /\ atPeer' = atPeer
    [] selOwner = "peer" -> xq' = q /\ atPeer' = Append(atPeer, r)
    [] selOwner = "us"   -> xq' = Append(q, SelReq(TargetAtom(r), r)) /\ atPeer' = atPeer

(* clipQueryX11CBFormats, entered with fBusy and fUpdateNeeded as given.  *)
(* In a local transfer clipConvertX11Targets runs inside the call: it     *)
(* finds fUpdateNeeded clear (it is only set while busy) or clears it and *)
(* queries once more, and either way it applies our own TARGETS list.     *)
clipQueryX11CBFormats(q, fBusy, fUpdateNeeded) ==
  \/ /\ fBusy
     /\ busy' = TRUE /\ updateNeeded' = TRUE
     /\ xq' = q /\ UNCHANGED <<atPeer, x11Fmt, reported>>
  \/ /\ ~fBusy /\ ~xtOwn
     /\ busy' = TRUE /\ updateNeeded' = fUpdateNeeded
     /\ ServerConvertSelection(q, [kind |-> "targets", cookie |-> NoCookie,
                                   fmt |-> NIL_CLIPX11FORMAT, offer |-> peerTargets])
     /\ UNCHANGED <<x11Fmt, reported>>
  \/ /\ ~fBusy /\ xtOwn
     /\ busy' = FALSE /\ updateNeeded' = FALSE
     /\ xq' = q /\ UNCHANGED atPeer
     /\ clipUpdateX11Targets(clipCreateX11Targets(vboxFormats))

(* clipConvertX11Targets, the callback of a TARGETS transfer.             *)
clipConvertX11Targets(v, t, q) ==
  IF updateNeeded
  THEN clipQueryX11CBFormats(q, FALSE, FALSE)
  ELSE /\ busy' = FALSE /\ updateNeeded' = FALSE
       /\ xq' = q /\ UNCHANGED atPeer
       /\ IF IsConvertFail(v) \/ SrcIsNull(v) THEN clipReportEmptyX11CB
          ELSE clipUpdateX11Targets(t)

Complete(c, rc) ==
  /\ compl' = [compl EXCEPT ![c] = @ + 1]
  /\ result' = [result EXCEPT ![c] = rc]

(* The statuses clipConvertX11CB may complete a request with.             *)
ConvertX11CBResults(r, v) ==
  IF SrcIsNull(v) THEN {"NO_DATA"}
  ELSE IF IsConvertFail(v) THEN {"TIMEOUT"}
  ELSE CASE clipRealFormatForX11Format(r.fmt) = CTEXT -> {"OK", "CONV_ERROR"}
         [] clipRealFormatForX11Format(r.fmt) \in {UTF8, TEXT} -> {"OK"}
         [] OTHER -> {"INVALID_PARAMETER"}

(* Mutant: the re-query on fUpdateNeeded is left out.                     *)
clipConvertX11CBNoRequery(r, v, q) ==
  /\ busy' = FALSE /\ updateNeeded' = updateNeeded
  /\ xq' = q /\ UNCHANGED <<atPeer, x11Fmt, reported>>
  /\ \E rc \in ConvertX11CBResults(r, v) : Complete(r.cookie, rc)

(* clipConvertX11CB, the callback of a data transfer: it re-queries the   *)
(* targets when fUpdateNeeded is set but leaves the flag set.             *)
clipConvertX11CB(r, v, q) ==
  /\ IF updateNeeded
     THEN clipQueryX11CBFormats(q, FALSE, updateNeeded)
     ELSE /\ busy' = FALSE /\ updateNeeded' = updateNeeded
          /\ xq' = q /\ UNCHANGED <<atPeer, x11Fmt, reported>>
  /\ \E rc \in ConvertX11CBResults(r, v) : Complete(r.cookie, rc)

-----------------------------------------------------------------------------
(* Owner side.  ok: the conversion produced a value.                       *)

(* clipReadVBoxClipboard for Unicode text: fill the cache from the host   *)
(* when it is empty (ClipRequestDataForX11 may fail).  A read that        *)
(* succeeds may still give no value: empty data (cb == 0) or a failed     *)
(* transcoding.                                                           *)
clipReadVBoxClipboard(ok) ==
  IF cache = None
  THEN \/ cache' = hostVer
       \/ cache' = None /\ ~ok
  ELSE cache' = cache

clipConvertVBoxCBForX11(target, ok) ==
  LET format == clipRealFormatForX11Format(clipFindX11FormatByAtom(target))
  IN  IF format \in {UTF8, CTEXT, TEXT} /\ UNICODETEXT \in vboxFormats
      THEN clipReadVBoxClipboard(ok)
      ELSE ~ok /\ cache' = cache

(* clipXtConvertSelectionProc for CLIPBOARD (the context is registered   *)
(* while the thread runs): TARGETS always succeeds.                        *)
clipXtConvertSelectionProc(target, ok) ==
  IF target = "TARGETS" THEN ok /\ cache' = cache
  ELSE clipConvertVBoxCBForX11(target, ok)

(* Xt's handling of a SelectionRequest: it refuses when it does not think *)
(* we own the selection, else it calls the convert procedure; the answer  *)
(* goes to the requester, which is us when the request is one of ours.    *)
XtSelectionRequest(ev, q) ==
  \E ok \in BOOLEAN :
    /\ IF xtOwn THEN clipXtConvertSelectionProc(ev.target, ok)
       ELSE ~ok /\ cache' = cache
    /\ xq' = IF ev.req = NoReq THEN q
             ELSE Append(q, Reply(ev.req, IF ok THEN "data" ELSE "null",
                                  IF ok /\ ev.target = "TARGETS"
                                  THEN clipCreateX11Targets(vboxFormats)
                                  ELSE << >>))

-----------------------------------------------------------------------------
(* Work items, run by Xt as timers on the event thread.                   *)

DataRequest(c) == [kind |-> "data", cookie |-> c, fmt |-> x11Fmt,
                   offer |-> peerTargets]

(* The data transfer of vboxClipboardReadX11Worker: through the server,   *)
(* or locally, the convert procedure and clipConvertX11CB inside the call. *)
IssueDataRequest(c, q) ==
  \/ /\ ~xtOwn
     /\ busy' = TRUE /\ ServerConvertSelection(q, DataRequest(c))
     /\ UNCHANGED <<updateNeeded, x11Fmt, reported, cache, compl, result>>
  \/ /\ xtOwn
     /\ \E ok \in BOOLEAN :
          /\ clipXtConvertSelectionProc(clipAtomForX11Format(x11Fmt), ok)
          /\ clipConvertX11CB(DataRequest(c), IF ok THEN "data" ELSE "null", q)

(* Mutant: the check for a known X11 text format is left out.            *)
vboxClipboardReadX11WorkerNoInvalidCheck(item, q) ==
  IF ~busy /\ item.fmt = UNICODETEXT
  THEN IssueDataRequest(item.cookie, q)
  ELSE /\ busy' = TRUE /\ xq' = q
       /\ Complete(item.cookie, IF busy THEN "TRY_AGAIN" ELSE "NOT_IMPLEMENTED")
       /\ UNCHANGED <<updateNeeded, x11Fmt, reported, atPeer, cache>>

(* Mutant: the busy check is left out.                                    *)
vboxClipboardReadX11WorkerNoBusyCheck(item, q) ==
  IF item.fmt = UNICODETEXT /\ x11Fmt # NIL_CLIPX11FORMAT
  THEN IssueDataRequest(item.cookie, q)
  ELSE /\ busy' = TRUE /\ xq' = q
       /\ Complete(item.cookie, IF item.fmt = UNICODETEXT THEN "NO_DATA"
                                ELSE "NOT_IMPLEMENTED")
       /\ UNCHANGED <<updateNeeded, x11Fmt, reported, atPeer, cache>>

(* Mutant: the request is also completed when the transfer was started.   *)
vboxClipboardReadX11WorkerCompleteAlways(item, q) ==
  IF ~busy /\ item.fmt = UNICODETEXT /\ x11Fmt # NIL_CLIPX11FORMAT /\ ~xtOwn
  THEN /\ busy' = TRUE /\ ServerConvertSelection(q, DataRequest(item.cookie))
       /\ Complete(item.cookie, "OK")
       /\ UNCHANGED <<updateNeeded, x11Fmt, reported, cache>>
  ELSE IF ~busy /\ item.fmt = UNICODETEXT /\ x11Fmt # NIL_CLIPX11FORMAT
  THEN IssueDataRequest(item.cookie, q)
  ELSE /\ busy' = TRUE /\ xq' = q
       /\ Complete(item.cookie, IF busy THEN "TRY_AGAIN"
                                ELSE IF item.fmt = UNICODETEXT THEN "NO_DATA"
                                ELSE "NOT_IMPLEMENTED")
       /\ UNCHANGED <<updateNeeded, x11Fmt, reported, atPeer, cache>>

(* vboxClipboardReadX11Worker: fBusy is set whatever happens, and only a  *)
(* transfer's callback clears it again.                                   *)
vboxClipboardReadX11Worker(item, q) ==
  IF ~busy /\ item.fmt = UNICODETEXT /\ x11Fmt # NIL_CLIPX11FORMAT
  THEN IssueDataRequest(item.cookie, q)
  ELSE /\ busy' = TRUE /\ xq' = q
       /\ Complete(item.cookie, IF busy THEN "TRY_AGAIN"
                                ELSE IF item.fmt = UNICODETEXT THEN "NO_DATA"
                                ELSE "NOT_IMPLEMENTED")
       /\ UNCHANGED <<updateNeeded, x11Fmt, reported, atPeer, cache>>

(* clipGrabX11CB.  XtOwnSelection sets the owner at the server only when  *)
(* Xt does not already think we own it, and then checks that we do: a     *)
(* peer may take the selection in between and the grab fails.  On success *)
(* the code sets the owner once more with XSetSelectionOwner.             *)
clipGrabX11CB(F, q) ==
  \/ /\ vboxFormats' = F /\ xtOwn' = TRUE /\ selOwner' = "us"
     /\ xq' = q \o (IF xtOwn THEN << >> ELSE << Fixes("us") >>) \o << Fixes("us") >>
     /\ UNCHANGED <<peerTargets, peerOps>>
  \/ /\ ~xtOwn /\ peerOps < MaxPeerOps
     /\ selOwner' = "peer" /\ peerOps' = peerOps + 1
     /\ peerTargets' \in PeerOfferings
     /\ xq' = q \o << Fixes("us"), Clear, Fixes("peer") >>
     /\ UNCHANGED <<vboxFormats, xtOwn>>

(* Mutant: the Unicode cache is not invalidated.                          *)
clipNewVBoxFormatsWorkerNoInvalidate(item, q) ==
  /\ cache' = cache
  /\ clipGrabX11CB(item.formats, q)
  /\ x11Fmt' = NIL_CLIPX11FORMAT
  /\ lastAnnounced' = item.ver

(* clipNewVBoxFormatsWorker: invalidate the cache, grab, forget X11.      *)
clipNewVBoxFormatsWorker(item, q) ==
  /\ cache' = None
  /\ clipGrabX11CB(item.formats, q)
  /\ x11Fmt' = NIL_CLIPX11FORMAT
  /\ lastAnnounced' = item.ver

-----------------------------------------------------------------------------
(* The event thread.                                                      *)

RequesterVars == <<busy, updateNeeded, x11Fmt, reported, atPeer>>
OwnerVars == <<vboxFormats, xtOwn, selOwner, peerTargets, peerOps>>
HostVars == <<hostVer, requested, anns, host>>
PeerVars == <<peerReqs>>

(* clipEventThread, before its loop: query the targets if asked to.       *)
clipEventThread ==
  /\ loop = "init"
  /\ loop' = "peek"
  /\ IF grabOnStart THEN clipQueryX11CBFormats(xq, busy, updateNeeded)
     ELSE UNCHANGED <<xq, busy, updateNeeded, x11Fmt, reported, atPeer>>
  /\ UNCHANGED <<grabOnStart, timers, pipe, cache, lastAnnounced, compl, result>>
  /\ UNCHANGED <<OwnerVars, HostVars, PeerVars>>

(* clipPeekEventAndDoXFixesHandling with an XFixes notification at the    *)
(* head of the queue: the event stays queued.                             *)
FixesAtHead == xq # << >> /\ Head(xq).type = "fixes" /\ Head(xq).owner # "us"

PeekXFixes ==
  /\ loop \in {"peek", "blocked"}
  /\ FixesAtHead
  /\ IF Head(xq).owner = "peer"
     THEN clipQueryX11CBFormats(xq, busy, updateNeeded)
     ELSE clipReportEmptyX11CB /\ UNCHANGED <<xq, busy, updateNeeded, atPeer>>
  /\ loop' = "process"
  /\ UNCHANGED <<grabOnStart, timers, pipe, cache, lastAnnounced, compl, result>>
  /\ UNCHANGED <<OwnerVars, HostVars, PeerVars>>

(* XtAppPeekEvent blocks in select on the X connection and the pipe; a    *)
(* timer added later does not end the wait, an X event or input does.     *)
PeekBlock ==
  /\ loop = "peek"
  /\ xq = << >> /\ timers = << >> /\ pipe = 0
  /\ loop' = "blocked"
  /\ UNCHANGED <<grabOnStart, xq, timers, pipe, cache, lastAnnounced, compl, result>>
  /\ UNCHANGED <<RequesterVars, OwnerVars, HostVars, PeerVars>>

(* XtAppProcessEvent, after XtAppPeekEvent handled a Fixes event or      *)
(* returned with anything else (another X event, a due timer, input on    *)
(* the pipe, the last two also after a wait) and handled nothing.          *)
Processing ==
  \/ loop = "process"
  \/ loop = "peek" /\ ~FixesAtHead
  \/ loop = "blocked" /\ ~FixesAtHead /\ (xq # << >> \/ pipe > 0)

(* XtAppProcessEvent runs the first due timer.                            *)
RunTimer ==
  /\ Processing
  /\ timers # << >>
  /\ timers' = Tail(timers)
  /\ LET item == Head(timers) IN
     \/ /\ item.op = "announce"
        /\ loop' = "peek"
        /\ clipNewVBoxFormatsWorker(item, xq)
        /\ UNCHANGED <<busy, updateNeeded, reported, atPeer, compl, result>>
     \/ /\ item.op = "read"
        /\ loop' = "peek"
        /\ vboxClipboardReadX11Worker(item, xq)
        /\ UNCHANGED <<OwnerVars, lastAnnounced>>
     \/ /\ item.op = "stop"
        \* clipStopEventThreadWorker raises the exit flag; the loop ends
        /\ loop' = "exited"
        /\ UNCHANGED <<xq, cache, lastAnnounced, compl, result>>
        /\ UNCHANGED <<RequesterVars, OwnerVars>>
  /\ UNCHANGED <<grabOnStart, pipe, HostVars, PeerVars>>

(* With no timer due, the pipe's input callback clipDrainWakeupPipe.      *)
clipDrainWakeupPipe ==
  /\ Processing
  /\ timers = << >> /\ pipe > 0
  /\ pipe' = 0 /\ loop' = "peek"
  /\ UNCHANGED <<grabOnStart, xq, timers, cache, lastAnnounced, compl, result>>
  /\ UNCHANGED <<RequesterVars, OwnerVars, HostVars, PeerVars>>

(* Else Xt dispatches the head X event.                                   *)
XtDispatch(type) ==
  /\ Processing
  /\ timers = << >> /\ pipe = 0
  /\ xq # << >> /\ Head(xq).type = type
  /\ loop' = "peek"
  /\ UNCHANGED <<grabOnStart, timers, pipe, lastAnnounced, HostVars, PeerVars>>

(* An XFixes event has no Xt handler.                                     *)
DispatchXFixes ==
  /\ XtDispatch("fixes")
  /\ xq' = Tail(xq)
  /\ UNCHANGED <<cache, compl, result, RequesterVars, OwnerVars>>

(* SelectionClear: Xt forgets that our widget owns the selection.         *)
DispatchSelectionClear ==
  /\ XtDispatch("clear")
  /\ xq' = Tail(xq) /\ xtOwn' = FALSE
  /\ UNCHANGED <<cache, compl, result, RequesterVars>>
  /\ UNCHANGED <<vboxFormats, selOwner, peerTargets, peerOps>>

DispatchSelectionRequest ==
  /\ XtDispatch("selreq")
  /\ XtSelectionRequest(Head(xq), Tail(xq))
  /\ UNCHANGED <<compl, result, RequesterVars, OwnerVars>>

(* SelectionNotify for a TARGETS transfer.                                *)
DispatchTargetsReply ==
  /\ XtDispatch("reply")
  /\ Head(xq).req.kind = "targets"
  /\ clipConvertX11Targets(Head(xq).value, Head(xq).targets, Tail(xq))
  /\ UNCHANGED <<cache, compl, result, OwnerVars>>

(* SelectionNotify for a data transfer.                                   *)
DispatchDataReply ==
  /\ XtDispatch("reply")
  /\ Head(xq).req.kind = "data"
  /\ clipConvertX11CB(Head(xq).req, Head(xq).value, Tail(xq))
  /\ UNCHANGED <<cache, OwnerVars>>

-----------------------------------------------------------------------------
(* The host side, on its own threads.                                     *)

(* Mutant: no byte is written to the wakeup pipe.                         *)
clipQueueToEventThreadNoWakeup(item) ==
  timers' = Append(timers, item) /\ pipe' = pipe

(* clipQueueToEventThread: a 0 ms timer, then a write to the pipe.  Xt    *)
(* orders its timers by expiry time and puts a new one ahead of those     *)
(* that expire at the same time; the queue here is the order of timers    *)
(* whose expiry times differ.                                             *)
clipQueueToEventThread(item) ==
  timers' = Append(timers, item) /\ pipe' = pipe + 1

ClipAnnounceFormatToX11(F) ==
  /\ host = "running" /\ anns < MaxAnnounce
  /\ anns' = anns + 1 /\ hostVer' = hostVer + 1
  /\ clipQueueToEventThread([op |-> "announce", formats |-> F, ver |-> hostVer + 1])
  /\ UNCHANGED <<loop, grabOnStart, xq, cache, lastAnnounced, compl, result>>
  /\ UNCHANGED <<RequesterVars, OwnerVars, requested, host, PeerVars>>

(* ClipAnnounceFormatToX11 when the work item cannot be allocated: the    *)
(* announcement is dropped without a word.                                *)
ClipAnnounceFormatToX11NoMemory ==
  /\ host = "running" /\ anns < MaxAnnounce
  /\ anns' = anns + 1 /\ hostVer' = hostVer + 1
  /\ UNCHANGED <<loop, grabOnStart, xq, timers, pipe, cache, lastAnnounced, compl, result>>
  /\ UNCHANGED <<RequesterVars, OwnerVars, requested, host, PeerVars>>

ClipRequestDataFromX11(f, c) ==
  /\ host = "running" /\ c \notin requested
  /\ requested' = requested \cup {c}
  /\ clipQueueToEventThread([op |-> "read", fmt |-> f, cookie |-> c])
  /\ UNCHANGED <<loop, grabOnStart, xq, cache, lastAnnounced, compl, result>>
  /\ UNCHANGED <<RequesterVars, OwnerVars, hostVer, anns, host, PeerVars>>

(* ClipStopX11 queues clipStopEventThreadWorker ...                       *)
ClipStopX11 ==
  /\ host = "running"
  /\ host' = "stopping"
  /\ clipQueueToEventThread([op |-> "stop"])
  /\ UNCHANGED <<loop, grabOnStart, xq, cache, lastAnnounced, compl, result>>
  /\ UNCHANGED <<RequesterVars, OwnerVars, hostVer, requested, anns, PeerVars>>

(* ... and once RTThreadWait sees the thread end, clipUninit destroys the *)
(* widget, and with its window our ownership of the selection.            *)
clipUninit ==
  /\ host = "stopping" /\ loop = "exited"
  /\ host' = "stopped"
  /\ selOwner' = IF selOwner = "us" THEN "none" ELSE selOwner
  /\ xtOwn' = FALSE
  /\ UNCHANGED <<loop, grabOnStart, xq, timers, pipe, cache, lastAnnounced, compl, result>>
  /\ UNCHANGED <<RequesterVars, vboxFormats, peerTargets, peerOps>>
  /\ UNCHANGED <<hostVer, requested, anns, PeerVars>>

-----------------------------------------------------------------------------
(* The peer X11 client and the X server.                                  *)

(* The peer answers a request the server routed to it, or Xt's selection  *)
(* timeout fires first and the callback gets XT_CONVERT_FAIL.             *)
PeerAnswer(i) ==
  LET r == atPeer[i] IN
  /\ atPeer' = [j \in 1 .. Len(atPeer) - 1 |-> IF j < i THEN atPeer[j] ELSE atPeer[j + 1]]
  /\ \E v \in {"data", "null", "fail"} :
       xq' = Append(xq, Reply(r, v, IF r.kind = "targets" /\ v = "data"
                                    THEN r.offer ELSE << >>))
  /\ UNCHANGED <<loop, grabOnStart, timers, pipe, cache, lastAnnounced, compl, result>>
  /\ UNCHANGED <<busy, updateNeeded, x11Fmt, reported, OwnerVars, HostVars, PeerVars>>

(* The peer takes CLIPBOARD: we get SelectionClear if we owned it, and    *)
(* the XFixes notification.                                               *)
PeerSetOwner(o) ==
  /\ peerOps < MaxPeerOps
  /\ selOwner' = "peer" /\ peerTargets' = o /\ peerOps' = peerOps + 1
  /\ xq' = xq \o (IF selOwner = "us" THEN << Clear >> ELSE << >>) \o << Fixes("peer") >>
  /\ UNCHANGED <<loop, grabOnStart, timers, pipe, cache, lastAnnounced, compl, result>>
  /\ UNCHANGED <<RequesterVars, vboxFormats, xtOwn, HostVars, PeerVars>>

(* The owning peer exits or drops the selection.                          *)
PeerDisown ==
  /\ peerOps < MaxPeerOps /\ selOwner = "peer"
  /\ selOwner' = "none" /\ peerOps' = peerOps + 1
  /\ xq' = Append(xq, Fixes("none"))
  /\ UNCHANGED <<loop, grabOnStart, timers, pipe, cache, lastAnnounced, compl, result>>
  /\ UNCHANGED <<RequesterVars, vboxFormats, xtOwn, peerTargets, HostVars, PeerVars>>

(* The peer asks us, the owner, for a target.                             *)
PeerConvert(t) ==
  /\ peerReqs < MaxPeerReqs /\ selOwner = "us"
  /\ peerReqs' = peerReqs + 1
  /\ xq' = Append(xq, SelReq(t, NoReq))
  /\ UNCHANGED <<loop, grabOnStart, timers, pipe, cache, lastAnnounced, compl, result>>
  /\ UNCHANGED <<RequesterVars, OwnerVars, HostVars>>

-----------------------------------------------------------------------------

Init ==
  /\ loop = "init"
  /\ grabOnStart \in BOOLEAN
  /\ xq = << >> /\ timers = << >> /\ pipe = 0
  /\ busy = FALSE /\ updateNeeded = FALSE
  /\ x11Fmt = NIL_CLIPX11FORMAT /\ reported = {}
  /\ vboxFormats = {} /\ xtOwn = FALSE
  /\ selOwner \in {"none", "peer"} /\ peerTargets \in PeerOfferings
  /\ atPeer = << >>
  /\ cache = None /\ hostVer = 0 /\ lastAnnounced = 0
  /\ requested = {}
  /\ compl = [c \in Cookies |-> 0] /\ result = [c \in Cookies |-> "none"]
  /\ peerOps = 0 /\ peerReqs = 0 /\ anns = 0
  /\ host = "running"

EventThread ==
  \/ clipEventThread \/ PeekXFixes \/ PeekBlock
  \/ RunTimer \/ clipDrainWakeupPipe
  \/ DispatchXFixes \/ DispatchSelectionClear \/ DispatchSelectionRequest
  \/ DispatchTargetsReply \/ DispatchDataReply

HostSide ==
  \/ \E F \in AnnounceMasks : ClipAnnounceFormatToX11(F)
  \/ ClipAnnounceFormatToX11NoMemory
  \/ \E f \in HostAsks, c \in Cookies : ClipRequestDataFromX11(f, c)
  \/ ClipStopX11
  \/ clipUninit

Peer ==
  \/ \E i \in DOMAIN atPeer : PeerAnswer(i)
  \/ \E o \in PeerOfferings : PeerSetOwner(o)
  \/ PeerDisown
  \/ \E t \in PeerAsks : PeerConvert(t)

Next == EventThread \/ HostSide \/ Peer

(* The event thread runs whenever it can; Xt's selection timeout ends     *)
(* every transfer; RTThreadWait returns once the thread has ended.  The   *)
(* host and the peer act when they choose.                                *)
Fairness ==
  /\ WF_vars(EventThread)
  /\ WF_vars(\E i \in DOMAIN atPeer : PeerAnswer(i))
  /\ WF_vars(clipUninit)

Spec == Init /\ [][Next]_vars /\ Fairness

-----------------------------------------------------------------------------
(* Properties.                                                            *)

(* A transfer of ours in flight is routed to the peer, or it is an X     *)
(* event not yet dispatched: the answer, or the request the server routed *)
(* back to us.                                                            *)
InFlightEvent(e) == e.type = "reply" \/ (e.type = "selreq" /\ e.req # NoReq)
InFlight(S) == {i \in DOMAIN S : InFlightEvent(S[i])}
SomeInFlight == atPeer # << >> \/ \E i \in DOMAIN xq : InFlightEvent(xq[i])

TypeOK ==
  /\ loop \in {"init", "peek", "process", "blocked", "exited"}
  /\ grabOnStart \in BOOLEAN
  /\ xq \in Seq(XEvent)
  /\ timers \in Seq(WorkItem)
  /\ pipe \in Nat
  /\ busy \in BOOLEAN /\ updateNeeded \in BOOLEAN
  /\ x11Fmt \in X11Formats
  /\ reported \in SUBSET VBoxFormatBits
  /\ vboxFormats \in AnnounceMasks \cup {{}}
  /\ xtOwn \in BOOLEAN
  /\ selOwner \in Owners
  /\ peerTargets \in PeerOfferings
  /\ atPeer \in Seq(Request)
  /\ cache \in {None} \cup (0 .. MaxAnnounce)
  /\ hostVer \in 0 .. MaxAnnounce /\ lastAnnounced \in 0 .. MaxAnnounce
  /\ requested \subseteq Cookies
  /\ compl \in [Cookies -> Nat]
  /\ result \in [Cookies -> Results \cup {"none"}]
  /\ peerOps \in 0 .. MaxPeerOps /\ peerReqs \in 0 .. MaxPeerReqs
  /\ anns \in 0 .. MaxAnnounce
  /\ host \in {"running", "stopping", "stopped"}

(* Spec invariants 1 and 4: fBusy keeps at most one selection transfer of *)
(* ours in flight, and one is only in flight while fBusy is set, through  *)
(* every interleaving of Fixes notifications, host requests, replies and  *)
(* local transfers.                                                       *)
OneTransferInFlight ==
  /\ Len(atPeer) <= 1
  /\ atPeer # << >> => \A i \in DOMAIN xq : ~InFlightEvent(xq[i])
  /\ \A i, j \in DOMAIN xq : InFlightEvent(xq[i]) /\ InFlightEvent(xq[j]) => i = j
  /\ SomeInFlight => busy

(* Spec invariant 3: fUpdateNeeded is only set while fBusy is, so a       *)
(* change noted during a transfer is always followed by a new query when  *)
(* the transfer's callback runs.                                          *)
UpdateNeededOnlyWhenBusy == updateNeeded => busy

(* Spec invariant 4: the Unicode cache never holds host data older than   *)
(* the last announcement the event thread has applied.                    *)
CacheFresh == cache # None => cache >= lastAnnounced

(* Every host read request is, at any time, in exactly one place: queued  *)
(* as a work item, carried by a transfer in flight, or completed once by  *)
(* ClipCompleteDataRequestFromX11.  None is lost or completed twice.      *)
ReadsInTimers(c) == {i \in DOMAIN timers : timers[i].op = "read" /\ timers[i].cookie = c}
ReadsAtPeer(c) == {i \in DOMAIN atPeer : atPeer[i].cookie = c}
ReadsInXq(c) == {i \in InFlight(xq) : xq[i].req.cookie = c}
EachRequestAccounted ==
  \A c \in Cookies :
    compl[c] + Cardinality(ReadsInTimers(c)) + Cardinality(ReadsAtPeer(c))
      + Cardinality(ReadsInXq(c)) = IF c \in requested THEN 1 ELSE 0

(* The backend keeps its promise to the frontend (ClipRequestContract):   *)
(* ClipCompleteDataRequestFromX11 is called for a request only after      *)
(* ClipRequestDataFromX11 made it, once, with a status, whichever of the  *)
(* worker's paths, the local transfer, the reply or the timeout ends it.  *)
Contract == INSTANCE ClipRequestContract
              WITH Statuses <- Results, answers <- compl, status <- result
RequestContract == Contract!Spec

(* Every read request the host makes is completed, unless the backend is  *)
(* stopped first: the wakeup pipe gets the blocked thread to the work.    *)
RequestsEventuallyComplete ==
  \A c \in Cookies : c \in requested ~> (compl[c] > 0 \/ host = "stopped")

(* Spec invariant 2: fBusy is only set while a transfer is in flight.     *)
BusyOnlyWhileTransfer == busy => SomeInFlight

(* Spec invariant 7: X11TextFormat is INVALID while we own CLIPBOARD.     *)
OwnerHoldsNoX11Format == selOwner = "us" => x11Fmt = NIL_CLIPX11FORMAT

(* Spec property 5: a data transfer that ends in XT_CONVERT_FAIL          *)
(* completes the host request with a timeout.                             *)
ConvertFailIsTimeout ==
  [][ DispatchDataReply /\ Head(xq).value = "fail"
        => result'[Head(xq).req.cookie] = "TIMEOUT" ]_vars

(* Spec property 3: after an announcement of no formats we do not own    *)
(* the selection.                                                         *)
EmptyAnnounceReleases == vboxFormats = {} => selOwner # "us"

=============================================================================
