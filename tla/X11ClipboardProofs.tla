------------------------- MODULE X11ClipboardProofs -------------------------
(***************************************************************************)
(* Proofs about the X11Clipboard model, for every value of its constants.  *)
(***************************************************************************)
EXTENDS X11Clipboard, TLAPS

-----------------------------------------------------------------------------
(* Facts about the format table.                                          *)

(* g_aFormats has eight entries, so an X11 format is an index 0 .. 7.     *)
LEMMA FormatCount == X11Formats = 0 .. 7
BY DEF X11Formats, MAX_CLIP_X11_FORMATS, g_aFormats

(* Every entry names a VBox format mask made of known bits.               *)
LEMMA VBoxFormatType ==
  \A x \in X11Formats : clipVBoxFormatForX11Format(x) \in SUBSET VBoxFormatBits
<1> SUFFICES ASSUME NEW x \in 0 .. 7
             PROVE  clipVBoxFormatForX11Format(x) \in SUBSET VBoxFormatBits
  BY FormatCount
<1>1. x = 0 \/ x = 1 \/ x = 2 \/ x = 3 \/ x = 4 \/ x = 5 \/ x = 6 \/ x = 7
  OBVIOUS
<1>2. \A i \in 1 .. 8 : g_aFormats[i].vbox \in {{}, {UNICODETEXT}}
  <2> SUFFICES ASSUME NEW i \in 1 .. 8
               PROVE  g_aFormats[i].vbox \in {{}, {UNICODETEXT}}
    OBVIOUS
  <2>1. CASE i = 1
    BY <2>1 DEF g_aFormats
  <2>2. CASE i = 2
    BY <2>2 DEF g_aFormats
  <2>3. CASE i = 3
    BY <2>3 DEF g_aFormats
  <2>4. CASE i = 4
    BY <2>4 DEF g_aFormats
  <2>5. CASE i = 5
    BY <2>5 DEF g_aFormats
  <2>6. CASE i = 6
    BY <2>6 DEF g_aFormats
  <2>7. CASE i = 7
    BY <2>7 DEF g_aFormats
  <2>8. CASE i = 8
    BY <2>8 DEF g_aFormats
  <2> QED
    BY <2>1, <2>2, <2>3, <2>4, <2>5, <2>6, <2>7, <2>8
<1> QED
  BY <1>1, <1>2 DEF clipVBoxFormatForX11Format, VBoxFormatBits

(* clipFindX11FormatByAtom returns an entry of the table, or NIL.         *)
LEMMA FindFormatType ==
  \A a : clipFindX11FormatByAtom(a) \in X11Formats
BY FormatCount DEF clipFindX11FormatByAtom, NIL_CLIPX11FORMAT

(* clipGetTextFormatFromTargets returns an entry of the table, or NIL.    *)
LEMMA TextFormatType ==
  \A t : clipGetTextFormatFromTargets(t) \in X11Formats
BY FindFormatType, FormatCount DEF clipGetTextFormatFromTargets, NIL_CLIPX11FORMAT

(* The TARGETS list we offer as owner is one of the lists of the model.   *)
LEMMA CreateTargetsType ==
  \A F \in SUBSET VBoxFormatBits : clipCreateX11Targets(F) \in TargetLists
BY DEF TargetLists

(* Every entry's atom is one of the format atoms.                         *)
LEMMA AtomType ==
  \A x \in X11Formats : clipAtomForX11Format(x) \in FormatAtoms
<1>1. MAX_CLIP_X11_FORMATS = 8
  BY DEF MAX_CLIP_X11_FORMATS, g_aFormats
<1> QED
  BY <1>1, FormatCount DEF clipAtomForX11Format, FormatAtoms

-----------------------------------------------------------------------------
(* The type of the requester's state, and lemmas on the helpers that     *)
(* change it.                                                             *)
RequesterTyped ==
  /\ xq \in Seq(XEvent) /\ atPeer \in Seq(Request)
  /\ busy \in BOOLEAN /\ updateNeeded \in BOOLEAN
  /\ x11Fmt \in X11Formats /\ reported \in SUBSET VBoxFormatBits

(* The target atom of a request of ours is an atom of the model.          *)
LEMMA TargetAtomType ==
  \A r \in Request : TargetAtom(r) \in Atoms
BY AtomType DEF TargetAtom, Request, Atoms, SupAtoms

(* XtGetSelectionValue through the server queues a well-formed event or   *)
(* a well-formed request at the peer.                                     *)
LEMMA ServerConvertType ==
  ASSUME selOwner \in Owners, atPeer \in Seq(Request),
         NEW q \in Seq(XEvent), NEW r \in Request,
         ServerConvertSelection(q, r)
  PROVE  xq' \in Seq(XEvent) /\ atPeer' \in Seq(Request)
<1>1. SelReq(TargetAtom(r), r) \in XEvent /\ Reply(r, "null", << >>) \in XEvent
  BY TargetAtomType DEF SelReq, Reply, XEvent
<1>2. CASE selOwner = "none"
  <2>1. xq' = Append(q, Reply(r, "null", << >>)) /\ atPeer' = atPeer
    BY <1>2 DEF ServerConvertSelection
  <2> QED
    BY <1>1, <2>1
<1>3. CASE selOwner = "peer"
  <2>1. xq' = q /\ atPeer' = Append(atPeer, r)
    BY <1>3 DEF ServerConvertSelection
  <2> QED
    BY <2>1
<1>4. CASE selOwner = "us"
  <2>1. xq' = Append(q, SelReq(TargetAtom(r), r)) /\ atPeer' = atPeer
    BY <1>4 DEF ServerConvertSelection
  <2> QED
    BY <1>1, <2>1
<1> QED
  BY <1>2, <1>3, <1>4 DEF Owners

(* Reporting formats sets a well-formed X11TextFormat and mask.           *)
LEMMA UpdateTargetsType ==
  ASSUME NEW t, clipUpdateX11Targets(t)
  PROVE  x11Fmt' \in X11Formats /\ reported' \in SUBSET VBoxFormatBits
BY TextFormatType, VBoxFormatType DEF clipUpdateX11Targets, clipReportFormatsToVBox

LEMMA ReportEmptyType ==
  ASSUME clipReportEmptyX11CB
  PROVE  x11Fmt' \in X11Formats /\ reported' \in SUBSET VBoxFormatBits
BY VBoxFormatType, FormatCount
   DEF clipReportEmptyX11CB, clipReportFormatsToVBox, NIL_CLIPX11FORMAT

(* clipQueryX11CBFormats keeps the requester's state well formed.         *)
LEMMA QueryType ==
  ASSUME TypeOK, RequesterTyped, NEW q \in Seq(XEvent),
         NEW fBusy \in BOOLEAN, NEW fUpdateNeeded \in BOOLEAN,
         clipQueryX11CBFormats(q, fBusy, fUpdateNeeded)
  PROVE  RequesterTyped'
<1>1. CASE fBusy
  BY <1>1 DEF clipQueryX11CBFormats, RequesterTyped
<1>2. CASE ~fBusy /\ ~xtOwn
  <2>1. [kind |-> "targets", cookie |-> NoCookie, fmt |-> NIL_CLIPX11FORMAT,
         offer |-> peerTargets] \in Request
    BY DEF TypeOK, Request, TargetLists
  <2> QED
    BY <1>2, <2>1, ServerConvertType DEF clipQueryX11CBFormats, RequesterTyped, TypeOK
<1>3. CASE ~fBusy /\ xtOwn
  <2>1. clipUpdateX11Targets(clipCreateX11Targets(vboxFormats))
    BY <1>3 DEF clipQueryX11CBFormats
  <2> QED
    BY <1>3, <2>1, UpdateTargetsType DEF clipQueryX11CBFormats, RequesterTyped
<1> QED
  BY <1>1, <1>2, <1>3

(* So does clipConvertX11Targets.                                         *)
LEMMA ConvertTargetsType ==
  ASSUME TypeOK, RequesterTyped, NEW q \in Seq(XEvent), NEW v, NEW t,
         clipConvertX11Targets(v, t, q)
  PROVE  RequesterTyped'
<1>1. CASE updateNeeded
  BY <1>1, QueryType DEF clipConvertX11Targets
<1>2. CASE ~updateNeeded /\ (IsConvertFail(v) \/ SrcIsNull(v))
  BY <1>2, ReportEmptyType DEF clipConvertX11Targets, RequesterTyped
<1>3. CASE ~updateNeeded /\ ~(IsConvertFail(v) \/ SrcIsNull(v))
  BY <1>3, UpdateTargetsType DEF clipConvertX11Targets, RequesterTyped
<1> QED
  BY <1>1, <1>2, <1>3

(* clipConvertX11CB keeps the requester's state well formed and completes *)
(* a request of the host with a status.                                   *)
LEMMA ConvertCBType ==
  ASSUME TypeOK, RequesterTyped, NEW q \in Seq(XEvent), NEW v,
         NEW r \in Request, r.kind = "data",
         clipConvertX11CB(r, v, q)
  PROVE  /\ RequesterTyped'
         /\ compl' \in [Cookies -> Nat]
         /\ result' \in [Cookies -> Results \cup {"none"}]
<1>1. r.cookie \in Cookies
  BY DEF Request
<1>2. RequesterTyped'
  <2>1. CASE updateNeeded
    BY <2>1, QueryType DEF clipConvertX11CB, TypeOK
  <2>2. CASE ~updateNeeded
    BY <2>2 DEF clipConvertX11CB, RequesterTyped
  <2> QED
    BY <2>1, <2>2
<1>3. ConvertX11CBResults(r, v) \subseteq Results
  BY DEF ConvertX11CBResults, Results
<1> QED
  BY <1>1, <1>2, <1>3 DEF clipConvertX11CB, Complete, TypeOK

-----------------------------------------------------------------------------
(* Lemmas on the owner side and the work items.                           *)
CacheTyped == cache \in {None} \cup (0 .. MaxAnnounce)

(* The convert procedure only ever caches a version of the host data.     *)
LEMMA ConvertProcType ==
  ASSUME CacheTyped, hostVer \in 0 .. MaxAnnounce, NEW t, NEW ok,
         clipXtConvertSelectionProc(t, ok)
  PROVE  CacheTyped'
BY DEF clipXtConvertSelectionProc, clipConvertVBoxCBForX11,
       clipReadVBoxClipboard, CacheTyped

(* Xt's handling of a SelectionRequest answers with a well-formed reply.  *)
LEMMA SelectionRequestType ==
  ASSUME TypeOK, CacheTyped, NEW q \in Seq(XEvent),
         NEW ev \in [type : {"selreq"}, target : Atoms, req : Request \cup {NoReq}],
         XtSelectionRequest(ev, q)
  PROVE  xq' \in Seq(XEvent) /\ CacheTyped'
<1>1. clipCreateX11Targets(vboxFormats) \in TargetLists
  BY CreateTargetsType, ConstantsOK DEF TypeOK
<1>2. PICK ok \in BOOLEAN :
        /\ IF xtOwn THEN clipXtConvertSelectionProc(ev.target, ok)
           ELSE ~ok /\ cache' = cache
        /\ xq' = IF ev.req = NoReq THEN q
                 ELSE Append(q, Reply(ev.req, IF ok THEN "data" ELSE "null",
                                      IF ok /\ ev.target = "TARGETS"
                                      THEN clipCreateX11Targets(vboxFormats)
                                      ELSE << >>))
  BY DEF XtSelectionRequest
<1>3. CacheTyped'
  BY <1>2, ConvertProcType DEF TypeOK, CacheTyped
<1>4. ev.req # NoReq =>
        Reply(ev.req, IF ok THEN "data" ELSE "null",
              IF ok /\ ev.target = "TARGETS" THEN clipCreateX11Targets(vboxFormats)
              ELSE << >>) \in XEvent
  BY <1>1 DEF Reply, XEvent
<1> QED
  BY <1>2, <1>3, <1>4

(* A read work item keeps the requester's state and the completions well *)
(* formed.                                                                *)
LEMMA ReadWorkerType ==
  ASSUME TypeOK, RequesterTyped, CacheTyped, NEW q \in Seq(XEvent),
         NEW item \in [op : {"read"}, fmt : HostAsks, cookie : Cookies],
         vboxClipboardReadX11Worker(item, q)
  PROVE  /\ RequesterTyped' /\ CacheTyped'
         /\ compl' \in [Cookies -> Nat]
         /\ result' \in [Cookies -> Results \cup {"none"}]
<1>1. CASE ~busy /\ item.fmt = UNICODETEXT /\ x11Fmt # NIL_CLIPX11FORMAT
  <2>1. IssueDataRequest(item.cookie, q)
    BY <1>1 DEF vboxClipboardReadX11Worker
  <2>2. DataRequest(item.cookie) \in Request
    BY <1>1, ConstantsOK DEF DataRequest, Request, RequesterTyped, TypeOK, TargetLists
  <2>3. CASE ~xtOwn
    BY <2>1, <2>2, <2>3, ServerConvertType
       DEF IssueDataRequest, RequesterTyped, TypeOK, CacheTyped
  <2>4. CASE xtOwn
    <3>1. PICK ok \in BOOLEAN :
            /\ clipXtConvertSelectionProc(clipAtomForX11Format(x11Fmt), ok)
            /\ clipConvertX11CB(DataRequest(item.cookie),
                                IF ok THEN "data" ELSE "null", q)
      BY <2>1, <2>4 DEF IssueDataRequest
    <3>2. CacheTyped'
      BY <3>1, ConvertProcType DEF TypeOK
    <3> QED
      BY <2>2, <3>1, <3>2, ConvertCBType DEF DataRequest
  <2> QED
    BY <2>3, <2>4 DEF TypeOK
<1>2. CASE ~(~busy /\ item.fmt = UNICODETEXT /\ x11Fmt # NIL_CLIPX11FORMAT)
  <2> DEFINE rc == IF busy THEN "TRY_AGAIN"
                   ELSE IF item.fmt = UNICODETEXT THEN "NO_DATA"
                   ELSE "NOT_IMPLEMENTED"
  <2>1. /\ busy' = TRUE /\ xq' = q
        /\ Complete(item.cookie, rc)
        /\ UNCHANGED <<updateNeeded, x11Fmt, reported, atPeer, cache>>
    BY <1>2 DEF vboxClipboardReadX11Worker
  <2>2. rc \in Results
    BY DEF Results
  <2>3. compl' \in [Cookies -> Nat] /\ result' \in [Cookies -> Results \cup {"none"}]
    BY <2>1, <2>2 DEF Complete, TypeOK
  <2> QED
    BY <2>1, <2>3 DEF RequesterTyped, CacheTyped
<1> QED
  BY <1>1, <1>2

(* clipGrabX11CB leaves the ownership state well formed.                  *)
OwnerTyped ==
  /\ vboxFormats \in AnnounceMasks \cup {{}} /\ xtOwn \in BOOLEAN
  /\ selOwner \in Owners /\ peerTargets \in PeerOfferings
  /\ peerOps \in 0 .. MaxPeerOps

LEMMA GrabType ==
  ASSUME OwnerTyped, NEW q \in Seq(XEvent), NEW F \in AnnounceMasks,
         clipGrabX11CB(F, q)
  PROVE  OwnerTyped' /\ xq' \in Seq(XEvent)
<1>1. /\ << Fixes("us") >> \in Seq(XEvent) /\ << >> \in Seq(XEvent)
      /\ << Fixes("us"), Clear, Fixes("peer") >> \in Seq(XEvent)
  BY DEF Fixes, Clear, XEvent, Owners
<1>2. (IF xtOwn THEN << >> ELSE << Fixes("us") >>) \in Seq(XEvent)
  BY <1>1
<1>3. CASE /\ vboxFormats' = F /\ xtOwn' = TRUE /\ selOwner' = "us"
           /\ xq' = q \o (IF xtOwn THEN << >> ELSE << Fixes("us") >>) \o << Fixes("us") >>
           /\ UNCHANGED <<peerTargets, peerOps>>
  BY <1>1, <1>2, <1>3 DEF OwnerTyped, Owners
<1>4. CASE /\ ~xtOwn /\ peerOps < MaxPeerOps
           /\ selOwner' = "peer" /\ peerOps' = peerOps + 1
           /\ peerTargets' \in PeerOfferings
           /\ xq' = q \o << Fixes("us"), Clear, Fixes("peer") >>
           /\ UNCHANGED <<vboxFormats, xtOwn>>
  BY <1>1, <1>4, ConstantsOK DEF OwnerTyped, Owners
<1> QED
  BY <1>3, <1>4 DEF clipGrabX11CB

-----------------------------------------------------------------------------
(* Type correctness.  TypeOK alone is not inductive: an announcement      *)
(* carries hostVer + 1 as its version, which stays in 0 .. MaxAnnounce     *)
(* only because hostVer counts the announcements, which are bounded.      *)
TypeInv == TypeOK /\ hostVer = anns

LEMMA InitTypeInv == Init => TypeInv
<1> SUFFICES ASSUME Init PROVE TypeInv
  OBVIOUS
<1>1. NIL_CLIPX11FORMAT \in X11Formats
  BY FormatCount DEF NIL_CLIPX11FORMAT
<1>2. /\ compl \in [Cookies -> Nat]
      /\ result \in [Cookies -> Results \cup {"none"}]
  BY DEF Init
<1>3. /\ xq \in Seq(XEvent) /\ timers \in Seq(WorkItem) /\ atPeer \in Seq(Request)
  BY DEF Init
<1>4. /\ cache \in {None} \cup (0 .. MaxAnnounce)
      /\ hostVer \in 0 .. MaxAnnounce /\ lastAnnounced \in 0 .. MaxAnnounce
      /\ peerOps \in 0 .. MaxPeerOps /\ peerReqs \in 0 .. MaxPeerReqs
      /\ anns \in 0 .. MaxAnnounce
  BY ConstantsOK DEF Init
<1>5. selOwner \in Owners /\ reported \in SUBSET VBoxFormatBits
  BY DEF Init, Owners
<1> QED
  BY <1>1, <1>2, <1>3, <1>4, <1>5 DEF Init, TypeInv, TypeOK
(* TypeOK, split into the parts the lemmas above are about.               *)
RestTyped ==
  /\ loop \in {"init", "peek", "process", "blocked", "exited"}
  /\ grabOnStart \in BOOLEAN
  /\ timers \in Seq(WorkItem)
  /\ pipe \in Nat
  /\ hostVer \in 0 .. MaxAnnounce /\ lastAnnounced \in 0 .. MaxAnnounce
  /\ requested \subseteq Cookies
  /\ compl \in [Cookies -> Nat]
  /\ result \in [Cookies -> Results \cup {"none"}]
  /\ peerReqs \in 0 .. MaxPeerReqs
  /\ anns \in 0 .. MaxAnnounce
  /\ host \in {"running", "stopping", "stopped"}

LEMMA TypeOKSplit ==
  TypeOK <=> RequesterTyped /\ OwnerTyped /\ CacheTyped /\ RestTyped
BY DEF TypeOK, RequesterTyped, OwnerTyped, CacheTyped, RestTyped

(* Each step keeps TypeInv.                                               *)
LEMMA TypeStep == TypeInv /\ [Next]_vars => TypeInv'
<1> SUFFICES ASSUME TypeInv, [Next]_vars PROVE TypeInv'
  OBVIOUS
<1>0. /\ RequesterTyped /\ OwnerTyped /\ CacheTyped /\ RestTyped /\ TypeOK
      /\ hostVer = anns
  BY TypeOKSplit DEF TypeInv
<1> SUFFICES RequesterTyped' /\ OwnerTyped' /\ CacheTyped' /\ RestTyped'
             /\ hostVer' = anns'
  BY DEF TypeInv, TypeOK, RequesterTyped, OwnerTyped, CacheTyped, RestTyped
<1>1. CASE clipEventThread
  BY <1>0, <1>1, QueryType DEF clipEventThread, RequesterTyped, OwnerTyped,
     CacheTyped, RestTyped, OwnerVars, HostVars, PeerVars
<1>2. CASE PeekXFixes
  BY <1>0, <1>2, QueryType, ReportEmptyType
     DEF PeekXFixes, RequesterTyped, OwnerTyped, CacheTyped, RestTyped,
         OwnerVars, HostVars, PeerVars
<1>3. CASE PeekBlock
  BY <1>0, <1>3 DEF PeekBlock, RequesterTyped, OwnerTyped, CacheTyped, RestTyped,
     RequesterVars, OwnerVars, HostVars, PeerVars
<1>4. CASE clipDrainWakeupPipe
  BY <1>0, <1>4 DEF clipDrainWakeupPipe, RequesterTyped, OwnerTyped, CacheTyped,
     RestTyped, RequesterVars, OwnerVars, HostVars, PeerVars
<1>5. CASE RunTimer
  <2> DEFINE item == Head(timers)
  <2>1. timers # << >> /\ item \in WorkItem /\ Tail(timers) \in Seq(WorkItem)
    BY <1>0, <1>5 DEF RunTimer, RestTyped
  <2>2. CASE item.op = "announce" /\ loop' = "peek"
             /\ clipNewVBoxFormatsWorker(item, xq)
             /\ UNCHANGED <<busy, updateNeeded, reported, atPeer, compl, result>>
    <3>1. item \in [op : {"announce"}, formats : AnnounceMasks, ver : 0 .. MaxAnnounce]
      BY <2>1, <2>2 DEF WorkItem
    <3>2. OwnerTyped' /\ xq' \in Seq(XEvent)
      BY <1>0, <2>2, <3>1, GrabType DEF clipNewVBoxFormatsWorker, RequesterTyped
    <3>3. x11Fmt' \in X11Formats
      BY <2>2, FormatCount DEF clipNewVBoxFormatsWorker, NIL_CLIPX11FORMAT
    <3> QED
      BY <1>0, <1>5, <2>1, <2>2, <3>1, <3>2, <3>3
         DEF RunTimer, clipNewVBoxFormatsWorker, RequesterTyped, CacheTyped,
             RestTyped, HostVars, PeerVars
  <2>3. CASE item.op = "read" /\ loop' = "peek"
             /\ vboxClipboardReadX11Worker(item, xq)
             /\ UNCHANGED <<OwnerVars, lastAnnounced>>
    <3>1. item \in [op : {"read"}, fmt : HostAsks, cookie : Cookies]
      BY <2>1, <2>3 DEF WorkItem
    <3>2. RequesterTyped' /\ CacheTyped' /\ compl' \in [Cookies -> Nat]
          /\ result' \in [Cookies -> Results \cup {"none"}]
      BY <1>0, <2>3, <3>1, ReadWorkerType DEF RequesterTyped
    <3> QED
      BY <1>0, <1>5, <2>1, <2>3, <3>2
         DEF RunTimer, OwnerTyped, RestTyped, OwnerVars, HostVars, PeerVars
  <2>4. CASE item.op = "stop" /\ loop' = "exited"
             /\ UNCHANGED <<xq, cache, lastAnnounced, compl, result>>
             /\ UNCHANGED <<RequesterVars, OwnerVars>>
    BY <1>0, <1>5, <2>1, <2>4
       DEF RunTimer, RequesterTyped, OwnerTyped, CacheTyped, RestTyped,
           RequesterVars, OwnerVars, HostVars, PeerVars
  <2> QED
    BY <1>5, <2>2, <2>3, <2>4 DEF RunTimer
<1>7. CASE DispatchXFixes \/ DispatchSelectionClear
  <2>1. xq # << >> /\ Tail(xq) \in Seq(XEvent)
    BY <1>0, <1>7 DEF DispatchXFixes, DispatchSelectionClear, XtDispatch,
       RequesterTyped
  <2> QED
    BY <1>0, <1>7, <2>1
       DEF DispatchXFixes, DispatchSelectionClear, XtDispatch, RequesterTyped,
           OwnerTyped, CacheTyped, RestTyped, RequesterVars, OwnerVars,
           HostVars, PeerVars
<1>8. CASE DispatchSelectionRequest
  <2>1. /\ xq # << >> /\ Tail(xq) \in Seq(XEvent)
        /\ Head(xq) \in [type : {"selreq"}, target : Atoms, req : Request \cup {NoReq}]
    BY <1>0, <1>8 DEF DispatchSelectionRequest, XtDispatch, RequesterTyped, XEvent
  <2>2. xq' \in Seq(XEvent) /\ CacheTyped'
    BY <1>0, <1>8, <2>1, SelectionRequestType DEF DispatchSelectionRequest
  <2> QED
    BY <1>0, <1>8, <2>2
       DEF DispatchSelectionRequest, XtDispatch, RequesterTyped, OwnerTyped,
           RestTyped, RequesterVars, OwnerVars, HostVars, PeerVars
<1>9. CASE DispatchTargetsReply
  <2>1. xq # << >> /\ Tail(xq) \in Seq(XEvent)
    BY <1>0, <1>9 DEF DispatchTargetsReply, XtDispatch, RequesterTyped
  <2>2. RequesterTyped'
    BY <1>0, <1>9, <2>1, ConvertTargetsType DEF DispatchTargetsReply
  <2> QED
    BY <1>0, <1>9, <2>2
       DEF DispatchTargetsReply, XtDispatch, OwnerTyped, CacheTyped,
           RestTyped, OwnerVars, HostVars, PeerVars
<1>10. CASE DispatchDataReply
  <2>1. /\ xq # << >> /\ Tail(xq) \in Seq(XEvent)
        /\ Head(xq).req \in Request /\ Head(xq).req.kind = "data"
    BY <1>0, <1>10 DEF DispatchDataReply, XtDispatch, RequesterTyped, XEvent
  <2>2. /\ RequesterTyped' /\ compl' \in [Cookies -> Nat]
        /\ result' \in [Cookies -> Results \cup {"none"}]
    BY <1>0, <1>10, <2>1, ConvertCBType DEF DispatchDataReply
  <2> QED
    BY <1>0, <1>10, <2>2
       DEF DispatchDataReply, XtDispatch, OwnerTyped, CacheTyped,
           RestTyped, OwnerVars, HostVars, PeerVars
<1>11. ASSUME NEW F \in AnnounceMasks, ClipAnnounceFormatToX11(F)
       PROVE  RequesterTyped' /\ OwnerTyped' /\ CacheTyped' /\ RestTyped'
              /\ hostVer' = anns'
  <2>1. [op |-> "announce", formats |-> F, ver |-> hostVer + 1] \in WorkItem
    BY <1>0, <1>11, ConstantsOK DEF ClipAnnounceFormatToX11, WorkItem, RestTyped
  <2> QED
    BY <1>0, <1>11, <2>1, ConstantsOK DEF ClipAnnounceFormatToX11,
       clipQueueToEventThread, RequesterTyped, OwnerTyped, CacheTyped,
       RestTyped, RequesterVars, OwnerVars, PeerVars
<1>12. CASE ClipAnnounceFormatToX11NoMemory
  BY <1>0, <1>12, ConstantsOK DEF ClipAnnounceFormatToX11NoMemory,
     RequesterTyped, OwnerTyped, CacheTyped, RestTyped, RequesterVars,
     OwnerVars, PeerVars
<1>13. ASSUME NEW f \in HostAsks, NEW c \in Cookies, ClipRequestDataFromX11(f, c)
       PROVE  RequesterTyped' /\ OwnerTyped' /\ CacheTyped' /\ RestTyped'
              /\ hostVer' = anns'
  <2>1. [op |-> "read", fmt |-> f, cookie |-> c] \in WorkItem
    BY DEF WorkItem
  <2> QED
    BY <1>0, <1>13, <2>1 DEF ClipRequestDataFromX11, clipQueueToEventThread,
       RequesterTyped, OwnerTyped, CacheTyped, RestTyped, RequesterVars,
       OwnerVars, PeerVars
<1>14. CASE ClipStopX11
  <2>1. [op |-> "stop"] \in WorkItem
    BY DEF WorkItem
  <2> QED
    BY <1>0, <1>14, <2>1 DEF ClipStopX11, clipQueueToEventThread,
       RequesterTyped, OwnerTyped, CacheTyped, RestTyped, RequesterVars,
       OwnerVars, PeerVars
<1>15. CASE clipUninit
  BY <1>0, <1>15 DEF clipUninit, RequesterTyped, OwnerTyped, CacheTyped,
     RestTyped, RequesterVars, PeerVars, Owners
<1>16. ASSUME NEW i \in DOMAIN atPeer, PeerAnswer(i)
       PROVE  RequesterTyped' /\ OwnerTyped' /\ CacheTyped' /\ RestTyped'
              /\ hostVer' = anns'
  <2> DEFINE r == atPeer[i]
  <2>1. r \in Request /\ r.offer \in TargetLists
    BY <1>0 DEF RequesterTyped, Request
  <2>2. [j \in 1 .. Len(atPeer) - 1 |-> IF j < i THEN atPeer[j] ELSE atPeer[j + 1]]
          \in Seq(Request)
    BY <1>0 DEF RequesterTyped
  <2>3. PICK v \in {"data", "null", "fail"} :
          xq' = Append(xq, Reply(r, v, IF r.kind = "targets" /\ v = "data"
                                       THEN r.offer ELSE << >>))
    BY <1>16 DEF PeerAnswer
  <2>4. Reply(r, v, IF r.kind = "targets" /\ v = "data" THEN r.offer ELSE << >>)
          \in XEvent
    BY <2>1 DEF Reply, XEvent
  <2> QED
    BY <1>0, <1>16, <2>2, <2>3, <2>4 DEF PeerAnswer, RequesterTyped,
       OwnerTyped, CacheTyped, RestTyped, OwnerVars, HostVars, PeerVars
<1>17. ASSUME NEW o \in PeerOfferings, PeerSetOwner(o)
       PROVE  RequesterTyped' /\ OwnerTyped' /\ CacheTyped' /\ RestTyped'
              /\ hostVer' = anns'
  <2>0. << Clear >> \in Seq(XEvent) /\ << >> \in Seq(XEvent)
        /\ << Fixes("peer") >> \in Seq(XEvent)
    BY DEF Clear, Fixes, XEvent, Owners
  <2>1. /\ (IF selOwner = "us" THEN << Clear >> ELSE << >>) \in Seq(XEvent)
        /\ << Fixes("peer") >> \in Seq(XEvent)
    BY <2>0
  <2> QED
    BY <1>0, <1>17, <2>1, ConstantsOK DEF PeerSetOwner, RequesterTyped,
       OwnerTyped, CacheTyped, RestTyped, RequesterVars, HostVars, PeerVars, Owners
<1>18. CASE PeerDisown
  <2>1. Fixes("none") \in XEvent
    BY DEF Fixes, XEvent, Owners
  <2> QED
    BY <1>0, <1>18, <2>1, ConstantsOK DEF PeerDisown, RequesterTyped,
       OwnerTyped, CacheTyped, RestTyped, RequesterVars, HostVars, PeerVars, Owners
<1>19. ASSUME NEW t \in PeerAsks, PeerConvert(t)
       PROVE  RequesterTyped' /\ OwnerTyped' /\ CacheTyped' /\ RestTyped'
              /\ hostVer' = anns'
  <2>1. SelReq(t, NoReq) \in XEvent
    BY DEF SelReq, XEvent, Atoms
  <2> QED
    BY <1>0, <1>19, <2>1, ConstantsOK DEF PeerConvert, RequesterTyped,
       OwnerTyped, CacheTyped, RestTyped, RequesterVars, OwnerVars, HostVars
<1>6. CASE UNCHANGED vars
  BY <1>0, <1>6 DEF vars, RequesterTyped, OwnerTyped, CacheTyped, RestTyped
<1> QED
  BY <1>1, <1>2, <1>3, <1>4, <1>5, <1>6, <1>7, <1>8, <1>9, <1>10,
     <1>11, <1>12, <1>13, <1>14, <1>15, <1>16, <1>17, <1>18, <1>19 DEF Next, EventThread, HostSide, Peer
(* Type correctness: in every behaviour of the backend, every variable of *)
(* the event thread, the host side and the peer keeps its type.           *)
THEOREM TypeCorrect == Spec => []TypeOK
<1>1. Init => TypeInv
  BY InitTypeInv
<1>2. TypeInv /\ [Next]_vars => TypeInv'
  BY TypeStep
<1>3. TypeInv => TypeOK
  BY DEF TypeInv
<1> QED
  BY <1>1, <1>2, <1>3, PTL DEF Spec
-----------------------------------------------------------------------------
(* One transfer in flight.  The lemmas below say what appending, taking   *)
(* the tail and concatenating do to the transfers of ours in an event     *)
(* queue.                                                                 *)
NoneInFlight(s) == \A i \in DOMAIN s : ~InFlightEvent(s[i])
AtMostOneInFlight(s) ==
  \A i, j \in DOMAIN s : InFlightEvent(s[i]) /\ InFlightEvent(s[j]) => i = j

(* Appending an event that is no transfer of ours adds none.              *)
LEMMA AppendQuiet ==
  ASSUME NEW S, NEW s \in Seq(S), NEW e \in S, ~InFlightEvent(e)
  PROVE  /\ NoneInFlight(s) => NoneInFlight(Append(s, e))
         /\ AtMostOneInFlight(s) => AtMostOneInFlight(Append(s, e))
BY DEF NoneInFlight, AtMostOneInFlight

(* Appending anything to a queue without a transfer leaves at most one.   *)
LEMMA AppendToQuiet ==
  ASSUME NEW S, NEW s \in Seq(S), NEW e \in S, NoneInFlight(s)
  PROVE  AtMostOneInFlight(Append(s, e))
BY DEF NoneInFlight, AtMostOneInFlight

(* Removing the head keeps what holds of the rest; when the head is the   *)
(* one transfer, none is left.                                            *)
LEMMA TailInFlight ==
  ASSUME NEW S, NEW s \in Seq(S), s # << >>
  PROVE  /\ NoneInFlight(s) => NoneInFlight(Tail(s))
         /\ AtMostOneInFlight(s) => AtMostOneInFlight(Tail(s))
         /\ AtMostOneInFlight(s) /\ InFlightEvent(Head(s)) => NoneInFlight(Tail(s))
<1>1. /\ Len(Tail(s)) = Len(s) - 1
      /\ \A i \in DOMAIN Tail(s) : Tail(s)[i] = s[i + 1] /\ i + 1 \in DOMAIN s
  OBVIOUS
<1>2. 1 \in DOMAIN s /\ Head(s) = s[1]
  OBVIOUS
<1> QED
  BY <1>1, <1>2 DEF NoneInFlight, AtMostOneInFlight

(* Concatenating a queue without a transfer adds none.                    *)
LEMMA ConcatQuiet ==
  ASSUME NEW S, NEW s \in Seq(S), NEW t \in Seq(S), NoneInFlight(t)
  PROVE  /\ NoneInFlight(s) => NoneInFlight(s \o t)
         /\ AtMostOneInFlight(s) => AtMostOneInFlight(s \o t)
<1>1. /\ Len(s \o t) = Len(s) + Len(t)
      /\ \A i \in 1 .. Len(s) : (s \o t)[i] = s[i]
      /\ \A i \in (Len(s) + 1) .. (Len(s) + Len(t)) : (s \o t)[i] = t[i - Len(s)]
  OBVIOUS
<1>2. \A i \in (Len(s) + 1) .. (Len(s) + Len(t)) : i - Len(s) \in DOMAIN t
  OBVIOUS
<1> QED
  BY <1>1, <1>2 DEF NoneInFlight, AtMostOneInFlight
(* The inductive form of OneTransferInFlight and UpdateNeededOnlyWhenBusy: *)
(* the shape of what is in flight, and that nothing is while fBusy is     *)
(* clear.                                                                 *)
ShapeOK ==
  /\ Len(atPeer) <= 1
  /\ atPeer # << >> => NoneInFlight(xq)
  /\ AtMostOneInFlight(xq)
QuietOK == busy \/ (atPeer = << >> /\ NoneInFlight(xq))
FlagOK == updateNeeded => busy
BusyInv == TypeInv /\ ShapeOK /\ QuietOK /\ FlagOK

(* clipQueryX11CBFormats keeps the shape, given a queue without a         *)
(* transfer when it may start one.                                        *)
LEMMA QueryInv ==
  ASSUME TypeOK, NEW q \in Seq(XEvent),
         NEW fBusy \in BOOLEAN, NEW fUpdateNeeded \in BOOLEAN,
         ~fBusy => atPeer = << >> /\ NoneInFlight(q),
         fBusy => /\ Len(atPeer) <= 1
                  /\ atPeer # << >> => NoneInFlight(q)
                  /\ AtMostOneInFlight(q),
         clipQueryX11CBFormats(q, fBusy, fUpdateNeeded)
  PROVE  ShapeOK' /\ QuietOK' /\ FlagOK'
<1>1. CASE fBusy
  BY <1>1 DEF clipQueryX11CBFormats, ShapeOK, QuietOK, FlagOK
<1>2. CASE ~fBusy /\ ~xtOwn
  <2> DEFINE r == [kind |-> "targets", cookie |-> NoCookie,
                   fmt |-> NIL_CLIPX11FORMAT, offer |-> peerTargets]
  <2>1. r \in Request
    BY DEF TypeOK, Request, TargetLists
  <2>2. ServerConvertSelection(q, r) /\ busy' = TRUE
    BY <1>2 DEF clipQueryX11CBFormats
  <2>3. CASE selOwner = "none"
    <3>1. xq' = Append(q, Reply(r, "null", << >>)) /\ atPeer' = atPeer
      BY <2>2, <2>3 DEF ServerConvertSelection
    <3>2. Reply(r, "null", << >>) \in XEvent
      BY <2>1 DEF Reply, XEvent
    <3> QED
      BY <1>2, <2>2, <3>1, <3>2, AppendToQuiet DEF ShapeOK, QuietOK, FlagOK
  <2>4. CASE selOwner = "peer"
    <3>1. xq' = q /\ atPeer' = Append(atPeer, r)
      BY <2>2, <2>4 DEF ServerConvertSelection
    <3> QED
      BY <1>2, <2>2, <3>1 DEF ShapeOK, QuietOK, FlagOK, NoneInFlight, AtMostOneInFlight
  <2>5. CASE selOwner = "us"
    <3>1. xq' = Append(q, SelReq(TargetAtom(r), r)) /\ atPeer' = atPeer
      BY <2>2, <2>5 DEF ServerConvertSelection
    <3>2. SelReq(TargetAtom(r), r) \in XEvent
      BY <2>1, TargetAtomType DEF SelReq, XEvent
    <3> QED
      BY <1>2, <2>2, <3>1, <3>2, AppendToQuiet DEF ShapeOK, QuietOK, FlagOK
  <2> QED
    BY <2>3, <2>4, <2>5 DEF TypeOK, Owners
<1>3. CASE ~fBusy /\ xtOwn
  BY <1>3 DEF clipQueryX11CBFormats, ShapeOK, QuietOK, FlagOK, AtMostOneInFlight,
     NoneInFlight
<1> QED
  BY <1>1, <1>2, <1>3

(* A callback entered with no other transfer in flight keeps the shape.   *)
LEMMA ConvertCBInv ==
  ASSUME TypeOK, NEW q \in Seq(XEvent), NEW r, NEW v,
         atPeer = << >>, NoneInFlight(q), updateNeeded => busy,
         clipConvertX11CB(r, v, q)
  PROVE  ShapeOK' /\ QuietOK' /\ FlagOK'
<1>1. CASE updateNeeded
  BY <1>1, QueryInv DEF clipConvertX11CB, TypeOK
<1>2. CASE ~updateNeeded
  BY <1>2 DEF clipConvertX11CB, ShapeOK, QuietOK, FlagOK, NoneInFlight,
     AtMostOneInFlight
<1> QED
  BY <1>1, <1>2

LEMMA ConvertTargetsInv ==
  ASSUME TypeOK, NEW q \in Seq(XEvent), NEW t, NEW v,
         atPeer = << >>, NoneInFlight(q),
         clipConvertX11Targets(v, t, q)
  PROVE  ShapeOK' /\ QuietOK' /\ FlagOK'
<1>1. CASE updateNeeded
  BY <1>1, QueryInv DEF clipConvertX11Targets
<1>2. CASE ~updateNeeded
  BY <1>2 DEF clipConvertX11Targets, ShapeOK, QuietOK, FlagOK, NoneInFlight,
     AtMostOneInFlight
<1> QED
  BY <1>1, <1>2
(* An announcement's grab only queues XFixes and SelectionClear events.   *)
LEMMA GrabInv ==
  ASSUME NEW q \in Seq(XEvent), NEW F, ShapeOK, QuietOK, q = xq,
         clipGrabX11CB(F, q), UNCHANGED <<busy, updateNeeded, atPeer>>
  PROVE  ShapeOK' /\ QuietOK'
<1>1. /\ << Fixes("us") >> \in Seq(XEvent) /\ NoneInFlight(<< Fixes("us") >>)
      /\ << >> \in Seq(XEvent) /\ NoneInFlight(<< >>)
      /\ << Fixes("us"), Clear, Fixes("peer") >> \in Seq(XEvent)
      /\ NoneInFlight(<< Fixes("us"), Clear, Fixes("peer") >>)
  BY DEF Fixes, Clear, XEvent, Owners, NoneInFlight, InFlightEvent
<1> DEFINE A == IF xtOwn THEN << >> ELSE << Fixes("us") >>
<1>2. A \in Seq(XEvent) /\ NoneInFlight(A)
  BY <1>1
<1>3. q \o A \in Seq(XEvent)
  BY <1>2
<1>4. /\ NoneInFlight(q) => NoneInFlight((q \o A) \o << Fixes("us") >>)
      /\ AtMostOneInFlight(q) => AtMostOneInFlight((q \o A) \o << Fixes("us") >>)
  BY <1>1, <1>2, <1>3, ConcatQuiet
<1>5. /\ NoneInFlight(q) => NoneInFlight(q \o << Fixes("us"), Clear, Fixes("peer") >>)
      /\ AtMostOneInFlight(q) =>
           AtMostOneInFlight(q \o << Fixes("us"), Clear, Fixes("peer") >>)
  BY <1>1, ConcatQuiet
<1> QED
  BY <1>4, <1>5 DEF clipGrabX11CB, ShapeOK, QuietOK

(* A read work item starts a transfer only when none is in flight.        *)
LEMMA ReadWorkerInv ==
  ASSUME TypeOK, ShapeOK, QuietOK, FlagOK,
         NEW item \in [op : {"read"}, fmt : HostAsks, cookie : Cookies],
         vboxClipboardReadX11Worker(item, xq)
  PROVE  ShapeOK' /\ QuietOK' /\ FlagOK'
<1>1. CASE ~busy /\ item.fmt = UNICODETEXT /\ x11Fmt # NIL_CLIPX11FORMAT
  <2>1. IssueDataRequest(item.cookie, xq) /\ atPeer = << >> /\ NoneInFlight(xq)
        /\ ~updateNeeded
    BY <1>1 DEF vboxClipboardReadX11Worker, QuietOK, FlagOK
  <2>2. DataRequest(item.cookie) \in Request
    BY <1>1, ConstantsOK DEF DataRequest, Request, TypeOK, TargetLists
  <2>3. CASE ~xtOwn
    <3>1. busy' = TRUE /\ ServerConvertSelection(xq, DataRequest(item.cookie))
          /\ UNCHANGED updateNeeded
      BY <2>1, <2>3 DEF IssueDataRequest
    <3>2. CASE selOwner = "none"
      <4>1. xq' = Append(xq, Reply(DataRequest(item.cookie), "null", << >>))
            /\ atPeer' = atPeer
        BY <3>1, <3>2 DEF ServerConvertSelection
      <4>2. Reply(DataRequest(item.cookie), "null", << >>) \in XEvent
        BY <2>2 DEF Reply, XEvent
      <4> QED
        BY <2>1, <3>1, <4>1, <4>2, AppendToQuiet DEF TypeOK, ShapeOK, QuietOK, FlagOK
    <3>3. CASE selOwner = "peer"
      <4>1. xq' = xq /\ atPeer' = Append(atPeer, DataRequest(item.cookie))
        BY <3>1, <3>3 DEF ServerConvertSelection
      <4> QED
        BY <2>1, <3>1, <4>1 DEF ShapeOK, QuietOK, FlagOK, AtMostOneInFlight,
           NoneInFlight
    <3>4. CASE selOwner = "us"
      <4> DEFINE e == SelReq(TargetAtom(DataRequest(item.cookie)), DataRequest(item.cookie))
      <4>1. xq' = Append(xq, e) /\ atPeer' = atPeer
        BY <3>1, <3>4 DEF ServerConvertSelection
      <4>2. e \in XEvent
        BY <2>2, TargetAtomType DEF SelReq, XEvent
      <4> QED
        BY <2>1, <3>1, <4>1, <4>2, AppendToQuiet DEF TypeOK, ShapeOK, QuietOK, FlagOK
    <3> QED
      BY <3>2, <3>3, <3>4 DEF TypeOK, Owners
  <2>4. CASE xtOwn
    <3>1. PICK ok \in BOOLEAN :
            clipConvertX11CB(DataRequest(item.cookie), IF ok THEN "data" ELSE "null", xq)
      BY <2>1, <2>4 DEF IssueDataRequest
    <3> QED
      BY <2>1, <3>1, ConvertCBInv DEF TypeOK
  <2> QED
    BY <2>3, <2>4 DEF TypeOK
<1>2. CASE ~(~busy /\ item.fmt = UNICODETEXT /\ x11Fmt # NIL_CLIPX11FORMAT)
  BY <1>2 DEF vboxClipboardReadX11Worker, ShapeOK, QuietOK, FlagOK
<1> QED
  BY <1>1, <1>2

(* Each step keeps BusyInv.                                               *)
LEMMA BusyStep == BusyInv /\ [Next]_vars => BusyInv'
<1> SUFFICES ASSUME BusyInv, [Next]_vars PROVE BusyInv'
  OBVIOUS
<1>0. TypeOK /\ RequesterTyped /\ ShapeOK /\ QuietOK /\ FlagOK
  BY TypeOKSplit DEF BusyInv, TypeInv
<1> SUFFICES ShapeOK' /\ QuietOK' /\ FlagOK'
  BY TypeStep DEF BusyInv
<1>1. CASE clipEventThread
  <2>1. CASE grabOnStart
    BY <1>0, <1>1, <2>1, QueryInv DEF clipEventThread, TypeOK, ShapeOK, QuietOK
  <2>2. CASE ~grabOnStart
    BY <1>1, <1>0, <2>2 DEF clipEventThread, ShapeOK, QuietOK, FlagOK
  <2> QED
    BY <2>1, <2>2
<1>2. CASE PeekXFixes
  <2>1. CASE Head(xq).owner = "peer"
    BY <1>0, <1>2, <2>1, QueryInv DEF PeekXFixes, TypeOK, ShapeOK, QuietOK
  <2>2. CASE Head(xq).owner # "peer"
    BY <1>0, <1>2, <2>2 DEF PeekXFixes, ShapeOK, QuietOK, FlagOK
  <2> QED
    BY <2>1, <2>2
<1>3. CASE PeekBlock \/ clipDrainWakeupPipe \/ clipUninit
  BY <1>0, <1>3 DEF PeekBlock, clipDrainWakeupPipe, clipUninit, RequesterVars,
     ShapeOK, QuietOK, FlagOK
<1>4. CASE UNCHANGED vars
  BY <1>0, <1>4 DEF vars, ShapeOK, QuietOK, FlagOK
<1>5. CASE HostSide
  <2>1. UNCHANGED <<xq, busy, updateNeeded, atPeer>>
    <3>1. CASE \E F \in AnnounceMasks : ClipAnnounceFormatToX11(F)
      BY <3>1 DEF ClipAnnounceFormatToX11, RequesterVars
    <3>2. CASE ClipAnnounceFormatToX11NoMemory
      BY <3>2 DEF ClipAnnounceFormatToX11NoMemory, RequesterVars
    <3>3. CASE \E f \in HostAsks, c \in Cookies : ClipRequestDataFromX11(f, c)
      BY <3>3 DEF ClipRequestDataFromX11, RequesterVars
    <3>4. CASE ClipStopX11
      BY <3>4 DEF ClipStopX11, RequesterVars
    <3>5. CASE clipUninit
      BY <3>5 DEF clipUninit, RequesterVars
    <3> QED
      BY <1>5, <3>1, <3>2, <3>3, <3>4, <3>5 DEF HostSide
  <2> QED
    BY <1>0, <2>1 DEF ShapeOK, QuietOK, FlagOK
<1>6. CASE DispatchXFixes \/ DispatchSelectionClear
  <2>1. xq # << >> /\ ~InFlightEvent(Head(xq)) /\ xq' = Tail(xq)
        /\ UNCHANGED <<busy, updateNeeded, atPeer>>
    BY <1>6 DEF DispatchXFixes, DispatchSelectionClear, XtDispatch, InFlightEvent,
       RequesterVars
  <2> QED
    BY <1>0, <2>1, TailInFlight DEF RequesterTyped, ShapeOK, QuietOK, FlagOK,
       NoneInFlight<1>7. CASE RunTimer
  <2> DEFINE item == Head(timers)
  <2>1. timers # << >> /\ item \in WorkItem
    BY <1>0, <1>7, TypeOKSplit DEF RunTimer, RestTyped
  <2>2. CASE item.op = "announce" /\ clipNewVBoxFormatsWorker(item, xq)
             /\ UNCHANGED <<busy, updateNeeded, atPeer>>
    BY <1>0, <2>2, GrabInv DEF clipNewVBoxFormatsWorker, RequesterTyped, FlagOK
  <2>3. CASE item.op = "read" /\ vboxClipboardReadX11Worker(item, xq)
    <3>1. item \in [op : {"read"}, fmt : HostAsks, cookie : Cookies]
      BY <2>1, <2>3 DEF WorkItem
    <3> QED
      BY <1>0, <2>3, <3>1, ReadWorkerInv
  <2>4. CASE item.op = "stop" /\ UNCHANGED <<xq, RequesterVars>>
    BY <1>0, <2>4 DEF RequesterVars, ShapeOK, QuietOK, FlagOK
  <2> QED
    BY <1>7, <2>2, <2>3, <2>4 DEF RunTimer
<1>8. CASE DispatchSelectionRequest
  <2>1. /\ xq # << >> /\ Tail(xq) \in Seq(XEvent)
        /\ Head(xq) \in [type : {"selreq"}, target : Atoms, req : Request \cup {NoReq}]
        /\ UNCHANGED <<busy, updateNeeded, atPeer>>
    BY <1>0, <1>8 DEF DispatchSelectionRequest, XtDispatch, RequesterTyped, XEvent,
       RequesterVars
  <2>2. PICK ok \in BOOLEAN :
          xq' = IF Head(xq).req = NoReq THEN Tail(xq)
                ELSE Append(Tail(xq), Reply(Head(xq).req, IF ok THEN "data" ELSE "null",
                                IF ok /\ Head(xq).target = "TARGETS"
                                THEN clipCreateX11Targets(vboxFormats) ELSE << >>))
    BY <1>8 DEF DispatchSelectionRequest, XtSelectionRequest
  <2>3. CASE Head(xq).req = NoReq
    <3>1. ~InFlightEvent(Head(xq))
      BY <2>1, <2>3 DEF InFlightEvent
    <3> QED
      BY <1>0, <2>1, <2>2, <2>3, <3>1, TailInFlight
         DEF RequesterTyped, ShapeOK, QuietOK, FlagOK, NoneInFlight
  <2>4. CASE Head(xq).req # NoReq
    <3>1. InFlightEvent(Head(xq)) /\ Head(xq) = xq[1] /\ 1 \in DOMAIN xq
      BY <2>1, <2>4 DEF InFlightEvent
    <3>2. atPeer = << >> /\ busy
      BY <1>0, <3>1 DEF ShapeOK, QuietOK, NoneInFlight
    <3>3. NoneInFlight(Tail(xq))
      BY <1>0, <2>1, <3>1, TailInFlight DEF RequesterTyped, ShapeOK
    <3>4. Reply(Head(xq).req, IF ok THEN "data" ELSE "null",
                IF ok /\ Head(xq).target = "TARGETS"
                THEN clipCreateX11Targets(vboxFormats) ELSE << >>) \in XEvent
      <4>1. clipCreateX11Targets(vboxFormats) \in TargetLists
        BY <1>0, CreateTargetsType, ConstantsOK DEF TypeOK
      <4> QED
        BY <2>1, <2>4, <4>1 DEF Reply, XEvent
    <3> DEFINE rep == Reply(Head(xq).req, IF ok THEN "data" ELSE "null",
                            IF ok /\ Head(xq).target = "TARGETS"
                            THEN clipCreateX11Targets(vboxFormats) ELSE << >>)
    <3>5. xq' = Append(Tail(xq), rep)
      BY <2>2, <2>4
    <3>6. AtMostOneInFlight(xq')
      BY <2>1, <3>3, <3>4, <3>5, AppendToQuiet
    <3> QED
      BY <2>1, <3>2, <3>6 DEF ShapeOK, QuietOK, FlagOK
  <2> QED
    BY <2>3, <2>4
<1>9. CASE DispatchTargetsReply \/ DispatchDataReply
  <2>1. /\ xq # << >> /\ Tail(xq) \in Seq(XEvent)
        /\ InFlightEvent(Head(xq)) /\ Head(xq) = xq[1] /\ 1 \in DOMAIN xq
    BY <1>0, <1>9 DEF DispatchTargetsReply, DispatchDataReply, XtDispatch,
       RequesterTyped, InFlightEvent
  <2>2. atPeer = << >> /\ NoneInFlight(Tail(xq))
    BY <1>0, <2>1, TailInFlight DEF RequesterTyped, ShapeOK, NoneInFlight
  <2>3. CASE DispatchTargetsReply
    BY <1>0, <2>1, <2>2, <2>3, ConvertTargetsInv DEF DispatchTargetsReply
  <2>4. CASE DispatchDataReply
    BY <1>0, <2>1, <2>2, <2>4, ConvertCBInv DEF DispatchDataReply, FlagOK
  <2> QED
    BY <1>9, <2>3, <2>4
<1>10. ASSUME NEW i \in DOMAIN atPeer, PeerAnswer(i)
       PROVE  ShapeOK' /\ QuietOK' /\ FlagOK'
  <2> DEFINE r == atPeer[i]
  <2>0. atPeer # << >>
    BY <1>0 DEF RequesterTyped
  <2>1. Len(atPeer) = 1 /\ i = 1
    <3>1. Len(atPeer) <= 1 /\ atPeer \in Seq(Request)
      BY <1>0 DEF RequesterTyped, ShapeOK
    <3> QED
      BY <3>1
  <2>6. NoneInFlight(xq) /\ busy
    BY <1>0, <2>0 DEF ShapeOK, QuietOK
  <2>2. atPeer' = << >>
    BY <1>10, <2>1 DEF PeerAnswer
  <2>3. PICK v \in {"data", "null", "fail"} :
          xq' = Append(xq, Reply(r, v, IF r.kind = "targets" /\ v = "data"
                                       THEN r.offer ELSE << >>))
    BY <1>10 DEF PeerAnswer
  <2>4. Reply(r, v, IF r.kind = "targets" /\ v = "data" THEN r.offer ELSE << >>)
          \in XEvent
    BY <1>0 DEF RequesterTyped, Request, Reply, XEvent
  <2>5. AtMostOneInFlight(xq')
    BY <1>0, <2>6, <2>3, <2>4, AppendToQuiet DEF RequesterTyped
  <2> QED
    BY <1>10, <2>2, <2>5, <2>6 DEF PeerAnswer, ShapeOK, QuietOK, FlagOK
<1>11. ASSUME NEW o \in PeerOfferings, PeerSetOwner(o)
       PROVE  ShapeOK' /\ QuietOK' /\ FlagOK'
  <2>1. /\ << Clear >> \in Seq(XEvent) /\ NoneInFlight(<< Clear >>)
        /\ << >> \in Seq(XEvent) /\ NoneInFlight(<< >>)
        /\ << Fixes("peer") >> \in Seq(XEvent) /\ NoneInFlight(<< Fixes("peer") >>)
    BY DEF Clear, Fixes, XEvent, Owners, NoneInFlight, InFlightEvent
  <2> DEFINE A == IF selOwner = "us" THEN << Clear >> ELSE << >>
  <2>2. A \in Seq(XEvent) /\ NoneInFlight(A) /\ xq \o A \in Seq(XEvent)
    BY <1>0, <2>1 DEF RequesterTyped
  <2>3. /\ NoneInFlight(xq) => NoneInFlight((xq \o A) \o << Fixes("peer") >>)
        /\ AtMostOneInFlight(xq) => AtMostOneInFlight((xq \o A) \o << Fixes("peer") >>)
    BY <1>0, <2>1, <2>2, ConcatQuiet DEF RequesterTyped
  <2> QED
    BY <1>0, <1>11, <2>3 DEF PeerSetOwner, RequesterVars, ShapeOK, QuietOK, FlagOK
<1>12. ASSUME NEW e \in XEvent, ~InFlightEvent(e), xq' = Append(xq, e),
              UNCHANGED <<busy, updateNeeded, atPeer>>
       PROVE  ShapeOK' /\ QuietOK' /\ FlagOK'
  BY <1>0, <1>12, AppendQuiet DEF RequesterTyped, ShapeOK, QuietOK, FlagOK
<1>13. CASE PeerDisown
  <2>1. Fixes("none") \in XEvent /\ ~InFlightEvent(Fixes("none"))
    BY DEF Fixes, XEvent, Owners, InFlightEvent
  <2> QED
    BY <1>12, <1>13, <2>1 DEF PeerDisown, RequesterVars
<1>14. ASSUME NEW t \in PeerAsks, PeerConvert(t)
       PROVE  ShapeOK' /\ QuietOK' /\ FlagOK'
  <2>1. SelReq(t, NoReq) \in XEvent /\ ~InFlightEvent(SelReq(t, NoReq))
    BY DEF SelReq, XEvent, Atoms, InFlightEvent
  <2> QED
    BY <1>12, <1>14, <2>1 DEF PeerConvert, RequesterVars
<1> QED
  BY <1>1, <1>2, <1>3, <1>4, <1>5, <1>6, <1>7, <1>8, <1>9,
     <1>10, <1>11, <1>13, <1>14 DEF Next, EventThread, Peer
LEMMA InitBusyInv == Init => BusyInv
<1> SUFFICES ASSUME Init PROVE BusyInv
  OBVIOUS
<1>1. xq = << >> /\ atPeer = << >> /\ ~busy /\ ~updateNeeded
  BY DEF Init
<1>2. NoneInFlight(xq) /\ AtMostOneInFlight(xq)
  BY <1>1 DEF NoneInFlight, AtMostOneInFlight
<1> QED
  BY <1>1, <1>2, InitTypeInv DEF BusyInv, ShapeOK, QuietOK, FlagOK

(* BusyInv gives the two invariants the runs check.                        *)
LEMMA BusyInvImplies ==
  BusyInv => OneTransferInFlight /\ UpdateNeededOnlyWhenBusy
<1> SUFFICES ASSUME BusyInv PROVE OneTransferInFlight /\ UpdateNeededOnlyWhenBusy
  OBVIOUS
<1>1. /\ atPeer \in Seq(Request) /\ ShapeOK /\ QuietOK /\ FlagOK
  BY TypeOKSplit DEF BusyInv, TypeInv, RequesterTyped
<1>2. SomeInFlight => busy
  BY <1>1 DEF SomeInFlight, QuietOK, NoneInFlight
<1> QED
  BY <1>1, <1>2 DEF OneTransferInFlight, UpdateNeededOnlyWhenBusy, ShapeOK, FlagOK,
     NoneInFlight, AtMostOneInFlight

(* fBusy keeps at most one selection transfer of ours in flight, routed  *)
(* to the peer or queued as an X event, and one is in flight only while   *)
(* fBusy is set (vboxClipboardReadX11Worker, clipQueryX11CBFormats and     *)
(* their callbacks).                                                      *)
THEOREM OneTransfer == Spec => []OneTransferInFlight
<1>1. Init => BusyInv
  BY InitBusyInv
<1>2. BusyInv /\ [Next]_vars => BusyInv'
  BY BusyStep
<1>3. BusyInv => OneTransferInFlight
  BY BusyInvImplies
<1> QED
  BY <1>1, <1>2, <1>3, PTL DEF Spec

(* fUpdateNeeded is only set while fBusy is, so the callback of the       *)
(* transfer in flight always sees it (clipQueryX11CBFormats,              *)
(* clipConvertX11Targets, clipConvertX11CB).                              *)
THEOREM UpdateNeededBusy == Spec => []UpdateNeededOnlyWhenBusy
<1>1. Init => BusyInv
  BY InitBusyInv
<1>2. BusyInv /\ [Next]_vars => BusyInv'
  BY BusyStep
<1>3. BusyInv => UpdateNeededOnlyWhenBusy
  BY BusyInvImplies
<1> QED
  BY <1>1, <1>2, <1>3, PTL DEF Spec
-----------------------------------------------------------------------------
(* Cache freshness.  A cache fill takes the current host version, so     *)
(* CacheFresh holds once every announcement applied or still queued       *)
(* carries a version no newer than the host's.                            *)
VersionsOK ==
  /\ lastAnnounced <= hostVer
  /\ \A i \in DOMAIN timers : timers[i].op = "announce" => timers[i].ver <= hostVer
  /\ cache # None => cache >= lastAnnounced
CacheInv == TypeInv /\ VersionsOK

(* The convert procedure caches the current host version or nothing new.  *)
LEMMA ConvertProcFresh ==
  ASSUME NEW t, NEW ok, clipXtConvertSelectionProc(t, ok)
  PROVE  cache' \in {cache, hostVer, None}
BY DEF clipXtConvertSelectionProc, clipConvertVBoxCBForX11, clipReadVBoxClipboard

(* So does a read work item, through a local transfer.                    *)
LEMMA ReadWorkerFresh ==
  ASSUME NEW item, NEW q, vboxClipboardReadX11Worker(item, q)
  PROVE  cache' \in {cache, hostVer, None}
<1>1. CASE ~busy /\ item.fmt = UNICODETEXT /\ x11Fmt # NIL_CLIPX11FORMAT
  <2>1. IssueDataRequest(item.cookie, q)
    BY <1>1 DEF vboxClipboardReadX11Worker
  <2>2. CASE ~xtOwn
    BY <2>1, <2>2 DEF IssueDataRequest
  <2>3. CASE xtOwn
    BY <2>1, <2>3, ConvertProcFresh DEF IssueDataRequest
  <2> QED
    BY <2>2, <2>3
<1>2. CASE ~(~busy /\ item.fmt = UNICODETEXT /\ x11Fmt # NIL_CLIPX11FORMAT)
  BY <1>2 DEF vboxClipboardReadX11Worker
<1> QED
  BY <1>1, <1>2

LEMMA CacheStep == CacheInv /\ [Next]_vars => CacheInv'
<1> SUFFICES ASSUME CacheInv, [Next]_vars PROVE CacheInv'
  OBVIOUS
<1>0. /\ TypeOK /\ hostVer = anns /\ VersionsOK
      /\ hostVer \in Nat /\ lastAnnounced \in Nat /\ anns \in Nat
      /\ cache \in {None} \cup Nat /\ timers \in Seq(WorkItem)
      /\ MaxAnnounce \in Nat
  BY ConstantsOK DEF CacheInv, TypeInv, TypeOK
<1>00. \A i \in DOMAIN timers : timers[i].op = "announce" => timers[i].ver \in Nat
  BY <1>0 DEF WorkItem
<1> SUFFICES VersionsOK'
  BY TypeStep DEF CacheInv
<1>1. CASE UNCHANGED <<cache, lastAnnounced, hostVer, timers>>
  BY <1>0, <1>1 DEF VersionsOK
<1>2. ASSUME NEW c \in {cache, hostVer, None},
             cache' = c, UNCHANGED <<lastAnnounced, hostVer, timers>>
      PROVE  VersionsOK'
  BY <1>0, <1>2 DEF VersionsOK
<1>3. CASE DispatchSelectionRequest
  <2>1. PICK ok \in BOOLEAN :
          IF xtOwn THEN clipXtConvertSelectionProc(Head(xq).target, ok)
          ELSE ~ok /\ cache' = cache
    BY <1>3 DEF DispatchSelectionRequest, XtSelectionRequest
  <2>2. cache' \in {cache, hostVer, None}
    BY <2>1, ConvertProcFresh
  <2> QED
    BY <1>2, <1>3, <2>2 DEF DispatchSelectionRequest, XtDispatch, HostVars
<1>4. CASE RunTimer
  <2> DEFINE item == Head(timers)
  <2>1. /\ timers # << >> /\ timers' = Tail(timers) /\ UNCHANGED hostVer
        /\ item = timers[1] /\ 1 \in DOMAIN timers
    BY <1>4 DEF RunTimer, HostVars
  <2>2. \A i \in DOMAIN timers' : timers'[i].op = "announce" => timers'[i].ver <= hostVer'
    <3>1. \A i \in DOMAIN Tail(timers) : Tail(timers)[i] = timers[i + 1]
                                         /\ i + 1 \in DOMAIN timers
      BY <1>0, <2>1
    <3> QED
      BY <1>0, <2>1, <3>1 DEF VersionsOK
  <2>3. CASE item.op = "announce" /\ clipNewVBoxFormatsWorker(item, xq)
    <3>1. cache' = None /\ lastAnnounced' = item.ver /\ item.ver <= hostVer
      BY <1>0, <2>1, <2>3 DEF clipNewVBoxFormatsWorker, VersionsOK
    <3> QED
      BY <1>0, <2>1, <2>2, <3>1 DEF VersionsOK
  <2>4. CASE item.op = "read" /\ vboxClipboardReadX11Worker(item, xq)
             /\ UNCHANGED lastAnnounced
    <3>1. cache' \in {cache, hostVer, None}
      BY <2>4, ReadWorkerFresh
    <3> QED
      BY <1>0, <2>1, <2>2, <2>4, <3>1 DEF VersionsOK
  <2>5. CASE item.op = "stop" /\ UNCHANGED <<cache, lastAnnounced>>
    BY <1>0, <2>1, <2>2, <2>5 DEF VersionsOK
  <2> QED
    BY <1>4, <2>3, <2>4, <2>5 DEF RunTimer
<1>5. ASSUME NEW F \in AnnounceMasks, ClipAnnounceFormatToX11(F) PROVE VersionsOK'
  <2>1. /\ hostVer' = hostVer + 1 /\ UNCHANGED <<cache, lastAnnounced>>
        /\ timers' = Append(timers, [op |-> "announce", formats |-> F, ver |-> hostVer + 1])
    BY <1>5 DEF ClipAnnounceFormatToX11, clipQueueToEventThread
  <2> QED
    BY <1>0, <1>00, <2>1 DEF VersionsOK
<1>6. CASE ClipAnnounceFormatToX11NoMemory
  <2>1. hostVer' = hostVer + 1 /\ UNCHANGED <<cache, lastAnnounced, timers>>
    BY <1>6 DEF ClipAnnounceFormatToX11NoMemory
  <2> QED
    BY <1>0, <1>00, <2>1 DEF VersionsOK
<1>7. ASSUME NEW it, it.op # "announce",
             timers' = Append(timers, it), UNCHANGED <<cache, lastAnnounced, hostVer>>
      PROVE  VersionsOK'
  BY <1>0, <1>7 DEF VersionsOK
<1>8. ASSUME NEW f \in HostAsks, NEW c \in Cookies, ClipRequestDataFromX11(f, c)
      PROVE  VersionsOK'
  BY <1>7, <1>8 DEF ClipRequestDataFromX11, clipQueueToEventThread
<1>9. CASE ClipStopX11
  BY <1>7, <1>9 DEF ClipStopX11, clipQueueToEventThread
<1>10. CASE \/ clipEventThread \/ PeekXFixes \/ PeekBlock \/ clipDrainWakeupPipe
            \/ DispatchXFixes \/ DispatchSelectionClear \/ DispatchTargetsReply
            \/ DispatchDataReply \/ clipUninit \/ Peer \/ UNCHANGED vars
  <2>1. UNCHANGED <<cache, lastAnnounced, hostVer, timers>>
    BY <1>10 DEF clipEventThread, PeekXFixes, PeekBlock, clipDrainWakeupPipe,
       DispatchXFixes, DispatchSelectionClear, DispatchTargetsReply,
       DispatchDataReply, XtDispatch, clipUninit, Peer, PeerAnswer, PeerSetOwner,
       PeerDisown, PeerConvert, HostVars, vars
  <2> QED
    BY <1>1, <2>1
<1> QED
  BY <1>3, <1>4, <1>5, <1>6, <1>8, <1>9, <1>10 DEF Next, EventThread, HostSide

(* The Unicode cache never holds host data older than the last            *)
(* announcement the event thread applied: clipNewVBoxFormatsWorker empties *)
(* it, and clipReadVBoxClipboard fills it with the current host data.     *)
THEOREM CacheIsFresh == Spec => []CacheFresh
<1>1. Init => CacheInv
  BY InitTypeInv DEF Init, CacheInv, VersionsOK
<1>2. CacheInv /\ [Next]_vars => CacheInv'
  BY CacheStep
<1>3. CacheInv => CacheFresh
  BY DEF CacheInv, VersionsOK, CacheFresh
<1> QED
  BY <1>1, <1>2, <1>3, PTL DEF Spec
=============================================================================
