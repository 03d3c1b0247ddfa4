------------------------ MODULE X11ClipboardContract ------------------------
(***************************************************************************)
(* Proof that the X11 clipboard backend implements ClipRequestContract:    *)
(* every step of the model is a step of the contract on the requests made, *)
(* their completions and the statuses, or leaves them alone.               *)
(*                                                                         *)
(* The argument rests on the accounting invariant AInv.  A completion      *)
(* always ends a request that is still held somewhere, as the head work    *)
(* item or as the head X event, so by Accounted it was made and it is not  *)
(* completed yet.                                                          *)
(***************************************************************************)
EXTENDS X11ClipboardAccounting

-----------------------------------------------------------------------------
(* A sequence whose head lies in V counts at least one element of V.      *)
LEMMA IdxHead ==
  ASSUME NEW S, NEW s \in Seq(S), s # << >>, NEW V, s[1] \in V
  PROVE  Cardinality(IdxIn(s, V)) >= 1
<1>1. Cardinality(IdxIn(Tail(s), V)) = Cardinality(IdxIn(s, V)) - 1
  BY IdxTail
<1>2. Tail(s) \in Seq(S)
  OBVIOUS
<1>3. Cardinality(IdxIn(Tail(s), V)) \in Nat /\ Cardinality(IdxIn(s, V)) \in Nat
  BY <1>2, IdxFinite
<1> QED
  BY <1>1, <1>3

(* The statuses a data transfer's callback completes with.                *)
LEMMA ConvertResultsIn ==
  ASSUME NEW r, NEW v
  PROVE  ConvertX11CBResults(r, v) \subseteq Results
BY DEF ConvertX11CBResults, Results

-----------------------------------------------------------------------------
(* A step that leaves the requests, completions and statuses alone is a   *)
(* stutter of the contract.                                               *)
LEMMA ContractStutter ==
  ASSUME UNCHANGED <<requested, compl, result>>
  PROVE  [Contract!Next]_Contract!vars
BY DEF Contract!vars

(* ClipRequestDataFromX11 is the contract's Request.                      *)
LEMMA RequestIsRequest ==
  ASSUME NEW f \in HostAsks, NEW c \in Cookies, ClipRequestDataFromX11(f, c)
  PROVE  [Contract!Next]_Contract!vars
<1>1. Contract!Request(c)
  BY DEF ClipRequestDataFromX11, Contract!Request
<1> QED
  BY <1>1 DEF Contract!Next

(* A completion of a request still held somewhere is the contract's      *)
(* Answer: the request was made, and it is not completed yet.            *)
LEMMA CompleteIsAnswer ==
  ASSUME AInv, NEW ck \in Cookies, NEW rc \in Results, Complete(ck, rc),
         UNCHANGED requested, TC(timers, ck) + Flight(ck) >= 1
  PROVE  [Contract!Next]_Contract!vars
<1>1. /\ compl[ck] \in Nat /\ TC(timers, ck) \in Nat /\ Flight(ck) \in Nat
      /\ compl \in [Cookies -> Nat]
  BY CountsNat DEF AInv, BusyInv, TypeInv, TypeOK, Flight
<1>2. Held(ck) = IF ck \in requested THEN 1 ELSE 0
  BY DEF AInv, Accounted
<1>3. ck \in requested /\ compl[ck] = 0
  BY <1>1, <1>2 DEF Held
<1>4. compl' = [compl EXCEPT ![ck] = 1]
  BY <1>1, <1>3 DEF Complete
<1>5. Contract!Answer(ck, rc)
  BY <1>3, <1>4 DEF Complete, Contract!Answer
<1> QED
  BY <1>5 DEF Contract!Next

(* clipConvertX11CB completes the request its transfer carries.           *)
LEMMA ConvertCBAnswers ==
  ASSUME AInv, NEW r \in Request, r.kind = "data", NEW v, NEW q,
         clipConvertX11CB(r, v, q), UNCHANGED requested,
         TC(timers, r.cookie) + Flight(r.cookie) >= 1
  PROVE  [Contract!Next]_Contract!vars
<1>1. PICK rc \in ConvertX11CBResults(r, v) : Complete(r.cookie, rc)
  BY DEF clipConvertX11CB
<1>2. rc \in Results /\ r.cookie \in Cookies
  BY ConvertResultsIn DEF Request
<1> QED
  BY <1>1, <1>2, CompleteIsAnswer

-----------------------------------------------------------------------------
(* The event thread running a read work item: the worker completes the   *)
(* request at once, or through a local transfer, or starts a transfer    *)
(* through the server and completes nothing.                              *)
LEMMA ReadWorkerAnswers ==
  ASSUME AInv, RunTimer, Head(timers).op = "read"
  PROVE  [Contract!Next]_Contract!vars
<1> DEFINE item == Head(timers)
<1>0. TypeOK
  BY DEF AInv, BusyInv, TypeInv
<1>1. /\ timers # << >> /\ timers \in Seq(WorkItem) /\ item = timers[1]
      /\ vboxClipboardReadX11Worker(item, xq) /\ UNCHANGED requested
  BY <1>0 DEF RunTimer, TypeOK, HostVars
<1>2. item \in [op : {"read"}, fmt : HostAsks, cookie : Cookies]
  BY <1>1 DEF WorkItem
<1>3. PICK ck \in Cookies : ck = item.cookie
  BY <1>2
<1>4. TC(timers, ck) + Flight(ck) >= 1
  <2>1. timers[1] \in ReadItem(ck)
    BY <1>1, <1>2, <1>3 DEF ReadItem
  <2>2. TC(timers, ck) >= 1
    BY <1>1, <2>1, IdxHead DEF TC
  <2>3. XC(xq, ck) \in Nat /\ PC(atPeer, ck) \in Nat /\ TC(timers, ck) \in Nat
    BY <1>0, CountsNat DEF TypeOK
  <2> QED
    BY <2>2, <2>3 DEF Flight
<1>5. CASE ~busy /\ item.fmt = UNICODETEXT /\ x11Fmt # NIL_CLIPX11FORMAT
  <2>1. IssueDataRequest(ck, xq)
    BY <1>1, <1>3, <1>5 DEF vboxClipboardReadX11Worker
  <2>2. DataRequest(ck) \in Request /\ DataRequest(ck).kind = "data"
        /\ DataRequest(ck).cookie = ck
    BY <1>0, <1>5, ConstantsOK DEF DataRequest, Request, TypeOK, TargetLists
  <2>3. CASE ~xtOwn
    <3>1. UNCHANGED <<requested, compl, result>>
      BY <1>1, <2>1, <2>3 DEF IssueDataRequest
    <3> QED
      BY <3>1, ContractStutter
  <2>4. CASE xtOwn
    <3>1. PICK ok \in BOOLEAN :
            clipConvertX11CB(DataRequest(ck), IF ok THEN "data" ELSE "null", xq)
      BY <2>1, <2>4 DEF IssueDataRequest
    <3> QED
      BY <1>1, <1>4, <2>2, <3>1, ConvertCBAnswers
  <2> QED
    BY <2>3, <2>4
<1>6. CASE ~(~busy /\ item.fmt = UNICODETEXT /\ x11Fmt # NIL_CLIPX11FORMAT)
  <2> DEFINE rc == IF busy THEN "TRY_AGAIN"
                   ELSE IF item.fmt = UNICODETEXT THEN "NO_DATA" ELSE "NOT_IMPLEMENTED"
  <2>1. Complete(ck, rc)
    BY <1>1, <1>3, <1>6 DEF vboxClipboardReadX11Worker
  <2>2. rc \in Results
    BY DEF Results
  <2> QED
    BY <1>1, <1>4, <2>1, <2>2, CompleteIsAnswer
<1> QED
  BY <1>5, <1>6

(* SelectionNotify for a data transfer completes the request it carries. *)
LEMMA DataReplyAnswers ==
  ASSUME AInv, DispatchDataReply
  PROVE  [Contract!Next]_Contract!vars
<1> DEFINE ev == Head(xq)
<1>0. TypeOK
  BY DEF AInv, BusyInv, TypeInv
<1>1. /\ xq # << >> /\ xq \in Seq(XEvent) /\ ev = xq[1]
      /\ ev.type = "reply" /\ ev.req.kind = "data"
      /\ clipConvertX11CB(ev.req, ev.value, Tail(xq)) /\ UNCHANGED requested
  BY <1>0 DEF DispatchDataReply, XtDispatch, HostVars, TypeOK
<1>2. ev \in XEvent
  BY <1>1
<1>3. ev.req \in Request
  BY <1>1, <1>2 DEF XEvent
<1>4. PICK ck \in Cookies : ck = ev.req.cookie
  BY <1>1, <1>3 DEF Request
<1>5. TC(timers, ck) + Flight(ck) >= 1
  <2>1. xq[1] \in InFlightFor(ck)
    BY <1>1, <1>2, <1>4 DEF InFlightFor, InFlightEvent
  <2>2. XC(xq, ck) >= 1
    BY <1>1, <2>1, IdxHead DEF XC
  <2>3. XC(xq, ck) \in Nat /\ PC(atPeer, ck) \in Nat /\ TC(timers, ck) \in Nat
    BY <1>0, CountsNat DEF TypeOK
  <2> QED
    BY <2>2, <2>3 DEF Flight
<1> QED
  BY <1>1, <1>3, <1>4, <1>5, ConvertCBAnswers

(* Every step of the model is a step of the contract or leaves it alone. *)
LEMMA StepIsContract ==
  ASSUME AInv, [Next]_vars
  PROVE  [Contract!Next]_Contract!vars
<1>1. CASE RunTimer
  <2>1. CASE Head(timers).op = "read"
    BY <1>1, <2>1, ReadWorkerAnswers
  <2>2. CASE Head(timers).op # "read"
    <3>1. UNCHANGED <<requested, compl, result>>
      BY <1>1, <2>2 DEF RunTimer, HostVars
    <3> QED
      BY <3>1, ContractStutter
  <2> QED
    BY <2>1, <2>2
<1>2. CASE DispatchDataReply
  BY <1>2, DataReplyAnswers
<1>3. ASSUME NEW f \in HostAsks, NEW c \in Cookies, ClipRequestDataFromX11(f, c)
      PROVE  [Contract!Next]_Contract!vars
  BY <1>3, RequestIsRequest
<1>4. CASE \/ clipEventThread \/ PeekXFixes \/ PeekBlock \/ clipDrainWakeupPipe
           \/ DispatchXFixes \/ DispatchSelectionClear \/ DispatchSelectionRequest
           \/ DispatchTargetsReply \/ clipUninit \/ ClipStopX11
           \/ ClipAnnounceFormatToX11NoMemory
           \/ \E F \in AnnounceMasks : ClipAnnounceFormatToX11(F)
           \/ Peer \/ UNCHANGED vars
  <2>1. UNCHANGED <<requested, compl, result>>
    BY <1>4 DEF clipEventThread, PeekXFixes, PeekBlock, clipDrainWakeupPipe,
       DispatchXFixes, DispatchSelectionClear, DispatchSelectionRequest,
       DispatchTargetsReply, XtDispatch, clipUninit, ClipStopX11,
       ClipAnnounceFormatToX11NoMemory, ClipAnnounceFormatToX11, HostVars,
       Peer, PeerAnswer, PeerSetOwner, PeerDisown, PeerConvert, vars
  <2> QED
    BY <2>1, ContractStutter
<1> QED
  BY <1>1, <1>2, <1>3, <1>4 DEF Next, EventThread, HostSide

(* The backend keeps its promise to the frontend, for every set of       *)
(* cookies and every bound: ClipCompleteDataRequestFromX11 is called for *)
(* a request only after ClipRequestDataFromX11 made it, and only once,   *)
(* whether the worker refuses it, a local transfer serves it, or a reply *)
(* or Xt's selection timeout ends its transfer.                          *)
THEOREM ImplementsContract == Spec => RequestContract
<1>1. Init => Contract!Init
  BY DEF Init, Contract!Init
<1>2. AInv /\ [Next]_vars => [Contract!Next]_Contract!vars
  BY StepIsContract
<1> QED
  BY InitAInv, AInvStep, <1>1, <1>2, PTL DEF Spec, RequestContract, Contract!Spec

=============================================================================
