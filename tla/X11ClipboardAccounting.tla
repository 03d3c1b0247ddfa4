----------------------- MODULE X11ClipboardAccounting -----------------------
(***************************************************************************)
(* Proof that the X11 clipboard backend accounts for every read request   *)
(* of the host: each is queued as a work item, in flight as a selection   *)
(* transfer, or completed once (EachRequestAccounted).                    *)
(***************************************************************************)
EXTENDS X11ClipboardProofs, FiniteSetTheorems

-----------------------------------------------------------------------------
(* Counting the elements of a sequence that lie in a set V.               *)

IdxIn(s, V) == {i \in DOMAIN s : s[i] \in V}

LEMMA IdxFinite ==
  ASSUME NEW S, NEW s \in Seq(S), NEW V
  PROVE  /\ IsFiniteSet(IdxIn(s, V))
         /\ Cardinality(IdxIn(s, V)) \in Nat
<1>1. IsFiniteSet(1 .. Len(s))
  BY FS_Interval
<1>2. IdxIn(s, V) \subseteq 1 .. Len(s)
  BY DEF IdxIn
<1>3. IsFiniteSet(IdxIn(s, V))
  BY <1>1, <1>2, FS_Subset
<1> QED
  BY <1>3, FS_CardinalityType

LEMMA IdxEmpty ==
  ASSUME NEW V
  PROVE  Cardinality(IdxIn(<< >>, V)) = 0
<1>1. IdxIn(<< >>, V) = {}
  BY DEF IdxIn
<1> QED
  BY <1>1, FS_EmptySet

(* An element appended counts when it is in V.                            *)
LEMMA IdxAppend ==
  ASSUME NEW S, NEW s \in Seq(S), NEW x, NEW V
  PROVE  Cardinality(IdxIn(Append(s, x), V))
           = Cardinality(IdxIn(s, V)) + (IF x \in V THEN 1 ELSE 0)
<1>1. IsFiniteSet(IdxIn(s, V)) /\ Cardinality(IdxIn(s, V)) \in Nat
  BY IdxFinite
<1>2. Len(s) + 1 \notin IdxIn(s, V)
  BY DEF IdxIn
<1>3. CASE x \in V
  <2>1. IdxIn(Append(s, x), V) = IdxIn(s, V) \cup {Len(s) + 1}
    BY <1>3 DEF IdxIn
  <2> QED
    BY <1>1, <1>2, <1>3, <2>1, FS_AddElement
<1>4. CASE x \notin V
  <2>1. IdxIn(Append(s, x), V) = IdxIn(s, V)
    BY <1>4 DEF IdxIn
  <2> QED
    BY <1>1, <1>4, <2>1
<1> QED
  BY <1>3, <1>4

(* The head taken off counts when it is in V.                             *)
LEMMA IdxTail ==
  ASSUME NEW S, NEW s \in Seq(S), s # << >>, NEW V
  PROVE  Cardinality(IdxIn(Tail(s), V))
           = Cardinality(IdxIn(s, V)) - (IF s[1] \in V THEN 1 ELSE 0)
<1> DEFINE A == IdxIn(Tail(s), V)
           B == IdxIn(s, V) \ {1}
           f == [i \in A |-> i + 1]
<1>0. Tail(s) \in Seq(S)
  OBVIOUS
<1>1. IsFiniteSet(A) /\ IsFiniteSet(IdxIn(s, V)) /\ Cardinality(IdxIn(s, V)) \in Nat
  BY <1>0, IdxFinite
<1>2. f \in Bijection(A, B)
  <2>1. \A i \in A : f[i] \in B
    BY DEF IdxIn
  <2>2. \A k \in B : \E i \in A : f[i] = k
    <3> SUFFICES ASSUME NEW k \in B PROVE \E i \in A : f[i] = k
      OBVIOUS
    <3>1. k - 1 \in A /\ f[k - 1] = k
      BY DEF IdxIn
    <3> QED
      BY <3>1
  <2> QED
    BY <2>1, <2>2 DEF Bijection, Injection, Surjection, IsInjective
<1>3. Cardinality(B) = Cardinality(A)
  BY <1>1, <1>2, FS_Bijection DEF ExistsBijection
<1>4. Cardinality(B) = Cardinality(IdxIn(s, V)) - (IF s[1] \in V THEN 1 ELSE 0)
  <2>1. (1 \in IdxIn(s, V)) <=> (s[1] \in V)
    BY DEF IdxIn
  <2>2. Cardinality(B) = IF 1 \in IdxIn(s, V) THEN Cardinality(IdxIn(s, V)) - 1
                         ELSE Cardinality(IdxIn(s, V))
    BY <1>1, FS_RemoveElement
  <2>3. CASE s[1] \in V
    BY <1>1, <2>1, <2>2, <2>3
  <2>4. CASE s[1] \notin V
    BY <1>1, <2>1, <2>2, <2>4
  <2> QED
    BY <2>3, <2>4
<1> QED
  BY <1>3, <1>4

(* Appending elements none of which is in V counts nothing.               *)
LEMMA IdxConcatNone ==
  ASSUME NEW S, NEW s \in Seq(S), NEW t \in Seq(S), NEW V,
         \A i \in DOMAIN t : t[i] \notin V
  PROVE  IdxIn(s \o t, V) = IdxIn(s, V)
BY DEF IdxIn

(* The only index of a sequence of at most one element.                  *)
LEMMA SingleIndex ==
  ASSUME NEW S, NEW s \in Seq(S), Len(s) <= 1, NEW i \in DOMAIN s
  PROVE  Len(s) = 1 /\ i = 1
<1>1. DOMAIN s = 1 .. Len(s) /\ Len(s) \in Nat
  OBVIOUS
<1>2. i \in 1 .. Len(s)
  BY <1>1
<1> QED
  BY <1>1, <1>2

(* A sequence of one element.                                             *)
LEMMA IdxSingle ==
  ASSUME NEW S, NEW s \in Seq(S), Len(s) = 1, NEW V
  PROVE  Cardinality(IdxIn(s, V)) = IF s[1] \in V THEN 1 ELSE 0
<1>1. CASE s[1] \in V
  <2>1. IdxIn(s, V) = {1}
    BY <1>1 DEF IdxIn
  <2> QED
    BY <1>1, <2>1, FS_Singleton
<1>2. CASE s[1] \notin V
  <2>1. IdxIn(s, V) = {}
    BY <1>2 DEF IdxIn
  <2> QED
    BY <1>2, <2>1, FS_EmptySet
<1> QED
  BY <1>1, <1>2


-----------------------------------------------------------------------------
(* Where a read request c can be: a work item, a request routed to the    *)
(* peer, or an X event of a transfer in flight.                           *)

ReadItem(c) == {w \in WorkItem : w.op = "read" /\ w.cookie = c}
ReqFor(c) == {r \in Request : r.cookie = c}
InFlightFor(c) == {e \in XEvent : InFlightEvent(e) /\ e.req.cookie = c}

TC(s, c) == Cardinality(IdxIn(s, ReadItem(c)))
PC(s, c) == Cardinality(IdxIn(s, ReqFor(c)))
XC(s, c) == Cardinality(IdxIn(s, InFlightFor(c)))

(* How many times request c is held or was completed.                     *)
Flight(c) == XC(xq, c) + PC(atPeer, c)
Held(c) == compl[c] + TC(timers, c) + Flight(c)
Accounted == \A c \in Cookies : Held(c) = IF c \in requested THEN 1 ELSE 0

LEMMA AccountedIs ==
  ASSUME TypeOK
  PROVE  Accounted <=> EachRequestAccounted
<1>1. \A c \in Cookies :
        /\ ReadsInTimers(c) = IdxIn(timers, ReadItem(c))
        /\ ReadsAtPeer(c) = IdxIn(atPeer, ReqFor(c))
        /\ ReadsInXq(c) = IdxIn(xq, InFlightFor(c))
  BY DEF TypeOK, ReadsInTimers, ReadsAtPeer, ReadsInXq, InFlight, IdxIn,
         ReadItem, ReqFor, InFlightFor
<1>2. \A c \in Cookies :
        /\ compl[c] \in Nat
        /\ Cardinality(IdxIn(timers, ReadItem(c))) \in Nat
        /\ Cardinality(IdxIn(atPeer, ReqFor(c))) \in Nat
        /\ Cardinality(IdxIn(xq, InFlightFor(c))) \in Nat
  BY IdxFinite DEF TypeOK
<1> QED
  BY <1>1, <1>2 DEF Accounted, EachRequestAccounted, Held, Flight, TC, PC, XC

(* The counts are natural numbers.                                        *)
LEMMA CountsNat ==
  ASSUME NEW c
  PROVE  /\ \A s \in Seq(WorkItem) : TC(s, c) \in Nat
         /\ \A s \in Seq(Request) : PC(s, c) \in Nat
         /\ \A s \in Seq(XEvent) : XC(s, c) \in Nat
BY IdxFinite DEF TC, PC, XC

(* Moving a request between completed and in flight.                      *)
LEMMA FlightShift ==
  ASSUME NEW c, NEW q, NEW d \in Nat,
         compl[c] \in Nat, XC(q, c) \in Nat, PC(atPeer, c) \in Nat,
         XC(xq', c) \in Nat, PC(atPeer', c) \in Nat,
         XC(xq', c) + PC(atPeer', c) = XC(q, c) + PC(atPeer, c) + d,
         compl'[c] = compl[c]
  PROVE  compl'[c] + XC(xq', c) + PC(atPeer', c) = compl[c] + XC(q, c) + PC(atPeer, c) + d
OBVIOUS

LEMMA ComplShift ==
  ASSUME NEW c, NEW q, NEW d \in Nat,
         compl[c] \in Nat, XC(q, c) \in Nat, PC(atPeer, c) \in Nat,
         XC(xq', c) \in Nat, PC(atPeer', c) \in Nat,
         XC(xq', c) + PC(atPeer', c) = XC(q, c) + PC(atPeer, c),
         compl'[c] = compl[c] + d
  PROVE  compl'[c] + XC(xq', c) + PC(atPeer', c) = compl[c] + XC(q, c) + PC(atPeer, c) + d
OBVIOUS

(* The events that carry no transfer of ours.                             *)
LEMMA NotInFlight ==
  ASSUME NEW c, NEW o, NEW t
  PROVE  /\ Fixes(o) \notin InFlightFor(c)
         /\ Clear \notin InFlightFor(c)
         /\ SelReq(t, NoReq) \notin InFlightFor(c)
BY DEF InFlightFor, InFlightEvent, Fixes, Clear, SelReq

(* The answer to a request of ours, and the request the server routes     *)
(* back to us, carry it.                                                  *)
LEMMA CarriesRequest ==
  ASSUME NEW c \in Cookies, NEW r \in Request,
         NEW v \in {"data", "null", "fail"}, NEW t \in TargetLists \cup {<< >>}
  PROVE  /\ Reply(r, v, t) \in XEvent
         /\ Reply(r, v, t) \in InFlightFor(c) <=> r.cookie = c
         /\ SelReq(TargetAtom(r), r) \in XEvent
         /\ SelReq(TargetAtom(r), r) \in InFlightFor(c) <=> r.cookie = c
         /\ r \in ReqFor(c) <=> r.cookie = c
<1>1. TargetAtom(r) \in Atoms /\ r # NoReq
  BY TargetAtomType, NoReqOK
<1> QED
  BY <1>1 DEF Reply, SelReq, XEvent, InFlightFor, InFlightEvent, ReqFor

(* A TARGETS request is none of the host's.                               *)
LEMMA TargetsNotRead ==
  ASSUME NEW c \in Cookies
  PROVE  [kind |-> "targets", cookie |-> NoCookie, fmt |-> NIL_CLIPX11FORMAT,
          offer |-> peerTargets].cookie # c
BY ConstantsOK DEF ConstantsOK


-----------------------------------------------------------------------------
(* What the helpers of the requester do to the transfers in flight.       *)

(* XtGetSelectionValue through the server puts one transfer in flight,    *)
(* as an X event or at the peer; it carries request c when r is c's.      *)
LEMMA ServerConvertCounts ==
  ASSUME TypeOK, NEW q \in Seq(XEvent), NEW r \in Request,
         ServerConvertSelection(q, r), NEW c \in Cookies
  PROVE  XC(xq', c) + PC(atPeer', c)
           = XC(q, c) + PC(atPeer, c) + (IF r.cookie = c THEN 1 ELSE 0)
<1>1. atPeer \in Seq(Request) /\ selOwner \in Owners
  BY DEF TypeOK
<1>2. XC(q, c) \in Nat /\ PC(atPeer, c) \in Nat
  BY <1>1, CountsNat
<1>3. CASE selOwner = "none"
  <2>1. xq' = Append(q, Reply(r, "null", << >>)) /\ atPeer' = atPeer
    BY <1>3 DEF ServerConvertSelection
  <2>2. XC(xq', c) = XC(q, c) + (IF r.cookie = c THEN 1 ELSE 0)
    BY <2>1, CarriesRequest, IdxAppend DEF XC
  <2> QED
    BY <1>2, <2>1, <2>2
<1>4. CASE selOwner = "peer"
  <2>1. xq' = q /\ atPeer' = Append(atPeer, r)
    BY <1>4 DEF ServerConvertSelection
  <2>2. PC(atPeer', c) = PC(atPeer, c) + (IF r \in ReqFor(c) THEN 1 ELSE 0)
    BY <1>1, <2>1, IdxAppend DEF PC
  <2>3. r \in ReqFor(c) <=> r.cookie = c
    BY CarriesRequest
  <2>4. PC(atPeer', c) = PC(atPeer, c) + (IF r.cookie = c THEN 1 ELSE 0)
    BY <2>2, <2>3
  <2> QED
    BY <1>2, <2>1, <2>4
<1>5. CASE selOwner = "us"
  <2>1. xq' = Append(q, SelReq(TargetAtom(r), r)) /\ atPeer' = atPeer
    BY <1>5 DEF ServerConvertSelection
  <2>2. XC(xq', c) = XC(q, c) + (IF SelReq(TargetAtom(r), r) \in InFlightFor(c) THEN 1 ELSE 0)
    BY <2>1, IdxAppend DEF XC
  <2>3. SelReq(TargetAtom(r), r) \in InFlightFor(c) <=> r.cookie = c
    BY CarriesRequest
  <2>4. XC(xq', c) = XC(q, c) + (IF r.cookie = c THEN 1 ELSE 0)
    BY <2>2, <2>3
  <2> QED
    BY <1>2, <2>1, <2>4
<1> QED
  BY <1>1, <1>3, <1>4, <1>5 DEF Owners

(* clipQueryX11CBFormats starts at most a TARGETS transfer, which carries *)
(* no request of the host.                                                *)
LEMMA QueryCounts ==
  ASSUME TypeOK, NEW q \in Seq(XEvent), NEW fBusy, NEW fUpdateNeeded,
         clipQueryX11CBFormats(q, fBusy, fUpdateNeeded), NEW c \in Cookies
  PROVE  XC(xq', c) + PC(atPeer', c) = XC(q, c) + PC(atPeer, c)
<1> DEFINE r == [kind |-> "targets", cookie |-> NoCookie, fmt |-> NIL_CLIPX11FORMAT,
                 offer |-> peerTargets]
<1>1. r \in Request
  BY DEF TypeOK, Request, TargetLists
<1>2. r.cookie # c
  BY TargetsNotRead
<1>3. XC(q, c) \in Nat /\ PC(atPeer, c) \in Nat
  BY CountsNat DEF TypeOK
<1>4. CASE ServerConvertSelection(q, r)
  BY <1>1, <1>2, <1>3, <1>4, ServerConvertCounts
<1>5. CASE xq' = q /\ atPeer' = atPeer
  BY <1>5
<1> QED
  BY <1>4, <1>5 DEF clipQueryX11CBFormats


(* The counts of one request in the X queue and the timers, as events are *)
(* appended and dispatched.                                               *)
LEMMA XCAppend ==
  ASSUME NEW q \in Seq(XEvent), NEW e, NEW c
  PROVE  XC(Append(q, e), c) = XC(q, c) + (IF e \in InFlightFor(c) THEN 1 ELSE 0)
BY IdxAppend DEF XC

LEMMA XCTail ==
  ASSUME NEW q \in Seq(XEvent), q # << >>, NEW c
  PROVE  XC(Tail(q), c) = XC(q, c) - (IF Head(q) \in InFlightFor(c) THEN 1 ELSE 0)
BY IdxTail DEF XC

LEMMA XCConcatNone ==
  ASSUME NEW q \in Seq(XEvent), NEW t \in Seq(XEvent), NEW c,
         \A i \in DOMAIN t : t[i] \notin InFlightFor(c)
  PROVE  XC(q \o t, c) = XC(q, c)
BY IdxConcatNone DEF XC

LEMMA TCAppend ==
  ASSUME NEW s \in Seq(WorkItem), NEW w, NEW c
  PROVE  TC(Append(s, w), c) = TC(s, c) + (IF w \in ReadItem(c) THEN 1 ELSE 0)
BY IdxAppend DEF TC

LEMMA TCTail ==
  ASSUME NEW s \in Seq(WorkItem), s # << >>, NEW c
  PROVE  TC(Tail(s), c) = TC(s, c) - (IF Head(s) \in ReadItem(c) THEN 1 ELSE 0)
BY IdxTail DEF TC

(* clipConvertX11CB moves request r from flight to completed: the         *)
(* transfers it may start carry no host request.                          *)
LEMMA ConvertCBCounts ==
  ASSUME TypeOK, NEW q \in Seq(XEvent), NEW v, NEW r \in Request, r.kind = "data",
         clipConvertX11CB(r, v, q), NEW c \in Cookies
  PROVE  /\ XC(xq', c) + PC(atPeer', c) = XC(q, c) + PC(atPeer, c)
         /\ compl'[c] = compl[c] + (IF r.cookie = c THEN 1 ELSE 0)
<1>1. XC(xq', c) + PC(atPeer', c) = XC(q, c) + PC(atPeer, c)
  <2>1. CASE updateNeeded
    BY <2>1, QueryCounts DEF clipConvertX11CB
  <2>2. CASE ~updateNeeded
    BY <2>2 DEF clipConvertX11CB
  <2> QED
    BY <2>1, <2>2
<1>2. r.cookie \in Cookies
  BY DEF Request
<1>3. PICK rc : Complete(r.cookie, rc)
  BY DEF clipConvertX11CB
<1>4. compl'[c] = compl[c] + (IF r.cookie = c THEN 1 ELSE 0)
  BY <1>2, <1>3 DEF Complete, TypeOK
<1> QED
  BY <1>1, <1>4

(* clipConvertX11Targets only ever starts another TARGETS transfer.       *)
LEMMA ConvertTargetsCounts ==
  ASSUME TypeOK, NEW q \in Seq(XEvent), NEW v, NEW t,
         clipConvertX11Targets(v, t, q), NEW c \in Cookies
  PROVE  XC(xq', c) + PC(atPeer', c) = XC(q, c) + PC(atPeer, c)
<1>1. CASE updateNeeded
  BY <1>1, QueryCounts DEF clipConvertX11Targets
<1>2. CASE ~updateNeeded
  BY <1>2 DEF clipConvertX11Targets
<1> QED
  BY <1>1, <1>2

(* vboxClipboardReadX11Worker takes request item.cookie on: it puts it in *)
(* flight, or completes it, at once or in a local transfer.               *)
LEMMA ReadWorkerCounts ==
  ASSUME TypeOK, NEW q \in Seq(XEvent), NEW ck \in Cookies,
         NEW item \in [op : {"read"}, fmt : HostAsks, cookie : Cookies], item.cookie = ck,
         vboxClipboardReadX11Worker(item, q), NEW c \in Cookies,
         XC(xq', c) \in Nat, PC(atPeer', c) \in Nat
  PROVE  compl'[c] + XC(xq', c) + PC(atPeer', c)
           = compl[c] + XC(q, c) + PC(atPeer, c) + (IF ck = c THEN 1 ELSE 0)
<1>0. XC(q, c) \in Nat /\ PC(atPeer, c) \in Nat /\ compl[c] \in Nat
  BY CountsNat DEF TypeOK
<1>1. CASE ~busy /\ item.fmt = UNICODETEXT /\ x11Fmt # NIL_CLIPX11FORMAT
  <2>1. IssueDataRequest(ck, q)
    BY <1>1 DEF vboxClipboardReadX11Worker
  <2>2. DataRequest(ck) \in Request /\ DataRequest(ck).kind = "data"
        /\ DataRequest(ck).cookie = ck
    BY <1>1, ConstantsOK DEF DataRequest, Request, TypeOK, TargetLists
  <2>3. CASE ~xtOwn
    <3>1. ServerConvertSelection(q, DataRequest(ck)) /\ compl' = compl
      BY <2>1, <2>3 DEF IssueDataRequest
    <3>2. XC(xq', c) + PC(atPeer', c) = XC(q, c) + PC(atPeer, c)
            + (IF DataRequest(ck).cookie = c THEN 1 ELSE 0)
      BY <2>2, <3>1, ServerConvertCounts
    <3>3. XC(xq', c) + PC(atPeer', c) = XC(q, c) + PC(atPeer, c) + (IF ck = c THEN 1 ELSE 0)
      BY <2>2, <3>2
    <3>4. compl'[c] = compl[c]
      BY <3>1
    <3>5. (IF ck = c THEN 1 ELSE 0) \in Nat
      OBVIOUS
    <3> QED
      BY <1>0, <3>3, <3>4, <3>5, FlightShift, Zenon
  <2>4. CASE xtOwn
    <3>1. PICK ok \in BOOLEAN :
            clipConvertX11CB(DataRequest(ck), IF ok THEN "data" ELSE "null", q)
      BY <2>1, <2>4 DEF IssueDataRequest
    <3>2. /\ XC(xq', c) + PC(atPeer', c) = XC(q, c) + PC(atPeer, c)
          /\ compl'[c] = compl[c] + (IF DataRequest(ck).cookie = c THEN 1 ELSE 0)
      BY <2>2, <3>1, ConvertCBCounts
    <3>3. compl'[c] = compl[c] + (IF ck = c THEN 1 ELSE 0)
      BY <2>2, <3>2
    <3>4. (IF ck = c THEN 1 ELSE 0) \in Nat
      OBVIOUS
    <3> QED
      BY <1>0, <3>2, <3>3, <3>4, ComplShift, Zenon
  <2> QED
    BY <2>3, <2>4 DEF TypeOK
<1>2. CASE ~(~busy /\ item.fmt = UNICODETEXT /\ x11Fmt # NIL_CLIPX11FORMAT)
  <2>1. PICK rc : Complete(ck, rc) /\ xq' = q /\ atPeer' = atPeer
    BY <1>2 DEF vboxClipboardReadX11Worker
  <2>2. compl'[c] = compl[c] + (IF ck = c THEN 1 ELSE 0)
    BY <2>1 DEF Complete, TypeOK
  <2> QED
    BY <1>0, <2>1, <2>2
<1> QED
  BY <1>1, <1>2


-----------------------------------------------------------------------------
(* The steps of the system, one by one.  Kept(c): the step neither        *)
(* completes, queues nor moves request c.                                 *)
Kept(c) ==
  /\ compl'[c] = compl[c] /\ TC(timers', c) = TC(timers, c)
  /\ Flight(c)' = Flight(c) /\ requested' = requested

LEMMA KeptAccounted ==
  ASSUME NEW c, Kept(c), Held(c) = IF c \in requested THEN 1 ELSE 0
  PROVE  Held(c)' = IF c \in requested' THEN 1 ELSE 0
BY DEF Kept, Held

(* Dispatching an event that is no transfer of ours.                      *)
LEMMA DispatchOther ==
  ASSUME TypeOK, NEW c \in Cookies, xq # << >>, Head(xq).type \in {"fixes", "clear"},
         xq' = Tail(xq), atPeer' = atPeer
  PROVE  Flight(c)' = Flight(c)
<1>1. Head(xq) \notin InFlightFor(c)
  BY DEF InFlightFor, InFlightEvent
<1>2. XC(xq', c) = XC(xq, c) - 0
  BY <1>1, XCTail DEF TypeOK
<1>3. XC(xq, c) \in Nat
  BY CountsNat DEF TypeOK
<1> QED
  BY <1>2, <1>3 DEF Flight

(* The event thread's steps that leave the host's requests where they     *)
(* are: the first query, the XFixes handling in the peek, the wait, the   *)
(* pipe, and dispatching XFixes and SelectionClear events.                *)
LEMMA ThreadQuietKept ==
  ASSUME TypeOK, NEW c \in Cookies,
         \/ clipEventThread \/ PeekXFixes \/ PeekBlock \/ clipDrainWakeupPipe
         \/ DispatchXFixes \/ DispatchSelectionClear
  PROVE  Kept(c)
<1>1. CASE clipEventThread
  <2>1. UNCHANGED <<timers, compl, requested>>
    BY <1>1 DEF clipEventThread, HostVars
  <2>2. Flight(c)' = Flight(c)
    <3>1. CASE grabOnStart
      BY <1>1, <3>1, QueryCounts DEF clipEventThread, TypeOK, Flight
    <3>2. CASE ~grabOnStart
      BY <1>1, <3>2 DEF clipEventThread, Flight
    <3> QED
      BY <3>1, <3>2
  <2> QED
    BY <2>1, <2>2 DEF Kept
<1>2. CASE PeekXFixes
  <2>1. UNCHANGED <<timers, compl, requested>>
    BY <1>2 DEF PeekXFixes, HostVars
  <2>2. Flight(c)' = Flight(c)
    <3>1. CASE Head(xq).owner = "peer"
      BY <1>2, <3>1, QueryCounts DEF PeekXFixes, TypeOK, Flight
    <3>2. CASE Head(xq).owner # "peer"
      BY <1>2, <3>2 DEF PeekXFixes, Flight
    <3> QED
      BY <3>1, <3>2
  <2> QED
    BY <2>1, <2>2 DEF Kept
<1>3. CASE PeekBlock \/ clipDrainWakeupPipe
  BY <1>3 DEF PeekBlock, clipDrainWakeupPipe, RequesterVars, HostVars, Kept, Flight
<1>4. CASE DispatchXFixes
  <2>1. UNCHANGED <<timers, compl, requested, atPeer>> /\ xq' = Tail(xq)
        /\ xq # << >> /\ Head(xq).type = "fixes"
    BY <1>4 DEF DispatchXFixes, XtDispatch, HostVars, RequesterVars
  <2> QED
    BY <2>1, DispatchOther DEF Kept
<1>5. CASE DispatchSelectionClear
  <2>1. UNCHANGED <<timers, compl, requested, atPeer>> /\ xq' = Tail(xq)
        /\ xq # << >> /\ Head(xq).type = "clear"
    BY <1>5 DEF DispatchSelectionClear, XtDispatch, HostVars, RequesterVars
  <2> QED
    BY <2>1, DispatchOther DEF Kept
<1> QED
  BY <1>1, <1>2, <1>3, <1>4, <1>5


(* An announcement's grab queues only XFixes and SelectionClear events.   *)
LEMMA GrabFlight ==
  ASSUME TypeOK, NEW F, clipGrabX11CB(F, xq), NEW c \in Cookies
  PROVE  XC(xq', c) = XC(xq, c)
<1> DEFINE A == IF xtOwn THEN << >> ELSE << Fixes("us") >>
           B == << Fixes("us") >>
           C == << Fixes("us"), Clear, Fixes("peer") >>
<1>1. Fixes("us") \in XEvent /\ Fixes("peer") \in XEvent /\ Clear \in XEvent
  BY DEF Fixes, Clear, XEvent, Owners
<1>2. Fixes("us") \notin InFlightFor(c) /\ Fixes("peer") \notin InFlightFor(c)
      /\ Clear \notin InFlightFor(c)
  BY NotInFlight
<1>3. A \in Seq(XEvent) /\ B \in Seq(XEvent) /\ C \in Seq(XEvent)
  BY <1>1
<1>4. /\ \A i \in DOMAIN A : A[i] \notin InFlightFor(c)
      /\ \A i \in DOMAIN B : B[i] \notin InFlightFor(c)
      /\ \A i \in DOMAIN C : C[i] \notin InFlightFor(c)
  BY <1>2
<1>5. xq \o A \in Seq(XEvent) /\ xq \in Seq(XEvent)
  BY <1>3 DEF TypeOK
<1>6. XC((xq \o A) \o B, c) = XC(xq, c)
  <2>1. XC((xq \o A) \o B, c) = XC(xq \o A, c)
    BY Zenon, <1>3, <1>4, <1>5, XCConcatNone
  <2>2. XC(xq \o A, c) = XC(xq, c)
    BY Zenon, <1>3, <1>4, <1>5, XCConcatNone
  <2> QED
    BY <2>1, <2>2
<1>7. XC(xq \o C, c) = XC(xq, c)
  BY Zenon, <1>3, <1>4, <1>5, XCConcatNone
<1> QED
  BY <1>6, <1>7 DEF clipGrabX11CB

(* A read item moved from the timers into flight or to completion.        *)
LEMMA ReadMove ==
  ASSUME NEW c, NEW k \in Nat,
         compl[c] \in Nat, TC(timers, c) \in Nat, XC(xq, c) \in Nat, PC(atPeer, c) \in Nat,
         compl'[c] \in Nat, XC(xq', c) \in Nat, PC(atPeer', c) \in Nat,
         TC(timers', c) = TC(timers, c) - k,
         compl'[c] + XC(xq', c) + PC(atPeer', c) = compl[c] + XC(xq, c) + PC(atPeer, c) + k
  PROVE  Held(c)' = Held(c)
<1>1. Held(c)' = compl'[c] + TC(timers', c) + (XC(xq', c) + PC(atPeer', c))
  BY DEF Held, Flight
<1>2. Held(c) = compl[c] + TC(timers, c) + (XC(xq, c) + PC(atPeer, c))
  BY DEF Held, Flight
<1> QED
  BY <1>1, <1>2

(* XtAppProcessEvent running a work item.                                 *)
LEMMA RunTimerKept ==
  ASSUME TypeOK, TypeOK', NEW c \in Cookies, RunTimer
  PROVE  Held(c)' = Held(c) /\ requested' = requested
<1> DEFINE item == Head(timers)
<1>1. timers # << >> /\ timers' = Tail(timers) /\ item \in WorkItem
      /\ requested' = requested
  BY DEF RunTimer, TypeOK, HostVars
<1>2. /\ compl[c] \in Nat /\ TC(timers, c) \in Nat /\ XC(xq, c) \in Nat
      /\ PC(atPeer, c) \in Nat /\ XC(xq', c) \in Nat /\ PC(atPeer', c) \in Nat
      /\ compl'[c] \in Nat /\ xq \in Seq(XEvent)
  BY CountsNat DEF TypeOK
<1>3. TC(timers', c) = TC(timers, c) - (IF item \in ReadItem(c) THEN 1 ELSE 0)
  BY <1>1, TCTail DEF TypeOK
<1>4. CASE item.op = "announce"
  <2>1. TC(timers', c) = TC(timers, c)
    BY <1>2, <1>3, <1>4 DEF ReadItem
  <2>2. clipNewVBoxFormatsWorker(item, xq) /\ UNCHANGED <<atPeer, compl>>
    BY <1>4 DEF RunTimer
  <2>3. XC(xq', c) = XC(xq, c)
    BY <2>2, GrabFlight DEF clipNewVBoxFormatsWorker
  <2> QED
    BY <1>1, <2>1, <2>2, <2>3 DEF Held, Flight
<1>5. CASE item.op = "read"
  <2>1. item \in [op : {"read"}, fmt : HostAsks, cookie : Cookies]
    BY <1>1, <1>5 DEF WorkItem
  <2>2. PICK ck \in Cookies : ck = item.cookie
    BY <2>1
  <2>3. vboxClipboardReadX11Worker(item, xq)
    BY <1>5 DEF RunTimer
  <2>4. compl'[c] + XC(xq', c) + PC(atPeer', c)
          = compl[c] + XC(xq, c) + PC(atPeer, c) + (IF ck = c THEN 1 ELSE 0)
    BY <1>2, <2>1, <2>2, <2>3, ReadWorkerCounts
  <2>5. (IF item \in ReadItem(c) THEN 1 ELSE 0) = (IF ck = c THEN 1 ELSE 0)
    BY <1>1, <1>5, <2>2 DEF ReadItem
  <2>6. TC(timers', c) = TC(timers, c) - (IF ck = c THEN 1 ELSE 0)
    BY <1>3, <2>5
  <2>7. (IF ck = c THEN 1 ELSE 0) \in Nat
    OBVIOUS
  <2> QED
    BY <1>1, <1>2, <2>4, <2>6, <2>7, ReadMove
<1>6. CASE item.op = "stop"
  <2>1. TC(timers', c) = TC(timers, c)
    BY <1>2, <1>3, <1>6 DEF ReadItem
  <2> QED
    BY <1>1, <1>6, <2>1 DEF RunTimer, RequesterVars, Held, Flight
<1> QED
  BY <1>1, <1>4, <1>5, <1>6 DEF WorkItem


(* Xt answering a SelectionRequest: a request of ours routed back to us   *)
(* is answered by a reply that carries it.                                *)
LEMMA SelectionRequestKept ==
  ASSUME TypeOK, NEW c \in Cookies, DispatchSelectionRequest
  PROVE  Kept(c)
<1> DEFINE ev == Head(xq)
<1>1. /\ xq # << >> /\ ev.type = "selreq" /\ XtSelectionRequest(ev, Tail(xq))
      /\ UNCHANGED <<timers, compl, requested, atPeer>>
  BY DEF DispatchSelectionRequest, XtDispatch, HostVars, RequesterVars
<1>2. ev \in [type : {"selreq"}, target : Atoms, req : Request \cup {NoReq}]
  <2>1. xq \in Seq(XEvent)
    BY DEF TypeOK
  <2>2. ev \in XEvent
    BY <1>1, <2>1
  <2> QED
    BY <1>1, <2>2 DEF XEvent
<1>3. Tail(xq) \in Seq(XEvent) /\ XC(xq, c) \in Nat
  <2>1. Tail(xq) \in Seq(XEvent)
    BY <1>1 DEF TypeOK
  <2> QED
    BY <2>1, CountsNat DEF TypeOK
<1>4. XC(Tail(xq), c) = XC(xq, c) - (IF ev \in InFlightFor(c) THEN 1 ELSE 0)
  BY <1>1, XCTail DEF TypeOK
<1>5. PICK ok \in BOOLEAN :
        xq' = IF ev.req = NoReq THEN Tail(xq)
              ELSE Append(Tail(xq), Reply(ev.req, IF ok THEN "data" ELSE "null",
                                          IF ok /\ ev.target = "TARGETS"
                                          THEN clipCreateX11Targets(vboxFormats)
                                          ELSE << >>))
  BY <1>1 DEF XtSelectionRequest
<1>6. XC(xq', c) = XC(xq, c)
  <2>1. CASE ev.req = NoReq
    <3>1. ev \notin InFlightFor(c)
      BY <1>1, <2>1 DEF InFlightFor, InFlightEvent
    <3> QED
      BY <1>3, <1>4, <1>5, <2>1, <3>1
  <2>2. CASE ev.req # NoReq
    <3> DEFINE t == IF ok /\ ev.target = "TARGETS" THEN clipCreateX11Targets(vboxFormats)
                    ELSE << >>
               v == IF ok THEN "data" ELSE "null"
    <3>1. ev.req \in Request /\ ev \in XEvent
      BY <1>1, <1>2, <2>2 DEF TypeOK
    <3>2. t \in TargetLists \cup {<< >>} /\ v \in {"data", "null", "fail"}
      BY CreateTargetsType, ConstantsOK DEF TypeOK
    <3>3. ev \in InFlightFor(c) <=> ev.req.cookie = c
      BY <1>1, <2>2, <3>1 DEF InFlightFor, InFlightEvent
    <3>4. Reply(ev.req, v, t) \in InFlightFor(c) <=> ev.req.cookie = c
      BY <3>1, <3>2, CarriesRequest
    <3>5. XC(xq', c) = XC(Tail(xq), c) + (IF Reply(ev.req, v, t) \in InFlightFor(c) THEN 1 ELSE 0)
      BY <1>3, <1>5, <2>2, XCAppend
    <3> QED
      BY <1>3, <1>4, <3>3, <3>4, <3>5
  <2> QED
    BY <2>1, <2>2
<1> QED
  BY <1>1, <1>6 DEF Kept, Flight

(* The callback of a TARGETS transfer: its reply carries no request.      *)
LEMMA TargetsReplyKept ==
  ASSUME TypeOK, NEW c \in Cookies, DispatchTargetsReply
  PROVE  Kept(c)
<1> DEFINE ev == Head(xq)
<1>1. /\ xq # << >> /\ ev.type = "reply" /\ ev.req.kind = "targets"
      /\ clipConvertX11Targets(ev.value, ev.targets, Tail(xq))
      /\ UNCHANGED <<timers, compl, requested>>
  BY DEF DispatchTargetsReply, XtDispatch, HostVars
<1>2. ev.req \in Request
  <2>1. xq \in Seq(XEvent)
    BY DEF TypeOK
  <2>2. ev \in XEvent
    BY <1>1, <2>1
  <2> QED
    BY <1>1, <2>2 DEF XEvent
<1>3. ev \notin InFlightFor(c)
  BY <1>1, <1>2, ConstantsOK DEF Request, InFlightFor
<1>4. Tail(xq) \in Seq(XEvent) /\ XC(xq, c) \in Nat
  <2>1. Tail(xq) \in Seq(XEvent)
    BY <1>1 DEF TypeOK
  <2> QED
    BY <2>1, CountsNat DEF TypeOK
<1>5. XC(Tail(xq), c) = XC(xq, c)
  BY <1>1, <1>3, <1>4, XCTail DEF TypeOK
<1>6. XC(xq', c) + PC(atPeer', c) = XC(Tail(xq), c) + PC(atPeer, c)
  BY <1>1, <1>4, ConvertTargetsCounts
<1> QED
  BY <1>1, <1>5, <1>6 DEF Kept, Flight

(* A reply moved from flight to completion.                               *)
LEMMA ReplyMove ==
  ASSUME NEW c, NEW k \in Nat,
         compl[c] \in Nat, TC(timers, c) \in Nat, XC(xq, c) \in Nat, PC(atPeer, c) \in Nat,
         XC(xq', c) \in Nat, PC(atPeer', c) \in Nat,
         compl'[c] = compl[c] + k, TC(timers', c) = TC(timers, c),
         XC(xq', c) + PC(atPeer', c) = XC(xq, c) - k + PC(atPeer, c)
  PROVE  Held(c)' = Held(c)
<1>1. Held(c)' = compl'[c] + TC(timers', c) + (XC(xq', c) + PC(atPeer', c))
  BY DEF Held, Flight
<1>2. Held(c) = compl[c] + TC(timers, c) + (XC(xq, c) + PC(atPeer, c))
  BY DEF Held, Flight
<1> QED
  BY <1>1, <1>2

(* The callback of a data transfer completes the request its reply        *)
(* carries.                                                               *)
LEMMA DataReplyKept ==
  ASSUME TypeOK, TypeOK', NEW c \in Cookies, DispatchDataReply
  PROVE  Held(c)' = Held(c) /\ requested' = requested
<1> DEFINE ev == Head(xq)
<1>1. /\ xq # << >> /\ ev.type = "reply" /\ ev.req.kind = "data"
      /\ clipConvertX11CB(ev.req, ev.value, Tail(xq))
      /\ UNCHANGED <<timers, requested>>
  BY DEF DispatchDataReply, XtDispatch, HostVars
<1>2. ev.req \in Request /\ ev \in XEvent
  <2>1. xq \in Seq(XEvent)
    BY DEF TypeOK
  <2>2. ev \in XEvent
    BY <1>1, <2>1
  <2> QED
    BY <1>1, <2>2 DEF XEvent
<1>3. PICK ck \in Cookies : ck = ev.req.cookie
  BY <1>1, <1>2 DEF Request
<1>4. /\ compl[c] \in Nat /\ TC(timers, c) \in Nat /\ XC(xq, c) \in Nat
      /\ PC(atPeer, c) \in Nat /\ XC(xq', c) \in Nat /\ PC(atPeer', c) \in Nat
      /\ Tail(xq) \in Seq(XEvent)
  <2>1. Tail(xq) \in Seq(XEvent)
    BY <1>1, <1>2 DEF TypeOK
  <2> QED
    BY <2>1, CountsNat DEF TypeOK
<1>5. ev \in InFlightFor(c) <=> ck = c
  BY <1>1, <1>2, <1>3 DEF InFlightFor, InFlightEvent
<1>6. XC(Tail(xq), c) = XC(xq, c) - (IF ck = c THEN 1 ELSE 0)
  BY <1>1, <1>5, XCTail DEF TypeOK
<1>7. /\ XC(xq', c) + PC(atPeer', c) = XC(Tail(xq), c) + PC(atPeer, c)
      /\ compl'[c] = compl[c] + (IF ck = c THEN 1 ELSE 0)
  BY <1>1, <1>2, <1>3, <1>4, ConvertCBCounts
<1>8. XC(xq', c) + PC(atPeer', c) = XC(xq, c) - (IF ck = c THEN 1 ELSE 0) + PC(atPeer, c)
  BY <1>6, <1>7
<1>9. (IF ck = c THEN 1 ELSE 0) \in Nat
  OBVIOUS
<1> QED
  BY <1>1, <1>4, <1>7, <1>8, <1>9, ReplyMove


(* The host's announcements, its stop and the end of the thread queue no  *)
(* read.                                                                  *)
LEMMA HostQuietKept ==
  ASSUME TypeOK, NEW c \in Cookies,
         \/ \E F \in AnnounceMasks : ClipAnnounceFormatToX11(F)
         \/ ClipAnnounceFormatToX11NoMemory \/ ClipStopX11 \/ clipUninit
  PROVE  Kept(c)
<1>1. TC(timers, c) \in Nat
  BY CountsNat DEF TypeOK
<1>2. CASE \E F \in AnnounceMasks : ClipAnnounceFormatToX11(F)
  <2>1. PICK F \in AnnounceMasks : ClipAnnounceFormatToX11(F)
    BY <1>2
  <2> DEFINE w == [op |-> "announce", formats |-> F, ver |-> hostVer + 1]
  <2>2. timers' = Append(timers, w) /\ w \notin ReadItem(c)
    BY <2>1 DEF ClipAnnounceFormatToX11, clipQueueToEventThread, ReadItem
  <2>3. TC(timers', c) = TC(timers, c)
    BY <1>1, <2>2, TCAppend DEF TypeOK
  <2> QED
    BY <2>1, <2>3 DEF ClipAnnounceFormatToX11, RequesterVars, Kept, Flight
<1>3. CASE ClipStopX11
  <2>1. timers' = Append(timers, [op |-> "stop"]) /\ [op |-> "stop"] \notin ReadItem(c)
    BY <1>3 DEF ClipStopX11, clipQueueToEventThread, ReadItem
  <2>2. TC(timers', c) = TC(timers, c)
    BY <1>1, <2>1, TCAppend DEF TypeOK
  <2> QED
    BY <1>3, <2>2 DEF ClipStopX11, RequesterVars, Kept, Flight
<1>4. CASE ClipAnnounceFormatToX11NoMemory \/ clipUninit
  BY <1>4 DEF ClipAnnounceFormatToX11NoMemory, clipUninit, RequesterVars, Kept, Flight
<1> QED
  BY <1>2, <1>3, <1>4

(* ClipRequestDataFromX11 queues request c0, which was not made before.   *)
LEMMA RequestHeld ==
  ASSUME TypeOK, NEW c \in Cookies, NEW f \in HostAsks, NEW c0 \in Cookies,
         ClipRequestDataFromX11(f, c0),
         Held(c) = IF c \in requested THEN 1 ELSE 0
  PROVE  Held(c)' = IF c \in requested' THEN 1 ELSE 0
<1> DEFINE w == [op |-> "read", fmt |-> f, cookie |-> c0]
<1>1. /\ timers' = Append(timers, w) /\ requested' = requested \cup {c0}
      /\ c0 \notin requested /\ UNCHANGED <<compl, xq, atPeer>>
  BY DEF ClipRequestDataFromX11, clipQueueToEventThread, RequesterVars
<1>2. w \in ReadItem(c) <=> c0 = c
  BY DEF ReadItem, WorkItem
<1>3. TC(timers, c) \in Nat
  BY CountsNat DEF TypeOK
<1>4. Flight(c)' = Flight(c) /\ compl'[c] = compl[c]
  BY <1>1 DEF Flight
<1>5. CASE c0 = c
  <2>1. TC(timers', c) = TC(timers, c) + 1
    BY <1>1, <1>2, <1>5, TCAppend DEF TypeOK
  <2>2. Held(c) = 0 /\ c \in requested'
    BY <1>1, <1>5
  <2>3. Held(c)' = Held(c) + 1
    <3>1. compl[c] \in Nat /\ Flight(c) \in Nat
      <4>1. compl[c] \in Nat /\ XC(xq, c) \in Nat /\ PC(atPeer, c) \in Nat
        BY CountsNat DEF TypeOK
      <4> QED
        BY <4>1 DEF Flight
    <3> QED
      BY <1>3, <1>4, <2>1, <3>1 DEF Held
  <2> QED
    BY <2>2, <2>3
<1>6. CASE c0 # c
  <2>1. TC(timers', c) = TC(timers, c)
    BY <1>1, <1>2, <1>3, <1>6, TCAppend DEF TypeOK
  <2>2. Held(c)' = Held(c)
    BY <1>4, <2>1 DEF Held
  <2>3. c \in requested' <=> c \in requested
    BY <1>1, <1>6
  <2> QED
    BY <2>2, <2>3
<1> QED
  BY <1>5, <1>6

(* The peer's steps.  An answer, or Xt's timeout, turns the request at    *)
(* the peer into a reply that carries it.                                 *)
LEMMA PeerAnswerKept ==
  ASSUME TypeOK, ShapeOK, NEW c \in Cookies, NEW i \in DOMAIN atPeer, PeerAnswer(i)
  PROVE  Kept(c)
<1> DEFINE r == atPeer[i]
<1>1. Len(atPeer) = 1 /\ i = 1 /\ atPeer \in Seq(Request)
  <2>1. atPeer \in Seq(Request)
    BY DEF TypeOK
  <2>2. Len(atPeer) <= 1
    BY DEF ShapeOK
  <2> QED
    BY <2>1, <2>2, SingleIndex
<1>2. r \in Request /\ r.offer \in TargetLists
  BY <1>1 DEF Request
<1>3. PICK v \in {"data", "null", "fail"} :
        xq' = Append(xq, Reply(r, v, IF r.kind = "targets" /\ v = "data"
                                     THEN r.offer ELSE << >>))
  BY DEF PeerAnswer
<1> DEFINE t == IF r.kind = "targets" /\ v = "data" THEN r.offer ELSE << >>
<1>4. PICK d \in {0, 1} : d = IF r.cookie = c THEN 1 ELSE 0
  OBVIOUS
<1>5. XC(xq', c) = XC(xq, c) + d
  <2>1. Reply(r, v, t) \in InFlightFor(c) <=> r.cookie = c
    BY <1>2, CarriesRequest
  <2> QED
    BY <1>3, <1>4, <2>1, XCAppend DEF TypeOK
<1>6. PC(atPeer, c) = d
  <2>1. r \in ReqFor(c) <=> r.cookie = c
    BY <1>2, CarriesRequest
  <2> QED
    BY <1>1, <1>4, <2>1, IdxSingle DEF PC
<1>7. PC(atPeer', c) = 0
  <2>1. IdxIn(atPeer', ReqFor(c)) = {}
    BY <1>1 DEF PeerAnswer, IdxIn
  <2> QED
    BY <2>1, FS_EmptySet DEF PC
<1>8. XC(xq, c) \in Nat
  BY CountsNat DEF TypeOK
<1> QED
  BY <1>5, <1>6, <1>7, <1>8 DEF PeerAnswer, Kept, Flight, HostVars

(* Taking or dropping the selection, and the peer's own requests, queue   *)
(* no transfer of ours.                                                   *)
LEMMA PeerQuietKept ==
  ASSUME TypeOK, NEW c \in Cookies,
         \/ \E o \in PeerOfferings : PeerSetOwner(o)
         \/ PeerDisown \/ \E t \in PeerAsks : PeerConvert(t)
  PROVE  Kept(c)
<1>1. Fixes("peer") \notin InFlightFor(c) /\ Fixes("none") \notin InFlightFor(c)
      /\ Clear \notin InFlightFor(c) /\ \A t : SelReq(t, NoReq) \notin InFlightFor(c)
  BY NotInFlight
<1>2. XC(xq, c) \in Nat /\ xq \in Seq(XEvent)
  BY CountsNat DEF TypeOK
<1>3. CASE \E o \in PeerOfferings : PeerSetOwner(o)
  <2> DEFINE A == IF selOwner = "us" THEN << Clear >> ELSE << >>
             B == << Fixes("peer") >>
  <2>1. A \in Seq(XEvent) /\ B \in Seq(XEvent) /\ xq \o A \in Seq(XEvent)
    <3>1. Clear \in XEvent /\ Fixes("peer") \in XEvent
      BY DEF Clear, Fixes, XEvent, Owners
    <3>2. A \in Seq(XEvent) /\ B \in Seq(XEvent)
      BY <3>1
    <3> QED
      BY <1>2, <3>2
  <2>2. /\ \A j \in DOMAIN A : A[j] \notin InFlightFor(c)
        /\ \A j \in DOMAIN B : B[j] \notin InFlightFor(c)
    BY <1>1
  <2>3. XC((xq \o A) \o B, c) = XC(xq, c)
    <3>1. XC((xq \o A) \o B, c) = XC(xq \o A, c)
      BY <1>2, <2>1, <2>2, XCConcatNone
    <3>2. XC(xq \o A, c) = XC(xq, c)
      BY <1>2, <2>1, <2>2, XCConcatNone
    <3> QED
      BY <3>1, <3>2
  <2> QED
    BY <1>3, <2>3 DEF PeerSetOwner, RequesterVars, HostVars, Kept, Flight
<1>4. CASE PeerDisown
  <2>1. XC(xq', c) = XC(xq, c)
    BY <1>1, <1>2, <1>4, XCAppend DEF PeerDisown
  <2> QED
    BY <1>4, <2>1 DEF PeerDisown, RequesterVars, HostVars, Kept, Flight
<1>5. CASE \E t \in PeerAsks : PeerConvert(t)
  <2>1. PICK t \in PeerAsks : PeerConvert(t)
    BY <1>5
  <2>2. XC(xq', c) = XC(xq, c)
    BY <1>1, <1>2, <2>1, XCAppend DEF PeerConvert
  <2> QED
    BY <2>1, <2>2 DEF PeerConvert, RequesterVars, HostVars, Kept, Flight
<1> QED
  BY <1>3, <1>4, <1>5


-----------------------------------------------------------------------------
(* The inductive invariant.  Accounted alone is not inductive: an answer  *)
(* of the peer takes the one request at the peer out of flight and puts   *)
(* a reply in, and it is the shape of BusyInv (at most one request at the *)
(* peer) that says the request it answers is the one there is.            *)
AInv == BusyInv /\ Accounted

LEMMA InitAInv == Init => AInv
<1> SUFFICES ASSUME Init PROVE AInv
  OBVIOUS
<1>1. BusyInv
  BY InitBusyInv
<1>2. ASSUME NEW c \in Cookies PROVE Held(c) = IF c \in requested THEN 1 ELSE 0
  <2>1. TC(timers, c) = 0 /\ PC(atPeer, c) = 0 /\ XC(xq, c) = 0 /\ compl[c] = 0
    BY IdxEmpty DEF Init, TC, PC, XC
  <2> QED
    BY <2>1 DEF Init, Held, Flight
<1> QED
  BY <1>1, <1>2 DEF AInv, Accounted

LEMMA AInvStep == AInv /\ [Next]_vars => AInv'
<1> SUFFICES ASSUME AInv, [Next]_vars PROVE AInv'
  OBVIOUS
<1>1. BusyInv'
  BY BusyStep DEF AInv
<1>2. TypeOK /\ TypeOK' /\ ShapeOK
  BY <1>1 DEF AInv, BusyInv, TypeInv
<1>3. Accounted'
  <2> SUFFICES ASSUME NEW c \in Cookies
               PROVE  Held(c)' = IF c \in requested' THEN 1 ELSE 0
    BY DEF Accounted
  <2>1. Held(c) = IF c \in requested THEN 1 ELSE 0
    BY DEF AInv, Accounted
  <2>2. CASE \/ clipEventThread \/ PeekXFixes \/ PeekBlock \/ clipDrainWakeupPipe
             \/ DispatchXFixes \/ DispatchSelectionClear
    BY <1>2, <2>1, <2>2, ThreadQuietKept, KeptAccounted
  <2>3. CASE RunTimer
    BY <1>2, <2>1, <2>3, RunTimerKept
  <2>4. CASE DispatchSelectionRequest
    BY <1>2, <2>1, <2>4, SelectionRequestKept, KeptAccounted
  <2>5. CASE DispatchTargetsReply
    BY <1>2, <2>1, <2>5, TargetsReplyKept, KeptAccounted
  <2>6. CASE DispatchDataReply
    BY <1>2, <2>1, <2>6, DataReplyKept
  <2>7. CASE \/ \E F \in AnnounceMasks : ClipAnnounceFormatToX11(F)
             \/ ClipAnnounceFormatToX11NoMemory \/ ClipStopX11 \/ clipUninit
    BY <1>2, <2>1, <2>7, HostQuietKept, KeptAccounted
  <2>8. CASE \E f \in HostAsks, c0 \in Cookies : ClipRequestDataFromX11(f, c0)
    BY <1>2, <2>1, <2>8, RequestHeld
  <2>9. CASE \E i \in DOMAIN atPeer : PeerAnswer(i)
    BY <1>2, <2>1, <2>9, PeerAnswerKept, KeptAccounted
  <2>10. CASE \/ \E o \in PeerOfferings : PeerSetOwner(o)
              \/ PeerDisown \/ \E t \in PeerAsks : PeerConvert(t)
    BY <1>2, <2>1, <2>10, PeerQuietKept, KeptAccounted
  <2>11. CASE UNCHANGED vars
    <3>1. Kept(c)
      BY <2>11 DEF vars, Kept, Flight
    <3> QED
      BY <2>1, <3>1, KeptAccounted
  <2> QED
    BY <2>2, <2>3, <2>4, <2>5, <2>6, <2>7, <2>8, <2>9, <2>10, <2>11
       DEF Next, EventThread, HostSide, Peer
<1> QED
  BY <1>1, <1>3 DEF AInv

(* Every host read request is, in every reachable state, in exactly one   *)
(* place: a work item, a transfer at the peer or in the X queue, or       *)
(* completed once.  Through every interleaving of the event thread, the   *)
(* host and the peer, no request is lost or completed twice.              *)
THEOREM RequestsAccounted == Spec => []EachRequestAccounted
<1>1. AInv => EachRequestAccounted
  BY AccountedIs DEF AInv, BusyInv, TypeInv
<1> QED
  BY InitAInv, AInvStep, <1>1, PTL DEF Spec

=============================================================================
