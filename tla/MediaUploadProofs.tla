------------------------- MODULE MediaUploadProofs -------------------------
(***************************************************************************)
(* What holds of the Media API for every set of captures, requests and     *)
(* failures: the two rows of a capture agree, an announced frame has its   *)
(* bytes, an accepted one is announced, and with Cloud Storage the whole   *)
(* is an implementation of CaptureLifecycle.                               *)
(***************************************************************************)
EXTENDS MediaUpload, TLAPS

UploadSpec == UploadInit /\ [][UploadNext]_uploadVars

(* What a handler knows at each call: complete has seen both rows, then    *)
(* the bytes, then its own commit; an upload URL is given out for a        *)
(* capture whose rows are there.                                           *)
HandlerKnows(q) ==
  /\ api[q].pc \in {"exists", "mark", "enqueue"} => Found(Cap(q))
  /\ api[q].pc \in {"mark", "enqueue"} /\ backend = "gcs" => object[Cap(q)] = "full"
  /\ api[q].pc = "enqueue" => ref[Cap(q)] = "uploaded"

UploadInv ==
  /\ UploadTypeOK
  /\ EventIsBacked
  /\ AcceptedHasEvent
  /\ \A c \in Capture : backend = "gcs" => object[c] \in {"none", "full"}
  /\ \A c \in issued : ref[c] # "none"
  /\ \A q \in Server : HandlerKnows(q)

(* An api record with its pc changed, and one reset, are records again. *)
LEMMA GotoType ==
  ASSUME api \in [Server -> Request], NEW q \in Server, api[q].pc \in ApiPc, NEW p \in ApiPc, Goto(q, p)
  PROVE  /\ api[q].cap \in Capture
         /\ api' \in [Server -> Request]
         /\ api'[q] = [pc |-> p, cap |-> api[q].cap]
         /\ \A r \in Server \ {q} : api'[r] = api[r]
<1>1. api[q] \in Request
  OBVIOUS
<1>2. api[q] \in [pc : ApiPc, cap : Capture]
  BY <1>1 DEF Request, NoRequest, ApiPc
<1>3. [api[q] EXCEPT !.pc = p] = [pc |-> p, cap |-> api[q].cap]
  BY <1>2
<1>4. api' = [api EXCEPT ![q] = [pc |-> p, cap |-> api[q].cap]]
  BY <1>3 DEF Goto
<1>5. [pc |-> p, cap |-> api[q].cap] \in Request
  BY <1>2 DEF Request
<1>6. api[q].cap \in Capture
  BY <1>2
<1> QED
  BY <1>4, <1>5, <1>6

(* A handler that replies is idle again, and no other is disturbed. *)
LEMMA ReplyType ==
  ASSUME api \in [Server -> Request], NEW q \in Server, Reply(q)
  PROVE  /\ api' \in [Server -> Request]
         /\ api'[q] = NoRequest
         /\ \A r \in Server \ {q} : api'[r] = api[r]
BY DEF Reply, Request

(* A handler that is at a call works on a capture. *)
LEMMA CapType ==
  ASSUME api \in [Server -> Request], NEW q \in Server, api[q].pc # "idle"
  PROVE  api[q].pc \in ApiPc /\ Cap(q) \in Capture
<1>1. api[q] \in Request
  OBVIOUS
<1> QED
  BY <1>1 DEF Request, NoRequest, Cap

(* What a step of the handler of q leaves of api: it goes on to one of the *)
(* calls P with the same capture, or it replies.                           *)
Moves(q, P) ==
  /\ api' \in [Server -> Request]
  /\ \A r \in Server \ {q} : api'[r] = api[r]
  /\ \/ api'[q].pc \in P /\ Cap(q)' = Cap(q)
     \/ api'[q].pc = "idle"

(* Every call of a handler either goes on to the next one or replies. *)
LEMMA MoveType ==
  ASSUME api \in [Server -> Request], NEW q \in Server, api[q].pc # "idle",
         NEW p \in ApiPc, Goto(q, p) \/ Reply(q)
  PROVE  Moves(q, {p})
<1>1. api[q].pc \in ApiPc
  BY CapType
<1>2. CASE Goto(q, p)
  <2>1. /\ api' \in [Server -> Request]
        /\ api'[q] = [pc |-> p, cap |-> api[q].cap]
        /\ \A r \in Server \ {q} : api'[r] = api[r]
    BY <1>1, <1>2, GotoType
  <2> QED
    BY <2>1 DEF Moves, Cap
<1>3. CASE Reply(q)
  BY <1>3, ReplyType DEF Moves, NoRequest
<1> QED
  BY <1>2, <1>3

(* What a handler knows stays true while rows and objects only gain.       *)
Gains ==
  /\ backend' = backend
  /\ \A c \in Capture : /\ Found(c) => Found(c)'
                        /\ backend = "gcs" /\ object[c] = "full" => object'[c] = "full"
                        /\ ref[c] = "uploaded" => ref'[c] = "uploaded"

(* The other handlers can rely on what they have seen while one of them works. *)
LEMMA KnowledgeLasts ==
  ASSUME api \in [Server -> Request], Gains, NEW r \in Server, HandlerKnows(r), api'[r] = api[r]
  PROVE  HandlerKnows(r)'
<1>1. CASE api[r].pc = "idle"
  BY <1>1 DEF HandlerKnows
<1>2. CASE api[r].pc # "idle"
  <2>1. Cap(r) \in Capture /\ Cap(r)' = Cap(r)
    BY <1>2, CapType DEF Cap
  <2>2. Found(Cap(r)) => Found(Cap(r))'
    BY <2>1 DEF Gains, Found
  <2>3. backend = "gcs" /\ object[Cap(r)] = "full" => object'[Cap(r)'] = "full"
    BY <2>1 DEF Gains
  <2>4. ref[Cap(r)] = "uploaded" => ref'[Cap(r)'] = "uploaded"
    BY <2>1 DEF Gains
  <2> QED
    BY <2>1, <2>2, <2>3, <2>4 DEF HandlerKnows, Gains
<1> QED
  BY <1>1, <1>2

(* The announced captures only grow. *)
LEMMA AnnouncedGrows ==
  ASSUME events \in Seq(Capture), NEW c \in Capture, events' = Append(events, c)
  PROVE  /\ Announced' = Announced \cup {c}
         /\ events' \in Seq(Capture)
         /\ Len(events') = Len(events) + 1
         /\ \A e \in DOMAIN events : e \in DOMAIN events' /\ events'[e] = events[e]
<1>1. /\ events' \in Seq(Capture)
      /\ Len(events') = Len(events) + 1
      /\ Len(events) \in Nat
      /\ DOMAIN events = 1 .. Len(events) /\ DOMAIN events' = 1 .. Len(events')
  OBVIOUS
<1>2. \A e \in DOMAIN events' : events'[e] = IF e \in DOMAIN events THEN events[e] ELSE c
  BY <1>1
<1>3. Len(events) + 1 \in DOMAIN events'
  BY <1>1
<1> QED
  BY <1>1, <1>2, <1>3 DEF Announced
-----------------------------------------------------------------------------
(* The invariant holds of a session without captures. *)
LEMMA UploadInitInv == UploadInit => UploadInv
<1> SUFFICES ASSUME UploadInit PROVE UploadInv
  OBVIOUS
<1> USE DEF UploadInit
<1>1. api \in [Server -> Request] /\ \A q \in Server : api[q].pc = "idle"
  BY DEF Request, NoRequest
<1>2. UploadTypeOK
  <2>1. 0 \in 0..MaxRequests /\ <<>> \in Seq(Capture)
    BY UploadBoundsAssumption
  <2> QED
    BY <1>1, <2>1 DEF UploadTypeOK, Status
<1>3. Announced = {}
  BY DEF Announced
<1> QED
  BY <1>1, <1>2, <1>3 DEF UploadInv, EventIsBacked, AcceptedHasEvent, HandlerKnows

(* Every call of every handler, every PUT and every crash preserves it. *)
LEMMA UploadStep ==
  ASSUME UploadInv, UploadNext
  PROVE  UploadInv'
<1>0. /\ api \in [Server -> Request]
      /\ snapshot \in [Capture -> Status] /\ ref \in [Capture -> Status]
      /\ object \in [Capture -> {"none", "partial", "full"}]
      /\ events \in Seq(Capture)
      /\ \A r \in Server : HandlerKnows(r)
  BY DEF UploadInv, UploadTypeOK
<1>1. ASSUME NEW q \in Server, NEW c \in Capture, NEW p \in {"session", "load"}, Receive(q, c, p)
      PROVE  UploadInv'
  <2>1. UNCHANGED <<backend, hasSession, snapshot, ref, object, issued, accepted, events>>
    BY <1>1 DEF Receive, tableVars
  <2>2. [pc |-> p, cap |-> c] \in Request
    BY DEF Request, ApiPc
  <2>3. api' \in [Server -> Request] /\ api'[q].pc = p /\ \A r \in Server \ {q} : api'[r] = api[r]
    BY <1>0, <1>1, <2>2 DEF Receive
  <2>4. requests' \in 0..MaxRequests
    BY <1>1, UploadBoundsAssumption DEF Receive, UploadInv, UploadTypeOK
  <2>5. Gains
    BY <2>1 DEF Gains, Found
  <2>6. \A r \in Server : HandlerKnows(r)'
    <3>1. HandlerKnows(q)'
      BY <2>3 DEF HandlerKnows
    <3> QED
      BY <1>0, <2>3, <2>5, <3>1, KnowledgeLasts
  <2> QED
    BY <2>1, <2>3, <2>4, <2>6 DEF UploadInv, UploadTypeOK, EventIsBacked, AcceptedHasEvent, Announced
<1>2. ASSUME NEW q \in Server, EnsureSession(q) \/ SignedUploadURL(q)
      PROVE  UploadInv'
  <2>1. api[q].pc # "idle" /\ hasSession' \in BOOLEAN
    BY <1>2 DEF EnsureSession, SignedUploadURL, tableVars, UploadInv, UploadTypeOK
  <2>2. UNCHANGED <<backend, snapshot, ref, object, issued, requests, accepted, events>>
    BY <1>2 DEF EnsureSession, SignedUploadURL, tableVars
  <2>3. PICK p \in {"sign", "snapshot"} : Goto(q, p) \/ Reply(q)
    BY <1>2 DEF EnsureSession, SignedUploadURL
  <2>4. p \in ApiPc
    BY DEF ApiPc
  <2>5. Moves(q, {p})
    BY <1>0, <2>1, <2>3, <2>4, MoveType
  <2>6. Gains
    BY <2>2 DEF Gains, Found
  <2>7. \A r \in Server : HandlerKnows(r)'
    <3>1. HandlerKnows(q)'
      BY <2>5 DEF HandlerKnows, Moves
    <3> QED
      BY <1>0, <2>5, <2>6, <3>1, KnowledgeLasts DEF Moves
  <2> QED
    BY <2>1, <2>2, <2>5, <2>7 DEF Moves, UploadInv, UploadTypeOK, EventIsBacked, AcceptedHasEvent, Announced
<1>3. ASSUME NEW q \in Server, InsertCaptureSnapshot(q)
      PROVE  UploadInv'
  <2>1. api[q].pc # "idle" /\ Cap(q) \in Capture
    BY <1>0, <1>3, CapType DEF InsertCaptureSnapshot
  <2>2. UNCHANGED <<backend, hasSession, ref, object, issued, requests, accepted, events>>
    BY <1>3 DEF InsertCaptureSnapshot
  <2>3. Goto(q, "ref") \/ Reply(q)
    BY <1>3 DEF InsertCaptureSnapshot
  <2>4. Moves(q, {"ref"})
    BY <1>0, <2>1, <2>3, MoveType DEF ApiPc
  <2>5. /\ snapshot' \in [Capture -> Status]
        /\ \A c \in Capture : snapshot'[c] = snapshot[c] \/ (snapshot[c] = "none" /\ snapshot'[c] = "pending")
    BY <1>0, <1>3, <2>1 DEF InsertCaptureSnapshot, Status
  <2>6. Gains
    BY <2>2, <2>5 DEF Gains, Found
  <2>7. \A r \in Server : HandlerKnows(r)'
    <3>1. HandlerKnows(q)'
      BY <2>4 DEF HandlerKnows, Moves
    <3> QED
      BY <1>0, <2>4, <2>6, <3>1, KnowledgeLasts DEF Moves
  <2> QED
    BY <2>2, <2>4, <2>5, <2>7 DEF Moves, UploadInv, UploadTypeOK, EventIsBacked, AcceptedHasEvent, Announced
<1>4. ASSUME NEW q \in Server, InsertMediaRef(q)
      PROVE  UploadInv'
  <2>1. api[q].pc # "idle" /\ Cap(q) \in Capture
    BY <1>0, <1>4, CapType DEF InsertMediaRef
  <2>2. UNCHANGED <<backend, hasSession, snapshot, object, requests, accepted, events>>
    BY <1>4 DEF InsertMediaRef
  <2>3. api' \in [Server -> Request] /\ api'[q].pc = "idle" /\ \A r \in Server \ {q} : api'[r] = api[r]
    BY <1>0, <1>4, ReplyType DEF InsertMediaRef, NoRequest
  <2>4. /\ ref' \in [Capture -> Status]
        /\ \A c \in Capture : ref'[c] = ref[c] \/ (ref[c] = "none" /\ ref'[c] = "pending")
        /\ issued' \subseteq Capture
        /\ \A c \in issued' : c \in issued \/ ref'[c] # "none"
    BY <1>0, <1>4, <2>1 DEF InsertMediaRef, Status, UploadInv, UploadTypeOK
  <2>5. Gains
    BY <2>2, <2>4 DEF Gains, Found
  <2>6. \A r \in Server : HandlerKnows(r)'
    <3>1. HandlerKnows(q)'
      BY <2>3 DEF HandlerKnows
    <3> QED
      BY <1>0, <2>3, <2>5, <3>1, KnowledgeLasts
  <2>7. EventIsBacked' /\ AcceptedHasEvent'
    <3>1. Announced' = Announced /\ Announced \subseteq Capture
      BY <1>0, <2>2 DEF Announced
    <3> QED
      BY <2>2, <2>4, <3>1 DEF UploadInv, EventIsBacked, AcceptedHasEvent
  <2>8. \A c \in issued' : ref'[c] # "none"
    BY <2>4 DEF UploadInv, UploadTypeOK
  <2> QED
    BY <2>2, <2>3, <2>4, <2>6, <2>7, <2>8 DEF UploadInv, UploadTypeOK
<1>5. ASSUME NEW c \in Capture, PutFrame(c) \/ LocalUpload(c)
      PROVE  UploadInv'
  <2>1. UNCHANGED <<backend, hasSession, snapshot, ref, issued, api, requests, accepted, events>>
    BY <1>5 DEF PutFrame, LocalUpload, tableVars
  <2>2. /\ object' \in [Capture -> {"none", "partial", "full"}]
        /\ backend = "gcs" => \A d \in Capture : object'[d] = object[d] \/ object'[d] = "full"
    BY <1>0, <1>5 DEF PutFrame, LocalUpload
  <2>3. Gains
    BY <2>1, <2>2 DEF Gains, Found
  <2>4. \A r \in Server : HandlerKnows(r)'
    BY <1>0, <2>1, <2>3, KnowledgeLasts
  <2>5. EventIsBacked' /\ AcceptedHasEvent'
    <3>1. Announced' = Announced /\ Announced \subseteq Capture
      BY <1>0, <2>1 DEF Announced
    <3> QED
      BY <2>1, <2>2, <3>1 DEF UploadInv, EventIsBacked, AcceptedHasEvent
  <2> QED
    BY <2>1, <2>2, <2>4, <2>5 DEF UploadInv, UploadTypeOK
<1>6. ASSUME NEW q \in Server, GetCapture(q) \/ CheckObject(q)
      PROVE  UploadInv'
  <2>1. api[q].pc # "idle" /\ Cap(q) \in Capture
    BY <1>0, <1>6, CapType DEF GetCapture, CheckObject
  <2>2. UNCHANGED <<backend, hasSession, snapshot, ref, object, issued, requests, accepted, events>>
    BY <1>6 DEF GetCapture, CheckObject, tableVars
  <2>3. PICK p \in {"exists", "mark"} :
          /\ Goto(q, p) \/ Reply(q)
          /\ Goto(q, p) => Found(Cap(q)) /\ (p = "mark" => Exists(Cap(q)))
    <3>1. CASE GetCapture(q) /\ Found(Cap(q)) /\ Goto(q, "exists")
      BY <3>1
    <3>2. CASE CheckObject(q) /\ Exists(Cap(q)) /\ Goto(q, "mark")
      BY <1>0, <3>2 DEF CheckObject, HandlerKnows
    <3>3. CASE Reply(q)
      <4>1. api'[q].pc = "idle"
        BY <1>0, <3>3, ReplyType DEF NoRequest
      <4>2. api[q].pc \in ApiPc /\ "exists" \in ApiPc
        BY <1>0, <2>1, CapType DEF ApiPc
      <4>3. ~Goto(q, "exists")
        <5>1. Goto(q, "exists") => api'[q] = [pc |-> "exists", cap |-> api[q].cap]
          BY <1>0, <4>2, GotoType
        <5> QED
          BY <4>1, <5>1
      <4> QED
        BY <3>3, <4>3
    <3> QED
      BY <1>6, <3>1, <3>2, <3>3 DEF GetCapture, CheckObject
  <2>4. p \in ApiPc
    BY DEF ApiPc
  <2>5. Moves(q, {p})
    BY <1>0, <2>1, <2>3, <2>4, MoveType
  <2>6. Gains
    BY <2>2 DEF Gains, Found
  <2>7. HandlerKnows(q)'
    <3>1. CASE Reply(q)
      BY <1>0, <3>1, ReplyType DEF HandlerKnows, NoRequest
    <3>2. CASE Goto(q, p)
      <4>1. api'[q].pc = p /\ Cap(q)' = Cap(q)
        <5>1. api[q].pc \in ApiPc
          BY <1>0, <2>1, CapType
        <5>2. api'[q] = [pc |-> p, cap |-> api[q].cap]
          BY <1>0, <2>4, <3>2, <5>1, GotoType
        <5> QED
          BY <5>2 DEF Cap
      <4>2. Found(Cap(q))' /\ (p = "mark" /\ backend = "gcs" => object[Cap(q)] = "full")
        BY <2>1, <2>2, <2>3, <3>2, <4>1 DEF Found, Exists, UploadInv
      <4> QED
        BY <2>2, <4>1, <4>2 DEF HandlerKnows
    <3> QED
      BY <2>3, <3>1, <3>2
  <2>8. \A r \in Server : HandlerKnows(r)'
    BY <1>0, <2>5, <2>6, <2>7, KnowledgeLasts DEF Moves
  <2> QED
    BY <2>2, <2>5, <2>8 DEF Moves, UploadInv, UploadTypeOK, EventIsBacked, AcceptedHasEvent, Announced
<1>7. ASSUME NEW q \in Server, MarkUploaded(q)
      PROVE  UploadInv'
  <2>1. /\ api[q].pc = "mark" /\ api[q].pc \in ApiPc /\ Cap(q) \in Capture
        /\ Found(Cap(q)) /\ (backend = "gcs" => object[Cap(q)] = "full")
    BY <1>0, <1>7, CapType DEF MarkUploaded, HandlerKnows
  <2>2. UNCHANGED <<backend, hasSession, object, issued, requests, accepted, events>>
    BY <1>7 DEF MarkUploaded
  <2>3. \/ /\ snapshot' = [snapshot EXCEPT ![Cap(q)] = "uploaded"]
           /\ ref' = [ref EXCEPT ![Cap(q)] = "uploaded"]
        \/ UNCHANGED <<snapshot, ref>> /\ Reply(q)
    BY <1>7 DEF MarkUploaded
  <2>4. /\ snapshot' \in [Capture -> Status] /\ ref' \in [Capture -> Status]
        /\ \A c \in Capture :
             \/ snapshot'[c] = snapshot[c] /\ ref'[c] = ref[c]
             \/ snapshot'[c] = "uploaded" /\ ref'[c] = "uploaded"
        /\ ref'[Cap(q)] = "uploaded" \/ Reply(q)
    BY <1>0, <2>1, <2>3 DEF Status
  <2>5. Goto(q, "enqueue") \/ Reply(q)
    BY <1>7 DEF MarkUploaded
  <2>6. Moves(q, {"enqueue"})
    BY <1>0, <2>1, <2>5, MoveType DEF ApiPc
  <2>7. Gains
    BY <2>2, <2>4 DEF Gains, Found
  <2>8. HandlerKnows(q)'
    <3>1. CASE Reply(q)
      BY <1>0, <3>1, ReplyType DEF HandlerKnows, NoRequest
    <3>2. CASE ref'[Cap(q)] = "uploaded"
      <4>1. api'[q].pc = "enqueue" => Cap(q)' = Cap(q)
        BY <2>6 DEF Moves
      <4>2. snapshot'[Cap(q)] # "none" /\ ref'[Cap(q)] # "none" /\ (backend = "gcs" => object'[Cap(q)] = "full")
        BY <2>1, <2>2, <2>4 DEF Found
      <4> QED
        BY <2>2, <2>6, <3>2, <4>1, <4>2 DEF HandlerKnows, Moves, Found
    <3> QED
      BY <2>4, <3>1, <3>2
  <2>9. \A r \in Server : HandlerKnows(r)'
    BY <1>0, <2>6, <2>7, <2>8, KnowledgeLasts DEF Moves
  <2>10. EventIsBacked' /\ AcceptedHasEvent'
    <3>1. Announced' = Announced /\ Announced \subseteq Capture
      BY <1>0, <2>2 DEF Announced
    <3> QED
      BY <2>2, <2>4, <3>1 DEF UploadInv, EventIsBacked, AcceptedHasEvent
  <2> QED
    BY <2>2, <2>4, <2>6, <2>9, <2>10 DEF Moves, UploadInv, UploadTypeOK
<1>8. ASSUME NEW q \in Server, EnqueueUploaded(q)
      PROVE  UploadInv'
  <2>1. /\ Cap(q) \in Capture /\ ref[Cap(q)] = "uploaded"
        /\ backend = "gcs" => object[Cap(q)] = "full"
    BY <1>0, <1>8, CapType DEF EnqueueUploaded, HandlerKnows
  <2>2. UNCHANGED <<backend, hasSession, snapshot, ref, object, issued, requests>>
    BY <1>8 DEF EnqueueUploaded, tableVars
  <2>3. api' \in [Server -> Request] /\ api'[q].pc = "idle" /\ \A r \in Server \ {q} : api'[r] = api[r]
    BY <1>0, <1>8, ReplyType DEF EnqueueUploaded, NoRequest
  <2>4. Gains
    BY <2>2 DEF Gains, Found
  <2>5. \A r \in Server : HandlerKnows(r)'
    <3>1. HandlerKnows(q)'
      BY <2>3 DEF HandlerKnows
    <3> QED
      BY <1>0, <2>3, <2>4, <3>1, KnowledgeLasts
  <2>6. /\ events' \in Seq(Capture)
        /\ \/ Announced' = Announced \cup {Cap(q)} /\ accepted' \subseteq accepted \cup {Cap(q)}
           \/ Announced' = Announced /\ accepted' = accepted
    <3>1. CASE events' = Append(events, Cap(q)) /\ accepted' \subseteq accepted \cup {Cap(q)}
      BY <1>0, <2>1, <3>1, AnnouncedGrows
    <3>2. CASE UNCHANGED <<events, accepted>>
      BY <1>0, <3>2 DEF Announced
    <3> QED
      BY <1>8, <3>1, <3>2 DEF EnqueueUploaded
  <2>7. EventIsBacked' /\ AcceptedHasEvent'
    BY <2>1, <2>2, <2>6 DEF UploadInv, EventIsBacked, AcceptedHasEvent
  <2>8. accepted' \subseteq Capture
    BY <2>1, <2>6 DEF UploadInv, UploadTypeOK
  <2> QED
    BY <2>2, <2>3, <2>5, <2>6, <2>7, <2>8 DEF UploadInv, UploadTypeOK
<1>9. ASSUME NEW q \in Server, ApiCrash(q)
      PROVE  UploadInv'
  <2>1. UNCHANGED <<backend, hasSession, snapshot, ref, object, issued, requests, accepted, events>>
    BY <1>9 DEF ApiCrash, tableVars
  <2>2. api' \in [Server -> Request] /\ api'[q].pc = "idle" /\ \A r \in Server \ {q} : api'[r] = api[r]
    BY <1>0, <1>9, ReplyType DEF ApiCrash, NoRequest
  <2>3. Gains
    BY <2>1 DEF Gains, Found
  <2>4. \A r \in Server : HandlerKnows(r)'
    <3>1. HandlerKnows(q)'
      BY <2>2 DEF HandlerKnows
    <3> QED
      BY <1>0, <2>2, <2>3, <3>1, KnowledgeLasts
  <2> QED
    BY <2>1, <2>2, <2>4 DEF UploadInv, UploadTypeOK, EventIsBacked, AcceptedHasEvent, Announced
<1> QED
  BY <1>1, <1>2, <1>3, <1>4, <1>5, <1>6, <1>7, <1>8, <1>9
  DEF UploadNext, UploadUrl, Complete, ApiStep
-----------------------------------------------------------------------------
(* It says nothing of other variables than those of the Media API. *)
LEMMA UploadStutter ==
  ASSUME UploadInv, UNCHANGED uploadVars
  PROVE  UploadInv'
BY DEF UploadInv, uploadVars, tableVars, UploadTypeOK, EventIsBacked, AcceptedHasEvent, Announced,
   HandlerKnows, Found, Cap

(* What the handlers of internal/media know holds in every reachable state, *)
(* and with it the properties of the Media API.                             *)
THEOREM UploadCorrect == UploadSpec => []UploadInv
<1>1. UploadInit => UploadInv
  BY UploadInitInv
<1>2. UploadInv /\ [UploadNext]_uploadVars => UploadInv'
  BY UploadStep, UploadStutter
<1> QED
  BY <1>1, <1>2, PTL DEF UploadSpec

(* handleUploadComplete never announces a frame whose object it has not     *)
(* seen, and MarkUploaded keeps the two rows of every capture in agreement. *)
THEOREM UploadEventIsBacked == UploadSpec => []EventIsBacked
<1>1. UploadInv => EventIsBacked
  BY DEF UploadInv
<1> QED
  BY <1>1, UploadCorrect, PTL

(* handleUploadComplete answers 200 only after its Enqueue has succeeded. *)
THEOREM UploadAcceptedHasEvent == UploadSpec => []AcceptedHasEvent
<1>1. UploadInv => AcceptedHasEvent
  BY DEF UploadInv
<1> QED
  BY <1>1, UploadCorrect, PTL
-----------------------------------------------------------------------------
(* Refinement: the handlers of internal/media implement CaptureLifecycle.   *)

(* An empty session is an empty life. *)
LEMMA LifecycleInit == UploadInit => Lifecycle!Init
<1> SUFFICES ASSUME UploadInit PROVE Lifecycle!Init
  OBVIOUS
<1>1. Announced = {} /\ ref = [c \in Capture |-> "none"] /\ object = [c \in Capture |-> "none"]
  BY DEF UploadInit, Announced
<1>2. \A c \in Capture : Stage(c) = "new"
  BY <1>1 DEF Stage
<1> QED
  BY <1>1, <1>2 DEF Lifecycle!Init

(* A step that leaves ref, object and the announced captures alone is a    *)
(* stutter of the life of every capture.                                   *)
LEMMA LifecycleStutter ==
  ASSUME UNCHANGED <<backend, ref, object>>, Announced' = Announced
  PROVE  UNCHANGED Lifecycle!vars
BY DEF Lifecycle!vars, Stage

(* Without Cloud Storage nothing is claimed. *)
LEMMA LifecycleLocal ==
  ASSUME backend # "gcs", backend' = backend
  PROVE  UNCHANGED Lifecycle!vars
BY DEF Lifecycle!vars

(* Every other step of a handler or of the client is one step of the life   *)
(* of one capture: InsertMediaRef registers, the PUT stores, MarkUploaded   *)
(* confirms, Enqueue announces.                                             *)
LEMMA LifecycleStep ==
  ASSUME UploadInv, UploadNext
  PROVE  Lifecycle!Next \/ UNCHANGED Lifecycle!vars
<1>0. /\ api \in [Server -> Request] /\ events \in Seq(Capture)
      /\ ref \in [Capture -> Status] /\ object \in [Capture -> {"none", "partial", "full"}]
      /\ \A r \in Server : HandlerKnows(r)
      /\ \A c \in Announced : ref[c] = "uploaded"
      /\ issued \subseteq Capture /\ \A c \in issued : ref[c] # "none"
  BY DEF UploadInv, UploadTypeOK, EventIsBacked
<1>1. ASSUME NEW q \in Server, InsertMediaRef(q), backend = "gcs"
      PROVE  Lifecycle!Next \/ UNCHANGED Lifecycle!vars
  <2>1. Cap(q) \in Capture /\ UNCHANGED <<backend, object>> /\ Announced' = Announced
    BY <1>0, <1>1, CapType DEF InsertMediaRef, Announced
  <2>k. PICK k \in Capture : k = Cap(q)
    BY <2>1
  <2>2. CASE ref[Cap(q)] = "none" /\ ref' = [ref EXCEPT ![Cap(q)] = "pending"]
    <3>1. Stage(k) = "new"
      BY <1>0, <2>k, <2>2 DEF Stage
    <3>2. Stage(k)' = "registered"
      BY <1>0, <2>k, <2>1, <2>2 DEF Stage
    <3>3. \A c \in Capture \ {k} : Stage(c)' = Stage(c)
      <4>1. \A c \in Capture \ {k} : ref'[c] = ref[c]
        BY <1>0, <2>k, <2>2
      <4> QED
        BY <1>0, <2>1, <4>1 DEF Stage, Status
    <3>4. Lifecycle!Register(k)
      BY <1>1, <2>k, <2>1, <3>1, <3>2, <3>3 DEF Lifecycle!Register, Lifecycle!Advance
    <3> QED
      BY <2>1, <3>4 DEF Lifecycle!Next
  <2>3. CASE UNCHANGED ref
    BY <2>1, <2>3, LifecycleStutter
  <2> QED
    BY <1>1, <2>2, <2>3 DEF InsertMediaRef
<1>2. ASSUME NEW c \in Capture, PutFrame(c), backend = "gcs"
      PROVE  Lifecycle!Next
  <2>1. /\ UNCHANGED <<backend, ref, events>> /\ object' = [object EXCEPT ![c] = "full"] /\ ref[c] # "none"
    BY <1>0, <1>2 DEF PutFrame, tableVars
  <2>2. /\ \A d \in Capture : Stage(d)' = Stage(d)
        /\ Stage(c) # "new"
    BY <1>0, <2>1 DEF Stage, Announced, Status
  <2>3. Lifecycle!Store(c)
    BY <1>0, <1>2, <2>1, <2>2 DEF Lifecycle!Store
  <2> QED
    BY <2>3 DEF Lifecycle!Next
<1>3. ASSUME NEW q \in Server, MarkUploaded(q), backend = "gcs"
      PROVE  Lifecycle!Next \/ UNCHANGED Lifecycle!vars
  <2>1. /\ Cap(q) \in Capture /\ UNCHANGED <<backend, object>> /\ Announced' = Announced
        /\ object[Cap(q)] = "full" /\ ref[Cap(q)] # "none"
    BY <1>0, <1>3, CapType DEF MarkUploaded, Announced, HandlerKnows, Found
  <2>k. PICK k \in Capture : k = Cap(q)
    BY <2>1
  <2>2. CASE ref[Cap(q)] = "pending" /\ ref' = [ref EXCEPT ![Cap(q)] = "uploaded"]
    <3>1. Stage(k) = "registered"
      BY <1>0, <2>k, <2>2 DEF Stage
    <3>2. Stage(k)' = "confirmed"
      BY <1>0, <2>k, <2>1, <2>2 DEF Stage
    <3>3. \A c \in Capture \ {k} : Stage(c)' = Stage(c)
      <4>1. \A c \in Capture \ {k} : ref'[c] = ref[c]
        BY <1>0, <2>k, <2>2
      <4> QED
        BY <1>0, <2>1, <4>1 DEF Stage, Status
    <3>4. Lifecycle!Confirm(k)
      BY <1>3, <2>k, <2>1, <3>1, <3>2, <3>3 DEF Lifecycle!Confirm, Lifecycle!Advance
    <3> QED
      BY <2>1, <3>4 DEF Lifecycle!Next
  <2>3. CASE UNCHANGED ref
    BY <2>1, <2>3, LifecycleStutter
  <2>4. CASE ref[Cap(q)] = "uploaded" /\ ref' = [ref EXCEPT ![Cap(q)] = "uploaded"]
    <3>1. ref' = ref
      BY <1>0, <2>4
    <3> QED
      BY <2>1, <3>1, LifecycleStutter
  <2> QED
    BY <1>0, <1>3, <2>1, <2>2, <2>3, <2>4 DEF MarkUploaded, Status
<1>4. ASSUME NEW q \in Server, EnqueueUploaded(q), backend = "gcs"
      PROVE  Lifecycle!Next \/ UNCHANGED Lifecycle!vars
  <2>1. /\ Cap(q) \in Capture /\ UNCHANGED <<backend, ref, object>> /\ ref[Cap(q)] = "uploaded"
    BY <1>0, <1>4, CapType DEF EnqueueUploaded, HandlerKnows, tableVars
  <2>k. PICK k \in Capture : k = Cap(q)
    BY <2>1
  <2>2. Announced' = Announced \/ Announced' = Announced \cup {Cap(q)}
    <3>1. CASE events' = Append(events, Cap(q))
      BY <1>0, <2>1, <3>1, AnnouncedGrows
    <3>2. CASE events' = events
      BY <3>2 DEF Announced
    <3> QED
      BY <1>4, <3>1, <3>2 DEF EnqueueUploaded
  <2>3. CASE Announced' = Announced
    BY <2>1, <2>3, LifecycleStutter
  <2>4. CASE Announced' = Announced \cup {Cap(q)} /\ Cap(q) \notin Announced
    <3>1. Stage(k) = "confirmed"
      BY <2>k, <2>1, <2>4 DEF Stage
    <3>2. Stage(k)' = "announced"
      BY <2>k, <2>1, <2>4 DEF Stage
    <3>3. \A c \in Capture \ {k} : Stage(c)' = Stage(c)
      <4>1. \A c \in Capture \ {k} : c \in Announced' <=> c \in Announced
        BY <2>k, <2>4
      <4> QED
        BY <1>0, <2>1, <4>1 DEF Stage, Status
    <3>4. Lifecycle!Announce(k)
      BY <1>4, <2>k, <2>1, <3>1, <3>2, <3>3 DEF Lifecycle!Announce, Lifecycle!Advance
    <3> QED
      BY <2>1, <3>4 DEF Lifecycle!Next
  <2>5. CASE Announced' = Announced \cup {Cap(q)} /\ Cap(q) \in Announced
    BY <2>3, <2>5
  <2> QED
    BY <2>2, <2>3, <2>4, <2>5
<1>5. ASSUME NEW q \in Server, NEW c \in Capture,
             \/ UploadUrl(q, c) \/ Complete(q, c) \/ EnsureSession(q) \/ SignedUploadURL(q)
             \/ InsertCaptureSnapshot(q) \/ GetCapture(q) \/ CheckObject(q) \/ ApiCrash(q)
      PROVE  UNCHANGED Lifecycle!vars
  <2>1. UNCHANGED <<backend, ref, object, events>>
    BY <1>5 DEF UploadUrl, Complete, Receive, EnsureSession, SignedUploadURL,
                InsertCaptureSnapshot, GetCapture, CheckObject, ApiCrash, tableVars
  <2>2. Announced' = Announced
    BY <2>1 DEF Announced
  <2> QED
    BY <2>1, <2>2, LifecycleStutter
<1>6. ASSUME NEW c \in Capture, LocalUpload(c)
      PROVE  UNCHANGED Lifecycle!vars
  BY <1>6, LifecycleLocal DEF LocalUpload
<1>7. backend' = backend
  BY DEF UploadNext, UploadUrl, Complete, Receive, ApiStep, EnsureSession, SignedUploadURL,
         InsertCaptureSnapshot, InsertMediaRef, GetCapture, CheckObject, MarkUploaded,
         EnqueueUploaded, ApiCrash, PutFrame, LocalUpload, tableVars
<1>8. CASE backend # "gcs"
  BY <1>7, <1>8, LifecycleLocal
<1>9. CASE backend = "gcs"
  <2>1. CASE \E q \in Server, c \in Capture : UploadUrl(q, c) \/ Complete(q, c)
    BY <1>5, <2>1
  <2>2. CASE \E c \in Capture : PutFrame(c) \/ LocalUpload(c)
    BY <1>2, <1>6, <1>9, <2>2
  <2>3. CASE \E q \in Server : ApiStep(q) \/ ApiCrash(q)
    <3>1. PICK q \in Server : ApiStep(q) \/ ApiCrash(q)
      BY <2>3
    <3>2. \E c \in Capture : c = Cap(q)
      <4>1. api[q].pc # "idle"
        <5>1. api[q] \in Request
          BY <1>0
        <5> QED
          BY <3>1, <5>1 DEF ApiStep, ApiCrash, EnsureSession, SignedUploadURL, InsertCaptureSnapshot,
             InsertMediaRef, GetCapture, CheckObject, MarkUploaded, EnqueueUploaded, Request, ApiPc
      <4> QED
        BY <1>0, <4>1, CapType
    <3> QED
      BY <1>1, <1>3, <1>4, <1>5, <1>9, <3>1, <3>2 DEF ApiStep
  <2> QED
    BY <2>1, <2>2, <2>3 DEF UploadNext
<1> QED
  BY <1>8, <1>9

(* The refinement that ImplementsLifecycle states, for every number of     *)
(* captures and concurrent requests and every failure: with Cloud Storage  *)
(* the handlers of internal/media register, confirm and announce a capture *)
(* in this order, and confirm only what is stored.                         *)
THEOREM UploadImplementsLifecycle == UploadSpec => ImplementsLifecycle
<1>1. UploadInit => Lifecycle!Init
  BY LifecycleInit
<1>2. UploadInv /\ [UploadNext]_uploadVars => [Lifecycle!Next]_Lifecycle!vars
  <2>1. ASSUME UploadInv, UNCHANGED uploadVars
        PROVE  UNCHANGED Lifecycle!vars
    <3>1. UNCHANGED <<backend, ref, object>> /\ Announced' = Announced
      BY <2>1 DEF uploadVars, tableVars, Announced
    <3> QED
      BY <3>1, LifecycleStutter
  <2> QED
    BY <2>1, LifecycleStep
<1> QED
  BY <1>1, <1>2, UploadCorrect, PTL DEF UploadSpec, ImplementsLifecycle, Lifecycle!Spec
=============================================================================
