---------------------------- MODULE MediaUpload ----------------------------
(***************************************************************************)
(* The Media API (internal/media): the upload-url and complete requests of *)
(* the captures of one session, each handled call by call -- Postgres, the *)
(* media store, the media-analysis-events topic -- and the PUT of the      *)
(* frame between them, to Cloud Storage or to the local endpoint.  A       *)
(* handler that fails answers 4xx or 5xx and leaves what it had written.   *)
(***************************************************************************)
EXTENDS Integers, Sequences, FiniteSets

CONSTANTS
  Capture,      \* capture_ids
  Audience,     \* participants
  FrameOf,      \* each capture: Evidence, or the baseline frame of whom
  Backends,     \* the MEDIA_STORE_BACKENDs to consider: gcs, local
  Server,       \* requests the Media API handles at a time
  DbMayFail,    \* a Postgres statement may fail
  MediaMayFail, \* a call to the media store may fail
  BusMayFail,   \* an Enqueue may fail
  MayCrash,     \* an instance may die
  MaxRequests   \* bound: requests received

ASSUME UploadFlagsAssumption ==
  {DbMayFail, MediaMayFail, BusMayFail, MayCrash} \subseteq BOOLEAN
ASSUME UploadBoundsAssumption == MaxRequests \in Nat

Evidence == "evidence"
ASSUME AudienceAssumption == Evidence \notin Audience
ASSUME FrameAssumption == FrameOf \in [Capture -> Audience \cup {Evidence}]
ASSUME BackendAssumption == Backends \subseteq {"gcs", "local"}

VARIABLES
  backend,    \* MEDIA_STORE_BACKEND of the deployment
  hasSession, \* the sessions row exists
  snapshot,   \* upload_status of the capture_snapshots row, none when absent
  ref,        \* upload_status of the media_refs row, none when absent
  object,     \* the stored frame: none, partial (a local file being written), full
  issued,     \* captures whose upload URL was given to the client
  api,        \* what each request handler is doing
  requests,   \* requests received
  accepted,   \* captures whose complete request was answered 200
  events      \* media_uploaded events published: the capture of each

tableVars == <<hasSession, snapshot, ref>>
uploadVars == <<backend, tableVars, object, issued, api, requests, accepted, events>>

ApiPc == {"session", "sign", "snapshot", "ref", "load", "exists", "mark", "enqueue"}
NoRequest == [pc |-> "idle", cap |-> "none"]
Request == [pc : ApiPc, cap : Capture] \cup {NoRequest}
Status == {"none", "pending", "uploaded"}

UploadInit ==
  /\ backend \in Backends
  /\ hasSession = FALSE
  /\ snapshot = [c \in Capture |-> "none"]
  /\ ref = [c \in Capture |-> "none"]
  /\ object = [c \in Capture |-> "none"]
  /\ issued = {}
  /\ api = [q \in Server |-> NoRequest]
  /\ requests = 0
  /\ accepted = {}
  /\ events = <<>>

Goto(q, pc) == api' = [api EXCEPT ![q].pc = pc]
Reply(q) == api' = [api EXCEPT ![q] = NoRequest]
Cap(q) == api[q].cap

Receive(q, c, pc) ==
  /\ api[q] = NoRequest
  /\ requests < MaxRequests
  /\ requests' = requests + 1
  /\ api' = [api EXCEPT ![q] = [pc |-> pc, cap |-> c]]
  /\ UNCHANGED <<backend, tableVars, object, issued, accepted, events>>
-----------------------------------------------------------------------------
(* handleUploadURL.  (A request that does not validate changes nothing.)   *)

UploadUrl(q, c) == Receive(q, c, "session")

EnsureSession(q) ==
  /\ api[q].pc = "session"
  /\ \/ hasSession' = TRUE /\ Goto(q, "sign")
     \/ DbMayFail /\ hasSession' \in {hasSession, TRUE} /\ Reply(q)
  /\ UNCHANGED <<backend, snapshot, ref, object, issued, requests, accepted, events>>

SignedUploadURL(q) ==
  /\ api[q].pc = "sign"
  /\ Goto(q, "snapshot") \/ (MediaMayFail /\ Reply(q))
  /\ UNCHANGED <<backend, tableVars, object, issued, requests, accepted, events>>

(* A plain INSERT on the primary key capture_id. *)
InsertCaptureSnapshot(q) ==
  /\ api[q].pc = "snapshot"
  /\ \/ /\ snapshot[Cap(q)] = "none"
        /\ snapshot' = [snapshot EXCEPT ![Cap(q)] = "pending"]
        /\ Goto(q, "ref") \/ (DbMayFail /\ Reply(q))
     \/ /\ DbMayFail \/ snapshot[Cap(q)] # "none"
        /\ UNCHANGED snapshot
        /\ Reply(q)
  /\ UNCHANGED <<backend, hasSession, ref, object, issued, requests, accepted, events>>

(* media_ref is unique, and names the capture.  On success the handler     *)
(* answers with the upload URL.                                            *)
InsertMediaRef(q) ==
  /\ api[q].pc = "ref"
  /\ \/ /\ ref[Cap(q)] = "none"
        /\ ref' = [ref EXCEPT ![Cap(q)] = "pending"]
        /\ issued' \in {issued \cup {Cap(q)}} \cup (IF DbMayFail THEN {issued} ELSE {})
     \/ /\ DbMayFail \/ ref[Cap(q)] # "none"
        /\ UNCHANGED <<ref, issued>>
  /\ Reply(q)
  /\ UNCHANGED <<backend, hasSession, snapshot, object, requests, accepted, events>>
-----------------------------------------------------------------------------
(* The client's PUT.  Cloud Storage shows an object once it is complete;   *)
(* handleLocalUpload truncates the file first and removes it when the copy *)
(* fails.                                                                  *)

PutFrame(c) ==
  /\ backend = "gcs" /\ c \in issued
  /\ object' = [object EXCEPT ![c] = "full"]
  /\ UNCHANGED <<backend, tableVars, issued, api, requests, accepted, events>>

LocalUpload(c) ==
  /\ backend = "local" /\ c \in issued
  /\ \/ object' = [object EXCEPT ![c] = "partial"]
     \/ object[c] = "partial" /\ object' \in {[object EXCEPT ![c] = "full"], [object EXCEPT ![c] = "none"]}
  /\ UNCHANGED <<backend, tableVars, issued, api, requests, accepted, events>>
-----------------------------------------------------------------------------
(* handleUploadComplete. *)

Complete(q, c) == Receive(q, c, "load")

(* GetCapture joins both rows: without either it is 404 "capture not       *)
(* found; call upload-url first".                                          *)
Found(c) == snapshot[c] # "none" /\ ref[c] # "none"
GetCapture(q) ==
  /\ api[q].pc = "load"
  /\ \/ Found(Cap(q)) /\ Goto(q, "exists")
     \/ (DbMayFail \/ ~Found(Cap(q))) /\ Reply(q)
  /\ UNCHANGED <<backend, tableVars, object, issued, requests, accepted, events>>

Bug_TrustsClient(c) == TRUE
Exists(c) == object[c] # "none"

CheckObject(q) ==
  /\ api[q].pc = "exists"
  /\ \/ Exists(Cap(q)) /\ Goto(q, "mark")
     \/ (MediaMayFail \/ ~Exists(Cap(q))) /\ Reply(q)
  /\ UNCHANGED <<backend, tableVars, object, issued, requests, accepted, events>>

Bug_NoTransaction(q) ==
  /\ api[q].pc = "mark"
  /\ snapshot' = [snapshot EXCEPT ![Cap(q)] = "uploaded"]
  /\ \/ ref' = [ref EXCEPT ![Cap(q)] = "uploaded"] /\ Goto(q, "enqueue")
     \/ DbMayFail /\ UNCHANGED ref /\ Reply(q)
  /\ UNCHANGED <<backend, hasSession, object, issued, requests, accepted, events>>

(* One transaction for both rows; an error may come after the commit. *)
MarkUploaded(q) ==
  /\ api[q].pc = "mark"
  /\ \/ /\ snapshot' = [snapshot EXCEPT ![Cap(q)] = "uploaded"]
        /\ ref' = [ref EXCEPT ![Cap(q)] = "uploaded"]
        /\ Goto(q, "enqueue") \/ (DbMayFail /\ Reply(q))
     \/ /\ DbMayFail
        /\ UNCHANGED <<snapshot, ref>>
        /\ Reply(q)
  /\ UNCHANGED <<backend, hasSession, object, issued, requests, accepted, events>>

Bug_EnqueueErrorLogged(q) ==
  /\ api[q].pc = "enqueue"
  /\ events' \in {Append(events, Cap(q))} \cup (IF BusMayFail THEN {events} ELSE {})
  /\ accepted' = accepted \cup {Cap(q)}
  /\ Reply(q)
  /\ UNCHANGED <<backend, tableVars, object, issued, requests>>

(* Every call publishes an event of its own, with a fresh event_id. *)
EnqueueUploaded(q) ==
  /\ api[q].pc = "enqueue"
  /\ \/ /\ events' = Append(events, Cap(q))
        /\ accepted' \in {accepted \cup {Cap(q)}} \cup (IF BusMayFail THEN {accepted} ELSE {})
     \/ /\ BusMayFail
        /\ UNCHANGED <<events, accepted>>
  /\ Reply(q)
  /\ UNCHANGED <<backend, tableVars, object, issued, requests>>
-----------------------------------------------------------------------------
ApiCrash(q) ==
  /\ MayCrash
  /\ api[q] # NoRequest
  /\ Reply(q)
  /\ UNCHANGED <<backend, tableVars, object, issued, requests, accepted, events>>

ApiStep(q) ==
  \/ EnsureSession(q) \/ SignedUploadURL(q) \/ InsertCaptureSnapshot(q) \/ InsertMediaRef(q)
  \/ GetCapture(q) \/ CheckObject(q) \/ MarkUploaded(q) \/ EnqueueUploaded(q)

UploadNext ==
  \/ \E q \in Server, c \in Capture : UploadUrl(q, c) \/ Complete(q, c)
  \/ \E c \in Capture : PutFrame(c) \/ LocalUpload(c)
  \/ \E q \in Server : ApiStep(q) \/ ApiCrash(q)
-----------------------------------------------------------------------------
UploadTypeOK ==
  /\ backend \in Backends
  /\ hasSession \in BOOLEAN
  /\ snapshot \in [Capture -> Status] /\ ref \in [Capture -> Status]
  /\ object \in [Capture -> {"none", "partial", "full"}]
  /\ issued \subseteq Capture /\ accepted \subseteq Capture
  /\ api \in [Server -> Request]
  /\ requests \in 0..MaxRequests
  /\ events \in Seq(Capture)

Announced == {events[e] : e \in DOMAIN events}

(* handleUploadComplete: an event is published only for a frame whose      *)
(* bytes are stored and whose rows say so, and the two rows never disagree *)
(* (MarkUploaded is one transaction), whatever fails between the calls.    *)
EventIsBacked ==
  /\ \A c \in Announced : ref[c] = "uploaded" /\ (backend = "gcs" => object[c] = "full")
  /\ \A c \in Capture : snapshot[c] = "uploaded" <=> ref[c] = "uploaded"

(* A client that was told 200 by complete has its frame announced to the   *)
(* Image Analysis Worker.                                                  *)
AcceptedHasEvent == accepted \subseteq Announced

(* With Cloud Storage the Media API implements the life of a capture; of   *)
(* the local endpoint, which truncates a file in place, nothing is claimed.*)
Stage(c) ==
  IF c \in Announced THEN "announced"
  ELSE CASE ref[c] = "uploaded" -> "confirmed"
         [] ref[c] = "pending"  -> "registered"
         [] ref[c] = "none"     -> "new"
Lifecycle == INSTANCE CaptureLifecycle WITH
  stage <- [c \in Capture |-> IF backend = "gcs" THEN Stage(c) ELSE "new"],
  bytes <- {c \in Capture : backend = "gcs" /\ object[c] = "full"}
ImplementsLifecycle == Lifecycle!Spec
=============================================================================
