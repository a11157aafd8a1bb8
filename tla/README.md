# Reaction Engine: a TLA+ model

Reaction Engine watches the audience of an online talk from a Chrome extension
and tells the presenter, while the talk goes on, when the mood changes; after
the talk it mails a report. This directory holds TLA+ modules for its
distributed parts, the TLC configurations that check them, and proofs for
TLAPS. All paths are relative to the repository.

Contents: [the system](#the-system), [the modules](#the-modules),
[runs](#runs), [bounds](#bounds), [fairness](#fairness), [proofs](#proofs),
[where code and documents disagree](#where-code-and-documents-disagree),
[observations](#observations), [not modelled](#not-modelled),
[running it](#running-it).

## The system

```
extension --WebSocket--> gateway --Pub/Sub feature-events--> writer --> Postgres, JSONL on GCS
    |                     | | \__ Redis (windows, cooldown)                 |
    |                     | \____ Speech-to-Text, Vertex AI                 |
    |                     \______ session_end: Cloud Run jobs  <------------/
    |                                post-session-job -> pdf-renderer -> gmail-sender
    \--HTTP--> media-api --> GCS, Postgres --Pub/Sub media-uploaded--> image-analysis-worker --> Redis
```

| Component | State | Operations | Interacts with | What is hard | What makes it correct | Module |
|---|---|---|---|---|---|---|
| Gateway feedback path (`internal/gateway`) | per connection: context, `periodicOnce`, `periodicStop` | `ServeWS` read loop, `handleMoodWaveSample`, `runPeriodicFeedback` | Realtime Worker, Redis, the bus, the WebSocket | two goroutines per connection and several connections per session share the Redis keys; the peer leaves at any moment | feedback is rate limited; what was shown is stored; goroutines end with the connection | `RealtimeFeedback` |
| Realtime Worker (`internal/realtime`) | none of its own | `HandleTriggerWithGenerator`, `HandlePeriodicCheck` | Redis, LLM | check and set of the cooldown are apart, with the LLM call between | as above; no trace of feedback that was not accepted | `RealtimeFeedback` |
| Speech-to-Text streams (`internal/speech`, `forwardToSTT`) | `sttSessions`, result channel, two goroutines per stream | `Send`, `recvLoop`, `Close`, rotation, `consumeSTTResults` | gateway, Google STT, Redis, the bus | a stream that ended is only noticed at the next send or rotation; results are dropped at close; the channel is bounded | one running stream per speaker, results in order and complete while the stream lives, goroutines end | `SttStreams` |
| Redis state (`internal/redis`) | `feedback:cooldown`, `feedback:recent`, `trigger:recent`, `mood_wave:recent`, `transcript:recent`, `session:state`, baselines | one method per key | gateway, realtime, image analysis | expiry and trimming; a failed call may have been applied | windows hold what the code says they hold | the three around it |
| Feature event bus (`internal/pubsub`, `infra/modules/pubsub`) | messages, delivery attempts | `Enqueue`, push delivery, dead letter | gateway, writer | at-least-once, late acks | every message is acked or dead-lettered | `DurableWriter` |
| Durable Writer (`cmd/writer`, `internal/writer`) | Postgres rows by `event_id`, JSONL objects | `writeEvent` and its inserts and appends | bus, Postgres, GCS | a retry repeats steps already done; handlers run concurrently on several instances | an acked event is stored in full; rows are never behind lines | `DurableWriter` |
| JSONL store (`internal/writer/gcs_store.go`) | one object per file of a session, staging objects | `Append`, `ReadAll` | GCS | no append in GCS: stage, look up, copy or compose | append-only log | `JsonlAppend` |
| Post-session pipeline (`internal/postsessiontrigger`, `cmd/post-session-job`, `cmd/pdf-renderer`, `cmd/gmail-sender`) | `reports`, `report_deliveries`, one PDF object per session | `TriggerSessionEnd`, three jobs | gateway, Postgres, GCS, Gmail | two pipelines of one session; jobs are not retried; the gateway dies between two jobs | each recipient gets the report of their session end | `PostSession` |
| Media API (`internal/media`) | `capture_snapshots`, `media_refs`, objects | upload-url, PUT, complete | extension, GCS, Postgres, bus | calls repeated, reordered or missing; every call may fail | a confirmed frame has its bytes, an accepted one is announced | `MediaUpload` |
| Image Analysis Worker (`internal/imageanalysis`) | `participant_baselines`, `visual_summaries`, Redis baseline | `ProcessMediaUploaded` | bus, GCS, Postgres, Redis | redelivery and overlap per participant over a read, modify, write | table and cache agree, nothing acked is missing | `ImageAnalysis` |
| Local bus and store (`internal/db`, `internal/writer/local_store.go`) | `local_events` rows, local files | `FetchUnacked`, `MarkAcked`, `Append` | writer | a poison batch; torn lines | as for the deployed ones | none |
| Report content (`internal/postsession/report.go`, `internal/realtime/window.go`) | none | `BuildReport`, `BuildWindow` | post-session-job, realtime | empty and border windows | equals a reference definition | none |
| Chrome extension (`extension/src`) | `sessionId`, `pendingTrigger`, capture state | trigger detection, evidence upload, sample sender | gateway, media-api | awaits between detecting and sending a trigger | a detected trigger is sent once | none |
| LLM adapters, PDF, mail | none | HTTP calls, layout | | | | none |
| Infrastructure (`infra`, `backend/migrations`) | | | | | the settings the other rows rest on | as constants |

The hazards this list leads to are in `PROJECT.json`, each at its line, with
the properties that cover it.

## The modules

In each module one action is one call that touches something other processes
can touch; what lies between two such calls is one step. A failed call is
allowed to have taken effect wherever the service may report an error after
applying it.

### RealtimeFeedback, FeedbackLimiter

One session, any number of connections that carry it. Each connection has two
goroutines (`Actor`): the read loop of `ServeWS` and the ticker of
`runPeriodicFeedback`.

| Model | Code |
|---|---|
| `conn`, `Connect`, `Disconnect`, `ReadFails`, `Crash` | `ServeWS`; its context ends only when it returns (the connection is hijacked) |
| `pc`, `req` | where each pipeline is, and its local variables |
| `ReceiveSample` | `handleMoodWaveSample` up to the worker: three best-effort stores, the ticker's `sync.Once` |
| `CheckCooldown`, `BuildEvidencePack`, `Generate`, `SetCooldown`, `StoreRecentFeedback` | `HandleTriggerWithGenerator` and `HandlePeriodicCheck`, call by call |
| `WriteFeedback`, `PublishFeedback` | `wsjson.Write`, then `Enqueue`; after a failed write the read loop goes on, the ticker returns |
| `cooldownUntil`, `ExpiresAt`, `InCooldown` | `SET feedback:cooldown EX`; an error may come after the SET was applied |
| `recent`, `Trimmed` | the `feedback:recent` sorted set and `ZREMRANGEBYRANK` |
| `accepted`, `shown`, `bus` | history: what was accepted, reached Chrome, was published |

A sample's `t_ms` is taken to be the time of its arrival. The only content kept
of feedback is who emitted it, when, for which sample and message. The TTL that
all session keys share (`keyTTL`, hours) does not run out within the modelled
time.

`FeedbackLimiter` is the abstract specification: an emitter emits at most once
per `Period`. `RealtimeFeedback` implements it with the goroutines as emitters.
It does not implement it with the *session* as the emitter: see
[below](#where-code-and-documents-disagree).

### SttStreams

The transcript path of one WebSocket connection: the read loop, and per stream
the two goroutines `recvLoop` and `consumeSTTResults`.

| Model | Code |
|---|---|
| `sess`, `OpenStream`, `OpenFails`, `SendAudioFails` | `forwardToSTT` and `getOrCreateSTTStream`: open on first use, close and replace at `maxSTTStreamDuration`, drop after a failed `Send` |
| `StubChunk`, `acc` | the fabricated chunks when no recognizer is configured |
| `ReadFails`, `CancelContext` | the deferred close of every session's stream when `ServeWS` returns, then the end of the request context |
| `RecvResult`, `PushResult`, `DropResult`, `RecvEnds` | `recvLoop`: `Recv`, the `select` of the bounded channel and the context, `close(results)` |
| `TakeResult`, `StoreChunk`, `EnqueueChunk`, `ConsumerEnds` | `consumeSTTResults` and `persistTranscriptChunk` |
| `Trimmed`, `GetTranscriptWindow` | `StoreRecentTranscript` and the evidence pack's read, both by `t_start_ms` |
| `remote`, `RemoteEnds` | the recognizer's side of the gRPC stream (external) |

A final result is a number, in the order its stream heard them; the words are
not kept. Interim results change nothing here and are left out.

### JsonlAppend, AppendLog, DurableWriter

`JsonlAppend` is `GCSJSONLStore.Append`, one action per storage call, by any
number of concurrent callers. Each storage call is atomic, Compose included,
and a failed call may have been applied. `AppendLog` is what the `JSONLStore`
interface promises to callers that keep to one Append per file at a time, which
is what a comment in `gcs_store.go` counts on. The history variable
`contended` records the files that two Appends have met on, and the promise
ends there.

`DurableWriter` extends it with the push subscription (publish, deliver,
redeliver, dead-letter) and `writeEvent`: for each part of a payload
`EnsureSession`, the insert keyed by `event_id`, and the Append; the first
failing step answers 500. A `Writer` is one push handler in flight, on any
instance. Payload content is its `KindOf`, which determines its rows and lines.

### PostSession, ReportDelivery

One `Run` is one `session_end` message of the same session: the goroutine of
`TriggerSessionEnd` and the three jobs, one action per read or write of
something shared. The gateway may stop waiting at any time (its instance dies,
`op.Wait` fails); the job it had started runs to its end, and no further one is
started. Jobs are not retried (`max_retries = 0`). `generated_at` is taken from
one clock; that two job containers might disagree on the time is not modelled.
`ReportDelivery` is the abstract flow of `architecture.md`: report, PDF, mail,
each of the session end it belongs to. The history variable `crossed` records
the pipelines that ran beside another one before their mail; the flow's promise
is for the others.

### MediaUpload, CaptureLifecycle

The captures of one session, each a baseline frame of a participant or an
evidence frame. A `Server` is one HTTP request in flight.

| Model | Code |
|---|---|
| `UploadUrl`, `EnsureSession`, `SignedUploadURL`, `InsertCaptureSnapshot`, `InsertMediaRef` | `handleUploadURL`: two plain INSERTs without a transaction |
| `PutFrame`, `LocalUpload` | the client's PUT, to Cloud Storage (an object appears whole) or to `handleLocalUpload` (truncates, copies, removes on failure) |
| `Complete`, `GetCapture`, `CheckObject`, `MarkUploaded`, `EnqueueUploaded` | `handleUploadComplete`; every call publishes an event of its own |
| `snapshot`, `ref` | `upload_status` of the two rows |

Clients call in any order, repeatedly, and concurrently. The expiry of the
signed URL is left out: it only takes PUTs away. `CaptureLifecycle` is the
abstract promise: registered, its bytes confirmed, announced, in this order and
never back. It is claimed for Cloud Storage; the local endpoint truncates a
stored file in place, so a confirmed frame may lose its bytes there.

### ImageAnalysis

Extends `MediaUpload` with the push subscription that its events go to and
`ProcessMediaUploaded`, call by call: the purpose filter, the capture row and
the object, the baseline read, its recomputation and upsert, the summary
insert, the Redis pipeline. A `Worker` is one push handler in flight. A
baseline is a running average over attention scores; it depends on how often
each capture went into it, and is kept as that count. The history variables
`folded` and `overlapped` record the computations that were written and the
participants that two handlers were at work for at once.

### Operators named `Bug_...`

Each is a mistake the code could plausibly contain in place of the definition
after it. No action uses one. Putting it in place of that definition makes TLC
report the property that `PROJECT.json` pairs it with.

## Runs

| Run | Shows |
|---|---|
| `feedback` | spacing of feedback and no trace of unaccepted feedback, with Redis errors before or after effect; that `SpacingInv`, which the proof uses, holds; that feedback for a trigger, and feedback that was shown, is published when the bus does not fail; that the path implements `FeedbackLimiter` |
| `live` | a lost connection ends both its goroutines |
| `race` | the read loop and the ticker both pass the cooldown check: a disagreement |
| `transcripts` | a speaker's stream that is rotated, broken, refused and closed, with a channel that fills up: one running stream per speaker, results published in order and without a gap, none lost of a stream that was not closed, the cache serves the evidence window, and the goroutines of a stream end |
| `silence` | what was said after a silence is not in the evidence window: a disagreement |
| `writer` | with every kind of failure and any overlap: acked events have all their rows, and all lines of the files whose Appends kept apart; parts are stored in order; lines are never ahead of rows; copies of a line are bounded by deliveries; each file implements `AppendLog` |
| `writer_live` | every published message leaves the subscription |
| `lost_line` | concurrent first appends lose a line: a disagreement |
| `pipelines` | two pipelines in every interleaving with every failure: reports are complete as of their session end, a mail follows a rendering, a path has an object, a sent delivery was sent; a pipeline that is not crossed implements `ReportDelivery` and, if nothing fails, gets its report mailed |
| `swapped_pdf` | crossed pipelines mail another report's PDF: a disagreement |
| `media` | two frames of one participant with two handlers: an acked event has its summary, its row and its cache entry; no computation of the average is lost, and table and cache agree, while handlers of the participant do not meet |
| `media_live` | a baseline and an evidence frame with every call failing and instances dying, on both stores: an event is backed by bytes and rows, an accepted frame is announced, an evidence frame never becomes a baseline, the Media API implements `CaptureLifecycle`, and an accepted baseline frame is analysed in the end |

All runs set `CHECK_DEADLOCK FALSE`: the clock, the messages, the requests and
the session ends of a run are bounded, so its behaviours stop.

## Bounds

- *Feedback.* One connection with both its goroutines: the properties are
  about pairs of pipelines, and the ticker and the read loop are such a pair. A
  cooldown of 2 and a clock to 3 give room for a feedback, its whole window and
  a second one after it, and an LLM call of 1 tick ends inside or after the
  window. `RecentMax = 1` makes the trim happen with two events. More
  connections are covered by the proofs. `live` needs no window, only a
  pipeline at each stage when the peer leaves.
- *Transcripts.* One speaker (speakers share nothing but the connection's end;
  the proofs cover any number), two streams, so that an old and a new one are at
  work together, and a channel of one slot, so that two results fill it. The
  cache keeps 3 ticks and a pack asks for 1, with a clock to 3: chunks are
  trimmed, and packs are built up to a tick late. `silence` needs a clock to 4.
- *Writer.* Two handlers are enough for each race of `Append` (one step of a
  pair each), and the two messages of `writer` share a file through the
  trigger's feedback part; its two attempts allow a retry and a duplicate.
  `writer_live` has one message and three attempts: messages wait for each
  other only through a free handler.
- *Post-session.* Two pipelines, crossed or one after the other. The event of
  `pipelines` is of the source read last, so it can arrive during every earlier
  read.
- *Media.* The requests for a frame take two, so four serve two frames, or one
  frame with a repeated call; two deliveries allow a retry and a duplicate. Two
  runs, because the two questions need different things: `media` looks at
  handlers of one participant meeting or not, with one upload server that
  only the database fails, and Cloud Storage; `media_live` has two upload
  servers that fail and die at each call, on either store, and one worker.

## Fairness

Weak fairness of a goroutine's or a handler's next step: the Go scheduler runs
what can run, and every call returns, the LLM's at its deadline, the others at
their client's. Strong fairness of `PeriodicStop`: Go's `select` picks a ready
case uniformly, so a closed `stop` that competes with ticks is picked at last.
Weak fairness of `CancelContext`: net/http cancels the context of a handler that
returned. Weak fairness of delivery and of the dead-letter step: Pub/Sub retries
until `max_delivery_attempts`. Cloud Run runs a started execution. Nothing
assumes that a peer disconnects, that a message, a request, audio or a
recognition result arrives, or that something fails.

## Proofs

The theorems hold for every number of connections, speakers, streams, handlers,
events, captures and session ends, every capacity, window and number of
attempts, and any combination of failures. They assume what the `ASSUME`s of the
modules say of the constants: flags are Booleans, durations and attempts are
positive, the evidence pack's window is no longer than the cache's (`Pack <=
Keep`), each event or capture has one of the known kinds, the files of
`DurableWriter` include the four it writes (`FileAssumption`), and the session
ends of `PostSession` are finitely many (`RunAssumption`), which its count of
clock readings needs. Each component's proofs are in a module of their own.

| Module | Inductive invariant | What follows |
|---|---|---|
| `RealtimeFeedbackProofs` | `SpacingInv`, `DurableInv` | types, the spacing properties, `OnlyAcceptedLeavesTrace`, `TriggerFeedbackDurable`, `ShownIsDurable`, `TwoPerWindow`, the documented spacing when no check overlaps a write, implements `FeedbackLimiter` |
| `SttStreamsProofs` | `SttInv` | types, `OneStreamPerSpeaker`, `LiveWithinSpeakers`, `PublishedInOrder`, `ResultsKept`, `WindowServed` |
| `JsonlAppendProofs` | `StoreInv` | implements `AppendLog`, file by file; `[][OneLineAtATime]`; `ReturnedIsReadable` while nobody contends |
| `DurableWriterProofs` | `WriterInv`, `BudgetInv` | types, `AckedHasLines`, `AckedHasRows`, `LineHasRow`, `PartsInOrder`, `LinesWithinAttempts`, the theorems of the store carried over, and no lost line with one handler |
| `PostSessionProofs` | `PostInv` | types, the five safety properties of `pipelines`, `DeliveryIsOfItsReport` when none crosses another, implements `ReportDelivery` |
| `MediaUploadProofs` | `UploadInv` | `EventIsBacked`, `AcceptedHasEvent`, implements `CaptureLifecycle` |
| `ImageAnalysisProofs` | `WorkerInv`, `CountInv` | types, `AckedIsRecorded`, `ReadyIsBacked`, `CountsEveryRun`, `CacheIsCurrent`, both for everyone with one handler; the theorems of the Media API carried over |

Hardly any of the properties is inductive. They speak of what has been written,
and a write is right because of what its process learned several calls before.
The invariants add that knowledge:

- *Spacing.* `KeyCoversWindows`: the cooldown key lives at least as long as the
  window of every accepted feedback, so a check that finds no key is past them
  all. It survives a write that was applied and reported as failed, which only
  extends the key. `DecidingPastWindows`: a pipeline between its check and its
  write knows of `base` feedback events whose windows are over, and all its
  goroutine's own feedback is among them; others may append meanwhile, but never
  in its name. `EmittingOwns`, `BaseIsEarlier`: a pipeline that emits owns an
  accepted feedback, which was checked against earlier ones only. `StepShape`
  says each step is *quiet* or *accepts* one feedback; the refinement follows
  because the second kind is an `Emit` and the first an `Advance` or a stutter.
- *Durability.* `LoopEndsWithConn`: a read loop is done before its connection's
  context is cancelled, so it never enqueues under a cancelled one.
  `ShownByWrite`: a ticker that gives up on a failed write drops feedback that
  nobody has seen. `StepHandles` says how a pipeline may let go of its feedback.
- *Streams.* `InOrder` accounts for every final result of a stream: published, in
  the consumer's hands, in the channel, in `recvLoop`'s hands, one after the
  other and without a gap; only a close breaks the sum. `Retained`: the cache
  holds every chunk that started less than `Keep` ticks ago. A trim relative to
  the end of one chunk removes no later starts, because no chunk ends after now.
- *Store.* `AppendKnows`: an Append that is alone on its file knows whether the
  object exists and that its staged line is there. The refinement maps the
  object's change at Copy or Compose to the log's append.
- *Writer.* `TaskKnows`: at each step of `writeEvent` the handler knows which
  parts before it are stored, whatever earlier deliveries of the event have done.
  `DurableWriter` only takes steps that `JsonlAppend` is specified for
  (`WriterUsesStore`), so the store's theorems apply to it.
- *Copies.* `BudgetInv`: of each file and event, the copies of the line and the
  handlers that still owe it (`Owes`) are together no more than the deliveries.
  A delivery is counted before its handler owes anything; an applied copy or
  compose turns what is owed into a copy, whatever its caller is told; a crash
  or an error forgives it. It holds of contended files too.
- *Pipelines.* `StampInv`: the clock counts the pipelines that have read it, so
  stamps are distinct. `CoverInv`: what a job has read of what was stored at its
  session end. `RenderInv`, `MailInv`: what stands behind a path and a delivery.
  `AloneInv`: a pipeline that no other has crossed is the only busy one, its
  report is the latest, and the PDF is of it; this is the part that the
  refinement of `ReportDelivery` rests on.
- *Captures.* `HandlerKnows`: what each request has seen by each call. The worker
  leaves the API's variables alone, so the composition implements the API's
  specification (`SpecImpliesUploadSpec`) and its theorems carry over.
- *Baselines.* `CountInv`: of a participant whose handlers have never met, one
  handler at most is at work, on a pending event, and what it read of the
  baseline is still there when it writes.

Three of the documented claims that a run refutes (below) are proved under the
condition that the code relies on without enforcing it:
`OutsideCooldownWithoutOverlap` (each feedback was checked after the previous one
was accepted), `OneHandlerLosesNoLine` (one push handler at a time, which is more
than one instance), `UncrossedSessionDelivers` (no two pipelines of a session run
beside each other). `OneHandlerCountsEveryRun` does the same for the unlocked
read, modify, write of the image worker. `TwoPerWindowHolds` and
`LiveWithinSpeakersHolds` bound what remains without any such condition: two
feedback events per connection and cooldown, one recognizer call per speaker.
The latter two count with the finite-set theorems, from an injection (live
streams to their speakers) and from the two goroutines that a window can hold
one feedback of each.

Every safety property of a passing run is a theorem. Only model-checked:
liveness (`DisconnectReleases`, `StreamsEnd`, `Settles`, `CompleteIsProcessed`,
`RecipientGetsReport`), which rests on fairness and ENABLED and is outside the
prover's reach. The conditions of the theorems above are met by reachable
states: the passing runs reach uncontended, uncrossed and non-overlapping ones.

## Where code and documents disagree

| Run | Document | Code |
|---|---|---|
| `race` | `backend/internal/realtime/realtime.go:108-110`, `redis/client.go:412-414`: no feedback within the cooldown of the last | the check and the write are two calls with the LLM call between: the ticker and the read loop both pass. What does hold is one per goroutine and window |
| `lost_line` | `backend/internal/writer/store.go:21`: `ReadAll` returns every line appended; `gcs_store.go:28-29`: `max_instance_count=1` makes Append safe | `infra/environments/prod/main.tf:423` runs up to 5 instances, and handlers run concurrently within one: two first Appends both copy, and the second copy replaces the first |
| `swapped_pdf` | `backend/cmd/gmail-sender/README.md:8-11`: the latest report's PDF is sent, its delivery recorded | one PDF object per session, fetched after the look-up of the path |
| `silence` | `realtime.go:180`: the pack holds "the same-window transcript"; `gateway.go:442-444`: the times are only needed for the window filter; `redis/client.go:25`: a 10 s margin beyond the window | a chunk starts where the previous result ended and the window is by `t_start_ms`: the first words after a silence longer than the window are not in the pack that they are about. What does hold, `WindowServed`, is that nothing is missing that *starts* in the window |

## Observations

Met while modelling; none of them breaks a property that the modules claim.

- A capture whose `InsertMediaRef` failed (`media/server.go:101`) can neither be
  registered again, because `capture_id` is the primary key of
  `capture_snapshots` and the retry answers 500, nor be completed: the answer is
  404 "call upload-url first" (`server.go:230`).
- A redelivered `media_uploaded` counts its frame twice in the baseline, while
  `plan/backend-local-docker-runbook.md:896` asks for idempotent workers and
  `plan/gcp-adapter-migration-phase14.md:180` for upserts that do not change the
  result. `CountsEveryRun` claims one count per *run* of the computation.
- Two handlers of one participant lose an update of the running average, and may
  leave an older baseline in Redis than in the table.
- A redelivered mood-wave sample is appended again, and its line carries no
  `event_id` to recognise it by, against `backend/README.md:268`;
  `architecture.md:638` asks for idempotence by `event_id`.
- `trigger:recent` is said to hold the most recently *accepted* trigger
  (`redis/client.go:324`), and is written before the cooldown is consulted.
  Nothing reads it.
- Of two overlapping pipelines, gmail-sender may look up the newer report, find no
  `pdf_path`, and send nothing although its own report was rendered; the comment
  at `postsession/store.go:305-306` takes this to mean that pdf-renderer has not
  run.
- After a rotation the old stream's last chunks may be persisted after the new
  stream's first one. Each stream is in order; the speaker is not.
- `recvLoop` records the end of a stream as an error also when it is a clean EOF,
  which the comment at `speech/stream.go:59-61` excludes.

## Not modelled

- The local bus and the local JSONL store: docker compose only, one process of
  each consumer that polls a table and appends to files in place.
- The content of evidence packs, prompts, feedback, reports and PDFs, `BuildWindow`
  and `BuildReport`: pure functions over floating-point samples with unit tests of
  their own. The mood-wave window in Redis only feeds the first.
- The Chrome extension: face analysis, thresholds and drawing in the page. What
  reaches the backend from it, in whatever order and however often, is the input
  of the modules.
- LLM adapters, Gmail and its OAuth set-up tool: HTTP calls, whose outcomes are
  choices in the modules that make them. Migrations and Terraform, other than the
  settings named above.
- That a report can be built before Durable Writer has stored the session's last
  events: `PostSession` lets events be stored at any time and claims only what was
  stored at the session end.
- Messages that do not decode: a malformed payload is acked and a malformed
  envelope is answered 400, both before anything is stored.
- A storage write that takes effect after the process that issued it has died.

## Running it

```
tlc -config MCRealtimeFeedback_feedback.cfg MCRealtimeFeedback.tla
tlapm RealtimeFeedbackProofs.tla
```
Each run's module, configuration and properties are in `PROJECT.json`. The
proofs take a minute or less per module; `media`, `pipelines` and `media_live`
are the largest runs.
