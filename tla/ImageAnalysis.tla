--------------------------- MODULE ImageAnalysis ---------------------------
(***************************************************************************)
(* The Image Analysis Worker behind the media-analysis-events push         *)
(* subscription, composed with the Media API that publishes to it: per     *)
(* delivery the steps of ProcessMediaUploaded over the capture rows, the   *)
(* participant_baselines and visual_summaries tables, and the baseline     *)
(* keys in Redis.  A Worker is one push handler in flight.                 *)
(*                                                                         *)
(* A baseline is a running average over attention scores: what it depends  *)
(* on is how often each capture went into it, so it is kept as that count. *)
(***************************************************************************)
EXTENDS MediaUpload

CONSTANTS
  Worker,       \* push handlers in flight
  MaxAttempts,  \* max_delivery_attempts
  RedisMayFail, \* a Redis call may fail
  AckMayBeLost  \* a 200 may miss the ack deadline

ASSUME AnalysisFlagsAssumption == {RedisMayFail, AckMayBeLost} \subseteq BOOLEAN
ASSUME AttemptsAssumption == MaxAttempts \in Nat \ {0}

VARIABLES
  sub,        \* pending, acked or dead: the subscription's view of each event
  attempts,   \* deliveries of each event
  task,       \* what each push handler is doing
  baseline,   \* participant_baselines: captures counted per participant
  summaries,  \* visual_summaries: captures that have a row
  cache,      \* session:baseline_*: the frame and the baseline cached
  folded,     \* computeBaseline results written, per capture (history)
  overlapped  \* participants that had two handlers at work at once (history)

analysisVars == <<sub, attempts, task, baseline, summaries, cache, folded, overlapped>>
vars == <<uploadVars, analysisVars>>

EventNo == 1 .. MaxRequests
Participant == Audience \cup {Evidence}  \* an evidence frame has no audience_id
Count == [Capture -> Nat]
NoRow == [c \in Capture |-> 0]
NotReady == [frame |-> "none", counts |-> NoRow]
WorkPc == {"load", "read", "upsert", "summary", "cache", "respond"}
Idle == [pc |-> "idle", ev |-> 0, counts |-> NoRow, ok |-> FALSE]

Init ==
  /\ UploadInit
  /\ sub = [e \in EventNo |-> "pending"]
  /\ attempts = [e \in EventNo |-> 0]
  /\ task = [w \in Worker |-> Idle]
  /\ baseline = [a \in Participant |-> NoRow]
  /\ summaries = {}
  /\ cache = [a \in Participant |-> NotReady]
  /\ folded = NoRow
  /\ overlapped = {}

Frame(e) == events[e]
Who(e) == FrameOf[Frame(e)]
Busy(a) == \E w \in Worker : task[w] # Idle /\ Who(task[w].ev) = a

Step(w, pc) == task' = [task EXCEPT ![w].pc = pc]
Answer(w, ok) == task' = [task EXCEPT ![w] = [pc |-> "respond", ev |-> @.ev, counts |-> @.counts, ok |-> ok]]
-----------------------------------------------------------------------------
(* Only a baseline frame is processed; any other purpose is acked.         *)
Bug_AnyPurpose(e) == TRUE
IsBaselineFrame(e) == Who(e) # Evidence

Bug_NoDeadLetterPolicy(e) == TRUE
AttemptsLeft(e) == attempts[e] < MaxAttempts

Deliver(w, e) ==
  /\ e \in DOMAIN events /\ sub[e] = "pending"
  /\ AttemptsLeft(e)
  /\ task[w] = Idle
  /\ attempts' = [attempts EXCEPT ![e] = @ + 1]
  /\ task' = [task EXCEPT ![w] =
       [pc |-> IF IsBaselineFrame(e) THEN "load" ELSE "respond",
        ev |-> e, counts |-> NoRow, ok |-> ~IsBaselineFrame(e)]]
  /\ overlapped' = overlapped \cup {a \in {Who(e)} : Busy(a)}
  /\ UNCHANGED <<uploadVars, sub, baseline, summaries, cache, folded>>

DeadLetter(e) ==
  /\ e \in DOMAIN events /\ sub[e] = "pending"
  /\ ~AttemptsLeft(e)
  /\ \A w \in Worker : task[w].ev # e
  /\ sub' = [sub EXCEPT ![e] = "dead"]
  /\ UNCHANGED <<uploadVars, attempts, task, baseline, summaries, cache, folded, overlapped>>
-----------------------------------------------------------------------------
(* ProcessMediaUploaded. *)

Bug_RetriesInPlace(w) ==
  /\ task[w].pc = "load"
  /\ \/ Exists(Frame(task[w].ev)) /\ Step(w, "read")
     \/ (DbMayFail \/ MediaMayFail \/ ~Exists(Frame(task[w].ev))) /\ UNCHANGED task
  /\ UNCHANGED <<uploadVars, sub, attempts, baseline, summaries, cache, folded, overlapped>>

(* GetCaptureSnapshot, whose row never changes, and Exists. *)
LoadCapture(w) ==
  /\ task[w].pc = "load"
  /\ \/ Exists(Frame(task[w].ev)) /\ Step(w, "read")
     \/ (DbMayFail \/ MediaMayFail \/ ~Exists(Frame(task[w].ev))) /\ Answer(w, FALSE)
  /\ UNCHANGED <<uploadVars, sub, attempts, baseline, summaries, cache, folded, overlapped>>

Bug_StartsOver(prev, c) == [NoRow EXCEPT ![c] = 1]
computeBaseline(prev, c) == [prev EXCEPT ![c] = @ + 1]

GetParticipantBaseline(w) ==
  /\ task[w].pc = "read"
  /\ LET e == task[w].ev
         n == computeBaseline(baseline[Who(e)], Frame(e))
     IN  \/ task' = [task EXCEPT ![w] = [pc |-> "upsert", ev |-> e, counts |-> n, ok |-> FALSE]]
         \/ DbMayFail /\ Answer(w, FALSE)
  /\ UNCHANGED <<uploadVars, sub, attempts, baseline, summaries, cache, folded, overlapped>>

(* The row is replaced by what was computed from the earlier read. *)
UpsertParticipantBaseline(w) ==
  /\ task[w].pc = "upsert"
  /\ LET e == task[w].ev
     IN  \/ /\ baseline' = [baseline EXCEPT ![Who(e)] = task[w].counts]
            /\ folded' = [folded EXCEPT ![Frame(e)] = @ + 1]
            /\ Step(w, "summary") \/ (DbMayFail /\ Answer(w, FALSE))
         \/ /\ DbMayFail /\ Answer(w, FALSE)
            /\ UNCHANGED <<baseline, folded>>
  /\ UNCHANGED <<uploadVars, sub, attempts, summaries, cache, overlapped>>

Bug_InsertErrorIgnored(w) ==
  /\ task[w].pc = "summary"
  /\ summaries' \in {summaries \cup {Frame(task[w].ev)}} \cup (IF DbMayFail THEN {summaries} ELSE {})
  /\ Step(w, "cache")
  /\ UNCHANGED <<uploadVars, sub, attempts, baseline, cache, folded, overlapped>>

(* A plain INSERT: a redelivery adds a row with the same content. *)
InsertVisualSummary(w) ==
  /\ task[w].pc = "summary"
  /\ \/ /\ summaries' = summaries \cup {Frame(task[w].ev)}
        /\ Step(w, "cache") \/ (DbMayFail /\ Answer(w, FALSE))
     \/ /\ DbMayFail /\ Answer(w, FALSE)
        /\ UNCHANGED summaries
  /\ UNCHANGED <<uploadVars, sub, attempts, baseline, cache, folded, overlapped>>

Bug_CacheErrorIgnored(w) ==
  /\ task[w].pc = "cache"
  /\ \/ cache' = [cache EXCEPT ![Who(task[w].ev)] =
                    [frame |-> Frame(task[w].ev), counts |-> task[w].counts]]
     \/ RedisMayFail /\ UNCHANGED cache
  /\ Answer(w, TRUE)
  /\ UNCHANGED <<uploadVars, sub, attempts, baseline, summaries, folded, overlapped>>

(* One pipeline for every key of the participant. *)
SetBaselineReady(w) ==
  /\ task[w].pc = "cache"
  /\ \/ /\ cache' = [cache EXCEPT ![Who(task[w].ev)] =
                       [frame |-> Frame(task[w].ev), counts |-> task[w].counts]]
        /\ Answer(w, TRUE) \/ (RedisMayFail /\ Answer(w, FALSE))
     \/ /\ RedisMayFail /\ Answer(w, FALSE)
        /\ UNCHANGED cache
  /\ UNCHANGED <<uploadVars, sub, attempts, baseline, summaries, folded, overlapped>>

Respond(w) ==
  /\ task[w].pc = "respond"
  /\ \/ /\ task[w].ok
        /\ sub' = [sub EXCEPT ![task[w].ev] = IF @ = "pending" THEN "acked" ELSE @]
     \/ /\ ~task[w].ok \/ AckMayBeLost
        /\ UNCHANGED sub
  /\ task' = [task EXCEPT ![w] = Idle]
  /\ UNCHANGED <<uploadVars, attempts, baseline, summaries, cache, folded, overlapped>>

Crash(w) ==
  /\ MayCrash
  /\ task[w] # Idle
  /\ task' = [task EXCEPT ![w] = Idle]
  /\ UNCHANGED <<uploadVars, sub, attempts, baseline, summaries, cache, folded, overlapped>>

Process(w) ==
  \/ LoadCapture(w) \/ GetParticipantBaseline(w) \/ UpsertParticipantBaseline(w)
  \/ InsertVisualSummary(w) \/ SetBaselineReady(w) \/ Respond(w)

Next ==
  \/ UploadNext /\ UNCHANGED analysisVars
  \/ \E e \in EventNo : DeadLetter(e)
  \/ \E w \in Worker, e \in EventNo : Deliver(w, e)
  \/ \E w \in Worker : Process(w) \/ Crash(w)

Spec == Init /\ [][Next]_vars

(* Pub/Sub keeps delivering what is not acked, and a handler runs on. *)
Fairness ==
  /\ \A w \in Worker : WF_vars(Process(w))
  /\ \A e \in EventNo : WF_vars(\E w \in Worker : Deliver(w, e)) /\ WF_vars(DeadLetter(e))

FairSpec == Spec /\ Fairness
-----------------------------------------------------------------------------
TypeOK ==
  /\ UploadTypeOK
  /\ sub \in [EventNo -> {"pending", "acked", "dead"}]
  /\ attempts \in [EventNo -> 0 .. MaxAttempts]
  /\ DOMAIN task = Worker
  /\ \A w \in Worker :
       \/ task[w] = Idle
       \/ task[w].pc \in WorkPc /\ task[w].ev \in DOMAIN events /\ task[w].counts \in Count
  /\ baseline \in [Participant -> Count]
  /\ summaries \subseteq Capture
  /\ \A a \in Participant : cache[a].frame \in Capture \cup {"none"} /\ cache[a].counts \in Count
  /\ overlapped \subseteq Participant

EventsOf(a) == {e \in EventNo \cap DOMAIN events : Who(e) = a}

(* The worker acks an event only after all of its three writes: the frame  *)
(* of an acked event has a summary, and its participant is ready.          *)
AckedIsRecorded ==
  \A a \in Audience : \A e \in EventsOf(a) :
    sub[e] = "acked" => Frame(e) \in summaries /\ baseline[a] # NoRow /\ cache[a] # NotReady

(* The frame that the evidence pack takes for a participant's baseline     *)
(* (baseline_media_ref) is an uploaded frame of that participant with a    *)
(* summary, and it counts in the cached baseline; an evidence frame never  *)
(* becomes a baseline.                                                     *)
ReadyIsBacked ==
  \A a \in Participant : cache[a] # NotReady =>
    LET c == cache[a].frame
    IN  FrameOf[c] = a /\ a # Evidence /\ ref[c] = "uploaded" /\ c \in summaries /\ cache[a].counts[c] > 0

(* GetParticipantBaseline .. UpsertParticipantBaseline is a read, modify,  *)
(* write without a lock: as long as no two handlers of one participant     *)
(* meet, no result of computeBaseline is lost.                             *)
CountsEveryRun ==
  \A a \in Audience \ overlapped : \A c \in Capture :
    baseline[a][c] = IF FrameOf[c] = a THEN folded[c] ELSE 0

(* Table and cache are two writes: once every event of a participant is    *)
(* acked, and no two handlers of it met, they agree.                       *)
CacheIsCurrent ==
  \A a \in Audience \ overlapped :
    ~Busy(a) /\ (\A e \in EventsOf(a) : sub[e] = "acked") => cache[a].counts = baseline[a]

(* A client that was told its baseline frame is complete gets it analysed, *)
(* unless the subscription has given up on every event of the frame.       *)
CompleteIsProcessed ==
  \A c \in Capture :
    c \in accepted /\ FrameOf[c] # Evidence
      ~> c \in summaries \/ \E e \in DOMAIN events : Frame(e) = c /\ sub[e] = "dead"
=============================================================================
