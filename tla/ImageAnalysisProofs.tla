------------------------ MODULE ImageAnalysisProofs ------------------------
(***************************************************************************)
(* What holds of the Image Analysis Worker behind its subscription, for    *)
(* every number of push handlers, events and delivery attempts: the types, *)
(* what an acknowledged event has left behind, what backs a cached         *)
(* baseline, and that no computation is lost while handlers do not meet.   *)
(***************************************************************************)
EXTENDS ImageAnalysis, MediaUploadProofs

Work == [pc : WorkPc, ev : EventNo, counts : Count, ok : BOOLEAN]
Cached == [frame : Capture \cup {"none"}, counts : Count]

WorkerType ==
  /\ sub \in [EventNo -> {"pending", "acked", "dead"}]
  /\ attempts \in [EventNo -> 0 .. MaxAttempts]
  /\ task \in [Worker -> Work \cup {Idle}]
  /\ \A w \in Worker : task[w] # Idle => task[w].ev \in DOMAIN events
  /\ \A e \in EventNo : sub[e] # "pending" => e \in DOMAIN events
  /\ baseline \in [Participant -> Count]
  /\ summaries \subseteq Capture
  /\ cache \in [Participant -> Cached]
  /\ folded \in Count
  /\ overlapped \subseteq Participant

Recorded(a, c) == c \in summaries /\ baseline[a] # NoRow /\ cache[a] # NotReady

(* What a push handler knows at each call of ProcessMediaUploaded. *)
WorkerKnows(w) ==
  task[w] # Idle =>
    /\ task[w].pc # "respond" => Who(task[w].ev) # Evidence
    /\ task[w].pc \in {"upsert", "summary", "cache"} => task[w].counts[Frame(task[w].ev)] > 0
    /\ task[w].pc \in {"summary", "cache"} => baseline[Who(task[w].ev)] # NoRow
    /\ task[w].pc = "cache" => Frame(task[w].ev) \in summaries
    /\ task[w].pc = "respond" /\ task[w].ok /\ Who(task[w].ev) # Evidence
         => Recorded(Who(task[w].ev), Frame(task[w].ev))

CacheBacked ==
  \A a \in Participant : cache[a] # NotReady =>
    /\ cache[a].frame \in Announced /\ FrameOf[cache[a].frame] = a /\ a # Evidence
    /\ cache[a].frame \in summaries /\ cache[a].counts[cache[a].frame] > 0

WorkerInv ==
  /\ UploadInv
  /\ WorkerType
  /\ \A w \in Worker : WorkerKnows(w)
  /\ AckedIsRecorded
  /\ CacheBacked
-----------------------------------------------------------------------------
(* The invariant states the properties of the runs. *)
LEMMA WorkerInvMeans == WorkerInv => TypeOK /\ AckedIsRecorded /\ ReadyIsBacked
<1> SUFFICES ASSUME WorkerInv PROVE TypeOK /\ AckedIsRecorded /\ ReadyIsBacked
  OBVIOUS
<1>1. TypeOK
  <2>1. \A w \in Worker : task[w] = Idle \/ (task[w].pc \in WorkPc /\ task[w].ev \in DOMAIN events /\ task[w].counts \in Count)
    BY DEF WorkerInv, WorkerType, Work
  <2>2. \A a \in Participant : cache[a].frame \in Capture \cup {"none"} /\ cache[a].counts \in Count
    BY DEF WorkerInv, WorkerType, Cached
  <2> QED
    BY <2>1, <2>2 DEF WorkerInv, WorkerType, UploadInv, TypeOK
<1>2. ReadyIsBacked
  BY DEF WorkerInv, UploadInv, EventIsBacked, CacheBacked, ReadyIsBacked
<1> QED
  BY <1>1, <1>2 DEF WorkerInv

(* The frame of an event is a capture, and belongs to one participant. *)
LEMMA FrameType ==
  ASSUME UploadTypeOK, NEW e \in DOMAIN events
  PROVE  Frame(e) \in Capture /\ Who(e) \in Participant /\ Frame(e) \in Announced
BY FrameAssumption DEF UploadTypeOK, Frame, Who, Participant, Announced

(* A handler at work has a task of its type. *)
LEMMA TaskType ==
  ASSUME UploadTypeOK, WorkerType, NEW w \in Worker, task[w] # Idle
  PROVE  /\ task[w] \in Work /\ task[w].pc \in WorkPc /\ task[w].ev \in EventNo /\ task[w].ev \in DOMAIN events
         /\ task[w].counts \in Count /\ task[w].ok \in BOOLEAN
         /\ Frame(task[w].ev) \in Capture /\ Who(task[w].ev) \in Participant
<1>1. task[w] \in Work /\ task[w].ev \in DOMAIN events
  BY DEF WorkerType
<1>2. Frame(task[w].ev) \in Capture /\ Who(task[w].ev) \in Participant
  BY <1>1, FrameType
<1> QED
  BY <1>1, <1>2 DEF Work

(* A task with its pc, its counts or its verdict changed is a task. *)
LEMMA TaskStep ==
  ASSUME task \in [Worker -> Work \cup {Idle}], NEW w \in Worker, task[w] \in Work,
         NEW p \in WorkPc, NEW n \in Count, NEW ok \in BOOLEAN,
         \/ n = task[w].counts /\ ok = task[w].ok /\ Step(w, p)
         \/ n = task[w].counts /\ p = "respond" /\ Answer(w, ok)
         \/ task' = [task EXCEPT ![w] = [pc |-> p, ev |-> task[w].ev, counts |-> n, ok |-> ok]]
  PROVE  /\ task' \in [Worker -> Work \cup {Idle}]
         /\ task'[w] = [pc |-> p, ev |-> task[w].ev, counts |-> n, ok |-> ok]
         /\ task'[w] # Idle /\ task'[w] \in Work
         /\ \A v \in Worker \ {w} : task'[v] = task[v]
<1> DEFINE t == [pc |-> p, ev |-> task[w].ev, counts |-> n, ok |-> ok]
<1>1. task[w] = [pc |-> task[w].pc, ev |-> task[w].ev, counts |-> task[w].counts, ok |-> task[w].ok]
  BY DEF Work
<1>2. t \in Work /\ t # Idle
  <2>1. t.pc # "idle" /\ Idle.pc = "idle"
    BY DEF WorkPc, Idle
  <2> QED
    BY <2>1 DEF Work
<1>3. task' = [task EXCEPT ![w] = t]
  <2>1. CASE n = task[w].counts /\ ok = task[w].ok /\ Step(w, p)
    <3>1. [task[w] EXCEPT !.pc = p] = t
      BY <1>1, <2>1
    <3> QED
      BY <2>1, <3>1 DEF Step
  <2>2. CASE n = task[w].counts /\ p = "respond" /\ Answer(w, ok)
    BY <1>1, <2>2 DEF Answer
  <2>3. CASE task' = [task EXCEPT ![w] = [pc |-> p, ev |-> task[w].ev, counts |-> n, ok |-> ok]]
    BY <2>3
  <2> QED
    BY <2>1, <2>2, <2>3
<1> QED
  BY <1>2, <1>3

(* What a handler knows stays true while events, summaries, rows and cache *)
(* entries are only added or replaced.                                     *)
Grows ==
  /\ \A e \in DOMAIN events : e \in DOMAIN events' /\ events'[e] = events[e]
  /\ summaries \subseteq summaries'
  /\ \A a \in Participant : /\ baseline[a] # NoRow => baseline'[a] # NoRow
                            /\ cache[a] # NotReady => cache'[a] # NotReady

(* The other handlers can rely on what they know while one of them works. *)
LEMMA WorkerKnowledgeLasts ==
  ASSUME UploadTypeOK, WorkerType, Grows, NEW w \in Worker, WorkerKnows(w), task'[w] = task[w]
  PROVE  WorkerKnows(w)'
<1>1. CASE task[w] = Idle
  BY <1>1 DEF WorkerKnows, Idle, NoRow
<1>2. CASE task[w] # Idle
  <2>1. PICK e \in DOMAIN events : e = task[w].ev /\ e = task'[w].ev
    BY <1>2, TaskType
  <2>2. Frame(e)' = Frame(e) /\ Who(e)' = Who(e) /\ Who(e) \in Participant
    BY <2>1, FrameType DEF Grows, Frame, Who
  <2>3. Recorded(Who(e), Frame(e)) => Recorded(Who(e), Frame(e))'
    BY <2>2 DEF Grows, Recorded
  <2>4. /\ baseline[Who(e)] # NoRow => baseline'[Who(e)'] # NoRow
        /\ Frame(e) \in summaries => Frame(e)' \in summaries'
    BY <2>2 DEF Grows
  <2>5. Frame(task[w].ev)' = Frame(e) /\ Who(task[w].ev)' = Who(e)
    BY <2>1, <2>2 DEF Frame, Who
  <2> QED
    BY <2>1, <2>2, <2>3, <2>4, <2>5 DEF WorkerKnows, NoRow, Recorded
<1> QED
  BY <1>1, <1>2

(* What is acknowledged, and what backs a cached baseline, stays so when   *)
(* nothing but the events, the summaries and the rows grow.                *)
LEMMA RecordsLast ==
  ASSUME UploadTypeOK, WorkerType, Grows, AckedIsRecorded,
         \A e \in EventNo : sub'[e] = "acked" => sub[e] = "acked"
  PROVE  AckedIsRecorded'
<1> SUFFICES ASSUME NEW a \in Audience, NEW e \in EventNo, e \in DOMAIN events', Who(e)' = a, sub'[e] = "acked"
             PROVE  Recorded(a, Frame(e))'
  BY DEF AckedIsRecorded, EventsOf, Recorded
<1>1. sub[e] = "acked" /\ e \in DOMAIN events
  BY DEF WorkerType
<1>2. Frame(e)' = Frame(e) /\ Who(e) = a
  BY <1>1 DEF Grows, Frame, Who
<1>3. Recorded(a, Frame(e))
  BY <1>1, <1>2 DEF AckedIsRecorded, EventsOf, Recorded
<1> QED
  BY <1>2, <1>3 DEF Grows, Recorded, Participant, NoRow, NotReady

(* The same of the frame behind a cached baseline. *)
LEMMA BackingLasts ==
  ASSUME CacheBacked, cache' = cache, Announced \subseteq Announced', summaries \subseteq summaries'
  PROVE  CacheBacked'
BY DEF CacheBacked, NotReady, NoRow

(* Every step of the Media API only adds events. *)
LEMMA EventsGrow ==
  ASSUME UploadInv, UploadNext
  PROVE  /\ \A e \in DOMAIN events : e \in DOMAIN events' /\ events'[e] = events[e]
         /\ Announced \subseteq Announced'
<1>1. CASE events' = events
  BY <1>1 DEF Announced
<1>2. ASSUME NEW q \in Server, EnqueueUploaded(q), events' # events
      PROVE  /\ \A e \in DOMAIN events : e \in DOMAIN events' /\ events'[e] = events[e]
             /\ Announced \subseteq Announced'
  <2>1. Cap(q) \in Capture /\ events' = Append(events, Cap(q)) /\ events \in Seq(Capture)
    BY <1>2, CapType DEF EnqueueUploaded, UploadInv, UploadTypeOK
  <2> QED
    BY <2>1, AnnouncedGrows
<1>3. events' = events \/ \E q \in Server : EnqueueUploaded(q)
  BY DEF UploadNext, UploadUrl, Complete, Receive, ApiStep, EnsureSession, SignedUploadURL,
         InsertCaptureSnapshot, InsertMediaRef, GetCapture, CheckObject, MarkUploaded,
         ApiCrash, PutFrame, LocalUpload
<1> QED
  BY <1>1, <1>2, <1>3

(* How a call of a handler leaves its task: at call p, with the same event. *)
At(w, p) ==
  /\ task' \in [Worker -> Work \cup {Idle}]
  /\ \A v \in Worker \ {w} : task'[v] = task[v]
  /\ task'[w] # Idle /\ task'[w].pc = p /\ task'[w].ev = task[w].ev

(* Step changes nothing but the call. *)
LEMMA Steps ==
  ASSUME UploadTypeOK, WorkerType, NEW w \in Worker, task[w] # Idle, NEW p \in WorkPc, Step(w, p)
  PROVE  At(w, p) /\ task'[w].counts = task[w].counts /\ task'[w].ok = task[w].ok
<1>1. task[w] \in Work
  BY TaskType
<1>2. PICK n \in Count, ok \in BOOLEAN : n = task[w].counts /\ ok = task[w].ok
  BY TaskType
<1>3. task \in [Worker -> Work \cup {Idle}]
  BY DEF WorkerType
<1>4. /\ task' \in [Worker -> Work \cup {Idle}]
      /\ task'[w] = [pc |-> p, ev |-> task[w].ev, counts |-> n, ok |-> ok]
      /\ task'[w] # Idle
      /\ \A v \in Worker \ {w} : task'[v] = task[v]
  BY <1>1, <1>2, <1>3, TaskStep
<1> QED
  BY <1>2, <1>4 DEF At

(* Answer also fixes the verdict. *)
LEMMA Answers ==
  ASSUME UploadTypeOK, WorkerType, NEW w \in Worker, task[w] # Idle, NEW ok \in BOOLEAN, Answer(w, ok)
  PROVE  At(w, "respond") /\ task'[w].counts = task[w].counts /\ task'[w].ok = ok
<1>1. task[w] \in Work
  BY TaskType
<1>2. PICK n \in Count : n = task[w].counts
  BY TaskType
<1>3. task \in [Worker -> Work \cup {Idle}]
  BY DEF WorkerType
<1>4. "respond" \in WorkPc
  BY DEF WorkPc
<1>5. /\ task' \in [Worker -> Work \cup {Idle}]
      /\ task'[w] = [pc |-> "respond", ev |-> task[w].ev, counts |-> n, ok |-> ok]
      /\ task'[w] # Idle
      /\ \A v \in Worker \ {w} : task'[v] = task[v]
  BY <1>1, <1>2, <1>3, <1>4, TaskStep
<1> QED
  BY <1>2, <1>5 DEF At

(* The counts of a baseline with one more frame in it. *)
LEMMA CountType ==
  ASSUME NEW n \in Count, NEW c \in Capture
  PROVE  computeBaseline(n, c) \in Count /\ computeBaseline(n, c)[c] > 0
BY DEF computeBaseline, Count

(* A row that counts a frame is a row, and a cache entry with it is ready. *)
LEMMA RowsDiffer ==
  ASSUME NEW n, NEW c \in Capture, n[c] > 0
  PROVE  n # NoRow /\ [frame |-> c, counts |-> n] # NotReady
<1>1. NoRow[c] = 0
  BY DEF NoRow
<1>2. n # NoRow
  BY <1>1
<1>3. NotReady.counts = NoRow /\ [frame |-> c, counts |-> n].counts = n
  BY DEF NotReady
<1> QED
  BY <1>2, <1>3
-----------------------------------------------------------------------------
(* The part of WorkerType that a call of a handler can disturb. *)
TablesType ==
  /\ sub \in [EventNo -> {"pending", "acked", "dead"}]
  /\ \A e \in EventNo : sub[e] # "pending" => e \in DOMAIN events
  /\ attempts \in [EventNo -> 0 .. MaxAttempts]
  /\ baseline \in [Participant -> Count]
  /\ summaries \subseteq Capture
  /\ cache \in [Participant -> Cached]
  /\ folded \in Count
  /\ overlapped \subseteq Participant

(* A step of one handler: what is left to show once the others are known   *)
(* to be undisturbed.                                                      *)
LEMMA HandlerStep ==
  ASSUME WorkerInv, UNCHANGED uploadVars, NEW w \in Worker,
         task' \in [Worker -> Work \cup {Idle}], \A v \in Worker \ {w} : task'[v] = task[v],
         task'[w] # Idle => task'[w].ev \in DOMAIN events,
         Grows, TablesType', WorkerKnows(w)', AckedIsRecorded', CacheBacked'
  PROVE  WorkerInv'
<1>1. UploadInv' /\ events' = events /\ UploadTypeOK /\ WorkerType
  BY UploadStutter DEF WorkerInv, UploadInv, uploadVars
<1>2. \A v \in Worker : WorkerKnows(v)'
  BY <1>1, WorkerKnowledgeLasts DEF WorkerInv
<1>3. \A v \in Worker : task'[v] # Idle => task'[v].ev \in DOMAIN events'
  BY <1>1 DEF WorkerType
<1>4. WorkerType'
  BY <1>3 DEF WorkerType, TablesType, Idle, NoRow
<1> QED
  BY <1>1, <1>2, <1>4 DEF WorkerInv

(* The invariant holds before the first delivery. *)
LEMMA WorkerInitInv == Init => WorkerInv
<1> SUFFICES ASSUME Init PROVE WorkerInv
  OBVIOUS
<1>1. UploadInv
  BY UploadInitInv DEF Init
<1>2. NoRow \in Count /\ 0 \in 0 .. MaxAttempts
  BY AttemptsAssumption DEF NoRow, Count
<1>3. \A w \in Worker : task[w] = Idle
  BY DEF Init
<1>4. NotReady \in Cached
  BY <1>2 DEF NotReady, Cached
<1>5. WorkerType
  BY <1>2, <1>3, <1>4 DEF Init, WorkerType
<1>6. \A a \in Participant : cache[a] = NotReady
  BY DEF Init
<1>7. \A e \in EventNo : sub[e] = "pending"
  BY DEF Init
<1> QED
  BY <1>1, <1>3, <1>5, <1>6, <1>7 DEF WorkerInv, WorkerKnows, AckedIsRecorded, EventsOf, CacheBacked

(* Every step of the Media API, of the subscription and of a push handler  *)
(* preserves it.                                                           *)
LEMMA WorkerStep ==
  ASSUME WorkerInv, Next
  PROVE  WorkerInv'
<1>0. /\ UploadInv /\ UploadTypeOK /\ WorkerType /\ TablesType
      /\ task \in [Worker -> Work \cup {Idle}]
      /\ AckedIsRecorded /\ CacheBacked /\ \A w \in Worker : WorkerKnows(w)
  BY DEF WorkerInv, UploadInv, WorkerType, TablesType
<1>1. CASE UploadNext /\ UNCHANGED analysisVars
  <2>1. UNCHANGED <<sub, attempts, task, baseline, summaries, cache, folded, overlapped>>
    BY <1>1 DEF analysisVars
  <2>2. UploadInv'
    BY <1>0, <1>1, UploadStep
  <2>3. Grows /\ Announced \subseteq Announced'
    BY <1>0, <1>1, <2>1, EventsGrow DEF Grows, NoRow, NotReady
  <2>4. WorkerType'
    BY <1>0, <2>1, <2>3 DEF WorkerType, Grows, Idle, NoRow
  <2>5. \A w \in Worker : WorkerKnows(w)'
    BY <1>0, <2>1, <2>3, WorkerKnowledgeLasts
  <2>6. AckedIsRecorded'
    BY <1>0, <2>1, <2>3, RecordsLast
  <2>7. CacheBacked'
    BY <1>0, <2>1, <2>3, BackingLasts
  <2> QED
    BY <2>2, <2>4, <2>5, <2>6, <2>7 DEF WorkerInv
<1>2. ASSUME NEW e \in EventNo, DeadLetter(e)
      PROVE  WorkerInv'
  <2>1. UNCHANGED <<attempts, task, baseline, summaries, cache, folded, overlapped>> /\ events' = events
    BY <1>2 DEF DeadLetter, uploadVars
  <2>2. UploadInv'
    BY <1>0, <1>2, UploadStutter DEF DeadLetter
  <2>3. Grows /\ Announced' = Announced
    BY <2>1 DEF Grows, Announced, NoRow, NotReady
  <2>4. /\ sub' \in [EventNo -> {"pending", "acked", "dead"}]
        /\ \A f \in EventNo : sub'[f] = "acked" => sub[f] = "acked"
        /\ \A f \in EventNo : sub'[f] # "pending" => f \in DOMAIN events
    BY <1>0, <1>2 DEF DeadLetter, TablesType
  <2>5. WorkerType'
    BY <1>0, <2>1, <2>4 DEF WorkerType, Idle, NoRow
  <2>6. \A w \in Worker : WorkerKnows(w)'
    BY <1>0, <2>1, <2>3, WorkerKnowledgeLasts
  <2>7. AckedIsRecorded' /\ CacheBacked'
    BY <1>0, <2>1, <2>3, <2>4, RecordsLast, BackingLasts
  <2> QED
    BY <2>2, <2>5, <2>6, <2>7 DEF WorkerInv
<1>3. ASSUME NEW w \in Worker, NEW e \in EventNo, Deliver(w, e)
      PROVE  WorkerInv'
  <2>1. /\ UNCHANGED uploadVars /\ UNCHANGED <<sub, baseline, summaries, cache, folded>> /\ events' = events
        /\ e \in DOMAIN events /\ task[w] = Idle
    BY <1>3 DEF Deliver, uploadVars
  <2>2. PICK t \in Work : /\ task' = [task EXCEPT ![w] = t] /\ t.ev = e
                          /\ t.pc = "load" \/ t.pc = "respond"
                          /\ t.pc = "load" <=> Who(e) # Evidence
    <3> DEFINE t == [pc |-> IF IsBaselineFrame(e) THEN "load" ELSE "respond",
                     ev |-> e, counts |-> NoRow, ok |-> ~IsBaselineFrame(e)]
    <3>1. t \in Work
      BY DEF Work, WorkPc, NoRow, Count
    <3>2. task' = [task EXCEPT ![w] = t]
      BY <1>3 DEF Deliver
    <3>3. t.ev = e /\ (t.pc = "load" \/ t.pc = "respond") /\ (t.pc = "load" <=> Who(e) # Evidence)
      BY DEF IsBaselineFrame
    <3> QED
      BY <3>1, <3>2, <3>3
  <2>3. /\ task' \in [Worker -> Work \cup {Idle}] /\ \A v \in Worker \ {w} : task'[v] = task[v]
        /\ task'[w] = t
    BY <1>0, <2>2
  <2>4. attempts' \in [EventNo -> 0 .. MaxAttempts]
    BY <1>0, <1>3, AttemptsAssumption DEF Deliver, AttemptsLeft, TablesType
  <2>5. Who(e) \in Participant
    BY <1>0, <2>1, FrameType
  <2>6. overlapped' \subseteq Participant
    BY <1>0, <1>3, <2>5 DEF Deliver, TablesType
  <2>7. Grows /\ TablesType' /\ Announced' = Announced
    BY <1>0, <2>1, <2>4, <2>6 DEF Grows, TablesType, Announced, NoRow, NotReady
  <2>8. WorkerKnows(w)'
    <3>1. Who(task[w].ev)' = Who(e)
      BY <2>1, <2>2, <2>3 DEF Frame, Who
    <3> QED
      BY <2>2, <2>3, <3>1 DEF WorkerKnows
  <2>9. AckedIsRecorded' /\ CacheBacked'
    BY <1>0, <2>1, <2>7, RecordsLast, BackingLasts
  <2> QED
    BY <2>1, <2>2, <2>3, <2>7, <2>8, <2>9, HandlerStep
<1>4. ASSUME NEW w \in Worker, LoadCapture(w)
      PROVE  WorkerInv'
  <2>1. /\ UNCHANGED uploadVars /\ UNCHANGED <<sub, attempts, baseline, summaries, cache, folded, overlapped>>
        /\ events' = events /\ task[w] # Idle /\ task[w].pc = "load"
    BY <1>4 DEF LoadCapture, uploadVars, Idle
  <2>2. At(w, "read") \/ (At(w, "respond") /\ ~task'[w].ok)
    BY <1>0, <1>4, <2>1, Steps, Answers DEF LoadCapture, WorkPc
  <2>3. Grows /\ TablesType' /\ Announced' = Announced
    BY <1>0, <2>1 DEF Grows, TablesType, Announced, NoRow, NotReady
  <2>4. Who(task[w].ev)' = Who(task[w].ev) /\ Frame(task[w].ev)' = Frame(task[w].ev)
    BY <2>1, <2>2 DEF At, Frame, Who
  <2>5. WorkerKnows(w)'
    BY <1>0, <2>1, <2>2, <2>4 DEF WorkerKnows, At
  <2>6. AckedIsRecorded' /\ CacheBacked'
    BY <1>0, <2>1, <2>3, RecordsLast, BackingLasts
  <2>7. task'[w] # Idle => task'[w].ev \in DOMAIN events
    BY <1>0, <2>1, <2>2, TaskType DEF At
  <2> QED
    BY <2>1, <2>2, <2>3, <2>5, <2>6, <2>7, HandlerStep DEF At
<1>5. ASSUME NEW w \in Worker, GetParticipantBaseline(w)
      PROVE  WorkerInv'
  <2>1. /\ UNCHANGED uploadVars /\ UNCHANGED <<sub, attempts, baseline, summaries, cache, folded, overlapped>>
        /\ events' = events /\ task[w] # Idle /\ task[w].pc = "read"
    BY <1>5 DEF GetParticipantBaseline, uploadVars, Idle
  <2>2. /\ Who(task[w].ev) # Evidence /\ Frame(task[w].ev) \in Capture /\ Who(task[w].ev) \in Participant
        /\ task[w].ev \in DOMAIN events /\ task[w].ev \in EventNo
    BY <1>0, <2>1, TaskType DEF WorkerKnows
  <2>3. \/ At(w, "upsert") /\ task'[w].counts[Frame(task[w].ev)] > 0
        \/ At(w, "respond") /\ ~task'[w].ok
    <3> DEFINE n == computeBaseline(baseline[Who(task[w].ev)], Frame(task[w].ev))
    <3>1. n \in Count /\ n[Frame(task[w].ev)] > 0
      BY <1>0, <2>2, CountType DEF TablesType
    <3>2. CASE task' = [task EXCEPT ![w] = [pc |-> "upsert", ev |-> task[w].ev, counts |-> n, ok |-> FALSE]]
      <4>1. [pc |-> "upsert", ev |-> task[w].ev, counts |-> n, ok |-> FALSE] \in Work
        BY <2>2, <3>1 DEF Work, WorkPc
      <4> HIDE DEF n
      <4> QED
        BY <1>0, <3>1, <3>2, <4>1 DEF At, Idle
    <3>3. CASE Answer(w, FALSE)
      BY <1>0, <2>1, <3>3, Answers
    <3> QED
      BY <1>5, <3>2, <3>3 DEF GetParticipantBaseline
  <2>4. Grows /\ TablesType' /\ Announced' = Announced
    BY <1>0, <2>1 DEF Grows, TablesType, Announced, NoRow, NotReady
  <2>5. Who(task[w].ev)' = Who(task[w].ev) /\ Frame(task[w].ev)' = Frame(task[w].ev)
    BY <2>1, <2>3 DEF At, Frame, Who
  <2>6. WorkerKnows(w)'
    BY <2>2, <2>3, <2>5 DEF WorkerKnows, At
  <2>7. AckedIsRecorded' /\ CacheBacked'
    BY <1>0, <2>1, <2>4, RecordsLast, BackingLasts
  <2> QED
    BY <2>1, <2>2, <2>3, <2>4, <2>6, <2>7, HandlerStep DEF At
<1>6. ASSUME NEW w \in Worker, UpsertParticipantBaseline(w)
      PROVE  WorkerInv'
  <2>1. /\ UNCHANGED uploadVars /\ UNCHANGED <<sub, attempts, summaries, cache, overlapped>>
        /\ events' = events /\ task[w] # Idle /\ task[w].pc = "upsert"
    BY <1>6 DEF UpsertParticipantBaseline, uploadVars, Idle
  <2>2. /\ Who(task[w].ev) # Evidence /\ Frame(task[w].ev) \in Capture /\ Who(task[w].ev) \in Participant
        /\ task[w].ev \in DOMAIN events /\ task[w].counts \in Count
        /\ task[w].counts[Frame(task[w].ev)] > 0 /\ task[w].counts # NoRow
    BY <1>0, <2>1, TaskType, RowsDiffer DEF WorkerKnows
  <2>3. \/ At(w, "summary") /\ baseline' = [baseline EXCEPT ![Who(task[w].ev)] = task[w].counts]
                            /\ task'[w].counts = task[w].counts
        \/ At(w, "respond") /\ ~task'[w].ok
    BY <1>0, <1>6, <2>1, Steps, Answers DEF UpsertParticipantBaseline, WorkPc
  <2>4. /\ baseline' \in [Participant -> Count]
        /\ \A a \in Participant : baseline[a] # NoRow => baseline'[a] # NoRow
        /\ folded' \in Count
    <3>1. CASE baseline' = baseline /\ folded' = folded
      BY <1>0, <3>1 DEF TablesType
    <3>2. CASE /\ baseline' = [baseline EXCEPT ![Who(task[w].ev)] = task[w].counts]
               /\ folded' = [folded EXCEPT ![Frame(task[w].ev)] = @ + 1]
      <4>1. folded' \in Count
        BY <1>0, <2>2, <3>2 DEF TablesType, Count
      <4> QED
        BY <1>0, <2>2, <3>2, <4>1 DEF TablesType
    <3> QED
      BY <1>6, <3>1, <3>2 DEF UpsertParticipantBaseline
  <2>5. Grows /\ TablesType' /\ Announced' = Announced
    BY <1>0, <2>1, <2>4 DEF Grows, TablesType, Announced, NoRow, NotReady
  <2>6. Who(task[w].ev)' = Who(task[w].ev) /\ Frame(task[w].ev)' = Frame(task[w].ev)
    BY <2>1, <2>3 DEF At, Frame, Who
  <2>7. WorkerKnows(w)'
    <3>1. CASE At(w, "respond") /\ ~task'[w].ok
      BY <2>2, <2>6, <3>1 DEF WorkerKnows, At
    <3>2. CASE /\ At(w, "summary") /\ task'[w].counts = task[w].counts
               /\ baseline' = [baseline EXCEPT ![Who(task[w].ev)] = task[w].counts]
      <4>1. baseline'[Who(task[w].ev)] # NoRow
        BY <1>0, <2>2, <3>2 DEF TablesType
      <4> QED
        BY <2>2, <2>6, <3>2, <4>1 DEF WorkerKnows, At, NoRow
    <3> QED
      BY <2>3, <3>1, <3>2
  <2>8. AckedIsRecorded' /\ CacheBacked'
    BY <1>0, <2>1, <2>5, RecordsLast, BackingLasts
  <2> QED
    BY <2>1, <2>2, <2>3, <2>5, <2>7, <2>8, HandlerStep DEF At
<1>7. ASSUME NEW w \in Worker, InsertVisualSummary(w)
      PROVE  WorkerInv'
  <2>1. /\ UNCHANGED uploadVars /\ UNCHANGED <<sub, attempts, baseline, cache, folded, overlapped>>
        /\ events' = events /\ task[w] # Idle /\ task[w].pc = "summary"
    BY <1>7 DEF InsertVisualSummary, uploadVars, Idle
  <2>2. /\ Who(task[w].ev) # Evidence /\ Frame(task[w].ev) \in Capture /\ Who(task[w].ev) \in Participant
        /\ task[w].ev \in DOMAIN events
        /\ task[w].counts[Frame(task[w].ev)] > 0 /\ baseline[Who(task[w].ev)] # NoRow
    BY <1>0, <2>1, TaskType DEF WorkerKnows
  <2>3. \/ At(w, "cache") /\ Frame(task[w].ev) \in summaries' /\ task'[w].counts = task[w].counts
        \/ At(w, "respond") /\ ~task'[w].ok
    BY <1>0, <1>7, <2>1, Steps, Answers DEF InsertVisualSummary, WorkPc
  <2>4. summaries \subseteq summaries' /\ summaries' \subseteq Capture
    BY <1>0, <1>7, <2>2 DEF InsertVisualSummary, TablesType
  <2>5. Grows /\ TablesType' /\ Announced' = Announced
    BY <1>0, <2>1, <2>4 DEF Grows, TablesType, Announced, NoRow, NotReady
  <2>6. Who(task[w].ev)' = Who(task[w].ev) /\ Frame(task[w].ev)' = Frame(task[w].ev)
    BY <2>1, <2>3 DEF At, Frame, Who
  <2>7. WorkerKnows(w)'
    BY <2>1, <2>2, <2>3, <2>6 DEF WorkerKnows, At, NoRow
  <2>8. AckedIsRecorded' /\ CacheBacked'
    BY <1>0, <2>1, <2>4, <2>5, RecordsLast, BackingLasts
  <2> QED
    BY <2>1, <2>2, <2>3, <2>5, <2>7, <2>8, HandlerStep DEF At
<1>8. ASSUME NEW w \in Worker, SetBaselineReady(w)
      PROVE  WorkerInv'
  <2>1. /\ UNCHANGED uploadVars /\ UNCHANGED <<sub, attempts, baseline, summaries, folded, overlapped>>
        /\ events' = events /\ task[w] # Idle /\ task[w].pc = "cache"
    BY <1>8 DEF SetBaselineReady, uploadVars, Idle
  <2> DEFINE a == Who(task[w].ev)
             c == Frame(task[w].ev)
  <2>2. /\ a # Evidence /\ c \in Capture /\ a \in Participant
        /\ task[w].ev \in DOMAIN events /\ c \in Announced /\ FrameOf[c] = a
        /\ task[w].counts \in Count /\ task[w].counts[c] > 0 /\ baseline[a] # NoRow /\ c \in summaries
    BY <1>0, <2>1, TaskType, FrameType DEF WorkerKnows, Who
  <2>3. [frame |-> c, counts |-> task[w].counts] \in Cached /\ [frame |-> c, counts |-> task[w].counts] # NotReady
    BY <2>2, RowsDiffer DEF Cached
  <2>4. \/ cache' = [cache EXCEPT ![a] = [frame |-> c, counts |-> task[w].counts]]
        \/ cache' = cache
    BY <1>8 DEF SetBaselineReady
  <2>5. \/ At(w, "respond") /\ cache' = [cache EXCEPT ![a] = [frame |-> c, counts |-> task[w].counts]]
        \/ At(w, "respond") /\ ~task'[w].ok
    BY <1>0, <1>8, <2>1, Answers DEF SetBaselineReady
  <2>6. /\ cache' \in [Participant -> Cached]
        /\ \A b \in Participant : cache[b] # NotReady => cache'[b] # NotReady
    BY <1>0, <2>2, <2>3, <2>4 DEF TablesType
  <2>7. Grows /\ TablesType' /\ Announced' = Announced
    BY <1>0, <2>1, <2>6 DEF Grows, TablesType, Announced, NoRow, NotReady
  <2>8. Who(task[w].ev)' = a /\ Frame(task[w].ev)' = c
    BY <2>1, <2>5 DEF At, Frame, Who
  <2>9. WorkerKnows(w)'
    <3>1. CASE At(w, "respond") /\ ~task'[w].ok
      BY <2>2, <2>8, <3>1 DEF WorkerKnows, At
    <3>2. CASE At(w, "respond") /\ cache' = [cache EXCEPT ![a] = [frame |-> c, counts |-> task[w].counts]]
      <4>1. cache'[a] # NotReady
        BY <1>0, <2>2, <2>3, <3>2 DEF TablesType
      <4>2. Recorded(Who(task[w].ev), Frame(task[w].ev))'
        BY <2>1, <2>2, <2>8, <4>1 DEF Recorded, NoRow, NotReady
      <4> QED
        BY <2>2, <2>8, <3>2, <4>2 DEF WorkerKnows, At
    <3> QED
      BY <2>5, <3>1, <3>2
  <2>10. AckedIsRecorded'
    BY <1>0, <2>1, <2>7, RecordsLast
  <2>11. CacheBacked'
    <3>1. CASE cache' = cache
      BY <1>0, <2>1, <2>7, <3>1, BackingLasts
    <3>2. CASE cache' = [cache EXCEPT ![a] = [frame |-> c, counts |-> task[w].counts]]
      <4>1. /\ cache'[a].frame = c /\ cache'[a].counts[c] > 0
            /\ \A b \in Participant \ {a} : cache'[b] = cache[b]
        BY <1>0, <2>2, <3>2 DEF TablesType
      <4> QED
        BY <1>0, <2>1, <2>2, <2>7, <4>1 DEF CacheBacked, NotReady, NoRow
    <3> QED
      BY <2>4, <3>1, <3>2
  <2> QED
    BY <2>1, <2>2, <2>5, <2>7, <2>9, <2>10, <2>11, HandlerStep DEF At
<1>9. ASSUME NEW w \in Worker, Respond(w)
      PROVE  WorkerInv'
  <2>1. /\ UNCHANGED uploadVars /\ UNCHANGED <<attempts, baseline, summaries, cache, folded, overlapped>>
        /\ events' = events /\ task[w] # Idle /\ task[w].pc = "respond"
    BY <1>9 DEF Respond, uploadVars, Idle
  <2>2. /\ task' \in [Worker -> Work \cup {Idle}] /\ \A v \in Worker \ {w} : task'[v] = task[v]
        /\ task'[w] = Idle
    BY <1>0, <1>9 DEF Respond
  <2>3. PICK e \in EventNo : e = task[w].ev /\ e \in DOMAIN events
    BY <1>0, <2>1, TaskType
  <2>4. \/ /\ task[w].ok
           /\ sub' = [sub EXCEPT ![e] = IF @ = "pending" THEN "acked" ELSE @]
        \/ sub' = sub
    BY <1>9, <2>3 DEF Respond
  <2>5. /\ sub' \in [EventNo -> {"pending", "acked", "dead"}]
        /\ \A f \in EventNo : sub'[f] # "pending" => f \in DOMAIN events
        /\ \A f \in EventNo \ {e} : sub'[f] = sub[f]
        /\ sub'[e] = "acked" => sub[e] = "acked" \/ task[w].ok
    BY <1>0, <2>3, <2>4 DEF TablesType
  <2>6. Grows /\ TablesType' /\ Announced' = Announced
    BY <1>0, <2>1, <2>5 DEF Grows, TablesType, Announced, NoRow, NotReady
  <2>7. WorkerKnows(w)'
    BY <2>2 DEF WorkerKnows, Idle, NoRow
  <2>8. CacheBacked'
    BY <1>0, <2>1, <2>6, BackingLasts
  <2>9. AckedIsRecorded'
    <3>1. Who(e) # Evidence /\ task[w].ok => Recorded(Who(e), Frame(e))
      BY <1>0, <2>1, <2>3 DEF WorkerKnows
    <3>2. \A a \in Audience : \A f \in EventsOf(a) : sub'[f] = "acked" => Recorded(a, Frame(f))
      <4>1. Evidence \notin Audience
        BY AudienceAssumption
      <4> QED
        BY <1>0, <2>5, <3>1, <4>1 DEF AckedIsRecorded, EventsOf, Recorded
    <3> QED
      BY <2>1, <3>2 DEF AckedIsRecorded, EventsOf, Recorded, Frame, Who, NoRow, NotReady
  <2> QED
    BY <2>1, <2>2, <2>6, <2>7, <2>8, <2>9, HandlerStep
<1>10. ASSUME NEW w \in Worker, Crash(w)
       PROVE  WorkerInv'
  <2>1. /\ UNCHANGED uploadVars /\ UNCHANGED <<sub, attempts, baseline, summaries, cache, folded, overlapped>>
        /\ events' = events
    BY <1>10 DEF Crash, uploadVars
  <2>2. /\ task' \in [Worker -> Work \cup {Idle}] /\ \A v \in Worker \ {w} : task'[v] = task[v]
        /\ task'[w] = Idle
    BY <1>0, <1>10 DEF Crash
  <2>3. Grows /\ TablesType' /\ Announced' = Announced
    BY <1>0, <2>1 DEF Grows, TablesType, Announced, NoRow, NotReady
  <2>4. WorkerKnows(w)'
    BY <2>2 DEF WorkerKnows, Idle, NoRow
  <2>5. AckedIsRecorded' /\ CacheBacked'
    BY <1>0, <2>1, <2>3, RecordsLast, BackingLasts
  <2> QED
    BY <2>1, <2>2, <2>3, <2>4, <2>5, HandlerStep
<1> QED
  BY <1>1, <1>2, <1>3, <1>4, <1>5, <1>6, <1>7, <1>8, <1>9, <1>10 DEF Next, Process
-----------------------------------------------------------------------------
(* The invariant says nothing of other variables than those of the system. *)
LEMMA WorkerStutter ==
  ASSUME WorkerInv, UNCHANGED vars
  PROVE  WorkerInv'
<1>1. UploadInv' /\ UNCHANGED uploadVars /\ events' = events
  BY UploadStutter DEF WorkerInv, vars, uploadVars
<1>2. UNCHANGED <<sub, attempts, task, baseline, summaries, cache, folded, overlapped>>
  BY DEF vars, analysisVars
<1>3. Grows /\ Announced' = Announced
  BY <1>1, <1>2 DEF Grows, Announced, NoRow, NotReady
<1>4. WorkerType'
  BY <1>1, <1>2 DEF WorkerInv, WorkerType, Idle, NoRow
<1>5. UploadTypeOK
  BY DEF WorkerInv, UploadInv
<1>6. \A w \in Worker : WorkerKnows(w)'
  BY <1>2, <1>3, <1>5, WorkerKnowledgeLasts DEF WorkerInv
<1>7. AckedIsRecorded' /\ CacheBacked'
  BY <1>2, <1>3, <1>5, RecordsLast, BackingLasts DEF WorkerInv
<1> QED
  BY <1>1, <1>4, <1>6, <1>7 DEF WorkerInv

(* The handlers of ProcessMediaUploaded keep it in every reachable state. *)
THEOREM WorkerCorrect == Spec => []WorkerInv
<1>1. Init => WorkerInv
  BY WorkerInitInv
<1>2. WorkerInv /\ [Next]_vars => WorkerInv'
  BY WorkerStep, WorkerStutter
<1> QED
  BY <1>1, <1>2, PTL DEF Spec

(* The state of Media API and Image Analysis Worker keeps its types. *)
THEOREM AnalysisTypeCorrect == Spec => []TypeOK
<1>1. WorkerInv => TypeOK
  BY WorkerInvMeans
<1> QED
  BY <1>1, WorkerCorrect, PTL

(* ProcessMediaUploaded answers 200 only after the summary, the baseline   *)
(* row and the Redis keys are written: an acked event has left all three,  *)
(* whatever failed, crashed or was delivered again before.                 *)
THEOREM AckedIsRecordedCorrect == Spec => []AckedIsRecorded
<1>1. WorkerInv => AckedIsRecorded
  BY WorkerInvMeans
<1> QED
  BY <1>1, WorkerCorrect, PTL

(* SetBaselineReady caches only an uploaded, summarised frame of the       *)
(* participant itself, counted in the cached baseline.                     *)
THEOREM ReadyIsBackedCorrect == Spec => []ReadyIsBacked
<1>1. WorkerInv => ReadyIsBacked
  BY WorkerInvMeans
<1> QED
  BY <1>1, WorkerCorrect, PTL
-----------------------------------------------------------------------------
(* The Media API of the composition is the Media API: nothing the Image    *)
(* Analysis Worker does interferes with it.                                *)
THEOREM SpecImpliesUploadSpec == Spec => UploadSpec
<1>1. Init => UploadInit
  BY DEF Init
<1>2. [Next]_vars => [UploadNext]_uploadVars
  BY DEF Next, vars, DeadLetter, Deliver, Process, LoadCapture, GetParticipantBaseline,
         UpsertParticipantBaseline, InsertVisualSummary, SetBaselineReady, Respond, Crash
<1> QED
  BY <1>1, <1>2, PTL DEF Spec, UploadSpec

(* So the two services together keep what the handlers of internal/media   *)
(* promise: an announced frame is stored and its rows agree, a frame that  *)
(* was accepted is announced, and a capture lives as CaptureLifecycle says.*)
THEOREM EventIsBackedCorrect == Spec => []EventIsBacked
BY SpecImpliesUploadSpec, UploadEventIsBacked, PTL

(* handleUploadComplete behind the subscription: 200 means announced. *)
THEOREM AcceptedHasEventCorrect == Spec => []AcceptedHasEvent
BY SpecImpliesUploadSpec, UploadAcceptedHasEvent, PTL

(* The composition implements the life of a capture. *)
THEOREM LifecycleCorrect == Spec => ImplementsLifecycle
BY SpecImpliesUploadSpec, UploadImplementsLifecycle, PTL
-----------------------------------------------------------------------------
(* Counting.  While no two handlers of a participant have met, one handler *)
(* at most is at work for it, on an event that is still pending, and what  *)
(* it read of the baseline is still there when it writes.                  *)

On(w, a) == task[w] # Idle /\ Who(task[w].ev) = a

Holds(w, a) ==
  /\ sub[task[w].ev] = "pending"
  /\ task[w].pc = "upsert" => task[w].counts = computeBaseline(baseline[a], Frame(task[w].ev))
  /\ task[w].pc \in {"summary", "cache"} => task[w].counts = baseline[a]
  /\ task[w].pc = "respond" /\ task[w].ok => cache[a].counts = baseline[a]

Counted(a) == \A c \in Capture : baseline[a][c] = IF FrameOf[c] = a THEN folded[c] ELSE 0
OneAtWork(a) == \A v, w \in Worker : On(v, a) /\ On(w, a) => v = w
Settled(a) ==
  (\A w \in Worker : ~On(w, a)) /\ (\A e \in EventsOf(a) : sub[e] = "acked")
    => cache[a].counts = baseline[a]

CountsFor(a) ==
  Counted(a) /\ OneAtWork(a) /\ Settled(a) /\ \A w \in Worker : On(w, a) => Holds(w, a)

CountInv == WorkerInv /\ \A a \in Audience \ overlapped : CountsFor(a)

(* The invariant states the properties of the runs. *)
LEMMA CountInvMeans == CountInv => CountsEveryRun /\ CacheIsCurrent
BY DEF CountInv, CountsFor, Counted, Settled, On, CountsEveryRun, CacheIsCurrent, Busy

(* A participant is undisturbed by a step that leaves its handler, its     *)
(* row, its cache entry and its events alone.                              *)
LEMMA Undisturbed ==
  ASSUME UploadTypeOK, WorkerType, NEW a \in Audience, CountsFor(a),
         \A e \in DOMAIN events : e \in DOMAIN events' /\ events'[e] = events[e],
         \A w \in Worker : On(w, a)' <=> On(w, a),
         \A w \in Worker : On(w, a) => task'[w] = task[w],
         \A e \in EventsOf(a) : sub'[e] = sub[e] \/ (sub'[e] # "acked" /\ \A w \in Worker : task[w].ev # e),
         baseline'[a] = baseline[a], cache'[a] = cache[a],
         \A c \in Capture : FrameOf[c] = a => folded'[c] = folded[c]
  PROVE  CountsFor(a)'
<1>1. Counted(a)'
  BY DEF CountsFor, Counted
<1>2. OneAtWork(a)'
  BY DEF CountsFor, OneAtWork
<1>3. ASSUME NEW e \in DOMAIN events
      PROVE  Frame(e)' = Frame(e) /\ Who(e)' = Who(e)
  BY <1>3 DEF Frame, Who
<1>4. \A e \in EventsOf(a) : e \in EventsOf(a)'
  BY <1>3 DEF EventsOf
<1>5. Settled(a)'
  BY <1>4 DEF CountsFor, Settled
<1>6. ASSUME NEW w \in Worker, On(w, a)'
      PROVE  Holds(w, a)'
  <2>1. On(w, a) /\ Holds(w, a) /\ task'[w] = task[w]
    BY <1>6 DEF CountsFor
  <2>2. PICK e \in EventNo : e = task[w].ev /\ e = task'[w].ev /\ e \in EventsOf(a)
    BY <2>1, TaskType DEF On, EventsOf
  <2>3. Frame(e)' = Frame(e)
    BY <1>3, <2>2 DEF EventsOf
  <2>4. sub'[e] = sub[e]
    BY <2>2
  <2>5. Frame(task[w].ev)' = Frame(task[w].ev)
    BY <2>2, <2>3 DEF Frame
  <2> QED
    BY <2>1, <2>2, <2>4, <2>5 DEF Holds, computeBaseline
<1> QED
  BY <1>1, <1>2, <1>5, <1>6 DEF CountsFor

(* A step of the handler of the participant itself, that keeps it at work. *)
LEMMA OwnStep ==
  ASSUME NEW a \in Audience, CountsFor(a), NEW w \in Worker, On(w, a), On(w, a)',
         \A v \in Worker \ {w} : task'[v] = task[v], events' = events, Counted(a)', Holds(w, a)'
  PROVE  CountsFor(a)'
<1>1. \A v \in Worker \ {w} : ~On(v, a)
  BY DEF CountsFor, OneAtWork
<1>2. \A v \in Worker \ {w} : ~On(v, a)'
  <2>1. \A e : Who(e)' = Who(e)
    BY DEF Who, Frame
  <2> QED
    BY <1>1, <2>1 DEF On, Who, Frame, Idle, NoRow
<1> QED
  BY <1>2 DEF CountsFor, OneAtWork, Settled

(* A step of a handler does not reach the participants of the others. *)
LEMMA Elsewhere ==
  ASSUME UploadTypeOK, WorkerType, NEW a \in Audience, CountsFor(a), NEW w \in Worker,
         ~On(w, a), ~On(w, a)', \A v \in Worker \ {w} : task'[v] = task[v], events' = events,
         \A e \in EventsOf(a) : sub'[e] = sub[e],
         baseline'[a] = baseline[a], cache'[a] = cache[a],
         \A c \in Capture : FrameOf[c] = a => folded'[c] = folded[c]
  PROVE  CountsFor(a)'
<1>1. \A v \in Worker : (On(v, a)' <=> On(v, a)) /\ (On(v, a) => task'[v] = task[v])
  <2>1. \A v \in Worker \ {w} : On(v, a)' <=> On(v, a)
    BY DEF On, Who, Frame, Idle, NoRow
  <2> QED
    BY <2>1
<1>2. \A e \in DOMAIN events : e \in DOMAIN events' /\ events'[e] = events[e]
  OBVIOUS
<1> QED
  BY <1>1, <1>2, Undisturbed

(* When a handler is done, the table and the cache of its participant      *)
(* agree, or its event is not acked.                                       *)
LEMMA HandlerEnds ==
  ASSUME UploadTypeOK, WorkerType, NEW a \in Audience, CountsFor(a), NEW w \in Worker, On(w, a),
         task'[w] = Idle, \A v \in Worker \ {w} : task'[v] = task[v],
         events' = events, baseline' = baseline, cache' = cache, folded' = folded,
         sub'[task[w].ev] # "acked" \/ (task[w].pc = "respond" /\ task[w].ok)
  PROVE  CountsFor(a)'
<1>1. \A v \in Worker : ~On(v, a)'
  <2>1. ~On(w, a)'
    BY Zenon DEF On
  <2>2. \A v \in Worker \ {w} : ~On(v, a)
    BY Zenon DEF CountsFor, OneAtWork
  <2>3. \A v \in Worker \ {w} : On(v, a)' <=> On(v, a)
    BY Zenon DEF On, Who, Frame
  <2> QED
    BY <2>1, <2>2, <2>3
<1>2. Counted(a)' /\ OneAtWork(a)'
  BY <1>1 DEF CountsFor, Counted, OneAtWork
<1>3. Settled(a)'
  <2>1. task[w].ev \in EventsOf(a)
    BY TaskType DEF On, EventsOf
  <2>2. EventsOf(a)' = EventsOf(a)
    BY DEF EventsOf, Who, Frame
  <2> QED
    BY <2>1, <2>2 DEF Settled, CountsFor, Holds
<1> QED
  BY <1>1, <1>2, <1>3 DEF CountsFor

(* What the calls between Deliver and Respond have in common. *)
LEMMA CallStep ==
  ASSUME UploadTypeOK, WorkerType, NEW a \in Audience, CountsFor(a), NEW w \in Worker, task[w] # Idle,
         events' = events, sub' = sub, NEW p, At(w, p),
         ~On(w, a) => /\ baseline'[a] = baseline[a] /\ cache'[a] = cache[a]
                      /\ \A c \in Capture : FrameOf[c] = a => folded'[c] = folded[c],
         On(w, a) => Counted(a)' /\ Holds(w, a)'
  PROVE  CountsFor(a)'
<1>1. On(w, a)' <=> On(w, a)
  BY DEF On, At, Who, Frame
<1>2. \A v \in Worker \ {w} : task'[v] = task[v]
  BY DEF At
<1>3. CASE On(w, a)
  BY <1>1, <1>2, <1>3, OwnStep
<1>4. CASE ~On(w, a)
  BY <1>1, <1>2, <1>4, Elsewhere
<1> QED
  BY <1>3, <1>4

(* Every step leaves the counts of the participants that are not            *)
(* overlapped as they should be.                                            *)
LEMMA CountStep ==
  ASSUME CountInv, Next, NEW a \in Audience, a \notin overlapped'
  PROVE  CountsFor(a)'
<1>0. /\ UploadInv /\ UploadTypeOK /\ WorkerType /\ TablesType
      /\ task \in [Worker -> Work \cup {Idle}] /\ a \in Participant /\ a # Evidence
      /\ \A w \in Worker : WorkerKnows(w)
  BY AudienceAssumption DEF CountInv, WorkerInv, UploadInv, WorkerType, TablesType, Participant
<1>a. CountsFor(a)
  <2>1. overlapped \subseteq overlapped'
    BY DEF Next, analysisVars, DeadLetter, Deliver, Process, LoadCapture, GetParticipantBaseline,
           UpsertParticipantBaseline, InsertVisualSummary, SetBaselineReady, Respond, Crash
  <2> QED
    BY <2>1 DEF CountInv
<1>1. CASE UploadNext /\ UNCHANGED analysisVars
  <2>1. UNCHANGED <<sub, attempts, task, baseline, summaries, cache, folded, overlapped>>
    BY <1>1 DEF analysisVars
  <2>2. \A e \in DOMAIN events : e \in DOMAIN events' /\ events'[e] = events[e]
    BY <1>0, <1>1, EventsGrow
  <2>3. \A w \in Worker : On(w, a)' <=> On(w, a)
    <3>1. ASSUME NEW w \in Worker, task[w] # Idle
          PROVE  Who(task[w].ev)' = Who(task[w].ev)
      BY <1>0, <2>1, <2>2, <3>1, TaskType DEF Who, Frame
    <3> QED
      BY <2>1, <3>1 DEF On, Idle, NoRow
  <2> QED
    BY <1>0, <1>a, <2>1, <2>2, <2>3, Undisturbed
<1>2. ASSUME NEW e \in EventNo, DeadLetter(e)
      PROVE  CountsFor(a)'
  <2>1. UNCHANGED <<attempts, task, baseline, summaries, cache, folded, overlapped>> /\ events' = events
    BY <1>2 DEF DeadLetter, uploadVars
  <2>2. \A f \in EventNo : sub'[f] = sub[f] \/ (sub'[f] # "acked" /\ \A w \in Worker : task[w].ev # f)
    BY <1>0, <1>2 DEF DeadLetter, TablesType
  <2>3. \A w \in Worker : On(w, a)' <=> On(w, a)
    BY <2>1 DEF On, Who, Frame, Idle, NoRow
  <2> QED
    BY <1>0, <1>a, <2>1, <2>2, <2>3, Undisturbed DEF EventsOf
<1>3. ASSUME NEW w \in Worker, NEW e \in EventNo, Deliver(w, e)
      PROVE  CountsFor(a)'
  <2>1. /\ UNCHANGED <<sub, baseline, summaries, cache, folded>> /\ events' = events
        /\ e \in DOMAIN events /\ task[w] = Idle /\ sub[e] = "pending"
    BY <1>3 DEF Deliver, uploadVars
  <2> DEFINE t == [pc |-> IF IsBaselineFrame(e) THEN "load" ELSE "respond",
                   ev |-> e, counts |-> NoRow, ok |-> ~IsBaselineFrame(e)]
  <2>2. task' = [task EXCEPT ![w] = t]
    BY <1>3 DEF Deliver
  <2>3. task'[w] = t /\ \A v \in Worker \ {w} : task'[v] = task[v]
    BY <1>0, <2>2
  <2>4. t.ev = e /\ (Who(e) = a => t.pc = "load")
    BY <1>0 DEF IsBaselineFrame
  <2>5. ~On(w, a)
    BY <2>1 DEF On
  <2>6. Who(task[w].ev)' = Who(e)
    BY <2>1, <2>3, <2>4 DEF Who, Frame
  <2>7. CASE Who(e) # a
    <3>1. ~On(w, a)'
      BY <2>6, <2>7 DEF On
    <3> QED
      BY <1>0, <1>a, <2>1, <2>3, <2>5, <3>1, Elsewhere
  <2>8. CASE Who(e) = a
    <3>1. \A v \in Worker : ~On(v, a)
      BY <1>3, <2>8 DEF Deliver, Busy, On
    <3>2. \A v \in Worker \ {w} : ~On(v, a)'
      BY <2>1, <2>3, <3>1 DEF On, Who, Frame, Idle, NoRow
    <3>3. On(w, a)'
      <4>1. t.pc = "load" /\ Idle.pc = "idle"
        BY <2>4, <2>8 DEF Idle
      <4> QED
        BY <2>3, <2>6, <2>8, <4>1 DEF On, Idle, NoRow
    <3>4. Holds(w, a)'
      <4>1. task'[w].ev = e /\ task'[w].pc = "load"
        BY <2>3, <2>4, <2>8
      <4> QED
        BY <2>1, <4>1 DEF Holds
    <3>5. Counted(a)'
      BY <1>a, <2>1 DEF CountsFor, Counted
    <3> QED
      BY <3>2, <3>3, <3>4, <3>5 DEF CountsFor, OneAtWork, Settled
  <2> QED
    BY <2>7, <2>8
<1>4. ASSUME NEW w \in Worker, LoadCapture(w)
      PROVE  CountsFor(a)'
  <2>1. /\ UNCHANGED <<sub, baseline, cache, folded>> /\ events' = events /\ task[w] # Idle
    BY <1>4 DEF LoadCapture, uploadVars, Idle
  <2>2. PICK p \in {"read", "respond"} : At(w, p) /\ (p = "respond" => ~task'[w].ok)
    BY <1>0, <1>4, <2>1, Steps, Answers DEF LoadCapture, WorkPc
  <2>3. On(w, a) => Counted(a)' /\ Holds(w, a)'
    BY <1>a, <2>1, <2>2 DEF CountsFor, Counted, Holds, At
  <2> QED
    BY <1>0, <1>a, <2>1, <2>2, <2>3, CallStep
<1>5. ASSUME NEW w \in Worker, GetParticipantBaseline(w)
      PROVE  CountsFor(a)'
  <2>1. /\ UNCHANGED <<sub, baseline, cache, folded>> /\ events' = events /\ task[w] # Idle
    BY <1>5 DEF GetParticipantBaseline, uploadVars, Idle
  <2>2. PICK p \in {"upsert", "respond"} :
          /\ At(w, p)
          /\ p = "respond" => ~task'[w].ok
          /\ p = "upsert" => task'[w].counts = computeBaseline(baseline[Who(task[w].ev)], Frame(task[w].ev))
    <3> DEFINE n == computeBaseline(baseline[Who(task[w].ev)], Frame(task[w].ev))
    <3>1. CASE task' = [task EXCEPT ![w] = [pc |-> "upsert", ev |-> task[w].ev, counts |-> n, ok |-> FALSE]]
      <4>1. n \in Count /\ task[w].ev \in EventNo
        BY <1>0, <2>1, TaskType, CountType DEF TablesType
      <4> HIDE DEF n
      <4>2. [pc |-> "upsert", ev |-> task[w].ev, counts |-> n, ok |-> FALSE] \in Work
        BY <4>1 DEF Work, WorkPc
      <4>3. At(w, "upsert") /\ task'[w].counts = n
        BY <1>0, <3>1, <4>2 DEF At, Idle
      <4> QED
        BY <4>3 DEF n
    <3>2. CASE Answer(w, FALSE)
      BY <1>0, <2>1, <3>2, Answers
    <3> QED
      BY <1>5, <3>1, <3>2 DEF GetParticipantBaseline
  <2>3. On(w, a) => Counted(a)' /\ Holds(w, a)'
    <3>1. Frame(task[w].ev)' = Frame(task[w].ev)
      BY <2>1, <2>2 DEF At, Frame
    <3> QED
      BY <1>a, <2>1, <2>2, <3>1 DEF CountsFor, Counted, Holds, At, On, computeBaseline
  <2> QED
    BY <1>0, <1>a, <2>1, <2>2, <2>3, CallStep
<1>6. ASSUME NEW w \in Worker, UpsertParticipantBaseline(w)
      PROVE  CountsFor(a)'
  <2>1. /\ UNCHANGED <<sub, cache>> /\ events' = events /\ task[w] # Idle /\ task[w].pc = "upsert"
    BY <1>6 DEF UpsertParticipantBaseline, uploadVars, Idle
  <2> DEFINE b == Who(task[w].ev)
             d == Frame(task[w].ev)
  <2>2. d \in Capture /\ b \in Participant /\ FrameOf[d] = b /\ task[w].counts \in Count
    BY <1>0, <2>1, TaskType DEF Who
  <2>3. PICK p \in {"summary", "respond"} :
          /\ At(w, p) /\ task'[w].counts = task[w].counts
          /\ p = "respond" => ~task'[w].ok
          /\ p = "summary" => baseline' = [baseline EXCEPT ![b] = task[w].counts]
    BY <1>0, <1>6, <2>1, Steps, Answers DEF UpsertParticipantBaseline, WorkPc
  <2>4. \/ UNCHANGED <<baseline, folded>>
        \/ /\ baseline' = [baseline EXCEPT ![b] = task[w].counts]
           /\ folded' = [folded EXCEPT ![d] = @ + 1]
    BY <1>6 DEF UpsertParticipantBaseline
  <2>5. ~On(w, a) => baseline'[a] = baseline[a] /\ \A c \in Capture : FrameOf[c] = a => folded'[c] = folded[c]
    BY <1>0, <2>1, <2>2, <2>4 DEF On, TablesType, Count
  <2>6. On(w, a) => Counted(a)'
    <3>1. CASE UNCHANGED <<baseline, folded>>
      BY <1>a, <3>1 DEF CountsFor, Counted
    <3>2. CASE /\ baseline' = [baseline EXCEPT ![b] = task[w].counts]
               /\ folded' = [folded EXCEPT ![d] = @ + 1] /\ On(w, a)
      <4>1. a = b /\ task[w].counts = computeBaseline(baseline[a], d)
        BY <1>a, <2>1, <3>2 DEF CountsFor, Holds, On
      <4>2. baseline'[a] = computeBaseline(baseline[a], d)
        BY <1>0, <3>2, <4>1 DEF TablesType
      <4>3. baseline[a] \in Count /\ folded \in Count
        BY <1>0 DEF TablesType
      <4>4. \A c \in Capture : baseline'[a][c] = IF c = d THEN baseline[a][c] + 1 ELSE baseline[a][c]
        BY <4>2, <4>3 DEF computeBaseline, Count
      <4>5. \A c \in Capture : folded'[c] = IF c = d THEN folded[c] + 1 ELSE folded[c]
        BY <3>2, <4>3 DEF Count
      <4> QED
        BY <1>a, <2>2, <4>1, <4>4, <4>5 DEF CountsFor, Counted
    <3> QED
      BY <2>4, <3>1, <3>2
  <2>7. On(w, a) => Holds(w, a)'
    <3>1. CASE p = "respond"
      BY <1>a, <2>1, <2>3, <3>1 DEF CountsFor, Holds, At
    <3>2. CASE p = "summary" /\ On(w, a)
      <4>1. baseline'[a] = task[w].counts
        BY <1>0, <2>3, <3>2 DEF On, TablesType
      <4> QED
        BY <1>a, <2>1, <2>3, <3>2, <4>1 DEF CountsFor, Holds, At
    <3> QED
      BY <3>1, <3>2
  <2> HIDE DEF b, d
  <2> QED
    BY <1>0, <1>a, <2>1, <2>3, <2>5, <2>6, <2>7, CallStep
<1>7. ASSUME NEW w \in Worker, InsertVisualSummary(w)
      PROVE  CountsFor(a)'
  <2>1. /\ UNCHANGED <<sub, baseline, cache, folded>> /\ events' = events /\ task[w] # Idle
        /\ task[w].pc = "summary"
    BY <1>7 DEF InsertVisualSummary, uploadVars, Idle
  <2>2. PICK p \in {"cache", "respond"} : /\ At(w, p) /\ task'[w].counts = task[w].counts
                                          /\ p = "respond" => ~task'[w].ok
    BY <1>0, <1>7, <2>1, Steps, Answers DEF InsertVisualSummary, WorkPc
  <2>3. On(w, a) => Counted(a)' /\ Holds(w, a)'
    BY <1>a, <2>1, <2>2 DEF CountsFor, Counted, Holds, At
  <2> QED
    BY <1>0, <1>a, <2>1, <2>2, <2>3, CallStep
<1>8. ASSUME NEW w \in Worker, SetBaselineReady(w)
      PROVE  CountsFor(a)'
  <2>1. /\ UNCHANGED <<sub, baseline, folded>> /\ events' = events /\ task[w] # Idle
        /\ task[w].pc = "cache"
    BY <1>8 DEF SetBaselineReady, uploadVars, Idle
  <2> DEFINE r == [frame |-> Frame(task[w].ev), counts |-> task[w].counts]
  <2>2. /\ At(w, "respond") /\ task'[w].counts = task[w].counts
        /\ task'[w].ok => cache' = [cache EXCEPT ![Who(task[w].ev)] = r]
    BY <1>0, <1>8, <2>1, Answers DEF SetBaselineReady
  <2>3. cache' = cache \/ cache' = [cache EXCEPT ![Who(task[w].ev)] = r]
    BY <1>8 DEF SetBaselineReady
  <2>4. ~On(w, a) => cache'[a] = cache[a]
    BY <1>0, <2>1, <2>3 DEF On, TablesType
  <2>5. On(w, a) /\ task'[w].ok => cache'[a].counts = baseline[a]
    <3>1. On(w, a) => task[w].counts = baseline[a]
      BY <1>a, <2>1 DEF CountsFor, Holds
    <3>2. On(w, a) /\ task'[w].ok => cache'[a] = r
      BY <1>0, <2>2 DEF On, TablesType
    <3> QED
      BY <3>1, <3>2
  <2>6. On(w, a) => Counted(a)' /\ Holds(w, a)'
    BY <1>a, <2>1, <2>2, <2>5 DEF CountsFor, Counted, Holds, At
  <2> HIDE DEF r
  <2> QED
    BY <1>0, <1>a, <2>1, <2>2, <2>4, <2>6, CallStep
<1>9. ASSUME NEW w \in Worker, Respond(w)
      PROVE  CountsFor(a)'
  <2>1. /\ UNCHANGED <<baseline, cache, folded>> /\ events' = events /\ task[w] # Idle /\ task[w].pc = "respond"
    BY <1>9 DEF Respond, uploadVars, Idle
  <2>2. task'[w] = Idle /\ \A v \in Worker \ {w} : task'[v] = task[v]
    BY <1>0, <1>9 DEF Respond
  <2>3. PICK e \in EventNo : e = task[w].ev /\ e \in DOMAIN events
    BY <1>0, <2>1, TaskType
  <2>4. \/ task[w].ok /\ sub' = [sub EXCEPT ![e] = IF @ = "pending" THEN "acked" ELSE @]
        \/ sub' = sub
    BY <1>9, <2>3 DEF Respond
  <2>5. CASE On(w, a)
    <3>1. sub'[e] # "acked" \/ task[w].ok
      BY <1>a, <2>3, <2>4, <2>5 DEF CountsFor, Holds
    <3>2. sub'[task[w].ev] # "acked" \/ (task[w].pc = "respond" /\ task[w].ok)
      BY <2>1, <2>3, <3>1
    <3> QED
      BY <1>0, <1>a, <2>1, <2>2, <2>5, <3>2, HandlerEnds
  <2>6. CASE ~On(w, a)
    <3>1. \A f \in EventsOf(a) : sub'[f] = sub[f]
      BY <1>0, <2>1, <2>3, <2>4, <2>6 DEF On, EventsOf, TablesType
    <3>2. ~On(w, a)'
      BY <2>2 DEF On, Idle, NoRow
    <3> QED
      BY <1>0, <1>a, <2>1, <2>2, <2>6, <3>1, <3>2, Elsewhere
  <2> QED
    BY <2>5, <2>6
<1>10. ASSUME NEW w \in Worker, Crash(w)
       PROVE  CountsFor(a)'
  <2>1. /\ UNCHANGED <<sub, baseline, cache, folded>> /\ events' = events
    BY <1>10 DEF Crash, uploadVars
  <2>2. task'[w] = Idle /\ \A v \in Worker \ {w} : task'[v] = task[v]
    BY <1>0, <1>10 DEF Crash
  <2>3. CASE On(w, a)
    <3>1. sub'[task[w].ev] # "acked"
      BY <1>a, <2>1, <2>3 DEF CountsFor, Holds
    <3> QED
      BY <1>0, <1>a, <2>1, <2>2, <2>3, <3>1, HandlerEnds
  <2>4. CASE ~On(w, a)
    <3>1. ~On(w, a)'
      BY <2>2 DEF On, Idle, NoRow
    <3> QED
      BY <1>0, <1>a, <2>1, <2>2, <2>4, <3>1, Elsewhere
  <2> QED
    BY <2>3, <2>4
<1> QED
  BY <1>1, <1>2, <1>3, <1>4, <1>5, <1>6, <1>7, <1>8, <1>9, <1>10 DEF Next, Process
-----------------------------------------------------------------------------
(* The counts are right before the first delivery. *)
LEMMA CountInitInv == Init => CountInv
<1> SUFFICES ASSUME Init PROVE CountInv
  OBVIOUS
<1>1. WorkerInv
  BY WorkerInitInv
<1>2. \A w \in Worker : task[w] = Idle
  BY DEF Init
<1>3. ASSUME NEW a \in Audience
      PROVE  CountsFor(a)
  <2>1. baseline[a] = NoRow /\ folded = NoRow /\ cache[a] = NotReady
    BY <1>3 DEF Init, Participant
  <2>2. \A w \in Worker : ~On(w, a)
    BY <1>2 DEF On
  <2> QED
    BY <2>1, <2>2 DEF CountsFor, Counted, OneAtWork, Settled, NoRow, NotReady
<1> QED
  BY <1>1, <1>3 DEF CountInv

(* No result of computeBaseline is lost, and table and cache agree, for a  *)
(* participant whose handlers have never met.                              *)
THEOREM CountCorrect == Spec => []CountInv
<1>1. Init => CountInv
  BY CountInitInv
<1>2. CountInv /\ [Next]_vars => CountInv'
  <2> SUFFICES ASSUME CountInv, [Next]_vars PROVE CountInv'
    OBVIOUS
  <2>1. WorkerInv'
    BY WorkerStep, WorkerStutter DEF CountInv
  <2>2. CASE Next
    BY <2>1, <2>2, CountStep DEF CountInv
  <2>3. CASE UNCHANGED vars
    <3>1. UNCHANGED <<sub, attempts, task, baseline, summaries, cache, folded, overlapped>> /\ events' = events
      BY <2>3 DEF vars, analysisVars, uploadVars
    <3>2. ASSUME NEW a \in Audience \ overlapped
          PROVE  CountsFor(a)'
      <4>1. CountsFor(a) /\ UploadTypeOK /\ WorkerType
        BY <3>2 DEF CountInv, WorkerInv, UploadInv
      <4>2. \A w \in Worker : On(w, a)' <=> On(w, a)
        BY <3>1 DEF On, Who, Frame, Idle, NoRow
      <4> QED
        BY <3>1, <4>1, <4>2, Undisturbed
    <3> QED
      BY <2>1, <3>1, <3>2 DEF CountInv
  <2> QED
    BY <2>2, <2>3
<1> QED
  BY <1>1, <1>2, PTL DEF Spec

(* GetParticipantBaseline .. UpsertParticipantBaseline loses no result of  *)
(* computeBaseline of a participant whose handlers have never met.         *)
THEOREM CountsEveryRunCorrect == Spec => []CountsEveryRun
<1>1. CountInv => CountsEveryRun
  BY CountInvMeans
<1> QED
  BY <1>1, CountCorrect, PTL

(* After SetBaselineReady of the last event, Redis holds what the table    *)
(* holds.                                                                  *)
THEOREM CacheIsCurrentCorrect == Spec => []CacheIsCurrent
<1>1. CountInv => CacheIsCurrent
  BY CountInvMeans
<1> QED
  BY <1>1, CountCorrect, PTL
-----------------------------------------------------------------------------
(* A worker that is served one push at a time: no two handlers meet. *)
LEMMA AloneStep ==
  ASSUME \A v, w \in Worker : v = w, overlapped = {}, Next
  PROVE  overlapped' = {}
<1>1. ASSUME NEW w \in Worker, NEW e \in EventNo, Deliver(w, e)
      PROVE  overlapped' = {}
  <2>1. \A a : ~Busy(a)
    BY <1>1 DEF Deliver, Busy
  <2>2. overlapped' = overlapped \cup {a \in {Who(e)} : Busy(a)}
    BY <1>1 DEF Deliver
  <2> QED
    BY <2>1, <2>2
<1>2. ASSUME NEW w \in Worker, Process(w) \/ Crash(w)
      PROVE  overlapped' = overlapped
  BY <1>2 DEF Process, LoadCapture, GetParticipantBaseline, UpsertParticipantBaseline,
              InsertVisualSummary, SetBaselineReady, Respond, Crash
<1>3. ASSUME (\E e \in EventNo : DeadLetter(e)) \/ UNCHANGED analysisVars
      PROVE  overlapped' = overlapped
  BY <1>3 DEF DeadLetter, analysisVars
<1> QED
  BY <1>1, <1>2, <1>3 DEF Next

(* Served one push at a time, the worker folds every result of             *)
(* computeBaseline into the baseline of every participant, whatever fails, *)
(* crashes or is delivered again; and once every event is acked and the    *)
(* handler is done, Redis holds what the table holds.  This is what the    *)
(* unlocked read, modify, write of ProcessMediaUploaded asks of its        *)
(* deployment, which allows five instances (prod/main.tf:472).             *)
THEOREM OneHandlerCountsEveryRun ==
  ASSUME \A v, w \in Worker : v = w
  PROVE  Spec => [](\A a \in Audience :
                      /\ \A c \in Capture : baseline[a][c] = IF FrameOf[c] = a THEN folded[c] ELSE 0
                      /\ ~Busy(a) /\ (\A e \in EventsOf(a) : sub[e] = "acked")
                           => cache[a].counts = baseline[a])
<1>1. Init => overlapped = {}
  BY DEF Init
<1>2. overlapped = {} /\ [Next]_vars => (overlapped = {})'
  <2>1. CASE UNCHANGED vars
    BY <2>1 DEF vars, analysisVars
  <2> QED
    BY <2>1, AloneStep
<1>3. Spec => [](overlapped = {})
  BY <1>1, <1>2, PTL DEF Spec
<1>4. overlapped = {} /\ CountsEveryRun /\ CacheIsCurrent
      => \A a \in Audience :
           /\ \A c \in Capture : baseline[a][c] = IF FrameOf[c] = a THEN folded[c] ELSE 0
           /\ ~Busy(a) /\ (\A e \in EventsOf(a) : sub[e] = "acked") => cache[a].counts = baseline[a]
  BY DEF CountsEveryRun, CacheIsCurrent
<1> QED
  BY <1>3, <1>4, CountsEveryRunCorrect, CacheIsCurrentCorrect, PTL
=============================================================================
