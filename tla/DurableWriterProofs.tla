------------------------ MODULE DurableWriterProofs ------------------------
(***************************************************************************)
(* What holds of Durable Writer for every number of handlers, events and   *)
(* deliveries, whatever fails, dies or is delivered again: its types, the  *)
(* order of rows and lines, and what an acknowledged event has left        *)
(* behind.                                                                 *)
(***************************************************************************)
EXTENDS DurableWriter, JsonlAppendProofs, FiniteSetTheorems

(* A payload has at most two parts, so a part with another after it is the *)
(* first of two.                                                           *)
LEMMA FirstOfTwo == \A part \in 1 .. 2, n \in {1, 2} : part < n => n = 2 /\ part = 1
OBVIOUS

(* The lines of a payload: one or two, of different files. *)
LEMMA PartsType ==
  ASSUME NEW e \in EventId
  PROVE  /\ DOMAIN Parts(e) \in {{1}, {1, 2}}
         /\ Len(Parts(e)) \in {1, 2} /\ DOMAIN Parts(e) = 1 .. Len(Parts(e))
         /\ \A i \in DOMAIN Parts(e) : Parts(e)[i] \in File
         /\ \A i, j \in DOMAIN Parts(e) : Parts(e)[i] = Parts(e)[j] => i = j
<1>1. KindOf[e] \in {"sample", "trigger", "feedback", "transcript"}
  BY KindAssumption DEF Kind
<1>2. CASE KindOf[e] = "sample"
  <2>1. Parts(e) = <<"mood-wave">>
    BY <1>2 DEF Parts
  <2> QED
    BY <2>1, FileAssumption
<1>3. CASE KindOf[e] = "trigger"
  <2>1. Parts(e) = <<"triggers", "feedback">>
    BY <1>3 DEF Parts
  <2> QED
    BY <2>1, FileAssumption
<1>4. CASE KindOf[e] = "feedback"
  <2>1. Parts(e) = <<"feedback">>
    BY <1>4 DEF Parts
  <2> QED
    BY <2>1, FileAssumption
<1>5. CASE KindOf[e] = "transcript"
  <2>1. Parts(e) = <<"transcript">>
    BY <1>5 DEF Parts
  <2> QED
    BY <2>1, FileAssumption
<1> QED
  BY <1>1, <1>2, <1>3, <1>4, <1>5

Stored(f, e) ==
  /\ HasRow(f) => <<f, e>> \in rows
  /\ f \notin contended => HasLine(f, e)

(* What a push handler knows at each step of writeEvent. *)
TaskKnows(w) ==
  task[w].pc # "idle" =>
    /\ task[w].part \in DOMAIN Parts(Event(w))
    /\ task[w].pc = "appending" => Target(w) = PartFile(w) /\ Line(w) = Event(w)
    /\ task[w].pc \in {"append", "appending"} /\ HasRow(PartFile(w)) => <<PartFile(w), Event(w)>> \in rows
    /\ \A i \in DOMAIN Parts(Event(w)) : i < task[w].part => Stored(Parts(Event(w))[i], Event(w))
    /\ task[w].pc = "respond" /\ task[w].ok
         => \A i \in DOMAIN Parts(Event(w)) : Stored(Parts(Event(w))[i], Event(w))

AckedStored ==
  \A e \in EventId : sub[e] = "acked" => \A i \in DOMAIN Parts(e) : Stored(Parts(e)[i], e)

WriterInv ==
  /\ StoreInv
  /\ TypeOK
  /\ rows # {} => session
  /\ \A w \in Writer : TaskKnows(w)
  /\ AckedStored
  /\ LineHasRow
  /\ PartsInOrder

(* The invariant states the properties of the run. *)
LEMMA WriterInvMeans == WriterInv => TypeOK /\ AckedHasLines /\ AckedHasRows /\ LineHasRow /\ PartsInOrder
<1> SUFFICES ASSUME WriterInv, NEW e \in EventId, sub[e] = "acked", NEW f \in PartSet(e)
             PROVE  /\ f \notin contended => LinesOf(f, e) # {}
                    /\ HasRow(f) => <<f, e>> \in rows
  BY DEF WriterInv, AckedHasLines, AckedHasRows
<1>1. PICK i \in DOMAIN Parts(e) : f = Parts(e)[i]
  BY DEF PartSet
<1>2. Stored(f, e)
  BY <1>1 DEF WriterInv, AckedStored
<1> QED
  BY <1>2 DEF Stored, HasLine, LinesOf

(* A handler at work has an event and a file of that event. *)
LEMMA TaskType ==
  ASSUME TypeOK, NEW w \in Writer, task[w].pc # "idle", TaskKnows(w)
  PROVE  /\ Event(w) \in EventId /\ PartFile(w) \in File /\ task[w].part \in 1 .. 2 /\ task[w].ok \in BOOLEAN
         /\ task[w].part \in DOMAIN Parts(Event(w))
<1>1. task[w] \in Task
  BY DEF TypeOK
<1>2. task[w] \in [pc : TaskPc \ {"idle"}, ev : EventId, part : 1 .. 2, ok : BOOLEAN]
  <2>1. Idle.pc = "idle"
    BY DEF Idle
  <2> QED
    BY <1>1, <2>1, Zenon DEF Task
<1>3. task[w].ev \in EventId /\ task[w].part \in 1 .. 2 /\ task[w].ok \in BOOLEAN
  BY <1>2
<1>4. task[w].part \in DOMAIN Parts(Event(w))
  BY DEF TaskKnows
<1> QED
  BY <1>3, <1>4, PartsType DEF Event, PartFile

(* How a step leaves the task of a handler. *)
TaskAt(w, p, part, ok) ==
  /\ task' \in [Writer -> Task]
  /\ \A v \in Writer \ {w} : task'[v] = task[v]
  /\ task'[w].pc = p /\ task'[w].part = part /\ task'[w].ok = ok /\ task'[w].ev = task[w].ev

(* A step that gives a handler a new task of the same event. *)
LEMMA TaskMoves ==
  ASSUME TypeOK, NEW w \in Writer, task[w].pc # "idle", TaskKnows(w), NEW p \in TaskPc \ {"idle"},
         NEW part \in 1 .. 2, NEW ok \in BOOLEAN,
         task' = [task EXCEPT ![w] = [pc |-> p, ev |-> task[w].ev, part |-> part, ok |-> ok]]
  PROVE  TaskAt(w, p, part, ok)
<1>1. task \in [Writer -> Task] /\ task[w].ev \in EventId
  BY TaskType DEF TypeOK, Event
<1>2. [pc |-> p, ev |-> task[w].ev, part |-> part, ok |-> ok] \in Task
  BY <1>1 DEF Task
<1> QED
  BY <1>1, <1>2 DEF TaskAt

(* A step that only changes where the handler is. *)
LEMMA PcMoves ==
  ASSUME TypeOK, NEW w \in Writer, task[w].pc # "idle", TaskKnows(w), NEW p \in TaskPc \ {"idle"},
         task' = [task EXCEPT ![w].pc = p]
  PROVE  TaskAt(w, p, task[w].part, task[w].ok)
<1>1. task[w] \in Task /\ task[w].part \in 1 .. 2 /\ task[w].ok \in BOOLEAN
  BY TaskType DEF TypeOK
<1>2. PICK part \in 1 .. 2, ok \in BOOLEAN : part = task[w].part /\ ok = task[w].ok
  BY <1>1
<1>3. task[w] = [pc |-> task[w].pc, ev |-> task[w].ev, part |-> part, ok |-> ok]
  <2>1. Idle.pc = "idle"
    BY DEF Idle
  <2>2. task[w] \in [pc : TaskPc \ {"idle"}, ev : EventId, part : 1 .. 2, ok : BOOLEAN]
    BY <1>1, <2>1, Zenon DEF Task
  <2> QED
    BY <1>2, <2>2
<1>4. [task[w] EXCEPT !.pc = p] = [pc |-> p, ev |-> task[w].ev, part |-> part, ok |-> ok]
  BY <1>3
<1>5. task' = [task EXCEPT ![w] = [pc |-> p, ev |-> task[w].ev, part |-> part, ok |-> ok]]
  BY <1>4
<1>6. TaskAt(w, p, part, ok)
  <2>1. \A pa \in 1 .. 2, k \in BOOLEAN :
          task' = [task EXCEPT ![w] = [pc |-> p, ev |-> task[w].ev, part |-> pa, ok |-> k]]
            => TaskAt(w, p, pa, k)
    BY TaskMoves, Zenon
  <2> QED
    BY <1>5, <2>1, Zenon
<1> QED
  BY <1>2, <1>6

(* writeEvent returns: the handler goes on to its HTTP answer. *)
LEMMA AnswerMoves ==
  ASSUME TypeOK, NEW w \in Writer, task[w].pc # "idle", TaskKnows(w), NEW ok \in BOOLEAN, Answer(w, ok)
  PROVE  TaskAt(w, "respond", task[w].part, ok)
<1>1. PICK part \in 1 .. 2 : part = task[w].part
  BY TaskType
<1>2. task' = [task EXCEPT ![w] = [pc |-> "respond", ev |-> task[w].ev, part |-> part, ok |-> ok]]
  BY <1>1 DEF Answer
<1>3. "respond" \in TaskPc \ {"idle"}
  BY DEF TaskPc
<1>4. TaskAt(w, "respond", part, ok)
  BY <1>2, <1>3, TaskMoves
<1> QED
  BY <1>1, <1>4
-----------------------------------------------------------------------------
(* Rows are only added, and files that nobody contends for keep their      *)
(* lines.                                                                  *)
Grows == KeepsLines /\ rows \subseteq rows'

(* A part that is stored stays stored, as long as nothing is taken away. *)
LEMMA StoredLasts ==
  ASSUME Grows, NEW f \in File, NEW e \in EventId, Stored(f, e)
  PROVE  Stored(f, e)'
BY DEF Grows, KeepsLines, Stored, HasRow

(* The handlers that do not move go on knowing what they knew. *)
LEMMA TaskKnowledgeLasts ==
  ASSUME TypeOK, Grows, NEW w \in Writer, TaskKnows(w), task'[w] = task[w], call'[w] = call[w]
  PROVE  TaskKnows(w)'
<1>1. CASE task[w].pc = "idle"
  BY <1>1 DEF TaskKnows
<1>2. CASE task[w].pc # "idle"
  <2>1. PICK e \in EventId : e = Event(w) /\ e = Event(w)'
    BY <1>2, TaskType DEF Event
  <2>2. PICK f \in File : f = PartFile(w) /\ f = PartFile(w)'
    BY <1>2, TaskType DEF PartFile, Event, Parts
  <2>3. ASSUME NEW i \in DOMAIN Parts(e), Stored(Parts(e)[i], e)
        PROVE  Stored(Parts(e)[i], e)'
    <3>1. PICK g \in File : g = Parts(e)[i]
      BY PartsType
    <3>2. Stored(g, e)'
      BY <2>3, <3>1, StoredLasts
    <3> QED
      BY <3>1, <3>2 DEF Stored, Parts, HasRow, HasLine
  <2>4. HasRow(f) /\ <<f, e>> \in rows => <<f, e>> \in rows'
    BY DEF Grows
  <2>5. Target(w)' = Target(w) /\ Line(w)' = Line(w)
    BY DEF Target, Line
  <2>6. Parts(e)' = Parts(e)
    BY DEF Parts
  <2>7. task[w].part \in DOMAIN Parts(e) /\ \A i \in DOMAIN Parts(e) : i < task[w].part => Stored(Parts(e)[i], e)'
    BY <1>2, <2>1, <2>3 DEF TaskKnows
  <2>8. task[w].pc = "respond" /\ task[w].ok => \A i \in DOMAIN Parts(e) : Stored(Parts(e)[i], e)'
    BY <1>2, <2>1, <2>3 DEF TaskKnows
  <2>9. Parts(Event(w))' = Parts(e)
    BY <2>1 DEF Parts
  <2>10. \A i \in DOMAIN Parts(e) : Stored(Parts(e)[i], e)' <=> Stored(Parts(Event(w))[i], Event(w))'
    BY <2>1, <2>9 DEF Stored, HasLine, HasRow
  <2>11. /\ task[w].pc = "appending" => Target(w) = f /\ Line(w) = e
         /\ task[w].pc \in {"append", "appending"} /\ HasRow(f) => <<f, e>> \in rows
    BY <1>2, <2>1, <2>2 DEF TaskKnows
  <2> QED
    BY <2>1, <2>2, <2>4, <2>5, <2>7, <2>8, <2>9, <2>10, <2>11 DEF TaskKnows, HasRow
<1> QED
  BY <1>1, <1>2

(* What was acknowledged, what was stored in order, and the rows behind    *)
(* the lines stay so as rows and lines are added.                          *)
LEMMA AckedLasts ==
  ASSUME Grows, AckedStored, \A e \in EventId : sub'[e] = "acked" => sub[e] = "acked"
  PROVE  AckedStored'
<1> SUFFICES ASSUME NEW e \in EventId, sub'[e] = "acked", NEW i \in DOMAIN Parts(e)'
             PROVE  Stored(Parts(e)[i], e)'
  BY DEF AckedStored
<1>1. Parts(e)' = Parts(e)
  BY DEF Parts
<1>2. PICK f \in File : f = Parts(e)[i]
  BY <1>1, PartsType
<1>3. Stored(f, e)'
  BY <1>1, <1>2, StoredLasts DEF AckedStored
<1> QED
  BY <1>1, <1>2, <1>3 DEF Stored, HasRow, HasLine

(* A row of a second part may be added once the first part is stored. *)
LEMMA OrderLasts ==
  ASSUME Grows, PartsInOrder,
         \A e \in EventId : \A j \in DOMAIN Parts(e) :
           <<Parts(e)[j], e>> \in rows' =>
             \/ <<Parts(e)[j], e>> \in rows
             \/ \A i \in DOMAIN Parts(e) : i < j => Stored(Parts(e)[i], e)
  PROVE  PartsInOrder'
<1>1. ASSUME NEW e \in EventId, NEW i \in DOMAIN Parts(e), NEW j \in DOMAIN Parts(e),
             i < j, <<Parts(e)[j], e>> \in rows', Parts(e)[i] \notin contended'
      PROVE  \E k \in DOMAIN object'[Parts(e)[i]] : object'[Parts(e)[i]][k] = e
  <2>1. PICK f \in File : f = Parts(e)[i]
    BY PartsType
  <2>2. f \notin contended
    BY <1>1, <2>1 DEF Grows, KeepsLines
  <2>3. CASE <<Parts(e)[j], e>> \in rows
    <3>1. LinesOf(f, e) # {}
      BY <1>1, <2>1, <2>2, <2>3 DEF PartsInOrder
    <3>2. HasLine(f, e)
      BY <3>1 DEF LinesOf, HasLine
    <3> QED
      BY <1>1, <2>1, <3>2 DEF Grows, KeepsLines, HasLine
  <2>4. CASE \A k \in DOMAIN Parts(e) : k < j => Stored(Parts(e)[k], e)
    <3>1. HasLine(f, e)
      BY <1>1, <2>1, <2>2, <2>4 DEF Stored
    <3> QED
      BY <1>1, <2>1, <3>1 DEF Grows, KeepsLines, HasLine
  <2> QED
    BY <1>1, <2>3, <2>4
<1>2. \A e \in EventId : Parts(e)' = Parts(e)
  BY DEF Parts
<1> QED
  BY <1>1, <1>2 DEF PartsInOrder, LinesOf

(* A step that writes no line leaves every line its row, since rows and    *)
(* the sessions row are never deleted.                                     *)
LEMMA LinesLast ==
  ASSUME LineHasRow, object' = object, rows \subseteq rows', session => session'
  PROVE  LineHasRow'
BY DEF LineHasRow, HasRow

(* A step of one handler: what is left to show once the others are known   *)
(* to be undisturbed.                                                      *)
LEMMA HandlerStep ==
  ASSUME WriterInv, NEW w \in Writer, StoreInv', Grows, rows' \subseteq File \X EventId,
         session' \in BOOLEAN, rows' # {} => session',
         sub' \in [EventId -> {"new", "pending", "acked", "dead"}],
         attempts' \in [EventId -> 0 .. MaxAttempts],
         task' \in [Writer -> Task],
         \A v \in Writer \ {w} : task'[v] = task[v] /\ call'[v] = call[v],
         call'[w].pc = "none" <=> task'[w].pc # "appending",
         TaskKnows(w)', AckedStored', LineHasRow', PartsInOrder'
  PROVE  WriterInv'
<1>1. TypeOK'
  <2>1. \A v \in Writer : call'[v].pc = "none" <=> task'[v].pc # "appending"
    BY DEF WriterInv, TypeOK
  <2> QED
    BY <2>1 DEF TypeOK, StoreInv
<1>2. \A v \in Writer : TaskKnows(v)'
  BY TaskKnowledgeLasts DEF WriterInv
<1> QED
  BY <1>1, <1>2 DEF WriterInv

(* The invariant holds before the first message. *)
LEMMA WriterInitInv == Init => WriterInv
<1> SUFFICES ASSUME Init PROVE WriterInv
  OBVIOUS
<1>1. StoreInv
  BY StoreInitInv DEF Init
<1>2. \A w \in Writer : task[w].pc = "idle" /\ call[w].pc = "none"
  BY DEF Init, StoreInit, Idle, NoCall
<1>3. TypeOK
  <2>1. 0 \in 0 .. MaxAttempts /\ Idle \in Task
    BY AttemptsAssumption DEF Task
  <2> QED
    BY <1>1, <1>2, <2>1 DEF Init, TypeOK, StoreInv
<1>4. \A f \in File : DOMAIN object[f] = {}
  BY DEF Init, StoreInit
<1>5. \A e \in EventId : sub[e] = "new"
  BY DEF Init
<1> QED
  BY <1>1, <1>2, <1>3, <1>4, <1>5 DEF Init, WriterInv, TaskKnows, AckedStored, LineHasRow, PartsInOrder

(* What a handler knows after a step, from what is stored before it. *)
LEMMA NewKnowledge ==
  ASSUME Grows, NEW w \in Writer, NEW e \in EventId, NEW part \in DOMAIN Parts(e), NEW p, NEW ok \in BOOLEAN,
         task'[w].pc = p, task'[w].part = part, task'[w].ok = ok, task'[w].ev = e,
         p = "appending" => Target(w)' = Parts(e)[part] /\ Line(w)' = e,
         p \in {"append", "appending"} /\ HasRow(Parts(e)[part]) => <<Parts(e)[part], e>> \in rows',
         \A i \in DOMAIN Parts(e) : i < part => Stored(Parts(e)[i], e),
         p = "respond" /\ ok => \A i \in DOMAIN Parts(e) : Stored(Parts(e)[i], e)
  PROVE  TaskKnows(w)'
<1>1. Event(w)' = e
  BY DEF Event
<1>2. Parts(Event(w))' = Parts(e)
  BY <1>1 DEF Parts
<1>3. PartFile(w)' = Parts(e)[part]
  BY <1>2 DEF PartFile
<1>4. ASSUME NEW i \in DOMAIN Parts(e), Stored(Parts(e)[i], e)
      PROVE  Stored(Parts(Event(w))[i], Event(w))'
  <2>1. PICK f \in File : f = Parts(e)[i]
    BY PartsType
  <2>2. Stored(f, e)'
    BY <1>4, <2>1, StoredLasts
  <2> QED
    BY <1>1, <1>2, <2>1, <2>2 DEF Stored, HasRow, HasLine
<1> QED
  BY <1>1, <1>2, <1>3, <1>4 DEF TaskKnows, HasRow
-----------------------------------------------------------------------------
(* Every step of the subscription and of a push handler preserves it. *)
LEMMA WriterStep ==
  ASSUME WriterInv, Next
  PROVE  WriterInv'
<1>0. /\ StoreInv /\ TypeOK /\ AckedStored /\ LineHasRow /\ PartsInOrder /\ \A v \in Writer : TaskKnows(v)
      /\ sub \in [EventId -> {"new", "pending", "acked", "dead"}]
      /\ attempts \in [EventId -> 0 .. MaxAttempts] /\ task \in [Writer -> Task]
      /\ session \in BOOLEAN /\ rows \subseteq File \X EventId /\ (rows # {} => session)
      /\ \A v \in Writer : call[v].pc = "none" <=> task[v].pc # "appending"
  BY DEF WriterInv, TypeOK
<1>1. ASSUME NEW e \in EventId, Publish(e) \/ DeadLetter(e)
      PROVE  WriterInv'
  <2>1. UNCHANGED storeVars /\ UNCHANGED <<attempts, task, session, rows>>
    BY <1>1 DEF Publish, DeadLetter, dbVars
  <2>2. UNCHANGED <<object, call, contended>>
    BY <2>1 DEF storeVars
  <2>3. /\ sub' \in [EventId -> {"new", "pending", "acked", "dead"}]
        /\ \A d \in EventId : sub'[d] = "acked" => sub[d] = "acked"
    BY <1>0, <1>1 DEF Publish, DeadLetter
  <2>4. Grows /\ StoreInv'
    BY <1>0, <2>1, StoreStutter DEF Grows
  <2>5. \A v \in Writer : TaskKnows(v)'
    BY <1>0, <2>1, <2>2, <2>4, TaskKnowledgeLasts
  <2>6. AckedStored' /\ LineHasRow' /\ PartsInOrder'
    BY <1>0, <2>1, <2>2, <2>3, <2>4, AckedLasts, LinesLast, OrderLasts
  <2>7. TypeOK'
    BY <1>0, <2>1, <2>2, <2>3, <2>4 DEF TypeOK, StoreInv
  <2> QED
    BY <1>0, <2>1, <2>4, <2>5, <2>6, <2>7 DEF WriterInv
<1>2. ASSUME NEW w \in Writer, NEW e \in EventId, Deliver(w, e)
      PROVE  WriterInv'
  <2>1. /\ UNCHANGED storeVars /\ UNCHANGED <<sub, session, rows, object, call, contended>>
        /\ task[w].pc = "idle"
    <3>1. UNCHANGED storeVars /\ UNCHANGED <<sub, session, rows>>
      BY <1>2 DEF Deliver, dbVars
    <3>2. UNCHANGED <<object, call, contended>>
      BY <3>1 DEF storeVars
    <3>3. task[w] = Idle
      BY <1>2 DEF Deliver
    <3>4. Idle.pc = "idle"
      BY DEF Idle
    <3> QED
      BY <3>1, <3>2, <3>3, <3>4
  <2> DEFINE t == [pc |-> FirstStep(Parts(e)[1]), ev |-> e, part |-> 1, ok |-> FALSE]
  <2>2. t \in Task /\ 1 \in DOMAIN Parts(e)
    BY PartsType DEF Task, TaskPc, FirstStep
  <2>3. /\ task' \in [Writer -> Task] /\ \A v \in Writer \ {w} : task'[v] = task[v]
        /\ task'[w] = t
    BY <1>0, <1>2, <2>2 DEF Deliver
  <2>4. attempts' \in [EventId -> 0 .. MaxAttempts]
    BY <1>0, <1>2, AttemptsAssumption DEF Deliver
  <2>5. Grows /\ StoreInv'
    BY <1>0, <2>1, StoreStutter DEF Grows
  <2>6. AckedStored' /\ LineHasRow' /\ PartsInOrder'
    BY <1>0, <2>1, <2>5, AckedLasts, LinesLast, OrderLasts
  <2>7. /\ t.pc # "appending" /\ t.pc # "respond" /\ (t.pc = "append" => ~HasRow(Parts(e)[1]))
        /\ t.ev = e /\ t.part = 1 /\ t.ok = FALSE
    BY DEF FirstStep
  <2>8. \A i \in DOMAIN Parts(e) : ~(i < 1)
    BY PartsType
  <2>9. TaskKnows(w)'
    <3>1. task'[w].ev = e /\ task'[w].part = 1 /\ task'[w].ok = FALSE /\ task'[w].pc = t.pc
      BY <2>3, <2>7
    <3> HIDE DEF t
    <3> QED
      BY <2>2, <2>5, <2>7, <2>8, <3>1, NewKnowledge
  <2>10. call'[w].pc = "none" <=> task'[w].pc # "appending"
    BY <1>0, <2>1, <2>3, <2>7
  <2> QED
    BY <1>0, <2>1, <2>3, <2>4, <2>5, <2>6, <2>9, <2>10, HandlerStep
<1>3. ASSUME NEW w \in Writer, EnsureSession(w)
      PROVE  WriterInv'
  <2>1. /\ UNCHANGED storeVars /\ UNCHANGED <<sub, attempts, rows, object, call, contended>>
        /\ task[w].pc = "session" /\ session' \in BOOLEAN /\ (session => session')
    BY <1>0, <1>3 DEF EnsureSession, storeVars
  <2>2. PICK e \in EventId, part \in 1 .. 2, k \in BOOLEAN :
          e = Event(w) /\ part = task[w].part /\ k = task[w].ok /\ part \in DOMAIN Parts(e)
    BY <1>0, <2>1, TaskType
  <2>3. TaskAt(w, "row", part, k) \/ TaskAt(w, "respond", part, FALSE)
    <3>1. "row" \in TaskPc \ {"idle"}
      BY DEF TaskPc
    <3> QED
      BY <1>0, <1>3, <2>1, <2>2, <3>1, PcMoves, AnswerMoves DEF EnsureSession, AfterSession
  <2>4. Grows /\ StoreInv'
    BY <1>0, <2>1, StoreStutter DEF Grows
  <2>5. AckedStored' /\ LineHasRow' /\ PartsInOrder'
    BY <1>0, <2>1, <2>4, AckedLasts, LinesLast, OrderLasts
  <2>6. \A i \in DOMAIN Parts(e) : i < part => Stored(Parts(e)[i], e)
    BY <1>0, <2>1, <2>2 DEF TaskKnows
  <2>7. TaskKnows(w)'
    BY <2>2, <2>3, <2>4, <2>6, NewKnowledge DEF TaskAt, Event
  <2>8. call'[w].pc = "none" <=> task'[w].pc # "appending"
    BY <1>0, <2>1, <2>3 DEF TaskAt
  <2> QED
    BY <1>0, <2>1, <2>3, <2>4, <2>5, <2>7, <2>8, HandlerStep DEF TaskAt
<1>4. ASSUME NEW w \in Writer, InsertRow(w)
      PROVE  WriterInv'
  <2>1. /\ UNCHANGED storeVars /\ UNCHANGED <<sub, attempts, session, object, call, contended>>
        /\ task[w].pc = "row"
    BY <1>4 DEF InsertRow, storeVars
  <2>2. PICK e \in EventId, part \in 1 .. 2, k \in BOOLEAN :
          e = Event(w) /\ part = task[w].part /\ k = task[w].ok /\ part \in DOMAIN Parts(e)
    BY <1>0, <2>1, TaskType
  <2>3. PICK f \in File : f = PartFile(w) /\ f = Parts(e)[part]
    BY <1>0, <2>1, <2>2, TaskType DEF PartFile
  <2>4. /\ rows \subseteq rows' /\ rows' \subseteq rows \cup {<<f, e>>} /\ (rows' # {} => session')
        /\ \/ <<f, e>> \in rows' /\ TaskAt(w, "append", part, k)
           \/ TaskAt(w, "respond", part, FALSE)
    <3>1. "append" \in TaskPc \ {"idle"}
      BY DEF TaskPc
    <3>2. CASE rows' = rows \cup {<<f, e>>} /\ session /\ task' = [task EXCEPT ![w].pc = "append"]
      BY <1>0, <2>1, <2>2, <3>1, <3>2, PcMoves
    <3>3. CASE Answer(w, FALSE) /\ rows' \in {rows} \cup (IF session THEN {rows \cup {<<f, e>>}} ELSE {})
      BY <1>0, <2>1, <2>2, <3>3, AnswerMoves
    <3> QED
      BY <1>4, <2>2, <2>3, <3>2, <3>3 DEF InsertRow, AfterRow
  <2>5. Grows /\ StoreInv'
    BY <1>0, <2>1, <2>4, StoreStutter DEF Grows
  <2>6. \A i \in DOMAIN Parts(e) : i < part => Stored(Parts(e)[i], e)
    BY <1>0, <2>1, <2>2 DEF TaskKnows
  <2>7. PartsInOrder'
    <3>1. ASSUME NEW d \in EventId, NEW j \in DOMAIN Parts(d), <<Parts(d)[j], d>> \in rows',
                 <<Parts(d)[j], d>> \notin rows
          PROVE  \A i \in DOMAIN Parts(d) : i < j => Stored(Parts(d)[i], d)
      <4>1. d = e /\ Parts(d)[j] = Parts(e)[part]
        BY <2>3, <2>4, <3>1
      <4>2. j = part
        BY <2>2, <4>1, PartsType
      <4> QED
        BY <2>6, <4>1, <4>2
    <3> QED
      BY <1>0, <2>5, <3>1, OrderLasts
  <2>8. AckedStored' /\ LineHasRow'
    BY <1>0, <2>1, <2>4, <2>5, AckedLasts, LinesLast
  <2>9. TaskKnows(w)'
    BY <2>2, <2>3, <2>4, <2>5, <2>6, NewKnowledge DEF TaskAt, Event
  <2>10. call'[w].pc = "none" <=> task'[w].pc # "appending"
    BY <1>0, <2>1, <2>4 DEF TaskAt
  <2>11. rows' \subseteq File \X EventId
    BY <1>0, <2>4
  <2> QED
    BY <1>0, <2>1, <2>4, <2>5, <2>7, <2>8, <2>9, <2>10, <2>11, HandlerStep DEF TaskAt
<1>5. ASSUME NEW w \in Writer, StartAppend(w)
      PROVE  WriterInv'
  <2>1. UNCHANGED <<sub, attempts, session, rows>> /\ task[w].pc = "append"
    BY <1>5 DEF StartAppend, dbVars
  <2>2. PICK e \in EventId, part \in 1 .. 2, k \in BOOLEAN :
          e = Event(w) /\ part = task[w].part /\ k = task[w].ok /\ part \in DOMAIN Parts(e)
    BY <1>0, <2>1, TaskType
  <2>3. PICK f \in File : f = PartFile(w) /\ f = Parts(e)[part]
    BY <1>0, <2>1, <2>2, TaskType DEF PartFile
  <2>4. BeginAppend(w, f, e)
    BY <1>5, <2>2, <2>3 DEF StartAppend
  <2>5. /\ StoreInv' /\ KeepsLines /\ UNCHANGED <<object, returned>>
        /\ \A v \in Writer \ {w} : call'[v] = call[v]
        /\ call'[w].pc = "stage" /\ Target(w)' = f /\ Line(w)' = e
    BY <1>0, <2>4, BeginStep
  <2>6. TaskAt(w, "appending", part, k)
    <3>1. "appending" \in TaskPc \ {"idle"}
      BY DEF TaskPc
    <3> QED
      BY <1>0, <1>5, <2>1, <2>2, <3>1, PcMoves DEF StartAppend
  <2>7. Grows
    BY <2>1, <2>5 DEF Grows
  <2>8. AckedStored' /\ LineHasRow' /\ PartsInOrder'
    BY <1>0, <2>1, <2>5, <2>7, AckedLasts, LinesLast, OrderLasts
  <2>9. /\ \A i \in DOMAIN Parts(e) : i < part => Stored(Parts(e)[i], e)
        /\ HasRow(f) => <<f, e>> \in rows
    BY <1>0, <2>1, <2>2, <2>3 DEF TaskKnows
  <2>10. TaskKnows(w)'
    BY <2>1, <2>2, <2>3, <2>5, <2>6, <2>7, <2>9, NewKnowledge DEF TaskAt, Event
  <2>11. call'[w].pc = "none" <=> task'[w].pc # "appending"
    BY <2>5, <2>6 DEF TaskAt
  <2> QED
    BY <1>0, <2>1, <2>5, <2>6, <2>7, <2>8, <2>10, <2>11, HandlerStep DEF TaskAt
<1>6. ASSUME NEW w \in Writer, AppendCall(w)
      PROVE  WriterInv'
  <2>1. UNCHANGED <<sub, attempts, task, session, rows>> /\ StorageCall(w)
    BY <1>6 DEF AppendCall, dbVars
  <2>2. /\ StoreInv' /\ KeepsLines /\ call[w].pc # "none"
        /\ \A f \in File : \A i \in DOMAIN object'[f] :
             \/ i \in DOMAIN object[f] /\ object'[f][i] = object[f][i]
             \/ f = Target(w) /\ object'[f][i] = Line(w)
    BY <1>0, <2>1, StorageCallStep
  <2>3. PICK label \in CallPc \ {"none"} : CallAt(w, label)
    BY <1>0, <2>1, StorageCallStep
  <2>4. task[w].pc = "appending"
    BY <1>0, <2>2
  <2>5. PICK e \in EventId, part \in 1 .. 2, k \in BOOLEAN :
          e = Event(w) /\ part = task[w].part /\ k = task[w].ok /\ part \in DOMAIN Parts(e)
    BY <1>0, <2>4, TaskType
  <2>6. PICK f \in File : f = PartFile(w) /\ f = Parts(e)[part]
    BY <1>0, <2>4, <2>5, TaskType DEF PartFile
  <2>7. /\ Target(w) = f /\ Line(w) = e /\ (HasRow(f) => <<f, e>> \in rows)
        /\ \A i \in DOMAIN Parts(e) : i < part => Stored(Parts(e)[i], e)
    BY <1>0, <2>4, <2>5, <2>6 DEF TaskKnows
  <2>8. Grows
    BY <2>1, <2>2 DEF Grows
  <2>9. LineHasRow'
    <3>1. ASSUME NEW g \in File, NEW i \in DOMAIN object'[g], HasRow(g)
          PROVE  <<g, object'[g][i]>> \in rows /\ session
      BY <1>0, <2>2, <2>7, <3>1 DEF LineHasRow
    <3> QED
      BY <2>1, <3>1 DEF LineHasRow, HasRow
  <2>10. AckedStored' /\ PartsInOrder'
    BY <1>0, <2>1, <2>8, AckedLasts, OrderLasts
  <2>11. /\ \A v \in Writer \ {w} : call'[v] = call[v]
         /\ call'[w].pc # "none" /\ Target(w)' = f /\ Line(w)' = e
    BY <2>3, <2>7 DEF CallAt, Target, Line
  <2>12. TaskKnows(w)'
    BY <2>1, <2>4, <2>5, <2>6, <2>7, <2>8, <2>11, NewKnowledge DEF Event
  <2>13. call'[w].pc = "none" <=> task'[w].pc # "appending"
    BY <2>1, <2>4, <2>11
  <2> QED
    BY <1>0, <2>1, <2>2, <2>8, <2>9, <2>10, <2>11, <2>12, <2>13, HandlerStep
<1>7. ASSUME NEW w \in Writer, FinishAppend(w)
      PROVE  WriterInv'
  <2>1. /\ UNCHANGED <<sub, attempts, session, rows>> /\ task[w].pc = "appending"
        /\ \E ok \in BOOLEAN : AppendReturns(w, ok)
    BY <1>7 DEF FinishAppend, dbVars
  <2>2. PICK e \in EventId, part \in 1 .. 2, k \in BOOLEAN :
          e = Event(w) /\ part = task[w].part /\ k = task[w].ok /\ part \in DOMAIN Parts(e)
    BY <1>0, <2>1, TaskType
  <2>3. PICK f \in File : f = PartFile(w) /\ f = Parts(e)[part]
    BY <1>0, <2>1, <2>2, TaskType DEF PartFile
  <2>4. /\ Target(w) = f /\ Line(w) = e /\ (HasRow(f) => <<f, e>> \in rows)
        /\ \A i \in DOMAIN Parts(e) : i < part => Stored(Parts(e)[i], e)
    BY <1>0, <2>1, <2>2, <2>3 DEF TaskKnows
  <2>5. /\ StoreInv' /\ KeepsLines /\ UNCHANGED <<object, contended>>
        /\ call'[w] = NoCall /\ \A v \in Writer \ {w} : call'[v] = call[v]
        /\ AppendReturns(w, TRUE) /\ f \notin contended => HasLine(f, e)
    BY <1>0, <2>1, <2>4, EndStep
  <2>6. Grows
    BY <2>1, <2>5 DEF Grows
  <2>7. AppendReturns(w, TRUE) => Stored(f, e)
    BY <2>4, <2>5 DEF Stored
  <2>8. AppendReturns(w, TRUE) => \A i \in DOMAIN Parts(e) : i < part + 1 => Stored(Parts(e)[i], e)
    <3>1. \A i \in DOMAIN Parts(e) : i < part + 1 => i < part \/ i = part
      BY PartsType
    <3> QED
      BY <2>3, <2>4, <2>7, <3>1
  <2>9. call'[w].pc = "none"
    <3>1. NoCall.pc = "none"
      BY DEF NoCall
    <3> QED
      BY <2>5, <3>1
  <2>10. /\ TaskKnows(w)' /\ task' \in [Writer -> Task] /\ task'[w].pc # "appending"
         /\ \A v \in Writer \ {w} : task'[v] = task[v]
    <3>1. CASE Answer(w, FALSE)
      <4>1. TaskAt(w, "respond", part, FALSE)
        BY <1>0, <2>1, <2>2, <3>1, AnswerMoves
      <4>2. TaskKnows(w)'
        BY <2>2, <2>4, <2>6, <4>1, NewKnowledge DEF TaskAt, Event
      <4> QED
        BY <4>1, <4>2 DEF TaskAt
    <3>2. CASE AppendReturns(w, TRUE) /\ ~MoreParts(w) /\ Answer(w, TRUE)
      <4>1. TaskAt(w, "respond", part, TRUE)
        BY <1>0, <2>1, <2>2, <3>2, AnswerMoves
      <4>2. ~(part < Len(Parts(e)))
        BY <2>2, <3>2 DEF MoreParts
      <4>3. \A i \in DOMAIN Parts(e) : i < part + 1
        BY <2>2, <4>2, PartsType
      <4>4. \A i \in DOMAIN Parts(e) : Stored(Parts(e)[i], e)
        BY <2>8, <3>2, <4>3
      <4>5. TaskKnows(w)'
        BY <2>2, <2>4, <2>6, <4>1, <4>4, NewKnowledge DEF TaskAt, Event
      <4> QED
        BY <4>1, <4>5 DEF TaskAt
    <3>3. CASE AppendReturns(w, TRUE) /\ MoreParts(w) /\ NextPart(w)
      <4> DEFINE p == FirstStep(Parts(e)[part + 1])
      <4>1. part < Len(Parts(e))
        BY <2>2, <3>3 DEF MoreParts
      <4>2. part + 1 \in DOMAIN Parts(e) /\ part + 1 \in 1 .. 2
        <5> HIDE DEF p
        <5>1. PICK n \in {1, 2} : n = Len(Parts(e)) /\ DOMAIN Parts(e) = 1 .. n
          BY PartsType
        <5>2. part < n
          BY <4>1, <5>1
        <5>3. n = 2 /\ part = 1
          BY <5>2, FirstOfTwo, Zenon
        <5> QED
          BY <5>1, <5>3
      <4>3. p \in TaskPc \ {"idle"} /\ p \in {"session", "append"} /\ (p = "append" => ~HasRow(Parts(e)[part + 1]))
        BY DEF FirstStep, TaskPc
      <4>4. task' = [task EXCEPT ![w] = [pc |-> p, ev |-> task[w].ev, part |-> part + 1, ok |-> k]]
        BY <2>2, <3>3 DEF NextPart, Event
      <4> HIDE DEF p
      <4>5. task[w].pc # "idle" /\ TaskKnows(w) /\ TypeOK /\ p \in TaskPc \ {"idle"}
        BY <1>0, <2>1, <4>3
      <4>6. TaskAt(w, p, part + 1, k)
        BY <4>2, <4>4, <4>5, TaskMoves, Zenon
      <4>7. PICK q \in DOMAIN Parts(e) : q = part + 1
        BY <4>2
      <4>8. \A i \in DOMAIN Parts(e) : i < q => Stored(Parts(e)[i], e)
        BY <2>8, <3>3, <4>7
      <4>9. task'[w].pc = p /\ task'[w].part = q /\ task'[w].ok = k /\ task'[w].ev = e
        BY <2>2, <4>6, <4>7 DEF TaskAt, Event
      <4>10. /\ p # "appending" /\ p # "respond" /\ (p = "append" => ~HasRow(Parts(e)[q]))
        BY <4>3, <4>7
      <4>11. TaskKnows(w)'
        BY <2>6, <4>8, <4>9, <4>10, NewKnowledge
      <4> QED
        BY <4>6, <4>9, <4>10, <4>11 DEF TaskAt
    <3> QED
      BY <1>7, <3>1, <3>2, <3>3 DEF FinishAppend
  <2>11. AckedStored' /\ LineHasRow' /\ PartsInOrder'
    BY <1>0, <2>1, <2>5, <2>6, AckedLasts, LinesLast, OrderLasts
  <2> QED
    BY <1>0, <2>1, <2>5, <2>6, <2>9, <2>10, <2>11, HandlerStep
<1>8. ASSUME NEW w \in Writer, Respond(w)
      PROVE  WriterInv'
  <2>1. /\ UNCHANGED storeVars /\ UNCHANGED <<attempts, session, rows, object, call, contended>>
        /\ task[w].pc = "respond"
    <3>1. UNCHANGED storeVars /\ UNCHANGED <<attempts, session, rows>> /\ task[w].pc = "respond"
      BY <1>8 DEF Respond, dbVars
    <3> QED
      BY <3>1 DEF storeVars
  <2>2. PICK e \in EventId : e = Event(w)
    BY <1>0, <2>1, TaskType
  <2>3. /\ sub' \in [EventId -> {"new", "pending", "acked", "dead"}]
        /\ \A d \in EventId : sub'[d] = "acked" => sub[d] = "acked" \/ (d = e /\ task[w].ok)
    BY <1>0, <1>8, <2>2 DEF Respond
  <2>4. task[w].ok => \A i \in DOMAIN Parts(e) : Stored(Parts(e)[i], e)
    BY <1>0, <2>1, <2>2 DEF TaskKnows
  <2>5. Grows /\ StoreInv'
    BY <1>0, <2>1, StoreStutter DEF Grows
  <2>6. AckedStored'
    <3> SUFFICES ASSUME NEW d \in EventId, sub'[d] = "acked", NEW i \in DOMAIN Parts(d)'
                 PROVE  Stored(Parts(d)[i], d)'
      BY DEF AckedStored
    <3>1. Parts(d)' = Parts(d)
      BY DEF Parts
    <3>2. Stored(Parts(d)[i], d)
      BY <1>0, <2>3, <2>4, <3>1 DEF AckedStored
    <3> QED
      BY <2>1, <3>1, <3>2 DEF Stored, HasRow, HasLine
  <2>7. LineHasRow' /\ PartsInOrder'
    BY <1>0, <2>1, <2>5, LinesLast, OrderLasts
  <2>8. task' \in [Writer -> Task] /\ task'[w].pc = "idle" /\ \A v \in Writer \ {w} : task'[v] = task[v]
    <3>1. task' = [task EXCEPT ![w] = Idle]
      BY <1>8 DEF Respond
    <3>2. Idle \in Task /\ Idle.pc = "idle"
      BY DEF Task, Idle
    <3> QED
      BY <1>0, <3>1, <3>2
  <2>9. TaskKnows(w)' /\ (call'[w].pc = "none" <=> task'[w].pc # "appending")
    BY <1>0, <2>1, <2>8 DEF TaskKnows
  <2> QED
    BY <1>0, <2>1, <2>3, <2>5, <2>6, <2>7, <2>8, <2>9, HandlerStep
<1>9. ASSUME NEW w \in Writer, Crash(w)
      PROVE  WriterInv'
  <2>1. /\ UNCHANGED <<sub, attempts, session, rows>> /\ task' = [task EXCEPT ![w] = Idle]
        /\ AppendDies(w) \/ (call[w].pc = "none" /\ UNCHANGED storeVars)
    BY <1>9 DEF Crash, dbVars
  <2>2. /\ StoreInv' /\ KeepsLines /\ UNCHANGED object
        /\ call'[w].pc = "none" /\ \A v \in Writer \ {w} : call'[v] = call[v]
    <3>1. CASE AppendDies(w)
      <4>1. NoCall.pc = "none"
        BY DEF NoCall
      <4> QED
        BY <1>0, <3>1, <4>1, EndStep
    <3>2. CASE call[w].pc = "none" /\ UNCHANGED storeVars
      <4>1. UNCHANGED <<object, call>>
        BY <3>2 DEF storeVars
      <4> QED
        BY <1>0, <3>2, <4>1, StoreStutter
    <3> QED
      BY <2>1, <3>1, <3>2
  <2>3. Grows
    BY <2>1, <2>2 DEF Grows
  <2>4. AckedStored' /\ LineHasRow' /\ PartsInOrder'
    BY <1>0, <2>1, <2>2, <2>3, AckedLasts, LinesLast, OrderLasts
  <2>5. task' \in [Writer -> Task] /\ task'[w].pc = "idle" /\ \A v \in Writer \ {w} : task'[v] = task[v]
    <3>1. Idle \in Task /\ Idle.pc = "idle"
      BY DEF Task, Idle
    <3> QED
      BY <1>0, <2>1, <3>1
  <2>6. TaskKnows(w)' /\ (call'[w].pc = "none" <=> task'[w].pc # "appending")
    BY <2>2, <2>5 DEF TaskKnows
  <2> QED
    BY <1>0, <2>1, <2>2, <2>3, <2>4, <2>5, <2>6, HandlerStep
<1> QED
  BY <1>1, <1>2, <1>3, <1>4, <1>5, <1>6, <1>7, <1>8, <1>9 DEF Next, Handle

(* So does a stutter. *)
LEMMA WriterStutter ==
  ASSUME WriterInv, UNCHANGED vars
  PROVE  WriterInv'
<1>1. UNCHANGED storeVars /\ UNCHANGED <<sub, attempts, task, session, rows>>
  BY DEF vars, dbVars
<1>2. UNCHANGED <<object, call, contended>>
  BY <1>1 DEF storeVars
<1>3. Grows /\ StoreInv'
  BY <1>1, StoreStutter DEF Grows, WriterInv
<1>4. TypeOK'
  BY <1>1, <1>2, <1>3 DEF WriterInv, TypeOK, StoreInv
<1>5. \A w \in Writer : TaskKnows(w)'
  BY <1>1, <1>2, <1>3, TaskKnowledgeLasts DEF WriterInv
<1>6. AckedStored' /\ LineHasRow' /\ PartsInOrder'
  BY <1>1, <1>2, <1>3, AckedLasts, LinesLast, OrderLasts DEF WriterInv
<1> QED
  BY <1>1, <1>3, <1>4, <1>5, <1>6 DEF WriterInv
-----------------------------------------------------------------------------
(* The inductive invariant holds of every execution of Durable Writer,     *)
(* with any number of handlers, deliveries, failures and crashes.          *)
THEOREM WriterCorrect == Spec => []WriterInv
<1>1. WriterInv /\ [Next]_vars => WriterInv'
  BY WriterStep, WriterStutter
<1> QED
  BY <1>1, WriterInitInv, PTL DEF Spec

(* Handlers, subscription and store stay within their types, and an Append *)
(* is in flight exactly while its handler waits for it (main.go).          *)
THEOREM WriterTypeCorrect == Spec => []TypeOK
BY WriterCorrect, WriterInvMeans, PTL

(* What the subscription was told is stored: a 200 of writeEvent leaves    *)
(* every line of the event in a file nobody contended for.                 *)
THEOREM AckedHasLinesCorrect == Spec => []AckedHasLines
BY WriterCorrect, WriterInvMeans, PTL

(* And every row of it, contended or not: the Postgres inserts do not      *)
(* depend on who else writes.                                              *)
THEOREM AckedHasRowsCorrect == Spec => []AckedHasRows
BY WriterCorrect, WriterInvMeans, PTL

(* writeEvent inserts before it appends, so a crash between the two, or a  *)
(* retry, never leaves a line without the row a report joins it with.      *)
THEOREM LineHasRowCorrect == Spec => []LineHasRow
BY WriterCorrect, WriterInvMeans, PTL

(* A trigger's feedback is stored only after the trigger itself.           *)
THEOREM PartsInOrderCorrect == Spec => []PartsInOrder
BY WriterCorrect, WriterInvMeans, PTL

(* Every step of Durable Writer is a step of its store, or none of it.     *)
LEMMA WriterStepIsStoreStep ==
  ASSUME WriterInv, Next
  PROVE  StoreNext \/ UNCHANGED storeVars
<1>1. ASSUME NEW e \in EventId, Publish(e) \/ DeadLetter(e)
      PROVE  UNCHANGED storeVars
  BY <1>1 DEF Publish, DeadLetter
<1>2. ASSUME NEW w \in Writer, NEW e \in EventId, Deliver(w, e)
      PROVE  UNCHANGED storeVars
  BY <1>2 DEF Deliver
<1>3. ASSUME NEW w \in Writer, EnsureSession(w) \/ InsertRow(w) \/ Respond(w)
      PROVE  UNCHANGED storeVars
  BY <1>3 DEF EnsureSession, InsertRow, Respond
<1>4. ASSUME NEW w \in Writer, StartAppend(w)
      PROVE  StoreNext
  <2>1. task[w].pc # "idle" /\ TaskKnows(w) /\ TypeOK /\ BeginAppend(w, PartFile(w), Event(w))
    BY <1>4 DEF StartAppend, WriterInv
  <2>2. PartFile(w) \in File /\ Event(w) \in EventId
    BY <2>1, TaskType
  <2> QED
    BY <2>1, <2>2 DEF StoreNext
<1>5. ASSUME NEW w \in Writer, AppendCall(w) \/ FinishAppend(w) \/ Crash(w)
      PROVE  StoreNext \/ UNCHANGED storeVars
  BY <1>5 DEF AppendCall, FinishAppend, Crash, StoreNext
<1> QED
  BY <1>1, <1>2, <1>3, <1>4, <1>5 DEF Next, Handle

(* So Durable Writer uses its store as the store's specification allows,   *)
THEOREM WriterUsesStore == Spec => StoreSpec
<1>1. Init => StoreInit
  BY DEF Init
<1>2. WriterInv /\ [Next]_vars => [StoreNext]_storeVars
  BY WriterStepIsStoreStep DEF vars
<1> QED
  BY <1>1, <1>2, WriterCorrect, PTL DEF Spec, StoreSpec

(* and the files it writes implement the append-only log of AppendLog,     *)
(* through every retry, failure and crash of its handlers.                 *)
THEOREM WriterImplementsLog == Spec => ImplementsLog
BY WriterUsesStore, StoreImplementsLog, PTL
-----------------------------------------------------------------------------
(* Copies of a line.  A handler owes the line of a part it has not handed  *)
(* to the store yet, or that the store has neither copied nor composed:    *)
(* each delivery is good for one more copy until then, and for none after. *)
Unwritten(w) ==
  task[w].pc \in {"session", "row", "append"} \/ call[w].pc \in {"stage", "attrs", "copy", "compose"}

Owes(w, f, e) ==
  /\ task[w].pc \notin {"idle", "respond"}
  /\ Event(w) = e
  /\ \E i \in DOMAIN Parts(e) :
       Parts(e)[i] = f /\ (task[w].part < i \/ (task[w].part = i /\ Unwritten(w)))

Owing(f, e) == {w \in Writer : Owes(w, f, e)}

Budget(f, e) ==
  IsFiniteSet(Owing(f, e)) /\ Cardinality(LinesOf(f, e)) + Cardinality(Owing(f, e)) <= attempts[e]

BudgetInv == \A f \in File, e \in EventId : Budget(f, e)

(* One element more, and one less, of a finite set. *)
LEMMA OneMore ==
  ASSUME NEW S, NEW x, NEW T, IsFiniteSet(S), T \subseteq S \cup {x}
  PROVE  IsFiniteSet(T) /\ Cardinality(T) \in Nat /\ Cardinality(T) <= Cardinality(S) + 1
<1>1. PICK n \in Nat : n = Cardinality(S)
  BY FS_CardinalityType
<1>2. PICK U : U = S \cup {x}
  OBVIOUS
<1>3. IsFiniteSet(U) /\ Cardinality(U) \in {n, n + 1}
  BY <1>1, <1>2, FS_AddElement
<1>4. IsFiniteSet(T) /\ Cardinality(T) <= Cardinality(U)
  BY <1>2, <1>3, FS_Subset
<1>5. Cardinality(T) \in Nat
  BY <1>4, FS_CardinalityType
<1> QED
  BY <1>1, <1>3, <1>4, <1>5

LEMMA OneLess ==
  ASSUME NEW S, NEW x \in S, NEW T, IsFiniteSet(S), T \subseteq S \ {x}
  PROVE  IsFiniteSet(T) /\ Cardinality(T) \in Nat /\ Cardinality(T) + 1 <= Cardinality(S)
<1>1. PICK n \in Nat : n = Cardinality(S)
  BY FS_CardinalityType
<1>2. PICK U : U = S \ {x}
  OBVIOUS
<1>3. IsFiniteSet(U) /\ Cardinality(U) = n - 1
  BY <1>1, <1>2, FS_RemoveElement
<1>4. IsFiniteSet(T) /\ Cardinality(T) <= Cardinality(U)
  BY <1>2, <1>3, FS_Subset
<1>5. Cardinality(T) \in Nat
  BY <1>4, FS_CardinalityType
<1> QED
  BY <1>1, <1>3, <1>4, <1>5

(* The occurrences of a line in a file: as many more as there are appended *)
(* or, in a file that is replaced by one line, as there are in that line.  *)
LEMMA CountLines ==
  ASSUME NEW s \in Seq(EventId), NEW d \in EventId, NEW e \in EventId
  PROVE  /\ IsFiniteSet({i \in DOMAIN s : s[i] = e})
         /\ Cardinality({i \in DOMAIN s : s[i] = e}) \in Nat
         /\ Cardinality({i \in DOMAIN Append(s, d) : Append(s, d)[i] = e})
              <= Cardinality({i \in DOMAIN s : s[i] = e}) + 1
         /\ d # e => {i \in DOMAIN Append(s, d) : Append(s, d)[i] = e} = {i \in DOMAIN s : s[i] = e}
         /\ Cardinality({i \in DOMAIN <<d>> : <<d>>[i] = e}) \in {0, 1}
         /\ d # e => Cardinality({i \in DOMAIN <<d>> : <<d>>[i] = e}) = 0
<1> DEFINE S == {i \in DOMAIN s : s[i] = e}
           T == {i \in DOMAIN Append(s, d) : Append(s, d)[i] = e}
           U == {i \in DOMAIN <<d>> : <<d>>[i] = e}
<1>1. PICK n \in Nat : n = Len(s) /\ DOMAIN s = 1 .. n
  OBVIOUS
<1>2. /\ DOMAIN Append(s, d) = 1 .. (n + 1) /\ Append(s, d)[n + 1] = d
      /\ \A i \in 1 .. n : Append(s, d)[i] = s[i]
  BY <1>1
<1>3. IsFiniteSet(S) /\ Cardinality(S) \in Nat
  <2>1. IsFiniteSet(1 .. n)
    BY FS_Interval
  <2>2. S \in SUBSET (1 .. n)
    BY <1>1
  <2>3. IsFiniteSet(S)
    BY <2>1, <2>2, FS_Subset, Zenon
  <2> QED
    BY <2>3, FS_CardinalityType, Zenon
<1>4. T \subseteq S \cup {n + 1} /\ (d # e => T = S)
  <2>1. \A i \in 1 .. (n + 1) : i \in 1 .. n \/ i = n + 1
    OBVIOUS
  <2>2. 1 .. n \subseteq 1 .. (n + 1)
    OBVIOUS
  <2> QED
    BY <1>1, <1>2, <2>1, <2>2
<1>5. U \subseteq {1} /\ (d # e => U = {})
  OBVIOUS
<1> HIDE DEF S, T, U
<1>6. Cardinality(T) <= Cardinality(S) + 1
  BY <1>3, <1>4, OneMore
<1>7. Cardinality(U) \in {0, 1} /\ (d # e => Cardinality(U) = 0)
  <2>1. IsFiniteSet({1}) /\ Cardinality({1}) = 1
    BY FS_Singleton, Zenon
  <2>2. U \in SUBSET {1}
    BY <1>5
  <2>3. IsFiniteSet(U) /\ Cardinality(U) <= Cardinality({1})
    BY <2>1, <2>2, FS_Subset, Zenon
  <2>4. d # e => Cardinality(U) = 0
    BY <1>5, FS_EmptySet, Zenon
  <2>5. Cardinality(U) \in Nat
    BY <2>3, FS_CardinalityType, Zenon
  <2> QED
    BY <2>1, <2>3, <2>4, <2>5
<1> QED
  BY <1>3, <1>4, <1>6, <1>7 DEF S, T, U

(* A handler that does not move owes what it owed. *)
LEMMA OthersOwe ==
  ASSUME NEW v \in Writer, task'[v] = task[v], call'[v] = call[v], NEW f \in File, NEW e \in EventId
  PROVE  Owes(v, f, e)' <=> Owes(v, f, e)
BY DEF Owes, Unwritten, Event, Parts

(* A handler that goes on within its part owes no more than before; with   *)
(* an answer, or without a task, it owes nothing.                          *)
LEMMA SamePartOwes ==
  ASSUME NEW w \in Writer, NEW f \in File, NEW e \in EventId, Owes(w, f, e)',
         task[w].pc \notin {"idle", "respond"},
         task'[w].ev = task[w].ev, task'[w].part = task[w].part, Unwritten(w)' => Unwritten(w)
  PROVE  Owes(w, f, e)
BY DEF Owes, Event, Parts

LEMMA DoneOwes ==
  ASSUME NEW w \in Writer, NEW f \in File, NEW e \in EventId, task'[w].pc \in {"idle", "respond"}
  PROVE  ~Owes(w, f, e)'
BY DEF Owes

(* On to the next part: what is owed then is what was owed beyond the part *)
(* just written.                                                           *)
LEMMA NextPartOwes ==
  ASSUME NEW w \in Writer, NEW f \in File, NEW e \in EventId, Owes(w, f, e)',
         task[w].pc = "appending", task[w].part \in 1 .. 2,
         task'[w].ev = task[w].ev, task'[w].part = task[w].part + 1
  PROVE  Owes(w, f, e)
<1>1. Event(w) = e /\ Parts(e)' = Parts(e)
  BY DEF Owes, Event, Parts
<1>2. PICK i \in DOMAIN Parts(e) :
        Parts(e)[i] = f /\ (task'[w].part < i \/ task'[w].part = i)
  BY <1>1, Zenon DEF Owes
<1>3. PICK p \in 1 .. 2 : p = task[w].part /\ task'[w].part = p + 1
  OBVIOUS
<1>4. i \in Nat
  BY PartsType
<1>5. p < i
  BY <1>2, <1>3, <1>4
<1> QED
  BY <1>1, <1>2, <1>3, <1>5 DEF Owes

(* The budget of a line holds on when nothing is delivered, there are no   *)
(* more copies of it, and the handlers owe no more of it than before.      *)
LEMMA BudgetFalls ==
  ASSUME NEW f \in File, NEW e \in EventId, Budget(f, e), attempts'[e] = attempts[e],
         object[f] \in Seq(EventId), attempts[e] \in Nat,
         LinesOf(f, e)' = LinesOf(f, e) \/ Cardinality(LinesOf(f, e)') = 0,
         \A v \in Writer : Owes(v, f, e)' => Owes(v, f, e)
  PROVE  Budget(f, e)'
<1>1. Owing(f, e)' \in SUBSET Owing(f, e)
  BY DEF Owing
<1>2. IsFiniteSet(Owing(f, e)) /\ Cardinality(LinesOf(f, e)) + Cardinality(Owing(f, e)) <= attempts[e]
  BY Zenon DEF Budget
<1>3. /\ IsFiniteSet(Owing(f, e)')
      /\ Cardinality(Owing(f, e)') <= Cardinality(Owing(f, e))
  BY <1>1, <1>2, FS_Subset, Zenon
<1>4. PICK m \in Nat, n \in Nat, k \in Nat :
        m = Cardinality(Owing(f, e)) /\ n = Cardinality(Owing(f, e)') /\ k = Cardinality(LinesOf(f, e))
  <2>1. Cardinality(Owing(f, e)) \in Nat
    BY <1>2, FS_CardinalityType, Zenon
  <2>2. Cardinality(Owing(f, e)') \in Nat
    BY <1>3, FS_CardinalityType, Zenon
  <2>3. Cardinality(LinesOf(f, e)) \in Nat
    BY CountLines, Zenon DEF LinesOf
  <2> QED
    BY <2>1, <2>2, <2>3, Zenon
<1>5. PICK l \in Nat : l = Cardinality(LinesOf(f, e)') /\ l <= k
  BY <1>4
<1>6. l + n <= attempts'[e]
  <2>1. k + m <= attempts[e] /\ n <= m
    BY <1>2, <1>3, <1>4, Zenon
  <2> QED
    BY <1>5, <2>1
<1> QED
  BY <1>3, <1>4, <1>5, <1>6, Zenon DEF Budget

(* A delivery is charged to the event before its handler owes anything.    *)
LEMMA DeliverBudget ==
  ASSUME WriterInv, BudgetInv, NEW w \in Writer, NEW d \in EventId, Deliver(w, d)
  PROVE  BudgetInv'
<1>0. /\ object \in [File -> Seq(EventId)] /\ attempts \in [EventId -> 0 .. MaxAttempts]
      /\ task \in [Writer -> Task]
  BY DEF WriterInv, TypeOK, StoreTypeOK
<1>1. /\ object' = object /\ call' = call
      /\ attempts' = [attempts EXCEPT ![d] = @ + 1]
      /\ \A v \in Writer \ {w} : task'[v] = task[v]
      /\ task'[w].ev = d
  <2>1. UNCHANGED storeVars /\ attempts' = [attempts EXCEPT ![d] = @ + 1]
    BY DEF Deliver
  <2>2. task' = [task EXCEPT ![w] = [pc |-> FirstStep(Parts(d)[1]), ev |-> d, part |-> 1, ok |-> FALSE]]
    BY DEF Deliver
  <2>3. UNCHANGED <<object, call>>
    BY <2>1 DEF storeVars
  <2>4. task'[w].ev = d /\ \A v \in Writer \ {w} : task'[v] = task[v]
    BY <1>0, <2>2
  <2> QED
    BY <2>1, <2>3, <2>4
<1> SUFFICES ASSUME NEW f \in File, NEW e \in EventId PROVE Budget(f, e)'
  BY Zenon DEF BudgetInv
<1>2. Budget(f, e)
  BY Zenon DEF BudgetInv
<1>3. object[f] \in Seq(EventId) /\ attempts[e] \in Nat
  BY <1>0
<1>4. \A v \in Writer \ {w} : Owes(v, f, e)' <=> Owes(v, f, e)
  BY <1>1, OthersOwe
<1>5. CASE e # d
  <2>1. attempts'[e] = attempts[e]
    BY <1>0, <1>1, <1>5
  <2>2. ~Owes(w, f, e)'
    BY <1>1, <1>5 DEF Owes, Event
  <2>3. \A v \in Writer : Owes(v, f, e)' => Owes(v, f, e)
    BY <1>4, <2>2
  <2>4. LinesOf(f, e)' = LinesOf(f, e)
    BY <1>1 DEF LinesOf
  <2> QED
    BY <1>2, <1>3, <2>1, <2>3, <2>4, BudgetFalls
<1>6. CASE e = d
  <2>1. attempts'[e] = attempts[e] + 1
    BY <1>0, <1>1, <1>6
  <2>2. LinesOf(f, e)' = LinesOf(f, e)
    BY <1>1 DEF LinesOf
  <2>3. Owing(f, e)' \subseteq Owing(f, e) \cup {w}
    BY <1>4 DEF Owing
  <2>4. IsFiniteSet(Owing(f, e)) /\ Cardinality(LinesOf(f, e)) + Cardinality(Owing(f, e)) <= attempts[e]
    BY <1>2, Zenon DEF Budget
  <2>5. /\ IsFiniteSet(Owing(f, e)') /\ Cardinality(Owing(f, e)') \in Nat
        /\ Cardinality(Owing(f, e)') <= Cardinality(Owing(f, e)) + 1
    BY <2>3, <2>4, OneMore, Zenon
  <2>6. PICK m \in Nat, n \in Nat, k \in Nat :
          m = Cardinality(Owing(f, e)) /\ n = Cardinality(Owing(f, e)') /\ k = Cardinality(LinesOf(f, e))
    <3>1. Cardinality(Owing(f, e)) \in Nat
      BY <2>4, FS_CardinalityType, Zenon
    <3>2. Cardinality(LinesOf(f, e)) \in Nat
      BY <1>3, CountLines, Zenon DEF LinesOf
    <3> QED
      BY <2>5, <3>1, <3>2, Zenon
  <2>7. k + n <= attempts'[e]
    <3>1. k + m <= attempts[e]
      BY <2>4, <2>6, Zenon
    <3>2. n <= m + 1
      BY <2>5, <2>6, Zenon
    <3> QED
      BY <1>3, <2>1, <3>1, <3>2
  <2> QED
    BY <2>2, <2>5, <2>6, <2>7 DEF Budget
<1> QED
  BY <1>5, <1>6

(* A copy or a compose writes at most one line, and the handler that owed  *)
(* it owes it no more.                                                     *)
LEMMA WriteBudget ==
  ASSUME WriterInv, BudgetInv, NEW w \in Writer, AppendCall(w), CopyFirstLine(w) \/ ComposeLine(w)
  PROVE  BudgetInv'
<1>0. /\ object \in [File -> Seq(EventId)] /\ attempts \in [EventId -> 0 .. MaxAttempts]
      /\ call \in [Writer -> Call] /\ StoreInv /\ TypeOK /\ TaskKnows(w)
  BY DEF WriterInv, TypeOK, StoreTypeOK
<1>1. task' = task /\ attempts' = attempts
  BY DEF AppendCall
<1>2. call[w].pc \in {"copy", "compose"} /\ task[w].pc = "appending"
  BY <1>0 DEF CopyFirstLine, ComposeLine, TypeOK
<1>3. CallAt(w, "cleanup")
  BY <1>0, Rewrites
<1>4. PICK g \in File, d \in EventId : g = Target(w) /\ d = Line(w)
  BY <1>0, <1>2, CallType
<1>5. Event(w) = d /\ PartFile(w) = g /\ task[w].part \in DOMAIN Parts(d)
  BY <1>0, <1>2, <1>4 DEF TaskKnows
<1>6. \/ object' = object
      \/ object' = [object EXCEPT ![g] = <<d>>]
      \/ object' = [object EXCEPT ![g] = Append(object[g], d)]
  BY <1>4 DEF CopyFirstLine, ComposeLine, Rewrite
<1> SUFFICES ASSUME NEW f \in File, NEW e \in EventId PROVE Budget(f, e)'
  BY Zenon DEF BudgetInv
<1>7. Budget(f, e)
  BY Zenon DEF BudgetInv
<1>8. object[f] \in Seq(EventId) /\ attempts[e] \in Nat
  BY <1>0
<1>9. \A v \in Writer \ {w} : Owes(v, f, e)' <=> Owes(v, f, e)
  BY <1>1, <1>3, OthersOwe DEF CallAt
<1>10. ~Unwritten(w)' /\ Unwritten(w)
  BY <1>1, <1>2, <1>3 DEF CallAt, Unwritten
<1>11. Owes(w, f, e)' => Owes(w, f, e)
  BY <1>1, <1>2, <1>10, SamePartOwes
<1>12. CASE f = g /\ e = d
  <2>1. Owes(w, f, e)
    BY <1>2, <1>5, <1>10, <1>12 DEF Owes, PartFile, Event
  <2>2. ~Owes(w, f, e)'
    <3>1. SUFFICES ASSUME Owes(w, f, e)' PROVE FALSE
      OBVIOUS
    <3>2. Parts(e)' = Parts(e)
      BY DEF Parts
    <3>3. PICK i \in DOMAIN Parts(e) : Parts(e)[i] = f /\ task[w].part < i
      BY <1>1, <1>10, <3>1, <3>2, Zenon DEF Owes
    <3>4. Parts(e)[task[w].part] = f
      BY <1>5, <1>12 DEF PartFile, Event
    <3>5. PICK p \in DOMAIN Parts(e) : p = task[w].part
      BY <1>5, <1>12, Zenon
    <3>6. Parts(e)[i] = Parts(e)[p] /\ p < i
      BY <3>3, <3>4, <3>5, Zenon
    <3>7. i = p
      BY <3>6, PartsType, Zenon
    <3>8. p \in Nat
      BY PartsType
    <3> QED
      BY <3>6, <3>7, <3>8
  <2>3. Owing(f, e)' \subseteq Owing(f, e) \ {w}
    BY <1>9, <2>2 DEF Owing
  <2>4. IsFiniteSet(Owing(f, e)) /\ Cardinality(LinesOf(f, e)) + Cardinality(Owing(f, e)) <= attempts[e]
    BY <1>7, Zenon DEF Budget
  <2>5. /\ IsFiniteSet(Owing(f, e)') /\ Cardinality(Owing(f, e)') \in Nat
        /\ Cardinality(Owing(f, e)') + 1 <= Cardinality(Owing(f, e))
    <3>1. w \in Owing(f, e)
      BY <2>1 DEF Owing
    <3> QED
      BY <2>3, <2>4, <3>1, OneLess, Zenon
  <2>6. PICK m \in Nat, n \in Nat, k \in Nat :
          m = Cardinality(Owing(f, e)) /\ n = Cardinality(Owing(f, e)') /\ k = Cardinality(LinesOf(f, e))
    <3>1. Cardinality(Owing(f, e)) \in Nat
      BY <2>4, FS_CardinalityType, Zenon
    <3>2. Cardinality(LinesOf(f, e)) \in Nat
      BY <1>8, CountLines, Zenon DEF LinesOf
    <3> QED
      BY <2>5, <3>1, <3>2, Zenon
  <2>7. PICK l \in Nat : l = Cardinality(LinesOf(f, e)') /\ l <= k + 1
    <3>1. CASE object' = object
      <4>1. LinesOf(f, e)' = LinesOf(f, e)
        BY <3>1 DEF LinesOf
      <4> QED
        BY <2>6, <4>1
    <3>2. CASE object' = [object EXCEPT ![g] = <<d>>]
      <4>1. LinesOf(f, e)' = {i \in DOMAIN <<d>> : <<d>>[i] = e}
        BY <1>0, <1>12, <3>2 DEF LinesOf
      <4>2. Cardinality({i \in DOMAIN <<d>> : <<d>>[i] = e}) \in {0, 1}
        BY <1>8, CountLines, Zenon
      <4>3. PICK c \in {0, 1} : c = Cardinality(LinesOf(f, e)')
        BY <4>1, <4>2
      <4>4. c \in Nat /\ c <= k + 1
        BY <2>6
      <4> QED
        BY <4>3, <4>4, Zenon
    <3>3. CASE object' = [object EXCEPT ![g] = Append(object[g], d)]
      <4>1. LinesOf(f, e)' = {i \in DOMAIN Append(object[f], d) : Append(object[f], d)[i] = e}
        BY <1>0, <1>12, <3>3 DEF LinesOf
      <4>2. Append(object[f], d) \in Seq(EventId)
        BY <1>8, AppendLine
      <4>3. Cardinality(LinesOf(f, e)') \in Nat
        BY <4>1, <4>2, CountLines
      <4>4. Cardinality(LinesOf(f, e)') <= Cardinality(LinesOf(f, e)) + 1
        BY <1>8, <4>1, CountLines, Zenon DEF LinesOf
      <4> QED
        BY <2>6, <4>3, <4>4
    <3> QED
      BY <1>6, <3>1, <3>2, <3>3
  <2>8. l + n <= attempts'[e]
    <3>1. k + m <= attempts[e]
      BY <2>4, <2>6, Zenon
    <3>2. n + 1 <= m
      BY <2>5, <2>6, Zenon
    <3> QED
      BY <1>1, <1>8, <2>7, <3>1, <3>2
  <2> QED
    BY <2>5, <2>6, <2>7, <2>8, Zenon DEF Budget
<1>13. CASE f # g
  <2>1. LinesOf(f, e)' = LinesOf(f, e)
    BY <1>0, <1>6, <1>13 DEF LinesOf
  <2> QED
    BY <1>1, <1>7, <1>8, <1>9, <1>11, <2>1, BudgetFalls
<1>14. CASE f = g /\ e # d
  <2>1. \/ LinesOf(f, e)' = LinesOf(f, e)
        \/ Cardinality(LinesOf(f, e)') = 0
    <3>1. CASE object' = object
      BY <3>1 DEF LinesOf
    <3>2. CASE object' = [object EXCEPT ![g] = <<d>>]
      <4>1. LinesOf(f, e)' = {i \in DOMAIN <<d>> : <<d>>[i] = e}
        BY <1>0, <1>14, <3>2 DEF LinesOf
      <4>2. Cardinality({i \in DOMAIN <<d>> : <<d>>[i] = e}) = 0
        BY <1>8, <1>14, CountLines, Zenon
      <4> QED
        BY <4>1, <4>2
    <3>3. CASE object' = [object EXCEPT ![g] = Append(object[g], d)]
      <4>1. LinesOf(f, e)' = {i \in DOMAIN Append(object[f], d) : Append(object[f], d)[i] = e}
        BY <1>0, <1>14, <3>3 DEF LinesOf
      <4>2. LinesOf(f, e)' = {i \in DOMAIN object[f] : object[f][i] = e}
        BY <1>8, <1>14, <4>1, CountLines
      <4> QED
        BY <4>2 DEF LinesOf
    <3> QED
      BY <1>6, <3>1, <3>2, <3>3
  <2> QED
    BY <1>1, <1>7, <1>8, <1>9, <1>11, <2>1, BudgetFalls
<1> QED
  BY <1>12, <1>13, <1>14

(* No other step of a handler delivers or writes: what it owes only falls. *)
LEMMA HandlerBudget ==
  ASSUME WriterInv, BudgetInv, NEW w \in Writer,
         object' = object, attempts' = attempts,
         \A v \in Writer \ {w} : task'[v] = task[v] /\ call'[v] = call[v],
         \A f \in File, e \in EventId : Owes(w, f, e)' => Owes(w, f, e)
  PROVE  BudgetInv'
<1> SUFFICES ASSUME NEW f \in File, NEW e \in EventId PROVE Budget(f, e)'
  BY Zenon DEF BudgetInv
<1>1. Budget(f, e)
  BY Zenon DEF BudgetInv
<1>2. object[f] \in Seq(EventId) /\ attempts[e] \in Nat /\ attempts'[e] = attempts[e]
  BY DEF WriterInv, TypeOK, StoreTypeOK
<1>3. LinesOf(f, e)' = LinesOf(f, e)
  BY DEF LinesOf
<1>4. \A v \in Writer \ {w} : Owes(v, f, e)' <=> Owes(v, f, e)
  BY OthersOwe
<1>5. \A v \in Writer : Owes(v, f, e)' => Owes(v, f, e)
  BY <1>4
<1> QED
  BY <1>1, <1>2, <1>3, <1>5, BudgetFalls

(* Nor does a step that leaves handlers and files alone.                   *)
LEMMA BudgetUndisturbed ==
  ASSUME WriterInv, BudgetInv, UNCHANGED <<object, call, attempts, task>>
  PROVE  BudgetInv'
<1> SUFFICES ASSUME NEW f \in File, NEW e \in EventId PROVE Budget(f, e)'
  BY Zenon DEF BudgetInv
<1>1. Budget(f, e)
  BY Zenon DEF BudgetInv
<1>2. object[f] \in Seq(EventId) /\ attempts[e] \in Nat /\ attempts'[e] = attempts[e]
  BY DEF WriterInv, TypeOK, StoreTypeOK
<1>3. LinesOf(f, e)' = LinesOf(f, e)
  BY DEF LinesOf
<1>4. \A v \in Writer : Owes(v, f, e)' => Owes(v, f, e)
  BY OthersOwe
<1> QED
  BY <1>1, <1>2, <1>3, <1>4, BudgetFalls

(* Every step keeps the copies of each line, and the copies still owed,    *)
(* within the deliveries of its event.                                     *)
LEMMA BudgetStep ==
  ASSUME WriterInv, BudgetInv, Next
  PROVE  BudgetInv'
<1>0. /\ TypeOK /\ StoreInv /\ task \in [Writer -> Task] /\ call \in [Writer -> Call]
      /\ \A v \in Writer : TaskKnows(v)
      /\ \A v \in Writer : call[v].pc = "none" <=> task[v].pc # "appending"
  BY DEF WriterInv, TypeOK, StoreTypeOK
<1>1. ASSUME NEW e \in EventId, Publish(e) \/ DeadLetter(e)
      PROVE  BudgetInv'
  <2>1. UNCHANGED storeVars /\ UNCHANGED <<attempts, task>>
    BY <1>1 DEF Publish, DeadLetter
  <2>2. UNCHANGED <<object, call>>
    BY <2>1 DEF storeVars
  <2> QED
    BY <2>1, <2>2, BudgetUndisturbed
<1>2. ASSUME NEW w \in Writer, NEW e \in EventId, Deliver(w, e)
      PROVE  BudgetInv'
  BY <1>2, DeliverBudget
<1>3. ASSUME NEW w \in Writer, EnsureSession(w) \/ InsertRow(w)
      PROVE  BudgetInv'
  <2>1. UNCHANGED storeVars /\ attempts' = attempts /\ task[w].pc \in {"session", "row"}
    BY <1>3 DEF EnsureSession, InsertRow
  <2>2. UNCHANGED <<object, call>>
    BY <2>1 DEF storeVars
  <2>3. \/ task' = [task EXCEPT ![w].pc = "row"] \/ task' = [task EXCEPT ![w].pc = "append"]
        \/ Answer(w, FALSE)
    BY <1>3 DEF EnsureSession, InsertRow, AfterSession, AfterRow
  <2>4. "row" \in TaskPc \ {"idle"} /\ "append" \in TaskPc \ {"idle"}
    BY DEF TaskPc
  <2>5. \/ TaskAt(w, "row", task[w].part, task[w].ok) \/ TaskAt(w, "append", task[w].part, task[w].ok)
        \/ TaskAt(w, "respond", task[w].part, FALSE)
    BY <1>0, <2>1, <2>3, <2>4, PcMoves, AnswerMoves
  <2>6. /\ \A v \in Writer \ {w} : task'[v] = task[v]
        /\ task'[w].ev = task[w].ev /\ task'[w].part = task[w].part
    BY <2>5, Zenon DEF TaskAt
  <2>7. Unwritten(w)
    BY <2>1 DEF Unwritten
  <2>8. ASSUME NEW f \in File, NEW e \in EventId, Owes(w, f, e)'
        PROVE  Owes(w, f, e)
    BY <2>1, <2>6, <2>7, <2>8, SamePartOwes
  <2> QED
    BY <2>1, <2>2, <2>6, <2>8, HandlerBudget
<1>4. ASSUME NEW w \in Writer, StartAppend(w)
      PROVE  BudgetInv'
  <2>1. /\ task[w].pc = "append" /\ attempts' = attempts
        /\ task' = [task EXCEPT ![w].pc = "appending"]
        /\ BeginAppend(w, PartFile(w), Event(w))
    BY <1>4 DEF StartAppend
  <2>2. object' = object /\ \A v \in Writer \ {w} : call'[v] = call[v]
    BY <1>0, <2>1 DEF BeginAppend
  <2>3. "appending" \in TaskPc \ {"idle"}
    BY DEF TaskPc
  <2>4. TaskAt(w, "appending", task[w].part, task[w].ok)
    BY <1>0, <2>1, <2>3, PcMoves
  <2>5. /\ \A v \in Writer \ {w} : task'[v] = task[v]
        /\ task'[w].ev = task[w].ev /\ task'[w].part = task[w].part
    BY <2>4, Zenon DEF TaskAt
  <2>6. Unwritten(w)
    BY <2>1 DEF Unwritten
  <2>7. ASSUME NEW f \in File, NEW e \in EventId, Owes(w, f, e)'
        PROVE  Owes(w, f, e)
    BY <2>1, <2>5, <2>6, <2>7, SamePartOwes
  <2> QED
    BY <2>1, <2>2, <2>5, <2>7, HandlerBudget
<1>5. ASSUME NEW w \in Writer, AppendCall(w)
      PROVE  BudgetInv'
  <2>1. task' = task /\ attempts' = attempts /\ StorageCall(w)
    BY <1>5 DEF AppendCall
  <2>2. CASE CopyFirstLine(w) \/ ComposeLine(w)
    BY <1>5, <2>2, WriteBudget
  <2>3. CASE WriteStaging(w) \/ CheckTarget(w) \/ DeleteStaging(w)
    <3>1. call[w].pc # "none" /\ object' = object /\ \A v \in Writer \ {w} : call'[v] = call[v]
      BY <1>0, <2>3 DEF WriteStaging, CheckTarget, DeleteStaging, Goto, Fails
    <3>2. task[w].pc = "appending"
      BY <1>0, <3>1
    <3>3. Unwritten(w)' => Unwritten(w)
      <4>1. CASE WriteStaging(w) \/ CheckTarget(w)
        BY <4>1 DEF WriteStaging, CheckTarget, Unwritten
      <4>2. CASE DeleteStaging(w)
        <5>1. "return" \in CallPc \ {"none"}
          BY DEF CallPc
        <5>2. CallAt(w, "return")
          BY <1>0, <3>1, <4>2, <5>1, GotoType DEF DeleteStaging
        <5> QED
          BY <2>1, <3>2, <5>2 DEF CallAt, Unwritten
      <4> QED
        BY <2>3, <4>1, <4>2
    <3>4. ASSUME NEW f \in File, NEW e \in EventId, Owes(w, f, e)'
          PROVE  Owes(w, f, e)
      BY <2>1, <3>2, <3>3, <3>4, SamePartOwes
    <3> QED
      BY <2>1, <3>1, <3>4, HandlerBudget
  <2> QED
    BY <2>1, <2>2, <2>3 DEF StorageCall
<1>6. ASSUME NEW w \in Writer, FinishAppend(w)
      PROVE  BudgetInv'
  <2>1. /\ attempts' = attempts /\ task[w].pc = "appending"
        /\ \E ok \in BOOLEAN : AppendReturns(w, ok)
        /\ Answer(w, FALSE) \/ Answer(w, TRUE) \/ NextPart(w)
    BY <1>6 DEF FinishAppend
  <2>2. object' = object /\ \A v \in Writer \ {w} : call'[v] = call[v]
    BY <1>0, <2>1 DEF AppendReturns
  <2>3. task[w].part \in 1 .. 2
    BY <1>0, <2>1, TaskType
  <2>4. CASE Answer(w, FALSE) \/ Answer(w, TRUE)
    <3>1. TaskAt(w, "respond", task[w].part, FALSE) \/ TaskAt(w, "respond", task[w].part, TRUE)
      BY <1>0, <2>1, <2>4, AnswerMoves
    <3>2. task'[w].pc = "respond" /\ \A v \in Writer \ {w} : task'[v] = task[v]
      BY <3>1, Zenon DEF TaskAt
    <3>3. \A f \in File, e \in EventId : ~Owes(w, f, e)'
      BY <3>2, DoneOwes
    <3> QED
      BY <2>1, <2>2, <3>2, <3>3, HandlerBudget
  <2>5. CASE NextPart(w)
    <3>1. /\ task'[w].ev = task[w].ev /\ task'[w].part = task[w].part + 1
          /\ \A v \in Writer \ {w} : task'[v] = task[v]
      BY <1>0, <2>5 DEF NextPart
    <3>2. ASSUME NEW f \in File, NEW e \in EventId, Owes(w, f, e)'
          PROVE  Owes(w, f, e)
      BY <2>1, <2>3, <3>1, <3>2, NextPartOwes
    <3> QED
      BY <2>1, <2>2, <3>1, <3>2, HandlerBudget
  <2> QED
    BY <2>1, <2>4, <2>5
<1>7. ASSUME NEW w \in Writer, Respond(w) \/ Crash(w)
      PROVE  BudgetInv'
  <2>1. /\ attempts' = attempts /\ task' = [task EXCEPT ![w] = Idle]
        /\ AppendDies(w) \/ UNCHANGED storeVars
    BY <1>7 DEF Respond, Crash
  <2>2. object' = object /\ \A v \in Writer \ {w} : call'[v] = call[v]
    BY <1>0, <2>1 DEF AppendDies, storeVars
  <2>3. task'[w].pc = "idle" /\ \A v \in Writer \ {w} : task'[v] = task[v]
    <3>1. Idle.pc = "idle"
      BY DEF Idle
    <3> QED
      BY <1>0, <2>1, <3>1
  <2>4. \A f \in File, e \in EventId : ~Owes(w, f, e)'
    BY <2>3, DoneOwes
  <2> QED
    BY <2>1, <2>2, <2>3, <2>4, HandlerBudget
<1> QED
  BY <1>1, <1>2, <1>3, <1>4, <1>5, <1>6, <1>7 DEF Next, Handle

(* Nothing is stored, and nothing delivered, before the first message.     *)
LEMMA BudgetInit == Init => BudgetInv
<1> SUFFICES ASSUME Init, NEW f \in File, NEW e \in EventId PROVE Budget(f, e)
  BY Zenon DEF BudgetInv
<1>1. LinesOf(f, e) = {} /\ attempts[e] = 0
  BY DEF Init, StoreInit, LinesOf
<1>2. Owing(f, e) = {}
  <2>1. Idle.pc = "idle"
    BY DEF Idle
  <2>2. \A w \in Writer : task[w].pc = "idle"
    BY <2>1 DEF Init
  <2> QED
    BY <2>2 DEF Owing, Owes
<1>3. IsFiniteSet({}) /\ Cardinality({}) = 0
  BY FS_EmptySet, Zenon
<1> QED
  BY <1>1, <1>2, <1>3 DEF Budget

(* At least once is never more than once per delivery: no interleaving of  *)
(* handlers, lost answer of the storage, crash or retry puts more copies   *)
(* of a line into a file than the message had deliveries (writeEvent makes *)
(* one Append per part, gcs_store.go one copy or compose per Append).      *)
THEOREM LinesWithinAttemptsCorrect == Spec => []LinesWithinAttempts
<1>1. WriterInv /\ BudgetInv /\ [Next]_vars => BudgetInv'
  <2> SUFFICES ASSUME WriterInv, BudgetInv, UNCHANGED vars PROVE BudgetInv'
    BY BudgetStep
  <2>1. UNCHANGED storeVars /\ UNCHANGED <<attempts, task>>
    BY DEF vars
  <2>2. UNCHANGED <<object, call>>
    BY <2>1 DEF storeVars
  <2> QED
    BY <2>1, <2>2, BudgetUndisturbed
<1>2. WriterInv /\ BudgetInv => LinesWithinAttempts
  <2> SUFFICES ASSUME WriterInv, BudgetInv, NEW f \in File, NEW e \in EventId
               PROVE  Cardinality(LinesOf(f, e)) <= attempts[e]
    BY Zenon DEF LinesWithinAttempts
  <2>1. IsFiniteSet(Owing(f, e)) /\ Cardinality(LinesOf(f, e)) + Cardinality(Owing(f, e)) <= attempts[e]
    BY Zenon DEF BudgetInv, Budget
  <2>2. object[f] \in Seq(EventId) /\ attempts[e] \in Nat
    BY DEF WriterInv, TypeOK, StoreTypeOK
  <2>3. PICK k \in Nat, m \in Nat : k = Cardinality(LinesOf(f, e)) /\ m = Cardinality(Owing(f, e))
    <3>1. Cardinality(Owing(f, e)) \in Nat
      BY <2>1, FS_CardinalityType, Zenon
    <3>2. Cardinality(LinesOf(f, e)) \in Nat
      BY <2>2, CountLines, Zenon DEF LinesOf
    <3> QED
      BY <3>1, <3>2, Zenon
  <2> QED
    BY <2>1, <2>2, <2>3
<1> QED
  BY <1>1, <1>2, BudgetInit, WriterCorrect, PTL DEF Spec
-----------------------------------------------------------------------------
(* One push handler at a time.  gcs_store.go:28-29 counts on it: "Durable  *)
(* Writer runs with max_instance_count=1".                                 *)

(* An idle caller writes to none of the four part-0001.jsonl objects. *)
LEMMA NoCallHasNoFile ==
  ASSUME NEW e \in EventId, NEW i \in DOMAIN Parts(e)
  PROVE  Parts(e)[i] # NoCall.file
<1>1. Parts(e)[i] \in {"mood-wave", "triggers", "feedback", "transcript"}
  <2>1. KindOf[e] \in {"sample", "trigger", "feedback", "transcript"}
    BY KindAssumption DEF Kind
  <2>2. CASE KindOf[e] = "sample"
    <3>1. Parts(e) = <<"mood-wave">>
      BY <2>2 DEF Parts
    <3> QED
      BY <3>1
  <2>3. CASE KindOf[e] = "trigger"
    <3>1. Parts(e) = <<"triggers", "feedback">>
      BY <2>3 DEF Parts
    <3> QED
      BY <3>1
  <2>4. CASE KindOf[e] = "feedback"
    <3>1. Parts(e) = <<"feedback">>
      BY <2>4 DEF Parts
    <3> QED
      BY <3>1
  <2>5. CASE KindOf[e] = "transcript"
    <3>1. Parts(e) = <<"transcript">>
      BY <2>5 DEF Parts
    <3> QED
      BY <3>1
  <2> QED
    BY <2>1, <2>2, <2>3, <2>4, <2>5
<1>2. NoCall.file = ""
  BY Zenon DEF NoCall
<1>3. "mood-wave" # "" /\ "triggers" # "" /\ "feedback" # "" /\ "transcript" # ""
  BY Zenon
<1> QED
  BY <1>1, <1>2, <1>3, Zenon

(* A handler that starts an Append has none under way, so on its own it    *)
(* meets none.                                                             *)
LEMMA AloneStep ==
  ASSUME \A v, w \in Writer : v = w, WriterInv, contended = {}, Next
  PROVE  contended' = {}
<1>1. ASSUME NEW w \in Writer, StartAppend(w)
      PROVE  contended' = {}
  <2>1. task[w].pc = "append" /\ TaskKnows(w) /\ TypeOK /\ BeginAppend(w, PartFile(w), Event(w))
    BY <1>1 DEF StartAppend, WriterInv
  <2>2. Event(w) \in EventId /\ task[w].part \in DOMAIN Parts(Event(w))
    BY <2>1, TaskType
  <2>3. PartFile(w) # NoCall.file
    BY <2>2, NoCallHasNoFile DEF PartFile
  <2>4. call[w].pc = "none" /\ contended' = contended \cup {g \in {PartFile(w)} : \E v \in Writer : Target(v) = g}
    BY <2>1 DEF BeginAppend
  <2>5. Target(w) = NoCall.file
    <3>1. call[w] \in Call
      BY <2>1 DEF TypeOK, StoreTypeOK
    <3>2. call[w] = NoCall
      BY <2>4, <3>1 DEF Call
    <3> QED
      BY <3>2, Zenon DEF Target
  <2>6. \A v \in Writer : Target(v) # PartFile(w)
    <3> SUFFICES ASSUME NEW v \in Writer PROVE Target(v) # PartFile(w)
      OBVIOUS
    <3>1. v = w
      OBVIOUS
    <3> QED
      BY <2>3, <2>5, <3>1, Zenon
  <2> QED
    BY <2>4, <2>6
<1>2. ASSUME NEW w \in Writer, EnsureSession(w) \/ InsertRow(w) \/ Respond(w) \/ FinishAppend(w) \/ Crash(w)
      PROVE  contended' = contended
  BY <1>2 DEF EnsureSession, InsertRow, Respond, FinishAppend, Crash, AppendReturns, AppendDies, storeVars
<1>3. ASSUME NEW w \in Writer, AppendCall(w)
      PROVE  contended' = contended
  BY <1>3 DEF AppendCall, StorageCall, WriteStaging, CheckTarget, CopyFirstLine, ComposeLine, DeleteStaging
<1>4. ASSUME NEW e \in EventId, Publish(e) \/ DeadLetter(e) \/ \E w \in Writer : Deliver(w, e)
      PROVE  contended' = contended
  BY <1>4 DEF Publish, DeadLetter, Deliver, storeVars
<1> QED
  BY <1>1, <1>2, <1>3, <1>4 DEF Next, Handle

(* Served by one handler at a time, Durable Writer keeps the promise of    *)
(* store.go outright, for any events, failures, retries and crashes: every *)
(* line of an Append that returned nil is readable, and an acknowledged    *)
(* event has them all.  The run lost_line shows that two handlers suffice  *)
(* to break it, and one instance may serve two.                            *)
THEOREM OneHandlerLosesNoLine ==
  ASSUME \A v, w \in Writer : v = w
  PROVE  Spec => [](/\ ReturnedIsReadable
                    /\ \A e \in EventId : sub[e] = "acked" => \A f \in PartSet(e) : LinesOf(f, e) # {})
<1>1. Init => contended = {}
  BY DEF Init, StoreInit
<1>2. WriterInv /\ contended = {} /\ [Next]_vars => (contended = {})'
  <2>1. CASE UNCHANGED vars
    BY <2>1 DEF vars, storeVars
  <2> QED
    BY <2>1, AloneStep
<1>3. contended = {} /\ AckedHasLines
      => \A e \in EventId : sub[e] = "acked" => \A f \in PartSet(e) : LinesOf(f, e) # {}
  BY DEF AckedHasLines
<1>4. Spec => []WriterInv
  BY WriterCorrect
<1>5. Spec => [](contended = {})
  BY <1>1, <1>2, <1>4, PTL DEF Spec
<1> QED
  BY <1>3, <1>5, WriterUsesStore, ReturnedIsReadableAlone, AckedHasLinesCorrect, PTL

(* The objects that Durable Writer feeds are only continued, a line at a   *)
(* time, by every step of every handler.                                   *)
THEOREM WriterFilesOnlyGrow == Spec => [][OneLineAtATime]_storeVars
BY WriterUsesStore, FilesOnlyGrow, PTL
=============================================================================
