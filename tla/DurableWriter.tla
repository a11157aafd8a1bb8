--------------------------- MODULE DurableWriter ---------------------------
(***************************************************************************)
(* Durable Writer (cmd/writer) behind the Pub/Sub push subscription of     *)
(* feature-events, for one session: deliveries, redeliveries and dead      *)
(* letters of the subscription, and per delivery the steps of writeEvent   *)
(* over Postgres (internal/writer/transcript_store.go) and the JSONL store *)
(* (JsonlAppend).  A Writer is one push handler in flight, on any of the   *)
(* service's instances.                                                    *)
(*                                                                         *)
(* The subscription is external: it is modelled from infra/modules/pubsub  *)
(* and from how newPushHandler answers it.                                 *)
(***************************************************************************)
EXTENDS JsonlAppend

CONSTANTS
  KindOf,       \* the payload each event carries
  MaxAttempts,  \* max_delivery_attempts
  DbMayFail,    \* a Postgres statement may fail
  AckMayBeLost, \* a 200 may miss the ack deadline
  MayCrash      \* an instance may die

Kind == {"sample", "trigger", "feedback", "transcript"}

ASSUME KindAssumption == KindOf \in [EventId -> Kind]
ASSUME AttemptsAssumption == MaxAttempts \in Nat \ {0}
ASSUME WriterFlagsAssumption == {DbMayFail, AckMayBeLost, MayCrash} \subseteq BOOLEAN

VARIABLES
  sub,       \* the subscription's view of each message
  attempts,  \* deliveries of each message
  task,      \* what each push handler is doing
  session,   \* the sessions row exists
  rows       \* <<table, event>>: rows keyed by event_id

dbVars == <<session, rows>>
vars == <<storeVars, sub, attempts, task, dbVars>>

(* The lines of one payload, in the order writeEvent handles them.  The    *)
(* trigger payload carries a feedback event of its own.                    *)
Parts(e) ==
  CASE KindOf[e] = "sample"     -> <<"mood-wave">>
    [] KindOf[e] = "trigger"    -> <<"triggers", "feedback">>
    [] KindOf[e] = "feedback"   -> <<"feedback">>
    [] KindOf[e] = "transcript" -> <<"transcript">>

ASSUME FileAssumption == {"mood-wave", "triggers", "feedback", "transcript"} \subseteq File

(* Every line but a mood-wave sample's also has a Postgres row. *)
HasRow(f) == f # "mood-wave"

(* part: index in Parts of the line being written.  ok: what writeEvent    *)
(* returned.                                                               *)
TaskPc == {"idle", "session", "row", "append", "appending", "respond"}
Idle == [pc |-> "idle", ev |-> "", part |-> 0, ok |-> FALSE]
Task == [pc : TaskPc \ {"idle"}, ev : EventId, part : 1 .. 2, ok : BOOLEAN] \cup {Idle}

Init ==
  /\ StoreInit
  /\ sub = [e \in EventId |-> "new"]
  /\ attempts = [e \in EventId |-> 0]
  /\ task = [w \in Writer |-> Idle]
  /\ session = FALSE
  /\ rows = {}

Event(w) == task[w].ev
PartFile(w) == Parts(Event(w))[task[w].part]

Bug_RowAfterLine == "append"

FirstStep(f) == IF HasRow(f) THEN "session" ELSE "append"
AfterSession == "row"
AfterRow == "append"

Answer(w, ok) ==
  task' = [task EXCEPT ![w] = [pc |-> "respond", ev |-> @.ev, part |-> @.part, ok |-> ok]]
-----------------------------------------------------------------------------
(* The subscription. *)

Publish(e) ==
  /\ sub[e] = "new"
  /\ sub' = [sub EXCEPT ![e] = "pending"]
  /\ UNCHANGED <<storeVars, attempts, task, dbVars>>

(* A first delivery, a retry after a 5xx or a missed deadline -- the       *)
(* earlier handler may still be running then -- or a duplicate.            *)
Deliver(w, e) ==
  /\ sub[e] = "pending"
  /\ attempts[e] < MaxAttempts
  /\ task[w] = Idle
  /\ attempts' = [attempts EXCEPT ![e] = @ + 1]
  /\ task' = [task EXCEPT ![w] = [pc |-> FirstStep(Parts(e)[1]), ev |-> e, part |-> 1, ok |-> FALSE]]
  /\ UNCHANGED <<storeVars, sub, dbVars>>

(* The subscription gives up after the last attempt has ended. *)
DeadLetter(e) ==
  /\ sub[e] = "pending"
  /\ attempts[e] = MaxAttempts
  /\ \A w \in Writer : Event(w) # e
  /\ sub' = [sub EXCEPT ![e] = "dead"]
  /\ UNCHANGED <<storeVars, attempts, task, dbVars>>
-----------------------------------------------------------------------------
(* writeEvent. *)

(* INSERT INTO sessions .. ON CONFLICT DO NOTHING. *)
EnsureSession(w) ==
  /\ task[w].pc = "session"
  /\ \/ /\ session' = TRUE
        /\ task' = [task EXCEPT ![w].pc = AfterSession]
     \/ /\ DbMayFail
        /\ session' \in {session, TRUE}
        /\ Answer(w, FALSE)
  /\ UNCHANGED <<storeVars, sub, attempts, rows>>

Bug_InsertErrorIgnored(w) ==
  /\ task[w].pc = "row"
  /\ rows' \in {rows \cup {<<PartFile(w), Event(w)>>}} \cup (IF DbMayFail THEN {rows} ELSE {})
  /\ task' = [task EXCEPT ![w].pc = AfterRow]
  /\ UNCHANGED <<storeVars, sub, attempts, session>>

(* InsertTriggerEvent, InsertFeedbackEvent, InsertTranscriptChunk: deduped *)
(* by event_id, and refused without the sessions row they refer to.        *)
InsertRow(w) ==
  /\ task[w].pc = "row"
  /\ LET inserted == rows \cup {<<PartFile(w), Event(w)>>}
     IN  \/ /\ session
            /\ rows' = inserted
            /\ task' = [task EXCEPT ![w].pc = AfterRow]
         \/ /\ DbMayFail \/ ~session
            /\ rows' \in {rows} \cup (IF session THEN {inserted} ELSE {})
            /\ Answer(w, FALSE)
  /\ UNCHANGED <<storeVars, sub, attempts, session>>

Bug_NotAwaited(w) ==
  /\ task[w].pc = "append"
  /\ BeginAppend(w, PartFile(w), Event(w))
  /\ Answer(w, TRUE)
  /\ UNCHANGED <<sub, attempts, dbVars>>

StartAppend(w) ==
  /\ task[w].pc = "append"
  /\ BeginAppend(w, PartFile(w), Event(w))
  /\ task' = [task EXCEPT ![w].pc = "appending"]
  /\ UNCHANGED <<sub, attempts, dbVars>>

AppendCall(w) ==
  /\ StorageCall(w)
  /\ UNCHANGED <<sub, attempts, task, dbVars>>

Bug_FirstPartOnly(w) == FALSE

MoreParts(w) == task[w].part < Len(Parts(Event(w)))

NextPart(w) ==
  LET next == task[w].part + 1
  IN  task' = [task EXCEPT ![w] =
                 [pc |-> FirstStep(Parts(Event(w))[next]), ev |-> @.ev, part |-> next, ok |-> @.ok]]

Bug_ErrorOnlyLogged(w) ==
  /\ task[w].pc = "appending"
  /\ \E ok \in BOOLEAN : AppendReturns(w, ok)
  /\ IF MoreParts(w) THEN NextPart(w) ELSE Answer(w, TRUE)
  /\ UNCHANGED <<sub, attempts, dbVars>>

Bug_RetryInPlace(w) ==
  /\ task[w].pc = "appending"
  /\ \/ AppendReturns(w, FALSE) /\ task' = [task EXCEPT ![w].pc = "append"]
     \/ AppendReturns(w, TRUE) /\ IF MoreParts(w) THEN NextPart(w) ELSE Answer(w, TRUE)
  /\ UNCHANGED <<sub, attempts, dbVars>>

(* Append returned: on to the next part, or writeEvent returns. *)
FinishAppend(w) ==
  /\ task[w].pc = "appending"
  /\ \/ /\ AppendReturns(w, FALSE)
        /\ Answer(w, FALSE)
     \/ /\ AppendReturns(w, TRUE)
        /\ MoreParts(w)
        /\ NextPart(w)
     \/ /\ AppendReturns(w, TRUE)
        /\ ~MoreParts(w)
        /\ Answer(w, TRUE)
  /\ UNCHANGED <<sub, attempts, dbVars>>

(* 200 acks the message if it is in time; a 5xx leaves it for a retry. *)
Respond(w) ==
  /\ task[w].pc = "respond"
  /\ \/ /\ task[w].ok
        /\ sub' = [sub EXCEPT ![Event(w)] = IF @ = "pending" THEN "acked" ELSE @]
     \/ /\ ~task[w].ok \/ AckMayBeLost
        /\ UNCHANGED sub
  /\ task' = [task EXCEPT ![w] = Idle]
  /\ UNCHANGED <<storeVars, attempts, dbVars>>

(* The instance of a handler dies, an Append of it included. *)
Crash(w) ==
  /\ MayCrash
  /\ task[w] # Idle
  /\ task' = [task EXCEPT ![w] = Idle]
  /\ AppendDies(w) \/ (call[w].pc = "none" /\ UNCHANGED storeVars)
  /\ UNCHANGED <<sub, attempts, dbVars>>

Handle(w) ==
  \/ EnsureSession(w)
  \/ InsertRow(w)
  \/ StartAppend(w)
  \/ AppendCall(w)
  \/ FinishAppend(w)
  \/ Respond(w)

Next ==
  \/ \E e \in EventId : Publish(e) \/ DeadLetter(e)
  \/ \E w \in Writer, e \in EventId : Deliver(w, e)
  \/ \E w \in Writer : Handle(w) \/ Crash(w)

Spec == Init /\ [][Next]_vars

(* Pub/Sub keeps delivering what is not acked, and a handler runs on.      *)
Fairness ==
  /\ \A w \in Writer : WF_vars(Handle(w))
  /\ \A e \in EventId : WF_vars(\E w \in Writer : Deliver(w, e)) /\ WF_vars(DeadLetter(e))

FairSpec == Spec /\ Fairness
-----------------------------------------------------------------------------
TypeOK ==
  /\ StoreTypeOK
  /\ sub \in [EventId -> {"new", "pending", "acked", "dead"}]
  /\ attempts \in [EventId -> 0 .. MaxAttempts]
  /\ task \in [Writer -> Task]
  /\ session \in BOOLEAN
  /\ rows \subseteq File \X EventId
  /\ \A w \in Writer : call[w].pc = "none" <=> task[w].pc # "appending"

PartSet(e) == {Parts(e)[i] : i \in DOMAIN Parts(e)}

(* A message the subscription has let go as acked is stored in full: every *)
(* row, and every line to a file whose Appends have kept apart.            *)
AckedHasLines ==
  \A e \in EventId : sub[e] = "acked" =>
    \A f \in PartSet(e) \ contended : LinesOf(f, e) # {}
AckedHasRows ==
  \A e \in EventId : sub[e] = "acked" => \A f \in PartSet(e) : HasRow(f) => <<f, e>> \in rows

(* The database is never behind the files: a line of a kind that has rows  *)
(* is there only once its row, and the session it belongs to, are.         *)
LineHasRow ==
  \A f \in File : \A i \in DOMAIN object[f] :
    HasRow(f) => <<f, object[f][i]>> \in rows /\ session

(* A payload is stored in order: nothing of its second part before the     *)
(* line of the first, whatever was retried.                                *)
PartsInOrder ==
  \A e \in EventId : \A i, j \in DOMAIN Parts(e) :
    i < j /\ <<Parts(e)[j], e>> \in rows /\ Parts(e)[i] \notin contended
      => LinesOf(Parts(e)[i], e) # {}

(* At least once never becomes more than once per delivery: the copies of  *)
(* a line are bounded by the deliveries of its message.                    *)
LinesWithinAttempts ==
  \A f \in File, e \in EventId : Cardinality(LinesOf(f, e)) <= attempts[e]

(* Nothing stays in the subscription for ever: each message is acked or    *)
(* dead-lettered, however its handlers fail.                               *)
Settles == \A e \in EventId : sub[e] = "pending" ~> sub[e] \in {"acked", "dead"}
=============================================================================
