---------------------------- MODULE PostSession ----------------------------
(***************************************************************************)
(* The post-session pipelines of one session_id: the gateway goroutine     *)
(* that TriggerSessionEnd runs in (internal/postsessiontrigger) and the    *)
(* Cloud Run jobs it starts one after the other: post-session-job,         *)
(* pdf-renderer and gmail-sender (cmd/...), over the reports table         *)
(* (internal/postsession/store.go) and the session's single PDF object.    *)
(*                                                                         *)
(* A Run is one session_end message.  A session_id may see several: the    *)
(* extension keeps it from one capture to the next, and sends one          *)
(* session_end per stop.                                                   *)
(***************************************************************************)
EXTENDS Integers, Sequences, FiniteSets

CONSTANTS
  Run,            \* session_end messages
  WithRecipient,  \* the ones that carry a report address
  Event,          \* what Durable Writer and the image worker store
  SourceOf,       \* the table or file each event is stored in
  StepMayFail,    \* a call of a job may fail
  GatewayMayDie   \* the gateway instance may die, or its wait may fail

(* The reads of post-session-job, in their order. *)
ReadOrder == <<"samples", "triggers", "feedback", "transcripts", "evidence", "baselines", "visual">>

None == "none"

ASSUME RunAssumption == IsFiniteSet(Run) /\ None \notin Run
ASSUME RecipientAssumption == WithRecipient \subseteq Run
ASSUME SourceAssumption == SourceOf \in [Event -> {ReadOrder[i] : i \in 1 .. 7}]
ASSUME RunFlagsAssumption == {StepMayFail, GatewayMayDie} \subseteq BOOLEAN

VARIABLES
  stored,      \* the events stored so far
  pc,          \* the call each pipeline makes next
  waiting,     \* pipelines whose gateway goroutine still waits for its job
  hand,        \* what the running job of each pipeline holds
  clock,       \* time.Now() of the last generated_at
  reports,     \* the reports row each pipeline inserted
  pdfObject,   \* whose report sessions/<id>/reports/report.pdf shows
  mails,       \* <<r, i>>: the recipient of r was sent the PDF of i
  deliveries,  \* report_deliveries rows
  crossed      \* pipelines that another one ran beside (history)

jobVars == <<pc, waiting, hand>>
vars == <<stored, jobVars, clock, reports, pdfObject, mails, deliveries, crossed>>

Over == {"done", "failed", "nopath"}
PcState == {"none", "read", "stamp", "insert", "latest", "write", "update",
            "path", "fetch", "send", "record"} \cup Over

(* next: index of the next read.  covers: events read.  upTo: events       *)
(* stored when the session ended (history only).  report: the reports row  *)
(* in hand.  pdf: the PDF read.  sent: what sendReal returned.             *)
Hand == [next : 1 .. 8, covers : SUBSET Event, upTo : SUBSET Event, stamp : 0 .. Cardinality(Run),
         report : Run \cup {None}, pdf : Run \cup {None}, sent : BOOLEAN]
EmptyHand == [next |-> 1, covers |-> {}, upTo |-> {}, stamp |-> 0,
              report |-> None, pdf |-> None, sent |-> FALSE]

NoReport == [stamp |-> 0, covers |-> {}, pdf |-> FALSE]
Report == [stamp : 0 .. Cardinality(Run), covers : SUBSET Event, pdf : BOOLEAN]

Init ==
  /\ stored = {}
  /\ pc = [r \in Run |-> "none"]
  /\ waiting = {}
  /\ hand = [r \in Run |-> EmptyHand]
  /\ clock = 0
  /\ reports = [r \in Run |-> NoReport]
  /\ pdfObject = None
  /\ mails = {}
  /\ deliveries = {}
  /\ crossed = {}

Exists(r) == reports[r].stamp > 0
Bug_Oldest(r) == \A q \in Run : Exists(q) => reports[r].stamp <= reports[q].stamp

(* ORDER BY generated_at DESC LIMIT 1. *)
IsLatest(r) == \A q \in Run : reports[r].stamp >= reports[q].stamp
Latest == CHOOSE r \in Run : Exists(r) /\ IsLatest(r)

Goto(r, label) == pc' = [pc EXCEPT ![r] = label]

(* log.Fatalf: the execution fails and TriggerSessionEnd returns. *)
Fatal(r) == StepMayFail /\ Goto(r, "failed") /\ UNCHANGED <<waiting, hand>>

Bug_NoNextJob(r, label) == Goto(r, "done")

(* The job succeeded: the gateway, if it still waits, starts the next. *)
NextJob(r, label) == Goto(r, IF r \in waiting THEN label ELSE "done")
-----------------------------------------------------------------------------
StoreEvent(e) ==
  /\ stored' = stored \cup {e}
  /\ UNCHANGED <<jobVars, clock, reports, pdfObject, mails, deliveries, crossed>>

(* A pipeline that may still use what pipelines share. *)
Busy(q) == pc[q] \notin {"none", "record"} \cup Over

(* handleSessionEnd: the goroutine of its own, with a background context. *)
EndSession(r) ==
  /\ pc[r] = "none"
  /\ crossed' = crossed \cup (IF \E q \in Run : Busy(q) THEN {r} \cup {q \in Run : Busy(q)} ELSE {})
  /\ waiting' = waiting \cup {r}
  /\ hand' = [hand EXCEPT ![r].upTo = stored]
  /\ Goto(r, "read")
  /\ UNCHANGED <<stored, clock, reports, pdfObject, mails, deliveries>>

(* The goroutine dies with its instance, or its Wait fails; the execution  *)
(* it had started runs on.                                                 *)
StopsWaiting(r) ==
  /\ GatewayMayDie
  /\ r \in waiting
  /\ pc[r] \notin Over
  /\ waiting' = waiting \ {r}
  /\ UNCHANGED <<stored, pc, hand, clock, reports, pdfObject, mails, deliveries, crossed>>
-----------------------------------------------------------------------------
(* post-session-job. *)

Bug_LastRead == 6
LastRead == Len(ReadOrder)

(* What the job holds after its next read. *)
ReadNext(h) ==
  [next |-> h.next + 1, covers |-> h.covers \cup {e \in stored : SourceOf[e] = ReadOrder[h.next]},
   upTo |-> h.upTo, stamp |-> h.stamp, report |-> h.report, pdf |-> h.pdf, sent |-> h.sent]

ReadSource(r) ==
  /\ pc[r] = "read"
  /\ \/ /\ hand' = [hand EXCEPT ![r] = ReadNext(hand[r])]
        /\ Goto(r, IF hand[r].next = LastRead THEN "stamp" ELSE "read")
        /\ UNCHANGED waiting
     \/ Fatal(r)
  /\ UNCHANGED <<stored, clock, reports, pdfObject, mails, deliveries, crossed>>

(* The LLM call, whose outcome only changes wording, EnsureSession, and    *)
(* time.Now() for the row.                                                 *)
StampReport(r) ==
  /\ pc[r] = "stamp"
  /\ \/ /\ clock' = clock + 1
        /\ hand' = [hand EXCEPT ![r].stamp = clock']
        /\ Goto(r, "insert")
        /\ UNCHANGED waiting
     \/ Fatal(r) /\ UNCHANGED clock
  /\ UNCHANGED <<stored, reports, pdfObject, mails, deliveries, crossed>>

InsertReport(r) ==
  /\ pc[r] = "insert"
  /\ LET inserted == [reports EXCEPT ![r] = [stamp |-> hand[r].stamp, covers |-> hand[r].covers, pdf |-> FALSE]]
     IN  \/ reports' = inserted /\ NextJob(r, "latest") /\ UNCHANGED <<waiting, hand>>
         \/ reports' \in {reports, inserted} /\ Fatal(r)
  /\ UNCHANGED <<stored, clock, pdfObject, mails, deliveries, crossed>>
-----------------------------------------------------------------------------
(* pdf-renderer. *)

GetLatestReport(r) ==
  /\ pc[r] = "latest"
  /\ \/ hand' = [hand EXCEPT ![r].report = Latest] /\ Goto(r, "write") /\ UNCHANGED waiting
     \/ Fatal(r)
  /\ UNCHANGED <<stored, clock, reports, pdfObject, mails, deliveries, crossed>>

Bug_UpdateFirst(r) ==
  /\ pc[r] = "write"
  /\ \/ Goto(r, "update") /\ pdfObject' = pdfObject /\ UNCHANGED <<waiting, hand>>
     \/ pdfObject' \in {pdfObject, hand[r].report} /\ Fatal(r)
  /\ UNCHANGED <<stored, clock, reports, mails, deliveries, crossed>>

Bug_KeepExistingPdf(r) ==
  /\ pc[r] = "write"
  /\ \/ /\ pdfObject' = IF pdfObject = None THEN hand[r].report ELSE pdfObject
        /\ Goto(r, "update")
        /\ UNCHANGED <<waiting, hand>>
     \/ UNCHANGED pdfObject /\ Fatal(r)
  /\ UNCHANGED <<stored, clock, reports, mails, deliveries, crossed>>

(* Every report of the session is written to the same object. *)
WritePdf(r) ==
  /\ pc[r] = "write"
  /\ \/ pdfObject' = hand[r].report /\ Goto(r, "update") /\ UNCHANGED <<waiting, hand>>
     \/ pdfObject' \in {pdfObject, hand[r].report} /\ Fatal(r)
  /\ UNCHANGED <<stored, clock, reports, mails, deliveries, crossed>>

UpdateReportPDF(r) ==
  /\ pc[r] = "update"
  /\ LET updated == [reports EXCEPT ![hand[r].report].pdf = TRUE]
     IN  \/ /\ reports' = updated
            /\ NextJob(r, IF r \in WithRecipient THEN "path" ELSE "done")
            /\ UNCHANGED <<waiting, hand>>
         \/ reports' \in {reports, updated} /\ Fatal(r)
  /\ UNCHANGED <<stored, clock, pdfObject, mails, deliveries, crossed>>
-----------------------------------------------------------------------------
(* gmail-sender. *)

GetReportPDFPath(r) ==
  /\ pc[r] = "path"
  /\ \/ /\ hand' = [hand EXCEPT ![r].report = Latest]
        /\ Goto(r, IF reports[Latest].pdf THEN "fetch" ELSE "nopath")
        /\ UNCHANGED waiting
     \/ Fatal(r)
  /\ UNCHANGED <<stored, clock, reports, pdfObject, mails, deliveries, crossed>>

(* A failed read or send is recorded as a failed delivery. *)
FetchPdf(r) ==
  /\ pc[r] = "fetch"
  /\ \/ hand' = [hand EXCEPT ![r].pdf = pdfObject] /\ Goto(r, "send")
     \/ StepMayFail /\ Goto(r, "record") /\ UNCHANGED hand
  /\ UNCHANGED <<stored, waiting, clock, reports, pdfObject, mails, deliveries, crossed>>

Bug_SentAnyway(r) ==
  /\ pc[r] = "send"
  /\ mails' \in {mails \cup {<<r, hand[r].pdf>>}} \cup (IF StepMayFail THEN {mails} ELSE {})
  /\ hand' = [hand EXCEPT ![r].sent = TRUE]
  /\ Goto(r, "record")
  /\ UNCHANGED <<stored, waiting, clock, reports, pdfObject, deliveries, crossed>>

SendMail(r) ==
  /\ pc[r] = "send"
  /\ LET sent == mails \cup {<<r, hand[r].pdf>>}
     IN  \/ mails' = sent /\ hand' = [hand EXCEPT ![r].sent = TRUE]
         \/ StepMayFail /\ mails' \in {mails, sent} /\ UNCHANGED hand
  /\ Goto(r, "record")
  /\ UNCHANGED <<stored, waiting, clock, reports, pdfObject, deliveries, crossed>>

(* A failed delivery is recorded and then ends the execution as failed. *)
InsertReportDelivery(r) ==
  /\ pc[r] = "record"
  /\ LET recorded == deliveries \cup {[run |-> r, report |-> hand[r].report, sent |-> hand[r].sent]}
     IN  \/ /\ deliveries' = recorded
            /\ Goto(r, IF hand[r].sent THEN "done" ELSE "failed")
            /\ UNCHANGED <<waiting, hand>>
         \/ deliveries' \in {deliveries, recorded} /\ Fatal(r)
  /\ UNCHANGED <<stored, clock, reports, pdfObject, mails, crossed>>

Job(r) ==
  \/ ReadSource(r) \/ StampReport(r) \/ InsertReport(r)
  \/ GetLatestReport(r) \/ WritePdf(r) \/ UpdateReportPDF(r)
  \/ GetReportPDFPath(r) \/ FetchPdf(r) \/ SendMail(r) \/ InsertReportDelivery(r)

Next ==
  \/ \E e \in Event : StoreEvent(e)
  \/ \E r \in Run : EndSession(r) \/ StopsWaiting(r) \/ Job(r)

Spec == Init /\ [][Next]_vars

(* A started execution runs to its end, and so does a waiting goroutine. *)
Fairness == \A r \in Run : WF_vars(Job(r))
FairSpec == Spec /\ Fairness
-----------------------------------------------------------------------------
TypeOK ==
  /\ stored \subseteq Event
  /\ pc \in [Run -> PcState]
  /\ waiting \subseteq Run
  /\ hand \in [Run -> Hand]
  /\ clock \in 0 .. Cardinality(Run)
  /\ reports \in [Run -> Report]
  /\ pdfObject \in Run \cup {None}
  /\ mails \subseteq Run \X Run
  /\ deliveries \subseteq [run : Run, report : Run, sent : BOOLEAN]
  /\ crossed \subseteq Run

(* A report covers all that was stored when its session end was handled,   *)
(* whatever is stored while its sources are read one after the other.      *)
ReportCoversStored == \A r \in Run : Exists(r) => hand[r].upTo \subseteq reports[r].covers

(* Whichever pipelines overlap, die or fail: one that comes to its mail    *)
(* has had its own report, or a newer one, rendered and recorded.          *)
RenderedBeforeMail ==
  \A r \in Run : pc[r] \in {"path", "fetch", "send", "record", "nopath"} =>
    \E i \in Run : reports[i].pdf /\ reports[i].stamp >= reports[r].stamp

(* A row with a pdf_path, and so every look-up of the mail job, has an     *)
(* object behind it.                                                       *)
PathHasObject == (\E i \in Run : reports[i].pdf) => pdfObject # None

(* A delivery recorded as sent was: its run's recipient got a PDF.         *)
SentWasMailed == \A d \in deliveries : d.sent => \E i \in Run : <<d.run, i>> \in mails

(* The same of deliveries: a pipeline on its own records the report it     *)
(* made, and that is the one its recipient got.                            *)
UncrossedDelivery ==
  \A d \in deliveries :
    d.sent /\ d.run \notin crossed => d.report = d.run /\ <<d.run, d.run>> \in mails

(* cmd/gmail-sender/README.md: the latest report's PDF is sent, and the    *)
(* delivery recorded on that report.  So a delivery recorded as sent for a *)
(* report is a mail with the PDF of that report.                           *)
DeliveryIsOfItsReport == \A d \in deliveries : d.sent => <<d.run, d.report>> \in mails

(* A session end with an address ends in a mail of its own report,         *)
(* recorded as sent, unless a step fails, the gateway stops waiting or     *)
(* another pipeline crosses it.                                            *)
RecipientGetsReport ==
  \A r \in WithRecipient :
    pc[r] = "read" ~>
      \/ <<r, r>> \in mails /\ [run |-> r, report |-> r, sent |-> TRUE] \in deliveries
      \/ pc[r] = "failed" \/ r \notin waiting \/ r \in crossed

(* The flow's promise holds for every pipeline that no other one crossed   *)
(* before its mail, whatever crossed pipelines did before it and whatever  *)
(* fails.                                                                  *)
Flow == INSTANCE ReportDelivery
          WITH reported <- {r \in Run : Exists(r)},
               rendered <- {r \in Run : reports[r].pdf},
               mailed <- {m \in mails : m[1] \notin crossed}
ImplementsDelivery == Flow!Spec
=============================================================================
