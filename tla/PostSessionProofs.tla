------------------------- MODULE PostSessionProofs -------------------------
(***************************************************************************)
(* What holds of the post-session pipelines of a session for every number  *)
(* of session ends, whatever overlaps, fails or dies: reports cover what   *)
(* was stored, mails follow a rendering, recorded deliveries were sent,    *)
(* and a pipeline that no other one crosses keeps the promise of           *)
(* ReportDelivery.                                                         *)
(***************************************************************************)
EXTENDS PostSession, FiniteSetTheorems, TLAPS

HandOf(n, c, u, t, rep, p, k) ==
  [next |-> n, covers |-> c, upTo |-> u, stamp |-> t, report |-> rep, pdf |-> p, sent |-> k]

(* What a running job holds is the record of its fields. *)
LEMMA HandFields ==
  ASSUME hand \in [Run -> Hand], NEW r \in Run
  PROVE  /\ hand[r] = HandOf(hand[r].next, hand[r].covers, hand[r].upTo, hand[r].stamp,
                             hand[r].report, hand[r].pdf, hand[r].sent)
         /\ hand[r].next \in 1 .. 8 /\ hand[r].covers \in SUBSET Event /\ hand[r].upTo \in SUBSET Event
         /\ hand[r].stamp \in 0 .. Cardinality(Run) /\ hand[r].report \in Run \cup {None}
         /\ hand[r].pdf \in Run \cup {None} /\ hand[r].sent \in BOOLEAN
<1>1. hand[r] \in Hand
  OBVIOUS
<1> QED
  BY <1>1 DEF Hand, HandOf

(* A step of r that changes what it holds, and nobody else's. *)
HandMoves(r) ==
  /\ hand' \in [Run -> Hand]
  /\ \A q \in Run \ {r} : hand'[q] = hand[q]
KeepsRead(r) == hand'[r].next = hand[r].next /\ hand'[r].covers = hand[r].covers
KeepsUpTo(r) == hand'[r].upTo = hand[r].upTo
KeepsStamp(r) == hand'[r].stamp = hand[r].stamp
KeepsReport(r) == hand'[r].report = hand[r].report
KeepsPdf(r) == hand'[r].pdf = hand[r].pdf
KeepsSent(r) == hand'[r].sent = hand[r].sent

(* EndSession notes what was stored. *)
LEMMA SetUpTo ==
  ASSUME hand \in [Run -> Hand], NEW r \in Run, NEW x \in SUBSET Event, hand' = [hand EXCEPT ![r].upTo = x]
  PROVE  HandMoves(r) /\ hand'[r].upTo = x /\ KeepsRead(r) /\ KeepsStamp(r) /\ KeepsReport(r) /\ KeepsPdf(r) /\ KeepsSent(r)
<1>1. [hand[r] EXCEPT !.upTo = x] = HandOf(hand[r].next, hand[r].covers, x, hand[r].stamp, hand[r].report, hand[r].pdf, hand[r].sent)
  BY HandFields DEF HandOf
<1> QED
  BY <1>1, HandFields DEF HandMoves, KeepsRead, KeepsStamp, KeepsReport, KeepsPdf, KeepsSent, HandOf, Hand

(* time.Now() for the row. *)
LEMMA SetStamp ==
  ASSUME hand \in [Run -> Hand], NEW r \in Run, NEW x \in 0 .. Cardinality(Run), hand' = [hand EXCEPT ![r].stamp = x]
  PROVE  HandMoves(r) /\ hand'[r].stamp = x /\ KeepsRead(r) /\ KeepsUpTo(r) /\ KeepsReport(r) /\ KeepsPdf(r) /\ KeepsSent(r)
<1>1. [hand[r] EXCEPT !.stamp = x] = HandOf(hand[r].next, hand[r].covers, hand[r].upTo, x, hand[r].report, hand[r].pdf, hand[r].sent)
  BY HandFields DEF HandOf
<1> QED
  BY <1>1, HandFields DEF HandMoves, KeepsRead, KeepsUpTo, KeepsReport, KeepsPdf, KeepsSent, HandOf, Hand

(* A look-up of the latest report. *)
LEMMA SetReport ==
  ASSUME hand \in [Run -> Hand], NEW r \in Run, NEW x \in Run \cup {None}, hand' = [hand EXCEPT ![r].report = x]
  PROVE  HandMoves(r) /\ hand'[r].report = x /\ KeepsRead(r) /\ KeepsUpTo(r) /\ KeepsStamp(r) /\ KeepsPdf(r) /\ KeepsSent(r)
<1>1. [hand[r] EXCEPT !.report = x] = HandOf(hand[r].next, hand[r].covers, hand[r].upTo, hand[r].stamp, x, hand[r].pdf, hand[r].sent)
  BY HandFields DEF HandOf
<1> QED
  BY <1>1, HandFields DEF HandMoves, KeepsRead, KeepsUpTo, KeepsStamp, KeepsPdf, KeepsSent, HandOf, Hand

(* The PDF that was read. *)
LEMMA SetPdf ==
  ASSUME hand \in [Run -> Hand], NEW r \in Run, NEW x \in Run \cup {None}, hand' = [hand EXCEPT ![r].pdf = x]
  PROVE  HandMoves(r) /\ hand'[r].pdf = x /\ KeepsRead(r) /\ KeepsUpTo(r) /\ KeepsStamp(r) /\ KeepsReport(r) /\ KeepsSent(r)
<1>1. [hand[r] EXCEPT !.pdf = x] = HandOf(hand[r].next, hand[r].covers, hand[r].upTo, hand[r].stamp, hand[r].report, x, hand[r].sent)
  BY HandFields DEF HandOf
<1> QED
  BY <1>1, HandFields DEF HandMoves, KeepsRead, KeepsUpTo, KeepsStamp, KeepsReport, KeepsSent, HandOf, Hand

(* The mail that was sent. *)
LEMMA SetSent ==
  ASSUME hand \in [Run -> Hand], NEW r \in Run, NEW x \in BOOLEAN, hand' = [hand EXCEPT ![r].sent = x]
  PROVE  HandMoves(r) /\ hand'[r].sent = x /\ KeepsRead(r) /\ KeepsUpTo(r) /\ KeepsStamp(r) /\ KeepsReport(r) /\ KeepsPdf(r)
<1>1. [hand[r] EXCEPT !.sent = x] = HandOf(hand[r].next, hand[r].covers, hand[r].upTo, hand[r].stamp, hand[r].report, hand[r].pdf, x)
  BY HandFields DEF HandOf
<1> QED
  BY <1>1, HandFields DEF HandMoves, KeepsRead, KeepsUpTo, KeepsStamp, KeepsReport, KeepsPdf, HandOf, Hand

(* One more source read. *)
LEMMA SetRead ==
  ASSUME hand \in [Run -> Hand], NEW r \in Run, hand[r].next < 8, stored \subseteq Event,
         hand' = [hand EXCEPT ![r] = ReadNext(hand[r])]
  PROVE  /\ HandMoves(r) /\ hand'[r].next = hand[r].next + 1
         /\ hand'[r].covers = hand[r].covers \cup {e \in stored : SourceOf[e] = ReadOrder[hand[r].next]}
         /\ KeepsUpTo(r) /\ KeepsStamp(r) /\ KeepsReport(r) /\ KeepsPdf(r) /\ KeepsSent(r)
<1>1. hand'[r] = ReadNext(hand[r])
  OBVIOUS
<1>2. PICK x \in SUBSET Event : x = hand[r].covers \cup {e \in stored : SourceOf[e] = ReadOrder[hand[r].next]}
  BY HandFields
<1>3. PICK n \in 1 .. 8 : n = hand[r].next + 1
  BY HandFields
<1>4. hand'[r] = HandOf(n, x, hand[r].upTo, hand[r].stamp, hand[r].report, hand[r].pdf, hand[r].sent)
  BY <1>1, <1>2, <1>3 DEF ReadNext, HandOf
<1>5. hand'[r] \in Hand
  BY <1>4, HandFields DEF HandOf, Hand
<1> QED
  BY <1>2, <1>3, <1>4, <1>5 DEF HandMoves, KeepsUpTo, KeepsStamp, KeepsReport, KeepsPdf, KeepsSent, HandOf
-----------------------------------------------------------------------------
Unsaved(r) == pc[r] \in {"none", "read", "stamp", "insert"}
Saved(r) == pc[r] \in {"latest", "write", "update", "path", "fetch", "send"}
MailOver(r) == pc[r] \in {"record"} \cup Over

(* A pipeline has its row from the insert on, and one of the rows is the   *)
(* latest.                                                                 *)
RowInv ==
  /\ \A r \in Run : Unsaved(r) => reports[r] = NoReport
  /\ \A r \in Run : Saved(r) => Exists(r)
  /\ \A r \in Run : reports[r].pdf => Exists(r)
  /\ (\E q \in Run : Exists(q)) => \E r \in Run : Exists(r) /\ IsLatest(r)

(* Each pipeline reads the clock once. *)
Stamped == {r \in Run : hand[r].stamp > 0}
StampInv ==
  /\ \A r \in Run : pc[r] \in {"none", "read", "stamp"} => hand[r].stamp = 0
  /\ \A r \in Run : pc[r] = "insert" => hand[r].stamp > 0
  /\ \A r \in Run : hand[r].stamp <= clock
  /\ \A r \in Run : Exists(r) => reports[r].stamp = hand[r].stamp
  /\ clock = Cardinality(Stamped)

(* What has been read of what was stored at the session end. *)
CoverInv ==
  /\ \A r \in Run : hand[r].upTo \subseteq stored
  /\ \A r \in Run : pc[r] = "none" => hand[r].next = 1
  /\ \A r \in Run : pc[r] = "read" =>
       /\ hand[r].next \in 1 .. 7
       /\ \A e \in hand[r].upTo, i \in 1 .. 7 : i < hand[r].next /\ SourceOf[e] = ReadOrder[i] => e \in hand[r].covers
  /\ \A r \in Run : pc[r] \in {"stamp", "insert"} => hand[r].upTo \subseteq hand[r].covers
  /\ ReportCoversStored

(* The renderer's report is as new as the pipeline's own, and what is      *)
(* looked up for a mail has been rendered.                                 *)
RenderInv ==
  /\ \A r \in Run : pc[r] \in {"write", "update"} =>
       /\ hand[r].report \in Run /\ Exists(hand[r].report)
       /\ reports[hand[r].report].stamp >= reports[r].stamp
  /\ \A r \in Run : pc[r] \in {"update", "fetch"} => pdfObject # None
  /\ \A r \in Run : pc[r] \in {"path", "fetch", "send", "record", "nopath"} => r \in WithRecipient
  /\ \A r \in Run : pc[r] \in {"fetch", "send", "record"} => hand[r].report \in Run
  /\ \A r \in Run : pc[r] = "send" => hand[r].pdf \in Run
  /\ PathHasObject
  /\ RenderedBeforeMail

MailInv ==
  /\ \A m \in mails : MailOver(m[1])
  /\ \A r \in Run : ~MailOver(r) => ~hand[r].sent
  /\ \A r \in Run : hand[r].sent => \E i \in Run : <<r, i>> \in mails
  /\ SentWasMailed

(* What a pipeline that nobody has crossed knows: it is the only busy one, *)
(* its report is the latest, and the PDF is the PDF of its report.         *)
Alone(r) ==
  /\ Busy(r) => \A q \in Run \ {r} : ~Busy(q)
  /\ pc[r] = "insert" => \A q \in Run \ {r} : reports[q].stamp < hand[r].stamp
  /\ Saved(r) => \A q \in Run \ {r} : reports[q].stamp < reports[r].stamp
  /\ pc[r] \in {"write", "update", "fetch", "send", "record"} => hand[r].report = r
  /\ pc[r] \in {"update", "path", "fetch", "send"} => pdfObject = r
  /\ pc[r] \in {"path", "fetch", "send"} => reports[r].pdf
  /\ pc[r] = "send" => hand[r].pdf = r
  /\ hand[r].sent => <<r, r>> \in mails
AloneInv ==
  /\ \A r \in Run \ crossed : Alone(r)
  /\ UncrossedDelivery

PostInv ==
  /\ TypeOK
  /\ RowInv
  /\ StampInv
  /\ CoverInv
  /\ RenderInv
  /\ MailInv
  /\ AloneInv

(* No pipeline has begun: the invariant holds. *)
LEMMA PostInitInv == Init => PostInv
<1> SUFFICES ASSUME Init PROVE PostInv
  OBVIOUS
<1>0. /\ Cardinality(Run) \in Nat /\ EmptyHand \in Hand /\ NoReport \in Report
      /\ NoReport.stamp = 0 /\ NoReport.pdf = FALSE
  <2>1. Cardinality(Run) \in Nat
    BY RunAssumption, FS_CardinalityType
  <2>2. 0 \in 0 .. Cardinality(Run)
    BY <2>1
  <2> QED
    BY <2>1, <2>2 DEF EmptyHand, Hand, NoReport, Report
<1>1. \A r \in Run : /\ pc[r] = "none" /\ reports[r].stamp = 0 /\ ~reports[r].pdf /\ reports[r] = NoReport
                     /\ hand[r].stamp = 0 /\ hand[r].upTo = {} /\ hand[r].next = 1 /\ hand[r].sent = FALSE
  BY <1>0 DEF Init, EmptyHand
<1>2. TypeOK
  BY <1>0 DEF Init, TypeOK, PcState
<1>3. RowInv
  BY <1>1 DEF RowInv, Unsaved, Saved, Exists
<1>4. StampInv
  <2>1. Stamped = {}
    BY <1>1 DEF Stamped
  <2>2. clock = Cardinality(Stamped)
    BY <2>1, FS_EmptySet DEF Init
  <2> QED
    BY <1>1, <2>2 DEF Init, StampInv, Exists
<1>5. CoverInv
  BY <1>1 DEF CoverInv, ReportCoversStored, Exists
<1>6. RenderInv /\ MailInv /\ AloneInv
  BY <1>1 DEF Init, RenderInv, MailInv, AloneInv, Alone, Busy, Saved, PathHasObject, RenderedBeforeMail,
    SentWasMailed, UncrossedDelivery
<1> QED
  BY <1>2, <1>3, <1>4, <1>5, <1>6 DEF PostInv
-----------------------------------------------------------------------------
(* The rows and the hands, field by field. *)
LEMMA Fields ==
  ASSUME TypeOK
  PROVE  /\ Cardinality(Run) \in Nat /\ clock \in Nat
         /\ \A q \in Run : /\ hand[q].next \in 1 .. 8 /\ hand[q].covers \in SUBSET Event
                           /\ hand[q].upTo \in SUBSET Event /\ hand[q].stamp \in 0 .. Cardinality(Run)
                           /\ hand[q].report \in Run \cup {None} /\ hand[q].pdf \in Run \cup {None}
                           /\ hand[q].sent \in BOOLEAN
         /\ \A q \in Run : /\ reports[q].stamp \in 0 .. Cardinality(Run)
                           /\ reports[q].covers \in SUBSET Event /\ reports[q].pdf \in BOOLEAN
<1>1. Cardinality(Run) \in Nat
  BY RunAssumption, FS_CardinalityType
<1>2. \A q \in Run : reports[q] \in Report
  BY DEF TypeOK
<1> QED
  BY <1>1, <1>2, HandFields DEF TypeOK, Report

Others(r) == \A q \in Run \ {r} : pc'[q] = pc[q] /\ hand'[q] = hand[q]
KeepsRows == \A q \in Run : reports'[q].stamp = reports[q].stamp /\ reports'[q].covers = reports[q].covers

(* What each call of a pipeline does, value by value. *)
DidEnd(r) ==
  /\ pc[r] = "none" /\ pc'[r] = "read" /\ Others(r)
  /\ hand'[r].upTo = stored /\ KeepsRead(r) /\ KeepsStamp(r) /\ KeepsReport(r) /\ KeepsPdf(r) /\ KeepsSent(r)
  /\ crossed' = crossed \cup (IF \E q \in Run : Busy(q) THEN {r} \cup {q \in Run : Busy(q)} ELSE {})
  /\ UNCHANGED <<stored, clock, reports, pdfObject, mails, deliveries>>
DidRead(r) ==
  /\ pc[r] = "read" /\ Others(r)
  /\ \/ /\ pc'[r] = IF hand[r].next = 7 THEN "stamp" ELSE "read"
        /\ hand[r].next < 8 /\ hand'[r].next = hand[r].next + 1
        /\ hand'[r].covers = hand[r].covers \cup {e \in stored : SourceOf[e] = ReadOrder[hand[r].next]}
        /\ KeepsUpTo(r) /\ KeepsStamp(r) /\ KeepsReport(r) /\ KeepsPdf(r) /\ KeepsSent(r)
     \/ pc'[r] = "failed" /\ hand'[r] = hand[r]
  /\ UNCHANGED <<stored, clock, reports, pdfObject, mails, deliveries, crossed>>
DidStamp(r) ==
  /\ pc[r] = "stamp" /\ Others(r)
  /\ \/ /\ pc'[r] = "insert" /\ clock' = clock + 1 /\ hand'[r].stamp = clock'
        /\ KeepsRead(r) /\ KeepsUpTo(r) /\ KeepsReport(r) /\ KeepsPdf(r) /\ KeepsSent(r)
     \/ pc'[r] = "failed" /\ hand'[r] = hand[r] /\ clock' = clock
  /\ UNCHANGED <<stored, reports, pdfObject, mails, deliveries, crossed>>
DidInsert(r) ==
  /\ pc[r] = "insert" /\ Others(r) /\ hand'[r] = hand[r]
  /\ \A q \in Run \ {r} : reports'[q] = reports[q]
  /\ \/ /\ pc'[r] \in {"latest", "done", "failed"}
        /\ reports'[r].stamp = hand[r].stamp /\ reports'[r].covers = hand[r].covers /\ reports'[r].pdf = FALSE
     \/ pc'[r] = "failed" /\ reports'[r] = reports[r]
  /\ UNCHANGED <<stored, clock, pdfObject, mails, deliveries, crossed>>
DidFind(r) ==
  /\ pc[r] = "latest" /\ Others(r)
  /\ \/ /\ pc'[r] = "write" /\ hand'[r].report = Latest
        /\ KeepsRead(r) /\ KeepsUpTo(r) /\ KeepsStamp(r) /\ KeepsPdf(r) /\ KeepsSent(r)
     \/ pc'[r] = "failed" /\ hand'[r] = hand[r]
  /\ UNCHANGED <<stored, clock, reports, pdfObject, mails, deliveries, crossed>>
DidWrite(r) ==
  /\ pc[r] = "write" /\ Others(r) /\ hand'[r] = hand[r]
  /\ \/ pc'[r] = "update" /\ pdfObject' = hand[r].report
     \/ pc'[r] = "failed" /\ pdfObject' \in {pdfObject, hand[r].report}
  /\ UNCHANGED <<stored, clock, reports, mails, deliveries, crossed>>
DidUpdate(r) ==
  /\ pc[r] = "update" /\ Others(r) /\ hand'[r] = hand[r]
  /\ KeepsRows
  /\ \A q \in Run \ {hand[r].report} : reports'[q] = reports[q]
  /\ \/ /\ reports'[hand[r].report].pdf = TRUE
        /\ pc'[r] \in {"done", "failed"} \cup (IF r \in WithRecipient THEN {"path"} ELSE {})
     \/ reports' = reports /\ pc'[r] = "failed"
  /\ UNCHANGED <<stored, clock, pdfObject, mails, deliveries, crossed>>
DidLookUp(r) ==
  /\ pc[r] = "path" /\ Others(r)
  /\ \/ /\ pc'[r] = IF reports[Latest].pdf THEN "fetch" ELSE "nopath"
        /\ hand'[r].report = Latest
        /\ KeepsRead(r) /\ KeepsUpTo(r) /\ KeepsStamp(r) /\ KeepsPdf(r) /\ KeepsSent(r)
     \/ pc'[r] = "failed" /\ hand'[r] = hand[r]
  /\ UNCHANGED <<stored, clock, reports, pdfObject, mails, deliveries, crossed>>
DidFetch(r) ==
  /\ pc[r] = "fetch" /\ Others(r)
  /\ \/ /\ pc'[r] = "send" /\ hand'[r].pdf = pdfObject
        /\ KeepsRead(r) /\ KeepsUpTo(r) /\ KeepsStamp(r) /\ KeepsReport(r) /\ KeepsSent(r)
     \/ pc'[r] = "record" /\ hand'[r] = hand[r]
  /\ UNCHANGED <<stored, clock, reports, pdfObject, mails, deliveries, crossed>>
DidSend(r) ==
  /\ pc[r] = "send" /\ Others(r) /\ pc'[r] = "record"
  /\ \/ /\ mails' = mails \cup {<<r, hand[r].pdf>>} /\ hand'[r].sent = TRUE
        /\ KeepsRead(r) /\ KeepsUpTo(r) /\ KeepsStamp(r) /\ KeepsReport(r) /\ KeepsPdf(r)
     \/ mails' \in {mails, mails \cup {<<r, hand[r].pdf>>}} /\ hand'[r] = hand[r]
  /\ UNCHANGED <<stored, clock, reports, pdfObject, deliveries, crossed>>
DidRecord(r) ==
  /\ pc[r] = "record" /\ Others(r) /\ hand'[r] = hand[r] /\ pc'[r] \in {"done", "failed"}
  /\ deliveries' \in {deliveries, deliveries \cup {[run |-> r, report |-> hand[r].report, sent |-> hand[r].sent]}}
  /\ UNCHANGED <<stored, clock, reports, pdfObject, mails, crossed>>
Did(r) ==
  \/ DidEnd(r) \/ DidRead(r) \/ DidStamp(r) \/ DidInsert(r) \/ DidFind(r) \/ DidWrite(r) \/ DidUpdate(r)
  \/ DidLookUp(r) \/ DidFetch(r) \/ DidSend(r) \/ DidRecord(r)

(* The clock is read at most once a pipeline. *)
LEMMA ClockHasRoom ==
  ASSUME TypeOK, StampInv, NEW r \in Run, pc[r] = "stamp"
  PROVE  /\ clock + 1 \in 0 .. Cardinality(Run)
         /\ IsFiniteSet(Stamped) /\ r \notin Stamped
<1>1. r \notin Stamped /\ Stamped \in SUBSET Run
  BY Fields DEF StampInv, Stamped
<1>2. IsFiniteSet(Stamped) /\ Cardinality(Stamped) \in Nat /\ Cardinality(Run) \in Nat
  BY <1>1, RunAssumption, FS_Subset, FS_CardinalityType
<1>3. Stamped \cup {r} \in SUBSET Run
  BY <1>1
<1>4. Cardinality(Stamped \cup {r}) <= Cardinality(Run)
  BY <1>3, RunAssumption, FS_Subset
<1>5. Cardinality(Stamped \cup {r}) = Cardinality(Stamped) + 1
  BY <1>1, <1>2, FS_AddElement
<1> QED
  BY <1>1, <1>2, <1>4, <1>5 DEF StampInv

(* ORDER BY generated_at DESC LIMIT 1 finds a row when there is one. *)
LEMMA LatestIs ==
  ASSUME RowInv, NEW r \in Run, Exists(r)
  PROVE  Latest \in Run /\ Exists(Latest) /\ IsLatest(Latest)
<1>1. \E q \in Run : Exists(q) /\ IsLatest(q)
  BY DEF RowInv
<1> QED
  BY <1>1 DEF Latest

(* A row's pdf_path is set. *)
LEMMA SetPath ==
  ASSUME reports \in [Run -> Report], NEW i \in Run, NEW x \in BOOLEAN, reports' = [reports EXCEPT ![i].pdf = x]
  PROVE  /\ reports' \in [Run -> Report] /\ KeepsRows /\ reports'[i].pdf = x
         /\ \A q \in Run \ {i} : reports'[q] = reports[q]
<1>1. reports[i] \in Report
  OBVIOUS
<1>2. [reports[i] EXCEPT !.pdf = x] = [stamp |-> reports[i].stamp, covers |-> reports[i].covers, pdf |-> x]
  BY <1>1 DEF Report
<1> QED
  BY <1>1, <1>2 DEF KeepsRows, Report

(* Each call does what its shape says, and keeps the types. *)
LEMMA Shapes ==
  ASSUME TypeOK, StampInv, RowInv, CoverInv, RenderInv, NEW r \in Run, EndSession(r) \/ Job(r)
  PROVE  Did(r) /\ TypeOK'
<1> USE DEF Goto, Fatal, Others
<1>0. /\ pc \in [Run -> PcState] /\ hand \in [Run -> Hand] /\ reports \in [Run -> Report]
      /\ stored \subseteq Event /\ waiting \subseteq Run /\ hand[r] \in Hand
  BY DEF TypeOK
<1>a. TypeOK' <=> /\ stored' \subseteq Event /\ pc' \in [Run -> PcState] /\ waiting' \subseteq Run
                  /\ hand' \in [Run -> Hand] /\ clock' \in 0 .. Cardinality(Run) /\ reports' \in [Run -> Report]
                  /\ pdfObject' \in Run \cup {None} /\ mails' \subseteq Run \X Run
                  /\ deliveries' \subseteq [run : Run, report : Run, sent : BOOLEAN] /\ crossed' \subseteq Run
  BY DEF TypeOK
<1>b. ASSUME NEW label \in PcState, Goto(r, label)
      PROVE  pc' \in [Run -> PcState] /\ pc'[r] = label /\ \A q \in Run \ {r} : pc'[q] = pc[q]
  BY <1>0, <1>b
<1>c. {"none", "read", "stamp", "insert", "latest", "write", "update",
       "path", "fetch", "send", "record", "done", "failed", "nopath"} = PcState
  BY DEF PcState, Over
<1>1. CASE EndSession(r)
  <2>1. hand' = [hand EXCEPT ![r].upTo = stored] /\ stored \in SUBSET Event
    BY <1>1, <1>0 DEF EndSession
  <2>2. HandMoves(r) /\ hand'[r].upTo = stored /\ KeepsRead(r) /\ KeepsStamp(r) /\ KeepsReport(r) /\ KeepsPdf(r) /\ KeepsSent(r)
    BY <1>0, <2>1, SetUpTo
  <2>3. pc' \in [Run -> PcState] /\ pc'[r] = "read" /\ \A q \in Run \ {r} : pc'[q] = pc[q]
    BY <1>1, <1>b, <1>c DEF EndSession
  <2>4. DidEnd(r)
    BY <1>1, <2>2, <2>3 DEF EndSession, DidEnd, HandMoves
  <2>5. TypeOK'
    BY <1>1, <1>a, <2>2, <2>3 DEF EndSession, TypeOK, HandMoves
  <2> QED
    BY <2>4, <2>5 DEF Did
<1>d. ASSUME Fatal(r)
      PROVE  /\ pc' \in [Run -> PcState] /\ pc'[r] = "failed" /\ hand' = hand /\ waiting' = waiting
             /\ \A q \in Run \ {r} : pc'[q] = pc[q]
  BY <1>b, <1>c, <1>d
<1>e. ASSUME NEW label \in PcState, NextJob(r, label)
      PROVE  pc' \in [Run -> PcState] /\ pc'[r] \in {label, "done"} /\ \A q \in Run \ {r} : pc'[q] = pc[q]
  BY <1>b, <1>c, <1>e DEF NextJob
<1> HIDE DEF Goto, Fatal
<1>2. CASE ReadSource(r)
  <2>1. CASE hand' = [hand EXCEPT ![r] = ReadNext(hand[r])] /\ UNCHANGED waiting /\ Goto(r, IF hand[r].next = LastRead THEN "stamp" ELSE "read")
    <3>1. LastRead = 7 /\ hand[r].next < 8
      BY <1>2, Fields DEF ReadSource, CoverInv, LastRead, ReadOrder
    <3>2. /\ HandMoves(r) /\ hand'[r].next = hand[r].next + 1
          /\ hand'[r].covers = hand[r].covers \cup {e \in stored : SourceOf[e] = ReadOrder[hand[r].next]}
          /\ KeepsUpTo(r) /\ KeepsStamp(r) /\ KeepsReport(r) /\ KeepsPdf(r) /\ KeepsSent(r)
      BY <1>0, <2>1, <3>1, SetRead
    <3>3. /\ pc' \in [Run -> PcState] /\ \A q \in Run \ {r} : pc'[q] = pc[q]
          /\ pc'[r] = IF hand[r].next = 7 THEN "stamp" ELSE "read"
      BY <2>1, <3>1, <1>b, <1>c
    <3>4. DidRead(r)
      BY <1>2, <3>1, <3>2, <3>3 DEF ReadSource, DidRead, HandMoves
    <3>5. TypeOK'
      BY <1>2, <1>a, <2>1, <3>2, <3>3 DEF ReadSource, TypeOK, HandMoves
    <3> QED
      BY <3>4, <3>5 DEF Did
  <2>2. CASE Fatal(r)
    <3>1. DidRead(r)
      BY <1>2, <1>d, <2>2 DEF ReadSource, DidRead
    <3>2. TypeOK'
      BY <1>2, <1>a, <1>d, <2>2 DEF ReadSource, TypeOK
    <3> QED
      BY <3>1, <3>2 DEF Did
  <2> QED
    BY <1>2, <2>1, <2>2 DEF ReadSource
<1>3. CASE StampReport(r)
  <2>1. CASE clock' = clock + 1 /\ hand' = [hand EXCEPT ![r].stamp = clock'] /\ Goto(r, "insert") /\ UNCHANGED waiting
    <3>1. clock' \in 0 .. Cardinality(Run)
      BY <1>3, <2>1, ClockHasRoom DEF StampReport
    <3>2. HandMoves(r) /\ hand'[r].stamp = clock' /\ KeepsRead(r) /\ KeepsUpTo(r) /\ KeepsReport(r) /\ KeepsPdf(r) /\ KeepsSent(r)
      BY <1>0, <2>1, <3>1, SetStamp
    <3>3. pc' \in [Run -> PcState] /\ pc'[r] = "insert" /\ \A q \in Run \ {r} : pc'[q] = pc[q]
      BY <2>1, <1>b, <1>c
    <3>4. DidStamp(r)
      BY <1>3, <2>1, <3>2, <3>3 DEF StampReport, DidStamp, HandMoves
    <3>5. TypeOK'
      BY <1>3, <1>a, <2>1, <3>1, <3>2, <3>3 DEF StampReport, TypeOK, HandMoves
    <3> QED
      BY <3>4, <3>5 DEF Did
  <2>2. CASE Fatal(r) /\ UNCHANGED clock
    <3>1. DidStamp(r)
      BY <1>3, <1>d, <2>2 DEF StampReport, DidStamp
    <3>2. TypeOK'
      BY <1>3, <1>a, <1>d, <2>2 DEF StampReport, TypeOK
    <3> QED
      BY <3>1, <3>2 DEF Did
  <2> QED
    BY <1>3, <2>1, <2>2 DEF StampReport
<1>4. CASE InsertReport(r)
  <2> DEFINE row == [stamp |-> hand[r].stamp, covers |-> hand[r].covers, pdf |-> FALSE]
             inserted == [reports EXCEPT ![r] = row]
  <2>0. row \in Report
    BY <1>0 DEF Hand, Report
  <2>1. inserted \in [Run -> Report] /\ inserted[r] = row /\ \A q \in Run \ {r} : inserted[q] = reports[q]
    <3> HIDE DEF row
    <3> QED
      BY <1>0, <2>0
  <2>2. \/ reports' = inserted /\ NextJob(r, "latest") /\ UNCHANGED <<waiting, hand>>
        \/ reports' \in {reports, inserted} /\ Fatal(r)
    BY <1>4 DEF InsertReport
  <2> HIDE DEF inserted
  <2>3. /\ pc' \in [Run -> PcState] /\ pc'[r] \in {"latest", "done", "failed"} /\ UNCHANGED <<waiting, hand>>
        /\ \A q \in Run \ {r} : pc'[q] = pc[q]
        /\ \/ reports' = inserted
           \/ reports' = reports /\ pc'[r] = "failed"
    <3>1. CASE reports' = inserted /\ NextJob(r, "latest") /\ UNCHANGED <<waiting, hand>>
      BY <3>1, <1>e, <1>c
    <3>2. CASE reports' \in {reports, inserted} /\ Fatal(r)
      BY <3>2, <1>d
    <3> QED
      BY <2>2, <3>1, <3>2
  <2>4. reports' = inserted => reports'[r].stamp = hand[r].stamp /\ reports'[r].covers = hand[r].covers /\ reports'[r].pdf = FALSE
    BY <2>1
  <2>5. \A q \in Run \ {r} : reports'[q] = reports[q]
    BY <2>1, <2>3
  <2>6. DidInsert(r)
    BY <1>4, <2>3, <2>4, <2>5 DEF InsertReport, DidInsert
  <2>7. TypeOK'
    BY <1>4, <1>0, <1>a, <2>1, <2>3 DEF InsertReport, TypeOK
  <2> QED
    BY <2>6, <2>7 DEF Did
<1>5. CASE GetLatestReport(r)
  <2>1. CASE hand' = [hand EXCEPT ![r].report = Latest] /\ Goto(r, "write") /\ UNCHANGED waiting
    <3>1. Latest \in Run
      BY <1>5, LatestIs DEF GetLatestReport, RowInv, Saved
    <3>2. HandMoves(r) /\ hand'[r].report = Latest /\ KeepsRead(r) /\ KeepsUpTo(r) /\ KeepsStamp(r) /\ KeepsPdf(r) /\ KeepsSent(r)
      BY <1>0, <2>1, <3>1, SetReport
    <3>3. pc' \in [Run -> PcState] /\ pc'[r] = "write" /\ \A q \in Run \ {r} : pc'[q] = pc[q]
      BY <2>1, <1>b, <1>c
    <3>4. DidFind(r)
      BY <1>5, <3>2, <3>3 DEF GetLatestReport, DidFind, HandMoves
    <3>5. TypeOK'
      BY <1>5, <1>a, <2>1, <3>2, <3>3 DEF GetLatestReport, TypeOK, HandMoves
    <3> QED
      BY <3>4, <3>5 DEF Did
  <2>2. CASE Fatal(r)
    <3>1. DidFind(r)
      BY <1>5, <1>d, <2>2 DEF GetLatestReport, DidFind
    <3>2. TypeOK'
      BY <1>5, <1>a, <1>d, <2>2 DEF GetLatestReport, TypeOK
    <3> QED
      BY <3>1, <3>2 DEF Did
  <2> QED
    BY <1>5, <2>1, <2>2 DEF GetLatestReport
<1>6. CASE WritePdf(r)
  <2>1. hand[r].report \in Run \cup {None}
    BY Fields
  <2>2. /\ pc' \in [Run -> PcState] /\ UNCHANGED <<waiting, hand>> /\ \A q \in Run \ {r} : pc'[q] = pc[q]
        /\ \/ pc'[r] = "update" /\ pdfObject' = hand[r].report
           \/ pc'[r] = "failed" /\ pdfObject' \in {pdfObject, hand[r].report}
    <3>1. CASE pdfObject' = hand[r].report /\ Goto(r, "update") /\ UNCHANGED <<waiting, hand>>
      BY <3>1, <1>b, <1>c
    <3>2. CASE pdfObject' \in {pdfObject, hand[r].report} /\ Fatal(r)
      BY <3>2, <1>d
    <3> QED
      BY <1>6, <3>1, <3>2 DEF WritePdf
  <2>3. DidWrite(r)
    BY <1>6, <2>2 DEF WritePdf, DidWrite
  <2>4. TypeOK'
    BY <1>6, <1>0, <1>a, <2>1, <2>2 DEF WritePdf, TypeOK
  <2> QED
    BY <2>3, <2>4 DEF Did
<1>7. CASE UpdateReportPDF(r)
  <2> DEFINE updated == [reports EXCEPT ![hand[r].report].pdf = TRUE]
             label == IF r \in WithRecipient THEN "path" ELSE "done"
  <2>0. hand[r].report \in Run /\ TRUE \in BOOLEAN
    BY <1>7 DEF UpdateReportPDF, RenderInv
  <2>1. reports' = updated =>
          /\ reports' \in [Run -> Report] /\ KeepsRows /\ reports'[hand[r].report].pdf = TRUE
          /\ \A q \in Run \ {hand[r].report} : reports'[q] = reports[q]
    BY <1>0, <2>0, SetPath, Zenon
  <2>2. \/ reports' = updated /\ NextJob(r, label) /\ UNCHANGED <<waiting, hand>>
        \/ reports' \in {reports, updated} /\ Fatal(r)
    BY <1>7, Zenon DEF UpdateReportPDF
  <2>3. label \in PcState /\ label \in {"done"} \cup (IF r \in WithRecipient THEN {"path"} ELSE {})
    BY <1>c
  <2> HIDE DEF updated, label
  <2>4. /\ pc' \in [Run -> PcState] /\ UNCHANGED <<waiting, hand>> /\ \A q \in Run \ {r} : pc'[q] = pc[q]
        /\ \/ reports' = updated /\ pc'[r] \in {"done", "failed"} \cup (IF r \in WithRecipient THEN {"path"} ELSE {})
           \/ reports' = reports /\ pc'[r] = "failed"
    <3>1. CASE reports' = updated /\ NextJob(r, label) /\ UNCHANGED <<waiting, hand>>
      BY <2>3, <3>1, <1>e
    <3>2. CASE reports' \in {reports, updated} /\ Fatal(r)
      BY <3>2, <1>d
    <3> QED
      BY <2>2, <3>1, <3>2
  <2>5. KeepsRows /\ (\A q \in Run \ {hand[r].report} : reports'[q] = reports[q]) /\ reports' \in [Run -> Report]
    BY <1>0, <2>1, <2>4 DEF KeepsRows
  <2>6. pc[r] = "update" /\ UNCHANGED <<stored, clock, pdfObject, mails, deliveries, crossed>>
    BY <1>7, Zenon DEF UpdateReportPDF
  <2>7. DidUpdate(r)
    BY <2>1, <2>4, <2>5, <2>6 DEF DidUpdate
  <2>8. TypeOK'
    BY <1>a, <2>4, <2>5, <2>6 DEF TypeOK
  <2> QED
    BY <2>7, <2>8 DEF Did
<1>8. CASE GetReportPDFPath(r)
  <2>1. CASE hand' = [hand EXCEPT ![r].report = Latest] /\ Goto(r, IF reports[Latest].pdf THEN "fetch" ELSE "nopath") /\ UNCHANGED waiting
    <3>1. Latest \in Run
      BY <1>8, LatestIs DEF GetReportPDFPath, RowInv, Saved
    <3>2. HandMoves(r) /\ hand'[r].report = Latest /\ KeepsRead(r) /\ KeepsUpTo(r) /\ KeepsStamp(r) /\ KeepsPdf(r) /\ KeepsSent(r)
      BY <1>0, <2>1, <3>1, SetReport
    <3>3. /\ pc' \in [Run -> PcState] /\ pc'[r] = IF reports[Latest].pdf THEN "fetch" ELSE "nopath"
          /\ \A q \in Run \ {r} : pc'[q] = pc[q]
      BY <2>1, <1>b, <1>c
    <3>4. DidLookUp(r)
      BY <1>8, <3>2, <3>3 DEF GetReportPDFPath, DidLookUp, HandMoves
    <3>5. TypeOK'
      BY <1>8, <1>a, <2>1, <3>2, <3>3 DEF GetReportPDFPath, TypeOK, HandMoves
    <3> QED
      BY <3>4, <3>5 DEF Did
  <2>2. CASE Fatal(r)
    <3>1. DidLookUp(r)
      BY <1>8, <1>d, <2>2 DEF GetReportPDFPath, DidLookUp
    <3>2. TypeOK'
      BY <1>8, <1>a, <1>d, <2>2 DEF GetReportPDFPath, TypeOK
    <3> QED
      BY <3>1, <3>2 DEF Did
  <2> QED
    BY <1>8, <2>1, <2>2 DEF GetReportPDFPath
<1>9. CASE FetchPdf(r)
  <2>1. CASE hand' = [hand EXCEPT ![r].pdf = pdfObject] /\ Goto(r, "send")
    <3>1. pdfObject \in Run \cup {None}
      BY DEF TypeOK
    <3>2. HandMoves(r) /\ hand'[r].pdf = pdfObject /\ KeepsRead(r) /\ KeepsUpTo(r) /\ KeepsStamp(r) /\ KeepsReport(r) /\ KeepsSent(r)
      BY <1>0, <2>1, <3>1, SetPdf
    <3>3. pc' \in [Run -> PcState] /\ pc'[r] = "send" /\ \A q \in Run \ {r} : pc'[q] = pc[q]
      BY <2>1, <1>b, <1>c
    <3>4. DidFetch(r)
      BY <1>9, <3>2, <3>3 DEF FetchPdf, DidFetch, HandMoves
    <3>5. TypeOK'
      BY <1>9, <1>a, <3>2, <3>3 DEF FetchPdf, TypeOK, HandMoves
    <3> QED
      BY <3>4, <3>5 DEF Did
  <2>2. CASE StepMayFail /\ Goto(r, "record") /\ UNCHANGED hand
    <3>1. pc' \in [Run -> PcState] /\ pc'[r] = "record" /\ \A q \in Run \ {r} : pc'[q] = pc[q]
      BY <2>2, <1>b, <1>c
    <3>2. DidFetch(r)
      BY <1>9, <2>2, <3>1 DEF FetchPdf, DidFetch
    <3>3. TypeOK'
      BY <1>9, <1>a, <2>2, <3>1 DEF FetchPdf, TypeOK
    <3> QED
      BY <3>2, <3>3 DEF Did
  <2> QED
    BY <1>9, <2>1, <2>2 DEF FetchPdf
<1>10. CASE SendMail(r)
  <2> DEFINE sent == mails \cup {<<r, hand[r].pdf>>}
  <2>0. pc[r] = "send" /\ Goto(r, "record") /\ UNCHANGED <<stored, waiting, clock, reports, pdfObject, deliveries, crossed>>
    BY <1>10, Zenon DEF SendMail
  <2>1. pc' \in [Run -> PcState] /\ pc'[r] = "record" /\ \A q \in Run \ {r} : pc'[q] = pc[q]
    BY <2>0, <1>b, <1>c
  <2>2. mails \subseteq Run \X Run /\ sent \subseteq Run \X Run
    BY <2>0 DEF TypeOK, RenderInv
  <2>3. CASE mails' = sent /\ hand' = [hand EXCEPT ![r].sent = TRUE]
    <3>1. HandMoves(r) /\ hand'[r].sent = TRUE /\ KeepsRead(r) /\ KeepsUpTo(r) /\ KeepsStamp(r) /\ KeepsReport(r) /\ KeepsPdf(r)
      <4>1. TRUE \in BOOLEAN
        OBVIOUS
      <4> QED
        BY <1>0, <2>3, <4>1, SetSent, Zenon
    <3>2. mails' = sent
      BY <2>3, Zenon
    <3>3. DidSend(r)
      BY <2>0, <2>1, <3>1, <3>2 DEF DidSend, HandMoves
    <3>4. TypeOK'
      BY <1>a, <2>0, <2>1, <2>2, <3>1, <3>2 DEF TypeOK, HandMoves
    <3> QED
      BY <3>3, <3>4 DEF Did
  <2>4. CASE StepMayFail /\ mails' \in {mails, sent} /\ UNCHANGED hand
    <3>1. DidSend(r)
      BY <2>0, <2>1, <2>4 DEF DidSend
    <3>2. TypeOK'
      BY <1>a, <2>0, <2>1, <2>2, <2>4 DEF TypeOK
    <3> QED
      BY <3>1, <3>2 DEF Did
  <2> QED
    BY <1>10, <2>3, <2>4, Zenon DEF SendMail
<1>11. CASE InsertReportDelivery(r)
  <2> DEFINE recorded == deliveries \cup {[run |-> r, report |-> hand[r].report, sent |-> hand[r].sent]}
  <2>0. pc[r] = "record" /\ UNCHANGED <<stored, clock, reports, pdfObject, mails, crossed>>
    BY <1>11 DEF InsertReportDelivery
  <2>1. deliveries' \in {deliveries, recorded} /\ recorded \subseteq [run : Run, report : Run, sent : BOOLEAN]
    BY <1>11, <2>0, Fields DEF InsertReportDelivery, RenderInv, TypeOK
  <2>2. /\ pc' \in [Run -> PcState] /\ pc'[r] \in {"done", "failed"} /\ UNCHANGED <<waiting, hand>>
        /\ \A q \in Run \ {r} : pc'[q] = pc[q]
    <3>1. CASE Goto(r, IF hand[r].sent THEN "done" ELSE "failed") /\ UNCHANGED <<waiting, hand>>
      BY <3>1, <1>b, <1>c
    <3>2. CASE Fatal(r)
      BY <3>2, <1>d
    <3> QED
      BY <1>11, <3>1, <3>2 DEF InsertReportDelivery
  <2>3. DidRecord(r)
    BY <2>0, <2>1, <2>2 DEF DidRecord
  <2>4. TypeOK'
    BY <1>a, <2>0, <2>1, <2>2 DEF TypeOK
  <2> QED
    BY <2>3, <2>4 DEF Did
<1> QED
  BY <1>1, <1>2, <1>3, <1>4, <1>5, <1>6, <1>7, <1>8, <1>9, <1>10, <1>11 DEF Job
-----------------------------------------------------------------------------
(* The steps that leave the rows alone; what they may do to the call that  *)
(* comes next.                                                             *)
LEMMA Untouched ==
  ASSUME NEW r \in Run, Did(r), ~DidInsert(r), ~DidUpdate(r)
  PROVE  /\ reports' = reports /\ Others(r)
         /\ (Unsaved(r)' => Unsaved(r)) /\ (Saved(r)' => Saved(r))
<1>1. ASSUME DidEnd(r) \/ DidRead(r) \/ DidStamp(r)
      PROVE  Unsaved(r) /\ ~Saved(r)' /\ reports' = reports /\ Others(r)
  BY <1>1 DEF DidEnd, DidRead, DidStamp, Unsaved, Saved
<1>2. ASSUME DidFind(r) \/ DidWrite(r) \/ DidLookUp(r) \/ DidFetch(r) \/ DidSend(r)
      PROVE  Saved(r) /\ ~Unsaved(r)' /\ reports' = reports /\ Others(r)
  BY <1>2 DEF DidFind, DidWrite, DidLookUp, DidFetch, DidSend, Unsaved, Saved
<1>3. ASSUME DidRecord(r)
      PROVE  ~Unsaved(r)' /\ ~Saved(r)' /\ reports' = reports /\ Others(r)
  BY <1>3 DEF DidRecord, Unsaved, Saved
<1> QED
  BY <1>1, <1>2, <1>3 DEF Did

(* The rows stay in step with the pipelines. *)
LEMMA RowStep ==
  ASSUME PostInv, NEW r \in Run, Did(r)
  PROVE  RowInv'
<1>0. RowInv /\ StampInv /\ RenderInv /\ TypeOK
  BY DEF PostInv
<1>1. CASE DidInsert(r)
  <2>1. /\ \A q \in Run \ {r} : reports'[q] = reports[q] /\ pc'[q] = pc[q]
        /\ reports[r] = NoReport /\ reports[r].stamp = 0
        /\ reports'[r].stamp \in 0 .. Cardinality(Run) /\ hand[r].stamp > 0 /\ ~Unsaved(r)'
    BY <1>0, <1>1, Fields DEF DidInsert, Others, RowInv, StampInv, Unsaved, NoReport
  <2>2. \A q \in Run : Unsaved(q)' => reports'[q] = NoReport
    BY <1>0, <2>1 DEF RowInv, Unsaved
  <2>3. \A q \in Run : Saved(q)' => Exists(q)'
    <3>1. Saved(r)' => Exists(r)'
      BY <1>1, <2>1 DEF DidInsert, Saved, Exists
    <3> QED
      BY <1>0, <2>1, <3>1 DEF RowInv, Saved, Exists
  <2>4. \A q \in Run : reports'[q].pdf => Exists(q)'
    <3>1. reports[r].pdf = FALSE
      BY <2>1 DEF NoReport
    <3>2. ~reports'[r].pdf
      BY <1>1, <3>1 DEF DidInsert
    <3> QED
      BY <1>0, <2>1, <3>2 DEF RowInv, Exists
  <2>5. ASSUME NEW q \in Run, Exists(q)'
        PROVE  \E m \in Run : Exists(m)' /\ IsLatest(m)'
    <3>0. Cardinality(Run) \in Nat /\ \A x \in Run : reports[x].stamp \in Nat
      BY <1>0, Fields
    <3>1. CASE \E x \in Run : Exists(x)
      <4>1. PICK m \in Run : Exists(m) /\ IsLatest(m)
        BY <1>0, <3>1 DEF RowInv
      <4>2. m # r /\ \A x \in Run \ {r} : reports'[m].stamp >= reports'[x].stamp
        BY <2>1, <4>1 DEF Exists, IsLatest
      <4>3. CASE reports'[m].stamp >= reports'[r].stamp
        BY <2>1, <4>1, <4>2, <4>3 DEF Exists, IsLatest
      <4>4. CASE ~(reports'[m].stamp >= reports'[r].stamp)
        BY <2>1, <3>0, <4>1, <4>2, <4>4 DEF Exists, IsLatest
      <4> QED
        BY <4>3, <4>4
    <3>2. CASE ~\E x \in Run : Exists(x)
      BY <2>1, <2>5, <3>0, <3>2 DEF Exists, IsLatest
    <3> QED
      BY <3>1, <3>2
  <2> QED
    BY <2>2, <2>3, <2>4, <2>5 DEF RowInv
<1>2. CASE DidUpdate(r)
  <2>1. /\ \A q \in Run : reports'[q].stamp = reports[q].stamp
        /\ \A q \in Run : Exists(q)' <=> Exists(q)
        /\ \A q \in Run : IsLatest(q)' <=> IsLatest(q)
    BY <1>2 DEF DidUpdate, KeepsRows, Exists, IsLatest
  <2>2. hand[r].report \in Run /\ Exists(hand[r].report)
    BY <1>0, <1>2 DEF DidUpdate, RenderInv
  <2>3. \A q \in Run : reports'[q].pdf => Exists(q)'
    BY <1>0, <1>2, <2>1, <2>2 DEF DidUpdate, RowInv
  <2>4. \A q \in Run : Unsaved(q)' => Unsaved(q) /\ q # hand[r].report
    <3>1. ~Unsaved(r)' /\ \A q \in Run \ {r} : Unsaved(q)' <=> Unsaved(q)
      BY <1>2 DEF DidUpdate, Others, Unsaved
    <3>2. ASSUME NEW q \in Run, Unsaved(q)
          PROVE  ~Exists(q)
      BY <1>0, <3>2 DEF RowInv, Exists, NoReport
    <3> QED
      BY <2>2, <3>1, <3>2
  <2>5. \A q \in Run : Unsaved(q)' => reports'[q] = NoReport
    BY <1>0, <1>2, <2>4 DEF DidUpdate, RowInv
  <2>6. \A q \in Run : Saved(q)' => Saved(q)
    BY <1>2 DEF DidUpdate, Others, Saved
  <2>7. \A q \in Run : Saved(q)' => Exists(q)'
    BY <1>0, <2>1, <2>6 DEF RowInv
  <2>8. (\E q \in Run : Exists(q)') => \E m \in Run : Exists(m)' /\ IsLatest(m)'
    BY <1>0, <2>1 DEF RowInv
  <2> QED
    BY <2>3, <2>5, <2>7, <2>8 DEF RowInv
<1>3. CASE ~DidInsert(r) /\ ~DidUpdate(r)
  <2>1. reports' = reports /\ Others(r) /\ (Unsaved(r)' => Unsaved(r)) /\ (Saved(r)' => Saved(r))
    BY <1>3, Untouched
  <2>2. \A q \in Run : (Unsaved(q)' => Unsaved(q)) /\ (Saved(q)' => Saved(q))
    BY <2>1 DEF Others, Unsaved, Saved
  <2> QED
    BY <1>0, <2>1, <2>2 DEF RowInv, Exists, IsLatest
<1> QED
  BY <1>1, <1>2, <1>3

(* No two pipelines take the same time. *)
LEMMA StampStep ==
  ASSUME PostInv, NEW r \in Run, Did(r)
  PROVE  StampInv'
<1>0. RowInv /\ StampInv /\ TypeOK
  BY DEF PostInv
<1>1. CASE DidStamp(r)
  <2>1. CASE pc'[r] = "failed" /\ hand'[r] = hand[r] /\ clock' = clock
    <3>1. /\ \A q \in Run : hand'[q].stamp = hand[q].stamp
          /\ \A q \in Run : pc'[q] \in {"none", "read", "stamp", "insert"} => pc'[q] = pc[q]
          /\ reports' = reports /\ clock' = clock
      BY <1>1, <2>1 DEF DidStamp, Others
    <3>2. Stamped' = Stamped
      BY <3>1 DEF Stamped
    <3> QED
      BY <1>0, <3>1, <3>2 DEF StampInv, Exists
  <2>2. CASE pc'[r] = "insert" /\ clock' = clock + 1 /\ hand'[r].stamp = clock'
    <3>1. clock \in Nat /\ \A q \in Run : hand[q].stamp \in Nat /\ reports[q].stamp \in Nat
      BY <1>0, Fields
    <3>2. IsFiniteSet(Stamped) /\ r \notin Stamped
      BY <1>0, <1>1, ClockHasRoom DEF DidStamp
    <3>3. \A q \in Run \ {r} : hand'[q].stamp = hand[q].stamp /\ pc'[q] = pc[q]
      BY <1>1 DEF DidStamp, Others
    <3>4. Stamped' = Stamped \cup {r}
      BY <2>2, <3>1, <3>3 DEF Stamped
    <3>5. Cardinality(Stamped') = Cardinality(Stamped) + 1
      BY <3>2, <3>4, FS_AddElement
    <3>6. reports' = reports /\ reports[r] = NoReport
      BY <1>0, <1>1 DEF DidStamp, RowInv, Unsaved
    <3>7. ~Exists(r)'
      BY <3>6 DEF Exists, NoReport
    <3> QED
      BY <1>0, <2>2, <3>1, <3>3, <3>5, <3>6, <3>7 DEF StampInv, Exists
  <2> QED
    BY <1>1, <2>1, <2>2 DEF DidStamp
<1>2. CASE ~DidStamp(r)
  <2>1. /\ clock' = clock /\ Others(r) /\ hand'[r].stamp = hand[r].stamp
        /\ pc'[r] \in {"none", "read", "stamp"} => pc[r] \in {"none", "read"}
        /\ pc'[r] # "insert"
    BY <1>2 DEF Did, DidEnd, DidRead, DidInsert, DidFind, DidWrite, DidUpdate, DidLookUp, DidFetch, DidSend,
      DidRecord, KeepsStamp
  <2>2. \A q \in Run : hand'[q].stamp = hand[q].stamp
    BY <2>1 DEF Others
  <2>3. Stamped' = Stamped
    BY <2>2 DEF Stamped
  <2>4. \A q \in Run : Exists(q)' => reports'[q].stamp = hand[q].stamp
    <3>1. CASE DidInsert(r)
      BY <1>0, <3>1 DEF DidInsert, StampInv, Exists
    <3>2. CASE ~DidInsert(r)
      <4>1. \A q \in Run : reports'[q].stamp = reports[q].stamp
        BY <3>2, Untouched DEF DidUpdate, KeepsRows
      <4> QED
        BY <1>0, <4>1 DEF StampInv, Exists
    <3> QED
      BY <3>1, <3>2
  <2>5. \A q \in Run : /\ pc'[q] \in {"none", "read", "stamp"} => hand'[q].stamp = 0
                       /\ pc'[q] = "insert" => hand'[q].stamp > 0
    BY <1>0, <2>1, <2>2 DEF StampInv, Others
  <2> QED
    BY <1>0, <2>1, <2>2, <2>3, <2>4, <2>5 DEF StampInv
<1> QED
  BY <1>1, <1>2

(* What is stored when the session ends is read. *)
LEMMA CoverStep ==
  ASSUME PostInv, NEW r \in Run, Did(r)
  PROVE  CoverInv'
<1>0. RowInv /\ CoverInv /\ TypeOK
  BY DEF PostInv
<1>1. stored' = stored /\ Others(r)
  BY DEF Did, DidEnd, DidRead, DidStamp, DidInsert, DidFind, DidWrite, DidUpdate, DidLookUp, DidFetch, DidSend, DidRecord
<1>2. ~DidEnd(r) => hand'[r].upTo = hand[r].upTo
  BY DEF Did, DidRead, DidStamp, DidInsert, DidFind, DidWrite, DidUpdate, DidLookUp, DidFetch, DidSend, DidRecord, KeepsUpTo
<1>3. \A q \in Run : hand'[q].upTo \subseteq stored
  BY <1>0, <1>1, <1>2 DEF CoverInv, DidEnd, Others
<1>4. \A q \in Run : pc'[q] = "none" => hand'[q].next = 1
  <2>1. pc'[r] # "none"
    BY DEF Did, DidEnd, DidRead, DidStamp, DidInsert, DidFind, DidWrite, DidUpdate, DidLookUp, DidFetch, DidSend, DidRecord
  <2> QED
    BY <1>0, <1>1, <2>1 DEF CoverInv, Others
<1>5. ASSUME NEW q \in Run, pc'[q] = "read"
      PROVE  /\ hand'[q].next \in 1 .. 7
             /\ \A e \in hand'[q].upTo, i \in 1 .. 7 : i < hand'[q].next /\ SourceOf[e] = ReadOrder[i] => e \in hand'[q].covers
  <2>1. CASE q # r
    BY <1>0, <1>1, <1>5, <2>1 DEF CoverInv, Others
  <2>2. CASE q = r /\ DidEnd(r)
    BY <1>0, <2>2 DEF DidEnd, CoverInv, KeepsRead
  <2>3. CASE q = r /\ ~DidEnd(r)
    <3>1. /\ pc[r] = "read" /\ hand[r].next # 7
          /\ hand'[r].next = hand[r].next + 1
          /\ hand'[r].covers = hand[r].covers \cup {e \in stored : SourceOf[e] = ReadOrder[hand[r].next]}
      BY <1>5, <2>3 DEF Did, DidRead, DidStamp, DidInsert, DidFind, DidWrite, DidUpdate, DidLookUp, DidFetch, DidSend, DidRecord
    <3>2. hand[r].next \in 1 .. 7 /\ hand[r].upTo \subseteq stored /\ hand'[r].upTo = hand[r].upTo
      BY <1>0, <1>2, <2>3, <3>1 DEF CoverInv
    <3>3. ASSUME NEW e \in hand[r].upTo, NEW i \in 1 .. 7, i < hand[r].next + 1, SourceOf[e] = ReadOrder[i]
          PROVE  e \in hand'[r].covers
      <4>1. CASE i = hand[r].next
        BY <3>1, <3>2, <3>3, <4>1
      <4>2. CASE i < hand[r].next
        BY <1>0, <3>1, <3>3, <4>2 DEF CoverInv
      <4> QED
        BY <3>2, <3>3, <4>1, <4>2
    <3> QED
      BY <2>3, <3>1, <3>2, <3>3
  <2> QED
    BY <2>1, <2>2, <2>3
<1>6. ASSUME NEW q \in Run, pc'[q] \in {"stamp", "insert"}
      PROVE  hand'[q].upTo \subseteq hand'[q].covers
  <2>1. CASE q # r
    BY <1>0, <1>1, <1>6, <2>1 DEF CoverInv, Others
  <2>2. CASE q = r /\ DidRead(r)
    <3>1. /\ pc[r] = "read" /\ hand[r].next = 7
          /\ hand'[r].covers = hand[r].covers \cup {e \in stored : SourceOf[e] = ReadOrder[hand[r].next]}
          /\ hand'[r].upTo = hand[r].upTo
      BY <1>6, <2>2 DEF DidRead, KeepsUpTo
    <3>2. hand[r].upTo \subseteq stored /\ stored \subseteq Event
      BY <1>0 DEF CoverInv, TypeOK
    <3>3. ASSUME NEW e \in hand[r].upTo
          PROVE  e \in hand'[r].covers
      <4>1. PICK i \in 1 .. 7 : SourceOf[e] = ReadOrder[i]
        BY <3>2, SourceAssumption
      <4>2. CASE i = 7
        BY <3>1, <3>2, <4>1, <4>2
      <4>3. CASE i < 7
        BY <1>0, <3>1, <4>1, <4>3 DEF CoverInv
      <4> QED
        BY <4>2, <4>3
    <3> QED
      BY <2>2, <3>1, <3>3
  <2>3. CASE q = r /\ ~DidRead(r)
    <3>1. pc[r] = "stamp" /\ KeepsRead(r) /\ KeepsUpTo(r)
      BY <1>6, <2>3 DEF Did, DidEnd, DidStamp, DidInsert, DidFind, DidWrite, DidUpdate, DidLookUp, DidFetch, DidSend, DidRecord
    <3> QED
      BY <1>0, <2>3, <3>1 DEF CoverInv, KeepsRead, KeepsUpTo
  <2> QED
    BY <2>1, <2>2, <2>3
<1>7. ReportCoversStored'
  <2>1. CASE DidEnd(r)
    <3>1. reports' = reports /\ ~Exists(r)
      BY <1>0, <2>1 DEF DidEnd, RowInv, Unsaved, Exists, NoReport
    <3> QED
      BY <1>0, <1>1, <3>1 DEF CoverInv, ReportCoversStored, Exists, Others
  <2>2. CASE DidInsert(r)
    <3>1. /\ \A q \in Run : hand'[q] = hand[q]
          /\ \A q \in Run \ {r} : reports'[q] = reports[q]
          /\ reports'[r].covers = hand[r].covers \/ reports'[r] = reports[r]
      BY <2>2 DEF DidInsert, Others
    <3>2. hand[r].upTo \subseteq hand[r].covers
      BY <1>0, <2>2 DEF DidInsert, CoverInv
    <3> QED
      BY <1>0, <3>1, <3>2 DEF CoverInv, ReportCoversStored, Exists
  <2>3. CASE ~DidEnd(r) /\ ~DidInsert(r)
    <3>1. \A q \in Run : reports'[q].stamp = reports[q].stamp /\ reports'[q].covers = reports[q].covers
      BY <2>3, Untouched DEF DidUpdate, KeepsRows
    <3>2. \A q \in Run : hand'[q].upTo = hand[q].upTo
      BY <1>1, <1>2, <2>3 DEF Others
    <3> QED
      BY <1>0, <3>1, <3>2 DEF CoverInv, ReportCoversStored, Exists
  <2> QED
    BY <2>1, <2>2, <2>3
<1> QED
  BY <1>1, <1>3, <1>4, <1>5, <1>6, <1>7 DEF CoverInv

(* A mail follows a rendering. *)
LEMMA RenderStep ==
  ASSUME PostInv, NEW r \in Run, Did(r)
  PROVE  RenderInv'
<1>0. RowInv /\ StampInv /\ RenderInv /\ TypeOK /\ PathHasObject /\ RenderedBeforeMail
  BY DEF PostInv, RenderInv
<1>1. Others(r)
  BY DEF Did, DidEnd, DidRead, DidStamp, DidInsert, DidFind, DidWrite, DidUpdate, DidLookUp, DidFetch, DidSend, DidRecord
<1>2. /\ \A i \in Run : Exists(i) => reports'[i].stamp = reports[i].stamp
      /\ \A i \in Run : reports[i].pdf => reports'[i].pdf /\ reports'[i].stamp = reports[i].stamp
  <2>1. CASE DidInsert(r)
    <3>1. ~Exists(r) /\ ~reports[r].pdf
      BY <1>0, <2>1 DEF DidInsert, RowInv, Unsaved, Exists, NoReport
    <3> QED
      BY <2>1, <3>1 DEF DidInsert
  <2>2. CASE ~DidInsert(r)
    BY <2>2, Untouched DEF DidUpdate, KeepsRows
  <2> QED
    BY <2>1, <2>2
<1>3. \A i \in Run : Exists(i) => Exists(i)'
  BY <1>2 DEF Exists
<1>4. pdfObject # None => pdfObject' # None
  <2>1. CASE DidWrite(r)
    BY <1>0, <2>1, RunAssumption DEF DidWrite, RenderInv
  <2>2. CASE ~DidWrite(r)
    BY <2>2 DEF Did, DidEnd, DidRead, DidStamp, DidInsert, DidFind, DidUpdate, DidLookUp, DidFetch, DidSend, DidRecord
  <2> QED
    BY <2>1, <2>2
<1>5. \A q \in Run \ {r} : Saved(q) \/ MailOver(q) => reports'[q].stamp = reports[q].stamp
  BY Untouched DEF DidInsert, DidUpdate, KeepsRows
<1>6. ASSUME NEW q \in Run, pc'[q] \in {"write", "update"}
      PROVE  /\ hand'[q].report \in Run /\ Exists(hand[q].report)'
             /\ reports'[hand'[q].report].stamp >= reports'[q].stamp
  <2>1. CASE q # r
    BY <1>0, <1>1, <1>2, <1>3, <1>5, <1>6, <2>1 DEF RenderInv, Others, Saved
  <2>2. CASE q = r /\ DidFind(r)
    <3>1. Latest \in Run /\ Exists(Latest) /\ IsLatest(Latest) /\ hand'[r].report = Latest /\ reports' = reports
      BY <1>0, <1>6, <2>2, LatestIs DEF DidFind, RowInv, Saved
    <3>2. reports[Latest].stamp >= reports[r].stamp
      BY <3>1 DEF IsLatest
    <3> QED
      BY <1>3, <2>2, <3>1, <3>2
  <2>3. CASE q = r /\ ~DidFind(r)
    <3>1. pc[r] = "write" /\ hand'[r] = hand[r] /\ reports' = reports
      BY <1>6, <2>3 DEF Did, DidEnd, DidRead, DidStamp, DidInsert, DidWrite, DidUpdate, DidLookUp, DidFetch, DidSend, DidRecord
    <3> QED
      BY <1>0, <1>3, <2>3, <3>1 DEF RenderInv
  <2> QED
    BY <2>1, <2>2, <2>3
<1>7. ASSUME NEW q \in Run, pc'[q] \in {"update", "fetch"}
      PROVE  pdfObject' # None
  <2>1. CASE q # r
    BY <1>0, <1>1, <1>4, <1>7, <2>1 DEF RenderInv, Others
  <2>2. CASE q = r /\ DidWrite(r)
    BY <1>0, <1>7, <2>2, RunAssumption DEF DidWrite, RenderInv
  <2>3. CASE q = r /\ ~DidWrite(r)
    <3>1. pc[r] = "path" /\ reports[Latest].pdf
      BY <1>7, <2>3 DEF Did, DidEnd, DidRead, DidStamp, DidInsert, DidFind, DidUpdate, DidLookUp, DidFetch, DidSend, DidRecord
    <3>2. Latest \in Run
      BY <1>0, <3>1, LatestIs DEF RowInv, Saved
    <3> QED
      BY <1>0, <1>4, <3>1, <3>2 DEF PathHasObject
  <2> QED
    BY <2>1, <2>2, <2>3
<1>8. ASSUME NEW q \in Run, pc'[q] \in {"path", "fetch", "send", "record", "nopath"}
      PROVE  q \in WithRecipient
  <2>1. CASE q # r
    BY <1>0, <1>1, <1>8, <2>1 DEF RenderInv, Others
  <2>2. CASE q = r /\ DidUpdate(r)
    BY <1>8, <2>2 DEF DidUpdate
  <2>3. CASE q = r /\ ~DidUpdate(r)
    <3>1. pc[r] \in {"path", "fetch", "send", "record", "nopath"}
      BY <1>8, <2>3 DEF Did, DidEnd, DidRead, DidStamp, DidInsert, DidFind, DidWrite, DidLookUp, DidFetch, DidSend, DidRecord
    <3> QED
      BY <1>0, <2>3, <3>1 DEF RenderInv
  <2> QED
    BY <2>1, <2>2, <2>3
<1>9. ASSUME NEW q \in Run, pc'[q] \in {"fetch", "send", "record"}
      PROVE  hand'[q].report \in Run
  <2>1. CASE q # r
    BY <1>0, <1>1, <1>9, <2>1 DEF RenderInv, Others
  <2>2. CASE q = r /\ DidLookUp(r)
    <3>1. Latest \in Run /\ hand'[r].report = Latest
      BY <1>0, <1>9, <2>2, LatestIs DEF DidLookUp, RowInv, Saved
    <3> QED
      BY <2>2, <3>1
  <2>3. CASE q = r /\ ~DidLookUp(r)
    <3>1. pc[r] \in {"fetch", "send", "record"} /\ hand'[r].report = hand[r].report
      BY <1>9, <2>3 DEF Did, DidEnd, DidRead, DidStamp, DidInsert, DidFind, DidWrite, DidUpdate, DidFetch, DidSend, DidRecord, KeepsReport
    <3> QED
      BY <1>0, <2>3, <3>1 DEF RenderInv
  <2> QED
    BY <2>1, <2>2, <2>3
<1>10. ASSUME NEW q \in Run, pc'[q] = "send"
       PROVE  hand'[q].pdf \in Run
  <2>1. CASE q # r
    BY <1>0, <1>1, <1>10, <2>1 DEF RenderInv, Others
  <2>2. CASE q = r
    <3>1. pc[r] = "fetch" /\ hand'[r].pdf = pdfObject
      BY <1>10, <2>2 DEF Did, DidEnd, DidRead, DidStamp, DidInsert, DidFind, DidWrite, DidUpdate, DidLookUp, DidFetch, DidSend, DidRecord
    <3> QED
      BY <1>0, <2>2, <3>1 DEF RenderInv, TypeOK
  <2> QED
    BY <2>1, <2>2
<1>11. PathHasObject'
  <2>1. CASE DidUpdate(r)
    BY <1>0, <1>4, <2>1 DEF PathHasObject, DidUpdate, RenderInv
  <2>2. CASE DidInsert(r)
    BY <1>0, <1>4, <2>2 DEF PathHasObject, DidInsert
  <2>3. CASE ~DidUpdate(r) /\ ~DidInsert(r)
    BY <1>0, <1>4, <2>3, Untouched DEF PathHasObject
  <2> QED
    BY <2>1, <2>2, <2>3
<1>12. ASSUME NEW q \in Run, pc'[q] \in {"path", "fetch", "send", "record", "nopath"}
       PROVE  \E i \in Run : reports'[i].pdf /\ reports'[i].stamp >= reports'[q].stamp
  <2>1. CASE q # r
    <3>1. pc[q] = pc'[q] /\ reports'[q].stamp = reports[q].stamp
      BY <1>1, <1>5, <1>12, <2>1 DEF Others, Saved, MailOver, Over
    <3>2. PICK i \in Run : reports[i].pdf /\ reports[i].stamp >= reports[q].stamp
      BY <1>0, <1>12, <3>1 DEF RenderedBeforeMail
    <3> QED
      BY <1>2, <3>1, <3>2
  <2>2. CASE q = r /\ DidUpdate(r)
    <3>1. /\ reports'[hand[r].report].pdf /\ hand[r].report \in Run
          /\ reports[hand[r].report].stamp >= reports[r].stamp
          /\ reports'[hand[r].report].stamp = reports[hand[r].report].stamp /\ reports'[r].stamp = reports[r].stamp
      BY <1>0, <1>12, <2>2 DEF DidUpdate, RenderInv, KeepsRows
    <3> QED
      BY <2>2, <3>1
  <2>3. CASE q = r /\ ~DidUpdate(r)
    <3>1. pc[r] \in {"path", "fetch", "send", "record", "nopath"} /\ reports' = reports
      BY <1>12, <2>3 DEF Did, DidEnd, DidRead, DidStamp, DidInsert, DidFind, DidWrite, DidLookUp, DidFetch, DidSend, DidRecord
    <3> QED
      BY <1>0, <2>3, <3>1 DEF RenderedBeforeMail
  <2> QED
    BY <2>1, <2>2, <2>3
<1> QED
  BY <1>6, <1>7, <1>8, <1>9, <1>10, <1>11, <1>12 DEF RenderInv, RenderedBeforeMail

(* A delivery recorded as sent was mailed, and a pipeline mails last.      *)
LEMMA MailStep ==
  ASSUME PostInv, NEW r \in Run, Did(r)
  PROVE  MailInv'
<1>0. MailInv /\ SentWasMailed /\ TypeOK /\ RenderInv
  BY DEF PostInv, MailInv
<1>1. Others(r) /\ mails \subseteq mails' /\ (MailOver(r) => MailOver(r)')
  BY DEF Did, DidEnd, DidRead, DidStamp, DidInsert, DidFind, DidWrite, DidUpdate, DidLookUp, DidFetch, DidSend, DidRecord, MailOver, Over
<1>2. \A q \in Run \ {r} : MailOver(q)' <=> MailOver(q)
  BY <1>1 DEF Others, MailOver
<1>3. ASSUME NEW m \in mails'
      PROVE  MailOver(m[1])'
  <2>1. CASE m \in mails
    <3>1. m[1] \in Run /\ MailOver(m[1])
      BY <1>0, <2>1 DEF TypeOK, MailInv
    <3> QED
      BY <1>1, <1>2, <3>1
  <2>2. CASE m \notin mails
    <3>1. DidSend(r)
      BY <1>3, <2>2 DEF Did, DidEnd, DidRead, DidStamp, DidInsert, DidFind, DidWrite, DidUpdate, DidLookUp, DidFetch, DidRecord
    <3>2. m = <<r, hand[r].pdf>> /\ pc'[r] = "record"
      BY <1>3, <2>2, <3>1 DEF DidSend
    <3> QED
      BY <3>2 DEF MailOver
  <2> QED
    BY <2>1, <2>2
<1>4. hand'[r].sent => hand[r].sent \/ <<r, hand[r].pdf>> \in mails'
  BY DEF Did, DidEnd, DidRead, DidStamp, DidInsert, DidFind, DidWrite, DidUpdate, DidLookUp, DidFetch, DidSend, DidRecord, KeepsSent
<1>5. hand'[r].sent /\ ~hand[r].sent => pc'[r] = "record" /\ hand[r].pdf \in Run
  BY <1>0 DEF Did, DidEnd, DidRead, DidStamp, DidInsert, DidFind, DidWrite, DidUpdate, DidLookUp, DidFetch, DidSend, DidRecord, KeepsSent, RenderInv
<1>6. ASSUME NEW q \in Run, ~MailOver(q)'
      PROVE  ~hand'[q].sent
  <2>1. CASE q # r
    BY <1>0, <1>1, <1>2, <1>6, <2>1 DEF MailInv, Others
  <2>2. CASE q = r
    <3>1. ~MailOver(r) /\ ~hand[r].sent
      BY <1>0, <1>1, <1>6, <2>2 DEF MailInv
    <3> QED
      BY <1>5, <1>6, <2>2, <3>1 DEF MailOver
  <2> QED
    BY <2>1, <2>2
<1>7. ASSUME NEW q \in Run, hand'[q].sent
      PROVE  \E i \in Run : <<q, i>> \in mails'
  <2>1. CASE hand[q].sent
    <3>1. PICK i \in Run : <<q, i>> \in mails
      BY <1>0, <2>1 DEF MailInv
    <3> QED
      BY <1>1, <3>1
  <2>2. CASE ~hand[q].sent
    <3>1. q = r
      BY <1>1, <1>7, <2>2 DEF Others
    <3> QED
      BY <1>4, <1>5, <1>7, <2>2, <3>1
  <2> QED
    BY <2>1, <2>2
<1>8. ASSUME NEW d \in deliveries', d.sent
      PROVE  \E i \in Run : <<d.run, i>> \in mails'
  <2>1. CASE d \in deliveries
    <3>1. PICK i \in Run : <<d.run, i>> \in mails
      BY <1>0, <1>8, <2>1 DEF SentWasMailed
    <3> QED
      BY <1>1, <3>1
  <2>2. CASE d \notin deliveries
    <3>1. DidRecord(r)
      BY <1>8, <2>2 DEF Did, DidEnd, DidRead, DidStamp, DidInsert, DidFind, DidWrite, DidUpdate, DidLookUp, DidFetch, DidSend
    <3>2. d = [run |-> r, report |-> hand[r].report, sent |-> hand[r].sent] /\ hand'[r] = hand[r]
      BY <1>8, <2>2, <3>1 DEF DidRecord
    <3>3. d.run = r /\ d.sent = hand[r].sent
      BY <3>2
    <3>4. hand'[r].sent
      BY <1>8, <3>2, <3>3
    <3> QED
      BY <1>7, <3>3, <3>4
  <2> QED
    BY <2>1, <2>2
<1> QED
  BY <1>3, <1>6, <1>7, <1>8 DEF MailInv, SentWasMailed

(* A busy pipeline that nobody has crossed is the only one that takes      *)
(* steps, apart from records of deliveries.                                *)
LEMMA AloneStep ==
  ASSUME PostInv, NEW r \in Run, Did(r)
  PROVE  AloneInv'
<1>0. RowInv /\ StampInv /\ RenderInv /\ MailInv /\ AloneInv /\ UncrossedDelivery /\ TypeOK
  BY DEF PostInv, AloneInv
<1>1. Others(r) /\ crossed \subseteq crossed' /\ mails \subseteq mails'
  BY DEF Did, DidEnd, DidRead, DidStamp, DidInsert, DidFind, DidWrite, DidUpdate, DidLookUp, DidFetch, DidSend, DidRecord
<1>2. \A q \in Run \ {r} : (Busy(q)' <=> Busy(q)) /\ (Saved(q)' <=> Saved(q))
  BY <1>1 DEF Others, Busy, Saved
<1>3. Busy(r)' => Busy(r) \/ DidEnd(r)
  BY DEF Did, DidRead, DidStamp, DidInsert, DidFind, DidWrite, DidUpdate, DidLookUp, DidFetch, DidSend, DidRecord, Busy, Over
<1>4. Busy(r) <=> Busy(r) /\ pc[r] \notin {"none", "record"}
  BY DEF Busy
<1>5. ASSUME NEW q \in Run \ crossed', q # r
      PROVE  Alone(q)'
  <2>0. q \in Run \ crossed /\ Alone(q) /\ pc'[q] = pc[q] /\ hand'[q] = hand[q]
    BY <1>0, <1>1, <1>5 DEF AloneInv, Others
  <2>1. CASE ~Busy(q)
    <3>1. /\ ~Busy(q)' /\ ~Saved(q)' /\ pc'[q] \notin {"insert", "write", "update", "path", "fetch", "send"}
          /\ pc'[q] = "record" => hand'[q].report = q
          /\ hand'[q].sent => <<q, q>> \in mails'
      BY <1>1, <2>0, <2>1 DEF Busy, Saved, Over, Alone
    <3> QED
      BY <3>1 DEF Alone
  <2>2. CASE Busy(q)
    <3>1. ~Busy(r)
      BY <1>5, <2>0, <2>2 DEF Alone
    <3>2. ~DidEnd(r)
      BY <1>5, <2>2 DEF DidEnd
    <3>3. DidRecord(r)
      BY <3>1, <3>2 DEF Did, DidRead, DidStamp, DidInsert, DidFind, DidWrite, DidUpdate, DidLookUp, DidFetch, DidSend, Busy, Over
    <3>4. UNCHANGED <<reports, pdfObject, mails>> /\ ~Busy(r)'
      BY <1>3, <3>1, <3>2, <3>3 DEF DidRecord
    <3>5. \A x \in Run \ {q} : ~Busy(x)'
      BY <1>2, <2>0, <2>2, <3>4 DEF Alone
    <3> QED
      BY <2>0, <3>4, <3>5 DEF Alone, Saved, Busy
  <2> QED
    BY <2>1, <2>2
<1>6. ASSUME r \notin crossed'
      PROVE  Alone(r)'
  <2>0. r \in Run \ crossed /\ Alone(r)
    BY <1>0, <1>1, <1>6 DEF AloneInv
  <2>1. Busy(r)' => \A q \in Run \ {r} : ~Busy(q)'
    <3>1. CASE DidEnd(r)
      <4>1. \A q \in Run : ~Busy(q)
        BY <1>6, <3>1 DEF DidEnd
      <4> QED
        BY <1>2, <4>1
    <3>2. CASE ~DidEnd(r)
      BY <1>2, <1>3, <2>0, <3>2 DEF Alone
    <3> QED
      BY <3>1, <3>2
  <2>2. pc'[r] = "insert" => \A q \in Run \ {r} : reports'[q].stamp < hand'[r].stamp
    <3>1. SUFFICES ASSUME pc'[r] = "insert", NEW q \in Run \ {r}
                   PROVE  reports'[q].stamp < hand'[r].stamp
      OBVIOUS
    <3>2. reports' = reports /\ hand'[r].stamp = clock + 1
      BY <3>1 DEF Did, DidEnd, DidRead, DidStamp, DidInsert, DidFind, DidWrite, DidUpdate, DidLookUp, DidFetch, DidSend, DidRecord
    <3>3. /\ clock \in Nat /\ reports[q].stamp \in Nat /\ hand[q].stamp \in Nat
          /\ hand[q].stamp <= clock /\ (Exists(q) => reports[q].stamp = hand[q].stamp)
      BY <1>0, Fields DEF StampInv
    <3> QED
      BY <3>2, <3>3 DEF Exists
  <2>3. Saved(r)' => \A q \in Run \ {r} : reports'[q].stamp < reports'[r].stamp
    <3>1. CASE DidInsert(r)
      BY <2>0, <3>1 DEF DidInsert, Alone, Saved
    <3>2. CASE ~DidInsert(r)
      <4>1. (Saved(r)' => Saved(r)) /\ \A q \in Run : reports'[q].stamp = reports[q].stamp
        <5>1. CASE DidUpdate(r)
          BY <5>1 DEF DidUpdate, KeepsRows, Saved
        <5>2. CASE ~DidUpdate(r)
          BY <3>2, <5>2, Untouched
        <5> QED
          BY <5>1, <5>2
      <4> QED
        BY <2>0, <4>1 DEF Alone
    <3> QED
      BY <3>1, <3>2
  <2>4. Saved(r) => Latest = r
    <3>1. SUFFICES ASSUME Saved(r) PROVE Latest = r
      OBVIOUS
    <3>2. Latest \in Run /\ IsLatest(Latest) /\ \A q \in Run : reports[q].stamp \in Nat
      BY <1>0, <3>1, LatestIs, Fields DEF RowInv
    <3>3. reports[Latest].stamp >= reports[r].stamp
      BY <3>2 DEF IsLatest
    <3>4. Latest # r => reports[Latest].stamp < reports[r].stamp
      BY <2>0, <3>1, <3>2 DEF Alone
    <3> QED
      BY <3>2, <3>3, <3>4
  <2>5. pc'[r] \in {"write", "update", "fetch", "send", "record"} => hand'[r].report = r
    BY <2>0, <2>4 DEF Did, DidEnd, DidRead, DidStamp, DidInsert, DidFind, DidWrite, DidUpdate, DidLookUp, DidFetch, DidSend, DidRecord, Alone, Saved, KeepsReport
  <2>6. pc'[r] \in {"update", "path", "fetch", "send"} => pdfObject' = r
    BY <2>0 DEF Did, DidEnd, DidRead, DidStamp, DidInsert, DidFind, DidWrite, DidUpdate, DidLookUp, DidFetch, DidSend, DidRecord, Alone
  <2>7. pc'[r] \in {"path", "fetch", "send"} => reports'[r].pdf
    BY <2>0, <2>4 DEF Did, DidEnd, DidRead, DidStamp, DidInsert, DidFind, DidWrite, DidUpdate, DidLookUp, DidFetch, DidSend, DidRecord, Alone, Saved
  <2>8. pc'[r] = "send" => hand'[r].pdf = r
    BY <2>0 DEF Did, DidEnd, DidRead, DidStamp, DidInsert, DidFind, DidWrite, DidUpdate, DidLookUp, DidFetch, DidSend, DidRecord, Alone
  <2>9. hand'[r].sent => <<r, r>> \in mails'
    <3>1. CASE DidSend(r)
      <4>1. hand[r].pdf = r
        BY <2>0, <3>1 DEF DidSend, Alone
      <4> QED
        BY <2>0, <3>1, <4>1 DEF DidSend, Alone
    <3>2. CASE ~DidSend(r)
      <4>1. hand'[r].sent = hand[r].sent
        BY <3>2 DEF Did, DidEnd, DidRead, DidStamp, DidInsert, DidFind, DidWrite, DidUpdate, DidLookUp, DidFetch, DidRecord, KeepsSent
      <4> QED
        BY <1>1, <2>0, <4>1 DEF Alone
    <3> QED
      BY <3>1, <3>2
  <2> QED
    BY <2>1, <2>2, <2>3, <2>5, <2>6, <2>7, <2>8, <2>9 DEF Alone
<1>7. ASSUME NEW d \in deliveries', d.sent, d.run \notin crossed'
      PROVE  d.report = d.run /\ <<d.run, d.run>> \in mails'
  <2>1. CASE d \in deliveries
    BY <1>0, <1>1, <1>7, <2>1 DEF UncrossedDelivery
  <2>2. CASE d \notin deliveries
    <3>1. DidRecord(r)
      BY <1>7, <2>2 DEF Did, DidEnd, DidRead, DidStamp, DidInsert, DidFind, DidWrite, DidUpdate, DidLookUp, DidFetch, DidSend
    <3>2. d = [run |-> r, report |-> hand[r].report, sent |-> hand[r].sent]
      BY <1>7, <2>2, <3>1 DEF DidRecord
    <3>3. d.run = r /\ d.sent = hand[r].sent /\ d.report = hand[r].report
      BY <3>2
    <3>4. r \in Run \ crossed /\ Alone(r) /\ pc[r] = "record" /\ hand[r].sent
      BY <1>0, <1>1, <1>7, <3>1, <3>3 DEF AloneInv, DidRecord
    <3> QED
      BY <1>1, <3>3, <3>4 DEF Alone
  <2> QED
    BY <2>1, <2>2
<1> QED
  BY <1>5, <1>6, <1>7 DEF AloneInv, UncrossedDelivery

(* An event is stored, or a gateway goroutine dies: nothing the pipelines  *)
(* know becomes false.                                                     *)
LEMMA AroundStep ==
  ASSUME PostInv, UNCHANGED <<pc, hand, clock, reports, pdfObject, mails, deliveries, crossed>>,
         stored \subseteq stored', TypeOK'
  PROVE  PostInv'
<1>1. RowInv'
  BY DEF PostInv, RowInv, Unsaved, Saved, Exists, IsLatest
<1>2. StampInv'
  <2>1. Stamped' = Stamped
    BY DEF Stamped
  <2> QED
    BY <2>1 DEF PostInv, StampInv, Exists
<1>3. CoverInv'
  BY DEF PostInv, CoverInv, ReportCoversStored, Exists
<1>4. RenderInv'
  BY DEF PostInv, RenderInv, Exists, PathHasObject, RenderedBeforeMail
<1>5. MailInv'
  BY DEF PostInv, MailInv, MailOver, SentWasMailed
<1>6. AloneInv'
  BY DEF PostInv, AloneInv, Alone, Busy, Saved, UncrossedDelivery
<1> QED
  BY <1>1, <1>2, <1>3, <1>4, <1>5, <1>6 DEF PostInv

(* Every step keeps the invariant. *)
LEMMA PostStep ==
  ASSUME PostInv, [Next]_vars
  PROVE  PostInv'
<1>0. TypeOK /\ StampInv /\ RowInv /\ CoverInv /\ RenderInv
  BY DEF PostInv
<1>1. ASSUME NEW e \in Event, StoreEvent(e)
      PROVE  PostInv'
  <2>1. UNCHANGED <<pc, waiting, hand, clock, reports, pdfObject, mails, deliveries, crossed>>
    BY <1>1 DEF StoreEvent, jobVars
  <2>2. stored \subseteq stored' /\ TypeOK'
    BY <1>0, <1>1, <2>1 DEF StoreEvent, TypeOK
  <2> QED
    BY <2>1, <2>2, AroundStep
<1>2. ASSUME NEW r \in Run, StopsWaiting(r)
      PROVE  PostInv'
  <2>1. UNCHANGED <<stored, pc, hand, clock, reports, pdfObject, mails, deliveries, crossed>> /\ waiting' \subseteq waiting
    BY <1>2 DEF StopsWaiting
  <2>2. TypeOK'
    BY <1>0, <2>1 DEF TypeOK
  <2> QED
    BY <2>1, <2>2, AroundStep
<1>3. ASSUME NEW r \in Run, EndSession(r) \/ Job(r)
      PROVE  PostInv'
  <2>1. Did(r) /\ TypeOK'
    BY <1>0, <1>3, Shapes
  <2> QED
    BY <2>1, RowStep, StampStep, CoverStep, RenderStep, MailStep, AloneStep DEF PostInv
<1>4. CASE UNCHANGED vars
  <2>1. UNCHANGED <<stored, pc, waiting, hand, clock, reports, pdfObject, mails, deliveries, crossed>>
    BY <1>4 DEF vars, jobVars
  <2>2. TypeOK'
    BY <1>0, <2>1 DEF TypeOK
  <2> QED
    BY <2>1, <2>2, AroundStep
<1> QED
  BY <1>1, <1>2, <1>3, <1>4 DEF Next
-----------------------------------------------------------------------------
(* The inductive invariant holds of every execution, with any number of    *)
(* session ends, whichever pipelines overlap, fail or lose their gateway.  *)
THEOREM PostCorrect == Spec => []PostInv
<1>1. PostInv /\ [Next]_vars => PostInv'
  BY PostStep
<1> QED
  BY <1>1, PostInitInv, PTL DEF Spec

(* What the invariant says in words of the properties. *)
LEMMA PostInvMeans ==
  PostInv => /\ TypeOK /\ ReportCoversStored /\ RenderedBeforeMail
             /\ PathHasObject /\ SentWasMailed /\ UncrossedDelivery
BY DEF PostInv, CoverInv, RenderInv, MailInv, AloneInv

(* Rows, PDF, mails and what the jobs hold keep their types; in particular *)
(* the latest report that a job looks up (store.go) always exists.         *)
THEOREM PostTypeCorrect == Spec => []TypeOK
BY PostCorrect, PostInvMeans, PTL

(* post-session-job's seven reads cover what was stored when the session   *)
(* end was handled, whatever is stored between one read and the next.      *)
THEOREM ReportCoversStoredCorrect == Spec => []ReportCoversStored
BY PostCorrect, PostInvMeans, PTL

(* gmail-sender runs only after a report at least as new as the session    *)
(* end's own was rendered and recorded, however pipelines overlap.         *)
THEOREM RenderedBeforeMailCorrect == Spec => []RenderedBeforeMail
BY PostCorrect, PostInvMeans, PTL

(* A recorded pdf_path has an object behind it: pdf-renderer writes first. *)
THEOREM PathHasObjectCorrect == Spec => []PathHasObject
BY PostCorrect, PostInvMeans, PTL

(* A delivery recorded as sent was sent (gmail-sender's result).           *)
THEOREM SentWasMailedCorrect == Spec => []SentWasMailed
BY PostCorrect, PostInvMeans, PTL

(* A pipeline that no other one crosses records, as sent, the report it    *)
(* made, and that report's PDF is what its recipient got.                  *)
THEOREM UncrossedDeliveryCorrect == Spec => []UncrossedDelivery
BY PostCorrect, PostInvMeans, PTL

(* Steps that change neither rows nor mails are none of the flow's.        *)
LEMMA FlowStutter ==
  ASSUME UNCHANGED <<reports, mails, crossed>>
  PROVE  UNCHANGED Flow!deliveryVars
BY DEF Flow!deliveryVars, Exists

(* Every call of a pipeline is a step of the promised flow, or none of it. *)
LEMMA FlowStep ==
  ASSUME PostInv, NEW r \in Run, Did(r)
  PROVE  Flow!Next \/ UNCHANGED Flow!deliveryVars
<1>0. RowInv /\ StampInv /\ RenderInv /\ MailInv /\ AloneInv /\ TypeOK
  BY DEF PostInv
<1>1. CASE DidInsert(r)
  <2>1. CASE reports'[r] = reports[r]
    <3>1. UNCHANGED <<mails, crossed>> /\ \A q \in Run : reports'[q] = reports[q]
      BY <1>1, <2>1 DEF DidInsert
    <3> QED
      BY <3>1 DEF Flow!deliveryVars, Exists
  <2>2. CASE reports'[r] # reports[r]
    <3>1. /\ reports[r].pdf = FALSE /\ reports'[r].pdf = FALSE
          /\ reports'[r].stamp > 0 /\ \A q \in Run \ {r} : reports'[q] = reports[q]
      BY <1>0, <1>1, <2>2 DEF DidInsert, StampInv, RowInv, Unsaved, NoReport
    <3>2. UNCHANGED <<mails, crossed>>
      BY <1>1 DEF DidInsert
    <3>3. Flow!Report(r)
      BY <3>1, <3>2 DEF Flow!Report, Exists
    <3> QED
      BY <3>3 DEF Flow!Next
  <2> QED
    BY <2>1, <2>2
<1>2. CASE DidUpdate(r)
  <2>1. /\ UNCHANGED <<mails, crossed>> /\ \A q \in Run : reports'[q].stamp = reports[q].stamp
        /\ hand[r].report \in Run /\ Exists(hand[r].report)
        /\ \A q \in Run \ {hand[r].report} : reports'[q] = reports[q]
    BY <1>0, <1>2 DEF DidUpdate, KeepsRows, RenderInv
  <2>2. CASE reports' = reports
    BY <2>1, <2>2, FlowStutter
  <2>3. CASE reports'[hand[r].report].pdf = TRUE
    <3>1. PICK i \in Run : i = hand[r].report
      BY <2>1
    <3>2. Flow!Render(i)
      BY <2>1, <2>3, <3>1 DEF Flow!Render, Exists
    <3> QED
      BY <3>2 DEF Flow!Next
  <2> QED
    BY <1>2, <2>2, <2>3 DEF DidUpdate
<1>3. CASE DidSend(r)
  <2>1. UNCHANGED <<reports, crossed>> /\ mails' \in {mails, mails \cup {<<r, hand[r].pdf>>}}
    BY <1>3 DEF DidSend
  <2>2. CASE mails' = mails
    BY <2>1, <2>2, FlowStutter
  <2>3. CASE mails' = mails \cup {<<r, hand[r].pdf>>} /\ r \in crossed
    <3>1. {m \in mails' : m[1] \notin crossed} = {m \in mails : m[1] \notin crossed}
      BY <2>3
    <3> QED
      BY <2>1, <3>1 DEF Flow!deliveryVars, Exists
  <2>4. CASE mails' = mails \cup {<<r, hand[r].pdf>>} /\ r \notin crossed
    <3>1. hand[r].pdf = r /\ reports[r].pdf /\ r \in WithRecipient
      BY <1>0, <1>3, <2>4 DEF DidSend, AloneInv, Alone, RenderInv
    <3>2. {m \in mails' : m[1] \notin crossed'} = {m \in mails : m[1] \notin crossed} \cup {<<r, r>>}
      BY <2>1, <2>4, <3>1
    <3>3. Flow!Mail(r)
      BY <2>1, <3>1, <3>2 DEF Flow!Mail, Exists
    <3> QED
      BY <3>3 DEF Flow!Next
  <2> QED
    BY <2>1, <2>2, <2>3, <2>4
<1>4. CASE DidEnd(r)
  <2>1. /\ UNCHANGED <<reports, mails>> /\ pc[r] = "none"
        /\ crossed' = crossed \cup (IF \E q \in Run : Busy(q) THEN {r} \cup {q \in Run : Busy(q)} ELSE {})
    BY <1>4 DEF DidEnd
  <2>2. \A q \in Run : MailOver(q) => ~Busy(q) /\ q # r
    BY <2>1 DEF MailOver, Busy, Over
  <2>3. \A m \in mails : m[1] \in Run /\ MailOver(m[1])
    BY <1>0 DEF TypeOK, MailInv
  <2>4. \A m \in mails : m[1] \in crossed' <=> m[1] \in crossed
    BY <2>1, <2>2, <2>3
  <2>5. {m \in mails' : m[1] \notin crossed'} = {m \in mails : m[1] \notin crossed}
    BY <2>1, <2>4
  <2> QED
    BY <2>1, <2>5 DEF Flow!deliveryVars, Exists
<1>5. CASE DidRead(r) \/ DidStamp(r) \/ DidFind(r) \/ DidWrite(r) \/ DidLookUp(r) \/ DidFetch(r) \/ DidRecord(r)
  BY <1>5, FlowStutter DEF DidRead, DidStamp, DidFind, DidWrite, DidLookUp, DidFetch, DidRecord
<1> QED
  BY <1>1, <1>2, <1>3, <1>4, <1>5 DEF Did

(* The pipelines implement ReportDelivery for those that no other one      *)
(* crosses before its mail, for every number of session ends.              *)
THEOREM PostImplementsDelivery == Spec => ImplementsDelivery
<1>1. Init => Flow!Init
  BY DEF Init, Flow!Init, Exists, NoReport
<1>2. ASSUME PostInv, [Next]_vars
      PROVE  [Flow!Next]_Flow!deliveryVars
  <2>1. ASSUME NEW r \in Run, EndSession(r) \/ Job(r)
        PROVE  Flow!Next \/ UNCHANGED Flow!deliveryVars
    <3>1. Did(r)
      BY <1>2, <2>1, Shapes DEF PostInv
    <3> QED
      BY <1>2, <3>1, FlowStep
  <2>2. ASSUME NEW e \in Event, StoreEvent(e)
        PROVE  UNCHANGED Flow!deliveryVars
    BY <2>2, FlowStutter DEF StoreEvent
  <2>3. ASSUME NEW r \in Run, StopsWaiting(r)
        PROVE  UNCHANGED Flow!deliveryVars
    BY <2>3, FlowStutter DEF StopsWaiting
  <2>4. CASE UNCHANGED vars
    BY <2>4, FlowStutter DEF vars
  <2> QED
    BY <1>2, <2>1, <2>2, <2>3, <2>4 DEF Next
<1> QED
  BY <1>1, <1>2, PostCorrect, PTL DEF Spec, ImplementsDelivery, Flow!Spec


(* What cmd/gmail-sender/README.md says of every delivery holds of the     *)
(* sessions whose pipelines never ran beside each other: a delivery        *)
(* recorded as sent for a report is a mail with that report's PDF.  The    *)
(* run swapped_pdf shows that it takes no more than one crossing to break  *)
(* it.                                                                     *)
THEOREM UncrossedSessionDelivers == Spec => [](crossed = {} => DeliveryIsOfItsReport)
<1>1. UncrossedDelivery => (crossed = {} => DeliveryIsOfItsReport)
  BY DEF UncrossedDelivery, DeliveryIsOfItsReport
<1> QED
  BY <1>1, UncrossedDeliveryCorrect, PTL
=============================================================================
