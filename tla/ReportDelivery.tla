--------------------------- MODULE ReportDelivery ---------------------------
(***************************************************************************)
(* What the post-session flow promises (architecture.md): each session end *)
(* leads to a report, the report to a PDF, the PDF to a mail to the        *)
(* recipient given at that session end.  A later step may fail to happen;  *)
(* nothing already done is undone, and nobody gets another report.         *)
(***************************************************************************)
CONSTANTS Run, WithRecipient

VARIABLES
  reported,   \* session ends whose report is saved
  rendered,   \* session ends whose report has its PDF
  mailed      \* <<r, i>>: the recipient of r got the PDF of the report of i

deliveryVars == <<reported, rendered, mailed>>

Init == reported = {} /\ rendered = {} /\ mailed = {}

Report(r) ==
  /\ reported' = reported \cup {r}
  /\ UNCHANGED <<rendered, mailed>>

Render(r) ==
  /\ r \in reported
  /\ rendered' = rendered \cup {r}
  /\ UNCHANGED <<reported, mailed>>

Mail(r) ==
  /\ r \in rendered \cap WithRecipient
  /\ mailed' = mailed \cup {<<r, r>>}
  /\ UNCHANGED <<reported, rendered>>

Next == \E r \in Run : Report(r) \/ Render(r) \/ Mail(r)

Spec == Init /\ [][Next]_deliveryVars
=============================================================================
