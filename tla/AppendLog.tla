----------------------------- MODULE AppendLog -----------------------------
(***************************************************************************)
(* What the JSONLStore interface promises of the files of one session, to  *)
(* callers that keep to one Append per file at a time: Append adds a line  *)
(* at the end, nothing removes or reorders one, and an Append that         *)
(* returned nil is in every later ReadAll.  Nothing is promised of a file  *)
(* once two Appends to it have met.                                        *)
(***************************************************************************)
EXTENDS Sequences

CONSTANTS File, EventId

VARIABLES
  log,        \* the lines of each file, oldest first
  confirmed,  \* <<file, event>>: an Append of it returned nil
  contended   \* the files of which nothing is promised any more

logVars == <<log, confirmed, contended>>

Init ==
  /\ log = [f \in File |-> <<>>]
  /\ confirmed = {}
  /\ contended = {}

Write(f, e) ==
  /\ f \notin contended
  /\ log' = [log EXCEPT ![f] = Append(@, e)]
  /\ UNCHANGED <<confirmed, contended>>

Confirm(f, e) ==
  /\ \E i \in DOMAIN log[f] : log[f][i] = e
  /\ confirmed' = confirmed \cup {<<f, e>>}
  /\ UNCHANGED <<log, contended>>

Contend(f) ==
  /\ contended' = contended \cup {f}
  /\ log' = [log EXCEPT ![f] = <<>>]
  /\ confirmed' = {r \in confirmed : r[1] # f}

Next ==
  \E f \in File : Contend(f) \/ \E e \in EventId : Write(f, e) \/ Confirm(f, e)

Spec == Init /\ [][Next]_logVars
=============================================================================
