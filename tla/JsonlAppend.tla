---------------------------- MODULE JsonlAppend ----------------------------
(***************************************************************************)
(* GCSJSONLStore.Append (internal/writer/gcs_store.go): Cloud Storage has  *)
(* no append, so each line is staged as an object of its own, named after  *)
(* the event, and then copied (first line of a file) or composed onto the  *)
(* growing part-0001.jsonl.  One action is one storage call; a failed call *)
(* may have been applied before its answer was lost.                       *)
(*                                                                         *)
(* Each storage call is atomic, Compose included: what goes wrong between  *)
(* two callers here goes wrong with the strongest storage there is.        *)
(***************************************************************************)
EXTENDS Integers, Sequences, FiniteSets

CONSTANTS
  Writer,      \* goroutines that may call Append at the same time
  File,        \* the part-0001.jsonl objects of the session
  EventId,     \* event ids of the lines
  GcsMayFail   \* a storage call may fail

ASSUME StoreFlagsAssumption == GcsMayFail \in BOOLEAN

VARIABLES
  object,   \* the lines of each file's object, <<>> while it does not exist
  staged,   \* <<file, event>>: the staging object exists
  call,     \* where each Append is
  returned, \* <<file, event>>: an Append of it returned nil
  contended \* files that have had two Appends at the same time (history)

storeVars == <<object, staged, call, returned, contended>>

CallPc == {"none", "stage", "attrs", "copy", "compose", "cleanup", "return"}
NoCall == [pc |-> "none", file |-> "", ev |-> "", ok |-> FALSE]
Call == [pc : CallPc \ {"none"}, file : File, ev : EventId, ok : BOOLEAN] \cup {NoCall}

StoreInit ==
  /\ object = [f \in File |-> <<>>]
  /\ staged = {}
  /\ call = [w \in Writer |-> NoCall]
  /\ returned = {}
  /\ contended = {}

Exists(f) == object[f] # <<>>
Target(w) == call[w].file
Line(w) == call[w].ev
Staging(w) == <<Target(w), Line(w)>>
Goto(w, label) == call' = [call EXCEPT ![w].pc = label]
Fails(w, label) ==
  call' = [call EXCEPT ![w] = [pc |-> label, file |-> @.file, ev |-> @.ev, ok |-> FALSE]]

BeginAppend(w, f, e) ==
  /\ call[w].pc = "none"
  /\ call' = [call EXCEPT ![w] = [pc |-> "stage", file |-> f, ev |-> e, ok |-> TRUE]]
  /\ contended' = contended \cup {g \in {f} : \E v \in Writer : Target(v) = g}
  /\ UNCHANGED <<object, staged, returned>>

(* NewWriter, Write, Close.  The deferred Delete is not yet registered     *)
(* when one of them fails.                                                 *)
WriteStaging(w) ==
  /\ call[w].pc = "stage"
  /\ \/ /\ staged' = staged \cup {Staging(w)}
        /\ Goto(w, "attrs")
     \/ /\ GcsMayFail
        /\ staged' \in {staged, staged \cup {Staging(w)}}
        /\ Fails(w, "return")
  /\ UNCHANGED <<object, returned, contended>>

(* target.Attrs: the answer decides between copy and compose. *)
CheckTarget(w) ==
  /\ call[w].pc = "attrs"
  /\ \/ Goto(w, IF Exists(Target(w)) THEN "compose" ELSE "copy")
     \/ GcsMayFail /\ Fails(w, "cleanup")
  /\ UNCHANGED <<object, staged, returned, contended>>

(* A storage call that turns the target into lines, given its sources. *)
Rewrite(w, sources, lines) ==
  \/ /\ sources
     /\ object' = [object EXCEPT ![Target(w)] = lines]
     /\ Goto(w, "cleanup")
  \/ /\ GcsMayFail \/ ~sources
     /\ object' \in {object} \cup (IF sources THEN {[object EXCEPT ![Target(w)] = lines]} ELSE {})
     /\ Fails(w, "cleanup")

(* target.CopierFrom(staging), without a precondition on the target. *)
CopyFirstLine(w) ==
  /\ call[w].pc = "copy"
  /\ Rewrite(w, Staging(w) \in staged, <<Line(w)>>)
  /\ UNCHANGED <<staged, returned, contended>>

Bug_ComposeStagingFirst(w) ==
  /\ call[w].pc = "compose"
  /\ Rewrite(w, Exists(Target(w)) /\ Staging(w) \in staged, <<Line(w)>> \o object[Target(w)])
  /\ UNCHANGED <<staged, returned, contended>>

Bug_ComposeRetries(w) ==
  /\ call[w].pc = "compose"
  /\ object' = [object EXCEPT ![Target(w)] = Append(@, Line(w))]
  /\ Goto(w, "cleanup") \/ (GcsMayFail /\ Goto(w, "compose"))
  /\ UNCHANGED <<staged, returned, contended>>

(* target.ComposerFrom(target, staging). *)
ComposeLine(w) ==
  /\ call[w].pc = "compose"
  /\ Rewrite(w, Exists(Target(w)) /\ Staging(w) \in staged, Append(object[Target(w)], Line(w)))
  /\ UNCHANGED <<staged, returned, contended>>

(* The deferred Delete: best effort. *)
DeleteStaging(w) ==
  /\ call[w].pc = "cleanup"
  /\ staged' \in {staged \ {Staging(w)}} \cup (IF GcsMayFail THEN {staged} ELSE {})
  /\ Goto(w, "return")
  /\ UNCHANGED <<object, returned, contended>>

(* Append returns: nil when ok. *)
AppendReturns(w, ok) ==
  /\ call[w].pc = "return"
  /\ call[w].ok = ok
  /\ call' = [call EXCEPT ![w] = NoCall]
  /\ returned' = IF ok THEN returned \cup {Staging(w)} ELSE returned
  /\ UNCHANGED <<object, staged, contended>>

(* The instance dies in the middle of an Append. *)
AppendDies(w) ==
  /\ call[w].pc # "none"
  /\ call' = [call EXCEPT ![w] = NoCall]
  /\ UNCHANGED <<object, staged, returned, contended>>

StorageCall(w) ==
  \/ WriteStaging(w)
  \/ CheckTarget(w)
  \/ CopyFirstLine(w)
  \/ ComposeLine(w)
  \/ DeleteStaging(w)
-----------------------------------------------------------------------------
StoreTypeOK ==
  /\ object \in [File -> Seq(EventId)]
  /\ staged \subseteq File \X EventId
  /\ call \in [Writer -> Call]
  /\ returned \subseteq File \X EventId
  /\ contended \subseteq File

LinesOf(f, e) == {i \in DOMAIN object[f] : object[f][i] = e}

(* store.go on ReadAll: it returns every line previously appended.  An     *)
(* Append that returned nil is there for every later reader.               *)
ReturnedIsReadable == \A r \in returned : LinesOf(r[1], r[2]) # {}

(* gcs_store.go counts on one Append per file at a time.  As long as a     *)
(* file gets that, its object refines the append-only log.                 *)
Log == INSTANCE AppendLog
         WITH log <- [f \in File |-> IF f \in contended THEN <<>> ELSE object[f]],
              confirmed <- {r \in returned : r[1] \notin contended}
ImplementsLog == Log!Spec
=============================================================================
