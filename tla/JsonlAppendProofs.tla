------------------------- MODULE JsonlAppendProofs -------------------------
(***************************************************************************)
(* What holds of GCSJSONLStore.Append for every number of callers, files   *)
(* and events: as long as a file gets one Append at a time, no line of it  *)
(* is lost, an Append that returned nil is in it, and the store is an      *)
(* implementation of AppendLog.                                            *)
(***************************************************************************)
EXTENDS JsonlAppend, TLAPS

StoreNext ==
  \E w \in Writer :
    \/ StorageCall(w) \/ AppendDies(w)
    \/ \E f \in File, e \in EventId : BeginAppend(w, f, e)
    \/ \E ok \in BOOLEAN : AppendReturns(w, ok)

StoreSpec == StoreInit /\ [][StoreNext]_storeVars

HasLine(f, e) == \E i \in DOMAIN object[f] : object[f][i] = e

(* What an Append knows of a file that no other Append has met: it is      *)
(* alone, its copy finds no object, and once it has succeeded its line is  *)
(* there.                                                                  *)
AppendKnows(w) ==
  call[w].pc # "none" /\ Target(w) \notin contended =>
    /\ \A v \in Writer : call[v].pc # "none" /\ Target(v) = Target(w) => v = w
    /\ call[w].pc = "copy" => object[Target(w)] = <<>>
    /\ call[w].pc \in {"cleanup", "return"} /\ call[w].ok => HasLine(Target(w), Line(w))

ReturnedKept == \A r \in returned : r[1] \notin contended => HasLine(r[1], r[2])

StoreInv ==
  /\ StoreTypeOK
  /\ \A w \in Writer : AppendKnows(w)
  /\ ReturnedKept

(* A line at the end of a file leaves the others where they are. *)
LEMMA AppendLine ==
  ASSUME NEW s \in Seq(EventId), NEW e \in EventId
  PROVE  /\ Append(s, e) \in Seq(EventId)
         /\ \A i \in DOMAIN s : i \in DOMAIN Append(s, e) /\ Append(s, e)[i] = s[i]
         /\ \E i \in DOMAIN Append(s, e) : Append(s, e)[i] = e
         /\ \A i \in DOMAIN Append(s, e) : Append(s, e)[i] = e \/ (i \in DOMAIN s /\ Append(s, e)[i] = s[i])
         /\ Append(s, e) # <<>>
<1>1. /\ Append(s, e) \in Seq(EventId) /\ Len(Append(s, e)) = Len(s) + 1 /\ Len(s) \in Nat
      /\ DOMAIN s = 1 .. Len(s) /\ DOMAIN Append(s, e) = 1 .. (Len(s) + 1)
  OBVIOUS
<1>2. \A i \in DOMAIN Append(s, e) : Append(s, e)[i] = IF i \in DOMAIN s THEN s[i] ELSE e
  BY <1>1
<1>3. Len(s) + 1 \in DOMAIN Append(s, e) /\ Len(s) + 1 \notin DOMAIN s
  BY <1>1
<1> QED
  BY <1>1, <1>2, <1>3

(* The first line of a file. *)
LEMMA FirstLine ==
  ASSUME NEW e \in EventId
  PROVE  /\ <<e>> \in Seq(EventId) /\ <<e>> = Append(<<>>, e)
         /\ \A i \in DOMAIN <<e>> : <<e>>[i] = e
         /\ \E i \in DOMAIN <<e>> : <<e>>[i] = e
OBVIOUS

(* An Append under way has a file and an event. *)
LEMMA CallType ==
  ASSUME call \in [Writer -> Call], NEW w \in Writer, call[w].pc # "none"
  PROVE  /\ call[w] = [pc |-> call[w].pc, file |-> Target(w), ev |-> Line(w), ok |-> call[w].ok]
         /\ Target(w) \in File /\ Line(w) \in EventId /\ call[w].ok \in BOOLEAN
         /\ Staging(w) \in File \X EventId
<1>1. call[w] \in Call
  OBVIOUS
<1>2. call[w] \in [pc : CallPc \ {"none"}, file : File, ev : EventId, ok : BOOLEAN]
  <2>1. NoCall.pc = "none"
    BY DEF NoCall
  <2> QED
    BY <1>1, <2>1, Zenon DEF Call
<1>3. call[w] = [pc |-> call[w].pc, file |-> call[w].file, ev |-> call[w].ev, ok |-> call[w].ok]
  BY <1>2
<1>4. call[w].file \in File /\ call[w].ev \in EventId /\ call[w].ok \in BOOLEAN
  BY <1>2
<1>5. Target(w) = call[w].file /\ Line(w) = call[w].ev
  BY DEF Target, Line
<1>6. Staging(w) \in File \X EventId
  BY <1>4, <1>5 DEF Staging
<1> QED
  BY <1>3, <1>4, <1>5, <1>6

(* How a storage call of an Append leaves it: at label, or with its error. *)
CallAt(w, label) ==
  /\ call' \in [Writer -> Call]
  /\ \A v \in Writer \ {w} : call'[v] = call[v]
  /\ call'[w].pc = label /\ Target(w)' = Target(w) /\ Line(w)' = Line(w)

(* A storage call that succeeds leads its Append to its next call. *)
LEMMA GotoType ==
  ASSUME call \in [Writer -> Call], NEW w \in Writer, call[w].pc # "none", NEW label \in CallPc \ {"none"}, Goto(w, label)
  PROVE  CallAt(w, label) /\ call'[w].ok = call[w].ok
<1>1. call[w] = [pc |-> call[w].pc, file |-> Target(w), ev |-> Line(w), ok |-> call[w].ok]
      /\ Target(w) \in File /\ Line(w) \in EventId /\ call[w].ok \in BOOLEAN
  BY CallType
<1>2. [call[w] EXCEPT !.pc = label] = [pc |-> label, file |-> Target(w), ev |-> Line(w), ok |-> call[w].ok]
  BY <1>1
<1>3. [pc |-> label, file |-> Target(w), ev |-> Line(w), ok |-> call[w].ok] \in Call
  BY <1>1 DEF Call
<1>4. call' = [call EXCEPT ![w] = [pc |-> label, file |-> Target(w), ev |-> Line(w), ok |-> call[w].ok]]
  BY <1>2 DEF Goto
<1> QED
  BY <1>3, <1>4 DEF CallAt, Target, Line

(* A storage call that fails leads it to its clean-up, with the error it   *)
(* will return.                                                            *)
LEMMA FailsType ==
  ASSUME call \in [Writer -> Call], NEW w \in Writer, call[w].pc # "none", NEW label \in CallPc \ {"none"}, Fails(w, label)
  PROVE  CallAt(w, label) /\ call'[w].ok = FALSE
<1>1. Target(w) \in File /\ Line(w) \in EventId
  BY CallType
<1>2. [pc |-> label, file |-> Target(w), ev |-> Line(w), ok |-> FALSE] \in Call
  BY <1>1 DEF Call
<1>3. call' = [call EXCEPT ![w] = [pc |-> label, file |-> Target(w), ev |-> Line(w), ok |-> FALSE]]
  BY DEF Fails, Target, Line
<1> QED
  BY <1>2, <1>3 DEF CallAt, Target, Line
-----------------------------------------------------------------------------
(* Lines of files that nobody contends for are kept. *)
KeepsLines ==
  /\ contended \subseteq contended'
  /\ \A f \in File, e \in EventId : f \notin contended' /\ HasLine(f, e) => HasLine(f, e)'

(* The Appends to other files, and those that lose to nobody, go on        *)
(* knowing what they knew.                                                 *)
LEMMA OthersKnow ==
  ASSUME StoreInv, NEW w \in Writer, KeepsLines,
         \A v \in Writer \ {w} : call'[v] = call[v],
         \A f \in File \ contended' : object'[f] = object[f] \/ (f = Target(w) /\ call[w].pc # "none"),
         call'[w].pc # "none" => (call[w].pc # "none" /\ Target(w)' = Target(w))
                                 \/ \A v \in Writer \ {w} : Target(v) = Target(w)' => Target(v) \in contended',
         NEW v \in Writer \ {w}
  PROVE  AppendKnows(v)'
<1> SUFFICES ASSUME call'[v].pc # "none", Target(v)' \notin contended'
             PROVE  /\ \A u \in Writer : call'[u].pc # "none" /\ Target(u)' = Target(v)' => u = v
                    /\ call'[v].pc = "copy" => object'[Target(v)'] = <<>>
                    /\ call'[v].pc \in {"cleanup", "return"} /\ call'[v].ok => HasLine(Target(v), Line(v))'
  BY DEF AppendKnows
<1>1. call'[v] = call[v] /\ Target(v)' = Target(v) /\ Line(v)' = Line(v)
  BY DEF Target, Line
<1>2. Target(v) \notin contended /\ Target(v) \in File /\ Line(v) \in EventId
  BY <1>1, CallType DEF KeepsLines, StoreInv, StoreTypeOK
<1>3. /\ \A u \in Writer : call[u].pc # "none" /\ Target(u) = Target(v) => u = v
      /\ call[v].pc = "copy" => object[Target(v)] = <<>>
      /\ call[v].pc \in {"cleanup", "return"} /\ call[v].ok => HasLine(Target(v), Line(v))
  BY <1>1, <1>2 DEF StoreInv, AppendKnows
<1>4. ASSUME NEW u \in Writer, call'[u].pc # "none", Target(u)' = Target(v)'
      PROVE  u = v
  <2>1. CASE u # w
    BY <1>1, <1>3, <1>4, <2>1 DEF Target
  <2>2. CASE u = w
    BY <1>1, <1>3, <1>4, <2>2
  <2> QED
    BY <2>1, <2>2
<1>5. call[v].pc = "copy" => object'[Target(v)'] = <<>>
  BY <1>1, <1>2, <1>3
<1>6. HasLine(Target(v), Line(v)) => HasLine(Target(v), Line(v))'
  <2>1. PICK f \in File, e \in EventId : f = Target(v) /\ e = Line(v) /\ f = Target(v)' /\ e = Line(v)'
    BY <1>1, <1>2
  <2>2. HasLine(f, e) => HasLine(f, e)'
    BY <1>1, <2>1 DEF KeepsLines
  <2> QED
    BY <2>1, <2>2 DEF HasLine
<1> QED
  BY <1>1, <1>3, <1>4, <1>5, <1>6

(* What was returned stays readable. *)
LEMMA ReturnsLast ==
  ASSUME StoreInv, KeepsLines, returned' = returned
  PROVE  ReturnedKept'
<1> SUFFICES ASSUME NEW r \in returned, r[1] \notin contended' PROVE HasLine(r[1], r[2])'
  BY DEF ReturnedKept
<1>1. r[1] \in File /\ r[2] \in EventId /\ r[1] \notin contended
  BY DEF StoreInv, StoreTypeOK, KeepsLines
<1> QED
  BY <1>1 DEF StoreInv, ReturnedKept, KeepsLines

(* The store starts empty, so the invariant holds. *)
LEMMA StoreInitInv == StoreInit => StoreInv
<1> SUFFICES ASSUME StoreInit PROVE StoreInv
  OBVIOUS
<1>1. \A w \in Writer : call[w] = NoCall /\ call[w].pc = "none"
  BY DEF StoreInit, NoCall
<1>2. <<>> \in Seq(EventId) /\ NoCall \in Call
  BY DEF Call
<1>3. StoreTypeOK
  BY <1>2 DEF StoreInit, StoreTypeOK
<1> QED
  BY <1>1, <1>3 DEF StoreInit, StoreInv, AppendKnows, ReturnedKept

(* A step that leaves the objects alone keeps every line. *)
LEMMA SameLines ==
  ASSUME object' = object, contended \subseteq contended'
  PROVE  KeepsLines
BY DEF KeepsLines, HasLine

(* CopyFirstLine and ComposeLine: a file that nobody contends for only     *)
(* gets the line of the caller at its end, and it has it on success.       *)
LEMMA Rewrites ==
  ASSUME StoreInv, NEW w \in Writer, CopyFirstLine(w) \/ ComposeLine(w)
  PROVE  /\ object' \in [File -> Seq(EventId)]
         /\ \A f \in File \ {Target(w)} : object'[f] = object[f]
         /\ \A f \in File : \A i \in DOMAIN object'[f] :
              \/ i \in DOMAIN object[f] /\ object'[f][i] = object[f][i]
              \/ f = Target(w) /\ object'[f][i] = Line(w)
         /\ Target(w) \notin contended =>
              object' = object \/ object' = [object EXCEPT ![Target(w)] = Append(@, Line(w))]
         /\ object' = object \/ HasLine(Target(w), Line(w))'
         /\ CallAt(w, "cleanup") /\ (call'[w].ok => HasLine(Target(w), Line(w))')
<1>0. /\ object \in [File -> Seq(EventId)] /\ call \in [Writer -> Call] /\ call[w].pc # "none"
      /\ Target(w) \in File /\ Line(w) \in EventId /\ object[Target(w)] \in Seq(EventId)
  <2>1. call[w].pc # "none" /\ object \in [File -> Seq(EventId)] /\ call \in [Writer -> Call]
    BY DEF CopyFirstLine, ComposeLine, StoreInv, StoreTypeOK
  <2>2. Target(w) \in File /\ Line(w) \in EventId
    BY <2>1, CallType
  <2> QED
    BY <2>1, <2>2
<1>1. PICK f \in File, e \in EventId : f = Target(w) /\ e = Line(w)
  BY <1>0
<1>2. "cleanup" \in CallPc \ {"none"}
  BY DEF CallPc
<1>3. PICK lines \in Seq(EventId) :
        /\ (lines = <<e>> /\ call[w].pc = "copy") \/ lines = Append(object[f], e)
        /\ object' = object \/ object' = [object EXCEPT ![f] = lines]
        /\ \/ Goto(w, "cleanup") /\ object' = [object EXCEPT ![f] = lines]
           \/ Fails(w, "cleanup")
  <2>1. CASE CopyFirstLine(w)
    <3>1. <<e>> \in Seq(EventId) /\ call[w].pc = "copy"
      BY <2>1, FirstLine DEF CopyFirstLine
    <3>2. Rewrite(w, Staging(w) \in staged, <<Line(w)>>)
      BY <2>1 DEF CopyFirstLine
    <3>3. /\ object' = object \/ object' = [object EXCEPT ![f] = <<e>>]
          /\ \/ Goto(w, "cleanup") /\ object' = [object EXCEPT ![f] = <<e>>]
             \/ Fails(w, "cleanup")
      BY <1>1, <3>2 DEF Rewrite
    <3> QED
      BY <3>1, <3>3
  <2>2. CASE ComposeLine(w)
    <3>1. Append(object[f], e) \in Seq(EventId)
      BY <1>0, <1>1, AppendLine
    <3>2. Rewrite(w, Exists(Target(w)) /\ Staging(w) \in staged, Append(object[Target(w)], Line(w)))
      BY <2>2 DEF ComposeLine
    <3>3. /\ object' = object \/ object' = [object EXCEPT ![f] = Append(object[f], e)]
          /\ \/ Goto(w, "cleanup") /\ object' = [object EXCEPT ![f] = Append(object[f], e)]
             \/ Fails(w, "cleanup")
      BY <1>1, <3>2 DEF Rewrite
    <3> QED
      BY <3>1, <3>3
  <2> QED
    BY <2>1, <2>2
<1>4. /\ \E i \in DOMAIN lines : lines[i] = e
      /\ \A i \in DOMAIN lines : lines[i] = e \/ (i \in DOMAIN object[f] /\ lines[i] = object[f][i])
  <2>1. CASE lines = <<e>>
    BY <2>1, FirstLine
  <2>2. CASE lines = Append(object[f], e)
    <3>0. object[f] \in Seq(EventId)
      BY <1>0, <1>1, Zenon
    <3>1. /\ \E i \in DOMAIN Append(object[f], e) : Append(object[f], e)[i] = e
          /\ \A i \in DOMAIN Append(object[f], e) :
               \/ Append(object[f], e)[i] = e
               \/ i \in DOMAIN object[f] /\ Append(object[f], e)[i] = object[f][i]
      BY <3>0, AppendLine, Zenon
    <3> QED
      BY <2>2, <3>1
  <2> QED
    BY <1>3, <2>1, <2>2
<1>5. CallAt(w, "cleanup") /\ (call'[w].ok => object' = [object EXCEPT ![f] = lines])
  BY <1>0, <1>2, <1>3, GotoType, FailsType
<1>6. Target(w)' = f /\ Line(w)' = e
  BY <1>1, <1>5 DEF CallAt
<1>7. object' # object => object'[f] = lines
  BY <1>0, <1>3
<1>8. object' = [object EXCEPT ![f] = lines] => HasLine(Target(w), Line(w))'
  BY <1>0, <1>4, <1>6 DEF HasLine
<1>9. Target(w) \notin contended => lines = Append(object[f], e)
  <2>1. CASE call[w].pc = "copy" /\ lines = <<e>> /\ Target(w) \notin contended
    <3>1. object[f] = <<>>
      BY <1>0, <1>1, <2>1 DEF StoreInv, AppendKnows
    <3> QED
      BY <2>1, <3>1, FirstLine
  <2> QED
    BY <1>3, <2>1
<1>10. /\ object' \in [File -> Seq(EventId)]
       /\ \A g \in File \ {f} : object'[g] = object[g]
       /\ \A g \in File : \A i \in DOMAIN object'[g] :
            \/ i \in DOMAIN object[g] /\ object'[g][i] = object[g][i]
            \/ g = f /\ object'[g][i] = e
  BY <1>0, <1>3, <1>4
<1> QED
  BY <1>1, <1>3, <1>5, <1>8, <1>9, <1>10

(* A call under way that goes on to the next one. *)
LEMMA CallGoesOn ==
  ASSUME StoreInv, NEW w \in Writer, call[w].pc # "none", NEW label \in CallPc \ {"none"}, CallAt(w, label),
         contended' = contended, returned' = returned, staged' \subseteq File \X EventId,
         object' \in [File -> Seq(EventId)], KeepsLines,
         \A f \in File \ contended : object'[f] = object[f] \/ f = Target(w),
         Target(w) \notin contended =>
           /\ label = "copy" => object'[Target(w)] = <<>>
           /\ label \in {"cleanup", "return"} /\ call'[w].ok => HasLine(Target(w), Line(w))'
  PROVE  StoreInv'
<1>1. StoreTypeOK'
  BY DEF StoreInv, StoreTypeOK, CallAt
<1>2. \A v \in Writer \ {w} : AppendKnows(v)'
  BY OthersKnow DEF CallAt
<1>3. AppendKnows(w)'
  <2>1. ASSUME Target(w) \notin contended, NEW v \in Writer \ {w}, call[v].pc # "none", Target(v) = Target(w)
        PROVE  FALSE
    BY <2>1 DEF StoreInv, AppendKnows
  <2> QED
    BY <2>1 DEF AppendKnows, CallAt, Target
<1>4. ReturnedKept'
  BY ReturnsLast
<1> QED
  BY <1>1, <1>2, <1>3, <1>4 DEF StoreInv

(* StorageCall keeps the lines of files that nobody contends for, writes   *)
(* no line but its own, and leaves the other Appends alone.                *)
LEMMA StorageCallStep ==
  ASSUME StoreInv, NEW w \in Writer, StorageCall(w)
  PROVE  /\ StoreInv' /\ KeepsLines
         /\ contended' = contended /\ returned' = returned
         /\ call[w].pc # "none" /\ \E label \in CallPc \ {"none"} : CallAt(w, label)
         /\ \A f \in File : \A i \in DOMAIN object'[f] :
              \/ i \in DOMAIN object[f] /\ object'[f][i] = object[f][i]
              \/ f = Target(w) /\ object'[f][i] = Line(w)
<1>0. /\ call \in [Writer -> Call] /\ object \in [File -> Seq(EventId)] /\ staged \subseteq File \X EventId
      /\ call[w].pc # "none" /\ Target(w) \in File /\ Line(w) \in EventId /\ Staging(w) \in File \X EventId
      /\ contended' = contended /\ returned' = returned
      /\ AppendKnows(w)
  <2>1. call[w].pc # "none" /\ contended' = contended /\ returned' = returned
    BY DEF StorageCall, WriteStaging, CheckTarget, CopyFirstLine, ComposeLine, DeleteStaging
  <2>2. call \in [Writer -> Call] /\ object \in [File -> Seq(EventId)] /\ staged \subseteq File \X EventId
    BY DEF StoreInv, StoreTypeOK
  <2>3. Target(w) \in File /\ Line(w) \in EventId /\ Staging(w) \in File \X EventId
    BY <2>1, <2>2, CallType
  <2> QED
    BY <2>1, <2>2, <2>3 DEF StoreInv
<1>1. CASE WriteStaging(w) \/ CheckTarget(w)
  <2>1. object' = object /\ staged' \subseteq File \X EventId
    BY <1>0, <1>1 DEF WriteStaging, CheckTarget
  <2>2. \/ \E label \in {"attrs", "compose"} : CallAt(w, label)
        \/ CallAt(w, "copy") /\ object[Target(w)] = <<>>
        \/ \E label \in {"return", "cleanup"} : CallAt(w, label) /\ ~call'[w].ok
    <3>1. CASE Goto(w, "attrs") \/ Goto(w, "compose")
      BY <1>0, <3>1, GotoType DEF CallPc
    <3>2. CASE Goto(w, "copy") /\ ~Exists(Target(w))
      BY <1>0, <3>2, GotoType DEF CallPc, Exists
    <3>3. CASE Fails(w, "return") \/ Fails(w, "cleanup")
      BY <1>0, <3>3, FailsType DEF CallPc
    <3> QED
      BY <1>1, <3>1, <3>2, <3>3 DEF WriteStaging, CheckTarget
  <2>3. KeepsLines
    BY <1>0, <2>1, SameLines
  <2>4. PICK label \in CallPc \ {"none"} :
          /\ CallAt(w, label)
          /\ label = "copy" => object[Target(w)] = <<>>
          /\ label \in {"cleanup", "return"} => ~call'[w].ok
    BY <2>2 DEF CallPc
  <2>5. StoreInv'
    BY <1>0, <2>1, <2>3, <2>4, CallGoesOn
  <2> QED
    BY <1>0, <2>1, <2>3, <2>4, <2>5
<1>2. CASE CopyFirstLine(w) \/ ComposeLine(w)
  <2>1. /\ object' \in [File -> Seq(EventId)]
        /\ \A f \in File \ {Target(w)} : object'[f] = object[f]
        /\ \A f \in File : \A i \in DOMAIN object'[f] :
             \/ i \in DOMAIN object[f] /\ object'[f][i] = object[f][i]
             \/ f = Target(w) /\ object'[f][i] = Line(w)
        /\ Target(w) \notin contended =>
             object' = object \/ object' = [object EXCEPT ![Target(w)] = Append(@, Line(w))]
        /\ CallAt(w, "cleanup") /\ (call'[w].ok => HasLine(Target(w), Line(w))')
    BY <1>2, Rewrites
  <2>2. KeepsLines
    <3> SUFFICES ASSUME NEW f \in File, NEW e \in EventId, f \notin contended, HasLine(f, e) PROVE HasLine(f, e)'
      BY <1>0 DEF KeepsLines
    <3>1. CASE f = Target(w) /\ object' = [object EXCEPT ![Target(w)] = Append(@, Line(w))]
      <4>1. object[f] \in Seq(EventId) /\ object'[f] = Append(object[f], Line(w))
        BY <1>0, <3>1
      <4>2. \A i \in DOMAIN object[f] : i \in DOMAIN object'[f] /\ object'[f][i] = object[f][i]
        BY <1>0, <4>1, AppendLine
      <4> QED
        BY <4>2 DEF HasLine
    <3>2. CASE f # Target(w) \/ object' = object
      BY <2>1, <3>2 DEF HasLine
    <3> QED
      BY <2>1, <3>1, <3>2
  <2>3. staged' \subseteq File \X EventId
    BY <1>0, <1>2 DEF CopyFirstLine, ComposeLine
  <2>4. "cleanup" \in CallPc \ {"none"}
    BY DEF CallPc
  <2>5. StoreInv'
    BY <1>0, <2>1, <2>2, <2>3, <2>4, CallGoesOn
  <2> QED
    BY <1>0, <2>1, <2>2, <2>4, <2>5
<1>3. CASE DeleteStaging(w)
  <2>1. /\ object' = object /\ staged' \subseteq File \X EventId /\ call[w].pc = "cleanup"
    BY <1>0, <1>3 DEF DeleteStaging
  <2>2. "return" \in CallPc \ {"none"}
    BY DEF CallPc
  <2>3. CallAt(w, "return") /\ call'[w].ok = call[w].ok
    BY <1>0, <1>3, <2>2, GotoType DEF DeleteStaging
  <2>4. KeepsLines
    BY <1>0, <2>1, SameLines
  <2>5. Target(w) \notin contended /\ call'[w].ok => HasLine(Target(w), Line(w))'
    BY <1>0, <2>1, <2>3 DEF AppendKnows, CallAt, HasLine
  <2>6. StoreInv'
    BY <1>0, <2>1, <2>2, <2>3, <2>4, <2>5, CallGoesOn
  <2> QED
    BY <1>0, <2>1, <2>2, <2>3, <2>4, <2>6
<1> QED
  BY <1>1, <1>2, <1>3 DEF StorageCall

(* A new Append knows nothing, but shares no file that stays uncontended. *)
LEMMA BeginStep ==
  ASSUME StoreInv, NEW w \in Writer, NEW f \in File, NEW e \in EventId, BeginAppend(w, f, e)
  PROVE  /\ StoreInv' /\ KeepsLines /\ UNCHANGED <<object, returned>>
         /\ \A v \in Writer \ {w} : call'[v] = call[v]
         /\ call'[w].pc = "stage" /\ Target(w)' = f /\ Line(w)' = e
<1> DEFINE c == [pc |-> "stage", file |-> f, ev |-> e, ok |-> TRUE]
<1>1. /\ call \in [Writer -> Call] /\ call' = [call EXCEPT ![w] = c]
      /\ UNCHANGED <<object, staged, returned>> /\ call[w].pc = "none"
      /\ contended' = contended \cup {g \in {f} : \E v \in Writer : Target(v) = g}
  BY DEF BeginAppend, StoreInv, StoreTypeOK
<1>2. c \in Call
  BY DEF Call, CallPc
<1>3. /\ call' \in [Writer -> Call] /\ call'[w] = c /\ \A v \in Writer \ {w} : call'[v] = call[v]
  BY <1>1, <1>2
<1>4. call'[w].pc = "stage" /\ Target(w)' = f /\ Line(w)' = e
  BY <1>3 DEF Target, Line
<1>5. KeepsLines
  BY <1>1, SameLines
<1>6. \A v \in Writer : Target(v) = f => f \in contended'
  BY <1>1
<1>7. StoreTypeOK'
  BY <1>1, <1>3 DEF StoreInv, StoreTypeOK
<1>8. AppendKnows(w)'
  <2>1. \A v \in Writer \ {w} : Target(v)' = Target(v)
    BY <1>3 DEF Target
  <2> QED
    BY <1>4, <1>6, <2>1 DEF AppendKnows
<1>9. \A v \in Writer \ {w} : AppendKnows(v)'
  <2>1. \A v \in Writer \ {w} : Target(v) = Target(w)' => Target(v) \in contended'
    BY <1>4, <1>6
  <2>2. \A g \in File \ contended' : object'[g] = object[g]
    BY <1>1
  <2> QED
    BY <1>3, <1>5, <2>1, <2>2, OthersKnow
<1>10. ReturnedKept'
  BY <1>1, <1>5, ReturnsLast
<1> QED
  BY <1>1, <1>3, <1>4, <1>5, <1>7, <1>8, <1>9, <1>10 DEF StoreInv

(* An Append that ends, with an answer or without. *)
LEMMA EndStep ==
  ASSUME StoreInv, NEW w \in Writer, AppendDies(w) \/ \E ok \in BOOLEAN : AppendReturns(w, ok)
  PROVE  /\ StoreInv' /\ KeepsLines /\ UNCHANGED <<object, contended>>
         /\ call[w].pc # "none" /\ call'[w] = NoCall /\ \A v \in Writer \ {w} : call'[v] = call[v]
         /\ AppendReturns(w, TRUE) /\ Target(w) \notin contended => HasLine(Target(w), Line(w))
<1>1. /\ call \in [Writer -> Call] /\ call' = [call EXCEPT ![w] = NoCall] /\ call[w].pc # "none"
      /\ UNCHANGED <<object, staged, contended>>
      /\ returned' = returned \/ (returned' = returned \cup {Staging(w)} /\ AppendReturns(w, TRUE))
  BY DEF AppendDies, AppendReturns, StoreInv, StoreTypeOK
<1>2. Staging(w) \in File \X EventId /\ Target(w) \in File /\ Line(w) \in EventId
  BY <1>1, CallType
<1>3. NoCall \in Call /\ NoCall.pc = "none"
  BY DEF Call, NoCall
<1>4. call' \in [Writer -> Call] /\ call'[w] = NoCall /\ \A v \in Writer \ {w} : call'[v] = call[v]
  BY <1>1, <1>3
<1>5. KeepsLines
  BY <1>1, SameLines
<1>6. AppendReturns(w, TRUE) /\ Target(w) \notin contended => HasLine(Target(w), Line(w))
  BY DEF AppendReturns, StoreInv, AppendKnows
<1>7. StoreTypeOK'
  BY <1>1, <1>2, <1>4 DEF StoreInv, StoreTypeOK
<1>8. AppendKnows(w)'
  BY <1>3, <1>4 DEF AppendKnows
<1>9. \A v \in Writer \ {w} : AppendKnows(v)'
  <2>1. \A g \in File \ contended' : object'[g] = object[g]
    BY <1>1
  <2> QED
    BY <1>3, <1>4, <1>5, <2>1, OthersKnow
<1>10. ReturnedKept'
  <2>1. CASE returned' = returned
    BY <1>5, <2>1, ReturnsLast
  <2>2. CASE returned' = returned \cup {Staging(w)} /\ AppendReturns(w, TRUE)
    <3>1. Staging(w)[1] = Target(w) /\ Staging(w)[2] = Line(w)
      BY DEF Staging
    <3> QED
      BY <1>1, <1>6, <2>2, <3>1 DEF StoreInv, ReturnedKept, HasLine
  <2> QED
    BY <1>1, <2>1, <2>2
<1> QED
  BY <1>1, <1>4, <1>5, <1>6, <1>7, <1>8, <1>9, <1>10 DEF StoreInv

(* Every call of every Append keeps the invariant. *)
LEMMA StoreStep ==
  ASSUME StoreInv, StoreNext
  PROVE  StoreInv'
BY StorageCallStep, BeginStep, EndStep DEF StoreNext

(* A step of anything but the store keeps its invariant and its lines. *)
LEMMA StoreStutter ==
  ASSUME StoreInv, UNCHANGED storeVars
  PROVE  StoreInv' /\ KeepsLines
<1>1. StoreTypeOK'
  BY DEF StoreInv, StoreTypeOK, storeVars
<1>2. KeepsLines
  BY SameLines DEF storeVars
<1>3. \A w \in Writer : AppendKnows(w)'
  BY DEF StoreInv, AppendKnows, HasLine, Target, Line, storeVars
<1>4. ReturnedKept'
  BY DEF StoreInv, ReturnedKept, HasLine, storeVars
<1> QED
  BY <1>1, <1>2, <1>3, <1>4 DEF StoreInv

(* GCSJSONLStore keeps what its Appends know in every reachable state.     *)
THEOREM StoreCorrect == StoreSpec => []StoreInv
<1>1. StoreInit => StoreInv
  BY StoreInitInv
<1>2. StoreInv /\ [StoreNext]_storeVars => StoreInv'
  BY StoreStep, StoreStutter
<1> QED
  BY <1>1, <1>2, PTL DEF StoreSpec
-----------------------------------------------------------------------------
(* Refinement: for files that nobody contends for, the store is the log    *)
(* that the JSONLStore interface promises.                                 *)

(* An empty store is an empty log. *)
LEMMA LogInit == StoreInit => Log!Init
BY DEF StoreInit, Log!Init

(* A step that only moves the calls is a stutter of the log. *)
LEMMA LogStutter ==
  ASSUME UNCHANGED <<object, returned, contended>>
  PROVE  UNCHANGED Log!logVars
BY DEF Log!logVars

(* Compose, and the copy of a first line, write; an Append that returns    *)
(* nil confirms; an Append that meets another one contends.                *)
LEMMA LogStep ==
  ASSUME StoreInv, StoreNext
  PROVE  Log!Next \/ UNCHANGED Log!logVars
<1>0. /\ call \in [Writer -> Call] /\ object \in [File -> Seq(EventId)] /\ contended \subseteq File
      /\ returned \subseteq File \X EventId
  BY DEF StoreInv, StoreTypeOK
<1>1. ASSUME NEW w \in Writer, NEW f \in File, NEW e \in EventId, BeginAppend(w, f, e)
      PROVE  Log!Next \/ UNCHANGED Log!logVars
  <2>1. UNCHANGED <<object, returned>> /\ (contended' = contended \/ contended' = contended \cup {f})
    BY <1>1 DEF BeginAppend
  <2>2. CASE contended' = contended
    BY <2>1, <2>2, LogStutter
  <2>3. CASE contended' = contended \cup {f}
    <3>1. Log!Contend(f)
      BY <1>0, <2>1, <2>3 DEF Log!Contend
    <3> QED
      BY <3>1 DEF Log!Next
  <2> QED
    BY <2>1, <2>2, <2>3
<1>2. ASSUME NEW w \in Writer, CopyFirstLine(w) \/ ComposeLine(w)
      PROVE  Log!Next \/ UNCHANGED Log!logVars
  <2>1. /\ UNCHANGED <<returned, contended>> /\ call[w].pc # "none"
        /\ \A f \in File \ {Target(w)} : object'[f] = object[f]
        /\ object' \in [File -> Seq(EventId)]
        /\ Target(w) \notin contended =>
             object' = object \/ object' = [object EXCEPT ![Target(w)] = Append(@, Line(w))]
    BY <1>2, Rewrites DEF CopyFirstLine, ComposeLine
  <2>2. PICK f \in File, e \in EventId : f = Target(w) /\ e = Line(w)
    BY <1>0, <2>1, CallType
  <2>3. CASE object' = object
    BY <2>1, <2>3, LogStutter
  <2>4. CASE f \notin contended /\ object' = [object EXCEPT ![f] = Append(@, e)]
    <3>1. Log!Write(f, e)
      BY <2>1, <2>4, Zenon DEF Log!Write
    <3> QED
      BY <3>1 DEF Log!Next
  <2>5. CASE f \in contended
    <3>1. \A g \in File \ contended : object'[g] = object[g]
      BY <2>1, <2>2, <2>5
    <3> QED
      BY <2>1, <3>1 DEF Log!logVars
  <2> QED
    BY <2>1, <2>2, <2>3, <2>4, <2>5
<1>3. ASSUME NEW w \in Writer, NEW ok \in BOOLEAN, AppendReturns(w, ok)
      PROVE  Log!Next \/ UNCHANGED Log!logVars
  <2>1. UNCHANGED <<object, contended>> /\ call[w].pc # "none"
    BY <1>3 DEF AppendReturns
  <2>2. PICK f \in File, e \in EventId : f = Target(w) /\ e = Line(w)
    BY <1>0, <2>1, CallType
  <2>3. returned' = returned \/ (returned' = returned \cup {<<f, e>>} /\ AppendReturns(w, TRUE))
    BY <1>3, <2>2 DEF AppendReturns, Staging
  <2>4. CASE returned' = returned
    BY <2>1, <2>4, LogStutter
  <2>5. CASE returned' = returned \cup {<<f, e>>} /\ f \in contended
    BY <2>1, <2>5 DEF Log!logVars
  <2>6. CASE returned' = returned \cup {<<f, e>>} /\ f \notin contended /\ AppendReturns(w, TRUE)
    <3>1. \E i \in DOMAIN object[f] : object[f][i] = e
      BY <2>2, <2>6, EndStep DEF HasLine
    <3>2. Log!Confirm(f, e)
      BY <1>0, <2>1, <2>6, <3>1 DEF Log!Confirm
    <3> QED
      BY <3>2 DEF Log!Next
  <2> QED
    BY <2>3, <2>4, <2>5, <2>6
<1>4. ASSUME NEW w \in Writer, WriteStaging(w) \/ CheckTarget(w) \/ DeleteStaging(w) \/ AppendDies(w)
      PROVE  UNCHANGED Log!logVars
  BY <1>4, LogStutter DEF WriteStaging, CheckTarget, DeleteStaging, AppendDies
<1> QED
  BY <1>1, <1>2, <1>3, <1>4 DEF StoreNext, StorageCall

(* What ImplementsLog states, for every number of Appends: gcs_store.go    *)
(* keeps the promise of the JSONLStore interface to callers that write a   *)
(* file one at a time, whichever of its storage calls fail or die.         *)
THEOREM StoreImplementsLog == StoreSpec => ImplementsLog
<1>1. StoreInit => Log!Init
  BY LogInit
<1>2. StoreInv /\ [StoreNext]_storeVars => [Log!Next]_Log!logVars
  BY LogStep, LogStutter DEF storeVars
<1> QED
  BY <1>1, <1>2, StoreCorrect, PTL DEF StoreSpec, ImplementsLog, Log!Spec
-----------------------------------------------------------------------------
(* What a reader of part-0001.jsonl sees of an uncontended file: no step   *)
(* changes or removes a line, and one at most is added, at the end.  A     *)
(* copy can only be the first line there, and a compose never reorders.    *)
OneLineAtATime ==
  \A f \in File : f \notin contended' =>
    object'[f] = object[f] \/ \E e \in EventId : object'[f] = Append(object[f], e)

(* A step of the calls alone touches no line. *)
LEMMA NoLine ==
  ASSUME object' = object
  PROVE  OneLineAtATime
BY DEF OneLineAtATime

(* Copy and Compose are the only calls that touch one. *)
LEMMA LineStep ==
  ASSUME StoreInv, StoreNext
  PROVE  OneLineAtATime
<1>1. ASSUME NEW w \in Writer, CopyFirstLine(w) \/ ComposeLine(w)
      PROVE  OneLineAtATime
  <2>1. /\ contended' = contended /\ call[w].pc # "none"
        /\ object \in [File -> Seq(EventId)] /\ call \in [Writer -> Call]
    BY <1>1 DEF CopyFirstLine, ComposeLine, StoreInv, StoreTypeOK
  <2>2. /\ \A f \in File \ {Target(w)} : object'[f] = object[f]
        /\ Target(w) \notin contended =>
             object' = object \/ object' = [object EXCEPT ![Target(w)] = Append(@, Line(w))]
    BY <1>1, Rewrites
  <2>3. Line(w) \in EventId
    BY <2>1, CallType
  <2> SUFFICES ASSUME NEW f \in File, f \notin contended
               PROVE  object'[f] = object[f] \/ \E e \in EventId : object'[f] = Append(object[f], e)
    BY <2>1 DEF OneLineAtATime
  <2>4. CASE f # Target(w) \/ object' = object
    BY <2>2, <2>4
  <2>5. CASE f = Target(w) /\ object' # object
    <3>1. object'[f] = Append(object[f], Line(w))
      BY <2>1, <2>2, <2>5
    <3> QED
      BY <2>3, <3>1
  <2> QED
    BY <2>4, <2>5
<1>2. ASSUME NEW w \in Writer,
             \/ WriteStaging(w) \/ CheckTarget(w) \/ DeleteStaging(w) \/ AppendDies(w)
             \/ \E f \in File, e \in EventId : BeginAppend(w, f, e)
             \/ \E ok \in BOOLEAN : AppendReturns(w, ok)
      PROVE  OneLineAtATime
  BY <1>2, NoLine DEF WriteStaging, CheckTarget, DeleteStaging, AppendDies, BeginAppend, AppendReturns
<1> QED
  BY <1>1, <1>2 DEF StoreNext, StorageCall

(* The append-only promise of store.go as an action property, for any      *)
(* number of Appends, failed and retried calls and deaths: an uncontended  *)
(* object is never rewritten, only continued.                              *)
THEOREM FilesOnlyGrow == StoreSpec => [][OneLineAtATime]_storeVars
<1>1. StoreInv /\ [StoreNext]_storeVars => [OneLineAtATime]_storeVars
  BY LineStep
<1> QED
  BY <1>1, StoreCorrect, PTL DEF StoreSpec

(* "ReadAll returns every line previously Appended", as long as no two     *)
(* Appends have met on a file.                                             *)
THEOREM ReturnedIsReadableAlone == StoreSpec => [](contended = {} => ReturnedIsReadable)
<1>1. StoreInv => (contended = {} => ReturnedIsReadable)
  <2> SUFFICES ASSUME StoreInv, contended = {}, NEW r \in returned PROVE LinesOf(r[1], r[2]) # {}
    BY DEF ReturnedIsReadable
  <2>1. HasLine(r[1], r[2])
    BY DEF StoreInv, ReturnedKept
  <2> QED
    BY <2>1 DEF HasLine, LinesOf
<1> QED
  BY <1>1, StoreCorrect, PTL
=============================================================================
