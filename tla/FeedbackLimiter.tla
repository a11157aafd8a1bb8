-------------------------- MODULE FeedbackLimiter ---------------------------
(***************************************************************************)
(* What the feedback cooldown promises of one session: every source of     *)
(* feedback -- a connection's read loop or its ticker -- emits at most one *)
(* feedback event per Period.  RealtimeFeedback, with its shared expiring  *)
(* key, its failing calls and its interleaved pipelines, implements this.  *)
(***************************************************************************)
EXTENDS Integers, Sequences

CONSTANTS Emitter, Period

VARIABLES
  now,      \* the clock
  emitted   \* who emitted and when, in order

limiterVars == <<now, emitted>>

Init == now = 0 /\ emitted = <<>>

Emit(e) ==
  /\ \A i \in DOMAIN emitted : emitted[i].by = e => emitted[i].at + Period <= now
  /\ emitted' = Append(emitted, [by |-> e, at |-> now])
  /\ UNCHANGED now

Advance == now' = now + 1 /\ UNCHANGED emitted

Next == Advance \/ \E e \in Emitter : Emit(e)

Spec == Init /\ [][Next]_limiterVars
=============================================================================
