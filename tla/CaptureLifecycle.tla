-------------------------- MODULE CaptureLifecycle --------------------------
(***************************************************************************)
(* What the Media API promises of a captured frame: it is registered, then *)
(* its bytes are confirmed, then it is announced, in this order and never  *)
(* back.  What is confirmed had its bytes.                                 *)
(***************************************************************************)
CONSTANT Capture

VARIABLES
  stage,  \* new, registered, confirmed, announced
  bytes   \* captures whose frame is in storage

vars == <<stage, bytes>>

Init ==
  /\ stage = [c \in Capture |-> "new"]
  /\ bytes = {}

Advance(c, from, to) ==
  /\ stage[c] = from
  /\ stage' = [stage EXCEPT ![c] = to]
  /\ UNCHANGED bytes

Register(c) == Advance(c, "new", "registered")
Confirm(c) == c \in bytes /\ Advance(c, "registered", "confirmed")
Announce(c) == Advance(c, "confirmed", "announced")

Store(c) ==
  /\ stage[c] # "new"
  /\ bytes' = bytes \cup {c}
  /\ UNCHANGED stage

Next == \E c \in Capture : Register(c) \/ Store(c) \/ Confirm(c) \/ Announce(c)

Spec == Init /\ [][Next]_vars
=============================================================================
