---------------------------- MODULE MCSttStreams ----------------------------
(* Constants for TLC: the configurations give every value directly. *)
EXTENDS SttStreams
=============================================================================
