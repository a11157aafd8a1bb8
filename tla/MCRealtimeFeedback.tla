------------------------- MODULE MCRealtimeFeedback -------------------------
(* Model values and symmetry for the runs of RealtimeFeedback. *)
EXTENDS RealtimeFeedback, TLC

ConnSymmetry == Permutations(Conn)
=============================================================================
