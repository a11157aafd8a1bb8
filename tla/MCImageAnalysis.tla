-------------------------- MODULE MCImageAnalysis --------------------------
EXTENDS ImageAnalysis, TLC

(* c1 and c2 are two baseline frames of one participant. *)
Frames == [c \in Capture |-> IF c = "e1" THEN Evidence ELSE "ana"]

WorkerSymmetry == Permutations(Worker)
=============================================================================
