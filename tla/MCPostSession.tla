--------------------------- MODULE MCPostSession ---------------------------
EXTENDS PostSession

(* The source of the events of a run: one read first, one read last. *)
Sources == [e \in Event |-> IF e = "sample" THEN "samples" ELSE "visual"]
=============================================================================
