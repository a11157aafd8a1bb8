-------------------------- MODULE MCDurableWriter --------------------------
EXTENDS DurableWriter, TLC

(* The kind of payload of the events of a run. *)
Kinds == [e \in EventId |->
            CASE e \in {"s1", "s2"} -> "sample"
              [] e = "t1" -> "trigger"
              [] e = "p1" -> "feedback"
              [] e = "c1" -> "transcript"]

WriterSymmetry == Permutations(Writer)
=============================================================================
