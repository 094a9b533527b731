------------------------------ MODULE MCBuffer ------------------------------
(* Instances of Buffer for TLC. *)
EXTENDS Buffer, FiniteSets

CONSTANT MaxBatch       \* the longest range a caller enqueues

AllBatches == UNION {[1 .. n -> Elems] : n \in 0 .. MaxBatch}
=============================================================================
