--------------------------- MODULE MCThread_Pool ---------------------------
(* Instances of Thread_Pool for TLC. *)
EXTENDS Thread_Pool, TLC

WorkerSymmetry == Permutations(Workers)

\* ShrinksBack asks nothing of a pool that has been stopped.
UntilStop == ~isStop
=============================================================================
