-------------------------- MODULE MCMarkovBackend --------------------------
(* Instances of the backend for TLC. *)
EXTENDS MarkovBackend

\* The shortest ring that one thread cannot lap.
ShortestRing == (CAPACITY + 2) * TASK_SIZE + 1
ASSUME RingAssumption == BIN_SLOTS >= ShortestRing
=============================================================================
