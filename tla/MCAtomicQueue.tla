---------------------------- MODULE MCAtomicQueue ---------------------------
(* Instances of the queue for TLC. *)
EXTENDS AtomicQueue, TLC

\* Writers are alike and readers are alike: no action tells them apart.  Sound
\* for the invariants and the refinement; not used with liveness.
ThreadSymmetry == Permutations(Writers) \cup Permutations(Readers)
=============================================================================
