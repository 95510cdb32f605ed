----------------------------- MODULE MCScheduler -----------------------------
(***************************************************************************)
(* The scheduler for TLC: coroutines and descriptors are interchangeable.  *)
(***************************************************************************)
EXTENDS Scheduler

Symmetry == Permutations(Co) \cup Permutations(Fds)

=============================================================================
