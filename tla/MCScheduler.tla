---------------------------- MODULE MCScheduler ----------------------------
(* Small instances of Scheduler for TLC. *)
EXTENDS Scheduler

MCSymmetry == Permutations(Tasks) \cup Permutations(Callers \ Hooks)
=============================================================================
