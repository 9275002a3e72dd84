-------------------------- MODULE MCTaskLifecycle --------------------------
(* Small instances of TaskLifecycle for TLC. *)
EXTENDS TaskLifecycle, TLC

MCSymmetry == Permutations(Starters) \cup Permutations(Pausers)

\* bound: a restart numbers the generations anew; it gets fewer of them
ShortAfterCrash == crashes > 0 => gen < MaxGen
=============================================================================
