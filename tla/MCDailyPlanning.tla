-------------------------- MODULE MCDailyPlanning --------------------------
(* Small instances of DailyPlanning. *)
EXTENDS DailyPlanning, TLC

\* Threads are interchangeable. Drivers are not: some belong to the demo fleet.
Symmetry == Permutations(Requests)
=============================================================================
