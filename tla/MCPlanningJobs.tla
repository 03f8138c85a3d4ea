--------------------------- MODULE MCPlanningJobs ---------------------------
(* Small instances of PlanningJobs: model values for jobs, threads and pids. *)
EXTENDS PlanningJobs, TLC

\* Jobs, threads and pids are interchangeable. Not used by the liveness runs.
Symmetry ==
    Permutations(Jobs) \cup Permutations(Threads) \cup Permutations(Pids)

\* The bound of the run jobs_quiet: after a fault two handlers overlap only while
\* one job at most has been created.
FewAtOnce ==
    \/ faults = 0
    \/ Cardinality({t \in Threads : tpc[t] # "idle"}) <= 1
    \/ Cardinality({j \in Jobs : creator[j] # "none"}) <= 1

QuietNext == Next /\ FewAtOnce'

QuietSpec == Init /\ [][QuietNext]_vars
=============================================================================
