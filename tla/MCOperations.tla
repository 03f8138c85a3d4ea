---------------------------- MODULE MCOperations ----------------------------
(***************************************************************************)
(* One run for the planning jobs, which take daily planning as one step,   *)
(* and for the drivers and routes it works on: in each behaviour one of    *)
(* the two moves, the other stays as it is at first.                       *)
(***************************************************************************)
EXTENDS PlanningJobs, DailyPlanning, TLC

VARIABLE part  \* the component that moves

OperationsInit ==
    /\ part \in {"jobs", "fleet"}
    /\ Init
    /\ FleetInit /\ (part = "jobs" => \A d \in Drivers : drivers[d] = None)

OperationsNext ==
    \/ part = "jobs" /\ Next /\ UNCHANGED <<part, fleetVars>>
    \/ part = "fleet" /\ FleetNext /\ UNCHANGED <<part, vars>>

OperationsSpec == OperationsInit /\ [][OperationsNext]_<<part, vars, fleetVars>>

\* Jobs and threads are interchangeable. Drivers are not: some belong to the demo
\* fleet.
OperationsSymmetry == Permutations(Jobs) \cup Permutations(Requests)
=============================================================================
