---------------------------- MODULE RouteSolver ----------------------------
(***************************************************************************)
(* The integer program PyomoHighsEngine gives to HiGHS and the plan it     *)
(* reads from a solution (solvers/pyomo_highs.py). A solution is, for each *)
(* vehicle k, the set x[k] of arcs whose variable is 1. y and used follow  *)
(* from x by the flow constraints. HiGHS is taken to return some solution, *)
(* any one since distances are left out, and to fail only as the code      *)
(* expects it to: no solution, a limit, an exception.                      *)
(***************************************************************************)
EXTENDS RoutePlans

PlannedNodes(s) == {Depot} \cup Active(s)
ArcsOf(s) == {a \in PlannedNodes(s) \X PlannedNodes(s) : a[1] # a[2]}

From(X, n) == {a \in X : a[1] = n}
To(X, n) == {a \in X : a[2] = n}

\* y[c, k] and used[k]
Assigned(X, c) == From(X, c) # {}
Used(X) == From(X, Depot) # {}

Flow(s, X) ==
    \A n \in PlannedNodes(s) :
        Cardinality(From(X, n)) = Cardinality(To(X, n)) /\ Cardinality(From(X, n)) <= 1

\* Mutant: a position no larger than the next one's is enough.
MutOrdered(s, X) ==
    LET n == Cardinality(Active(s)) IN
    \E u \in [Active(s) -> 0..n] : \A i, j \in Active(s) : <<i, j>> \in X => u[i] <= u[j]

\* order_lower, order_upper, mtz. u is real in the program; a system of bounds on
\* differences by integers that has a solution has an integral one.
Ordered(s, X) ==
    LET n == Cardinality(Active(s)) IN
    \E u \in [Active(s) -> 0..n] :
        /\ \A c \in Active(s) : IF Assigned(X, c) THEN u[c] >= 1 ELSE u[c] = 0
        /\ \A i, j \in Active(s) : i # j =>
             u[i] - u[j] + (IF <<i, j>> \in X THEN n ELSE 0) <= n - 1

WithinCapacity(s, v, X) ==
    SumFunctionOnSet(Demand, {c \in Active(s) : Assigned(X, c)}) <= Capacity[v]

\* The constraints of one vehicle.
Tours(s, v) ==
    {X \in SUBSET (ArcsOf(s) \ s.blocked) :
        /\ Flow(s, X)
        /\ \A c \in Active(s) : Assigned(X, c) => Used(X)
        /\ WithinCapacity(s, v, X)
        /\ Ordered(s, X)}

VisitOnce(s, x) ==
    \A c \in Active(s) : Cardinality({v \in Fleet(s) : Assigned(x[v], c)}) = 1

Solutions(s) ==
    LET tours == [v \in Fleet(s) |-> Tours(s, v)] IN
    {x \in [Fleet(s) -> UNION {tours[v] : v \in Fleet(s)}] :
        (\A v \in Fleet(s) : x[v] \in tours[v]) /\ VisitOnce(s, x)}

\* _extract_plan: from the depot along the arcs until it, or a node already
\* visited, is reached.
Walk(s, X) ==
    LET stops[n \in Nat] ==
          IF n = 0 THEN <<Depot>> ELSE
            LET w == stops[n - 1]
                here == w[Len(w)]
                done == Len(w) > 1 /\ \E i \in 1..(Len(w) - 1) : w[i] = here
            IN  IF done \/ From(X, here) = {} THEN w
                  ELSE Append(w, (CHOOSE a \in From(X, here) : TRUE)[2])
    IN  stops[Cardinality(Active(s)) + 1]

\* A vehicle that stays at the depot gets no route.
Extract(s, x) ==
    LET routes == [k \in DOMAIN s.fleet |-> RouteOf(s.fleet[k], Walk(s, x[s.fleet[k]]))]
    IN  [ scenario |-> s.id,
          routes |-> Pick(routes, {k \in DOMAIN routes : Len(routes[k].stops) > 1}) ]

SolverPlans(s) == {Extract(s, x) : x \in Solutions(s)}

-----------------------------------------------------------------------------
\* The orders in which a vehicle can visit some open customers.
Orders(s) ==
    UNION {{f \in [1..n -> Active(s)] : IsInjective(f)} : n \in 0..Cardinality(Active(s))}

\* The plan in which vehicle v takes the order g[v], without the vehicles that have none.
PlanOf(s, g) ==
    LET routes == [k \in DOMAIN s.fleet |-> RouteOf(s.fleet[k], RoundTrip(g[s.fleet[k]]))]
    IN  [ scenario |-> s.id,
          routes |-> Pick(routes, {k \in DOMAIN routes : Len(routes[k].stops) > 2}) ]

RoundTripPlans(s) == {PlanOf(s, g) : g \in [Fleet(s) -> Orders(s)]}

\* A fleet as the generator, the demo and an order list make it. A file is not looked
\* at for it, nor is the list of drivers.
FleetInOrder(s) == IsInjective(s.fleet) /\ \A v \in Fleet(s) : Capacity[v] >= 0

\* The program says what a plan has to be: its solutions are the feasible plans,
\* so a plan it returns is one, and when it has none there is none.
SolverIsExactFor(s) ==
    FleetInOrder(s) => SolverPlans(s) = {p \in RoundTripPlans(s) : Feasible(s, p)}

=============================================================================
