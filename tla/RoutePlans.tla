----------------------------- MODULE RoutePlans -----------------------------
(***************************************************************************)
(* Routing scenarios and plans, and the pure functions that replanning is  *)
(* made of: validation (services/validation.py), conservative repair       *)
(* (agentic/repair.py), the effect of an operational event                 *)
(* (services/mutations.py), the plan built from a policy's route sequences *)
(* (services/counterfactual.py), the integer program and the walk that     *)
(* reads its solution (solvers/pyomo_highs.py).                            *)
(*                                                                         *)
(* Coordinates and distances are left out: they decide which valid plan is *)
(* best, never which plan is valid. A customer that is not both active and *)
(* required is not open, and only open customers are planned for.          *)
(***************************************************************************)
EXTENDS Integers, FiniteSets, Functions, Picking

CONSTANTS
    Depot,      \* the depot's id
    Customers,  \* the ids of customers
    Stray,      \* an id no scenario has, in a policy's answer
    Demand,     \* Demand[c]: what customer c is sent
    Capacity    \* Capacity[v]: what vehicle v carries

ASSUME NodesAssumption == Depot \notin Customers /\ Stray \notin Customers \cup {Depot}

\* Customer.demand and Vehicle.capacity are int, of either sign: nothing checks it.
ASSUME AmountsAssumption ==
    Demand \in [Customers -> Int] /\ Capacity \in [DOMAIN Capacity -> Int]

\* A scenario: id is the events applied since it was loaded, which its id text
\* spells out; known are the customers it lists, open those to serve, fleet its
\* vehicles in order, blocked its blocked arcs.
Active(s) == s.open
Nodes(s) == {Depot} \cup s.known
Fleet(s) == {s.fleet[k] : k \in DOMAIN s.fleet}

\* A plan: the id of the scenario it is for, and routes of a vehicle and stops.
Interior(r) == 2..(Len(r.stops) - 1)
Arcs(r) == {<<r.stops[i], r.stops[i + 1]>> : i \in 1..(Len(r.stops) - 1)}
RouteOf(v, stops) == [vehicle |-> v, stops |-> stops]
VehicleRoute == [vehicle : DOMAIN Capacity \cup {Stray}, stops : Seq({Depot, Stray} \cup Customers)]

-----------------------------------------------------------------------------
(* validate_plan.                                                          *)

\* The positions of a plan at which an open customer is counted as visited.
Visits(s, p, c) ==
    {at \in UNION {{k} \X Interior(p.routes[k]) : k \in DOMAIN p.routes} :
        LET r == p.routes[at[1]] IN
        r.vehicle \in Fleet(s) /\ c \in Active(s) /\ r.stops[at[2]] = c}

Load(s, r) ==
    LET counted == {i \in Interior(r) : r.stops[i] \in Active(s)}
    IN  SumFunction([i \in counted |-> Demand[r.stops[i]]])

KnownRoutes(s, p) == {k \in DOMAIN p.routes : p.routes[k].vehicle \in Fleet(s)}

BoundaryBroken(r) ==
    \/ Len(r.stops) < 2
    \/ r.stops[1] # Depot
    \/ r.stops[Len(r.stops)] # Depot

\* The codes of the violations found. A route of an unknown vehicle is not
\* looked at further, and the capacity is that of a route.
Codes == {"scenario_mismatch", "unknown_vehicle", "route_depot_boundary",
          "inactive_or_unknown_customer", "capacity_violation", "blocked_arc_used",
          "missing_customer", "duplicate_customer"}

Found(s, p) ==
  LET known == {p.routes[k] : k \in KnownRoutes(s, p)} IN
  [ scenario_mismatch |-> p.scenario # s.id,
    unknown_vehicle |-> KnownRoutes(s, p) # DOMAIN p.routes,
    route_depot_boundary |-> \E r \in known : BoundaryBroken(r),
    inactive_or_unknown_customer |->
        \E r \in known : \E i \in Interior(r) : r.stops[i] \notin Active(s),
    capacity_violation |-> \E r \in known : Load(s, r) > Capacity[r.vehicle],
    blocked_arc_used |-> \E r \in known : Arcs(r) \cap s.blocked # {},
    missing_customer |-> \E c \in Active(s) : Visits(s, p, c) = {},
    duplicate_customer |->
        \E c \in Active(s) : \E x, y \in Visits(s, p, c) : x # y ]

Violations(s, p) == LET found == Found(s, p) IN {code \in Codes : found[code]}

Passed(s, p) == Violations(s, p) = {}

\* What a plan has to be, without reference to validate_plan: each route is a
\* round trip of a vehicle of its own over open customers, every open customer is
\* on exactly one of them once, no load exceeds its vehicle, no arc is blocked.
Feasible(s, p) ==
    /\ \A k \in DOMAIN p.routes : LET r == p.routes[k] IN
         /\ r.vehicle \in Fleet(s)
         /\ \A l \in DOMAIN p.routes : p.routes[l].vehicle = r.vehicle => l = k
         /\ Len(r.stops) >= 2
         /\ \A i \in DOMAIN r.stops :
              IF i \in {1, Len(r.stops)} THEN r.stops[i] = Depot
                                         ELSE r.stops[i] \in Active(s)
         /\ ~(Load(s, r) > Capacity[r.vehicle])
         /\ \A i \in 1..(Len(r.stops) - 1) : <<r.stops[i], r.stops[i + 1]>> \notin s.blocked
    /\ \A c \in Active(s) : \E k \in DOMAIN p.routes : \E i \in DOMAIN p.routes[k].stops :
         /\ p.routes[k].stops[i] = c
         /\ \A l \in DOMAIN p.routes : \A j \in DOMAIN p.routes[l].stops :
              p.routes[l].stops[j] = c => l = k /\ j = i

-----------------------------------------------------------------------------
(* repair_candidate_plan.                                                  *)

\* Where a plan visits a stop, in the order the loops come to it.
Before(x, y) == x[1] < y[1] \/ (x[1] = y[1] /\ x[2] < y[2])

\* Mutant: seen starts anew with every route.
MutKeeps(s, p, k, i) ==
    LET stop == p.routes[k].stops[i] IN
    /\ stop \in Active(s)
    /\ \A j \in 1..(i - 1) : p.routes[k].stops[j] # stop

\* A stop stays if it is an open customer not yet seen on a route that stays.
Keeps(s, p, k, i) ==
    LET stop == p.routes[k].stops[i] IN
    /\ stop \in Active(s)
    /\ \A l \in KnownRoutes(s, p) : \A j \in DOMAIN p.routes[l].stops :
         Before(<<l, j>>, <<k, i>>) => p.routes[l].stops[j] # stop

Kept(s, p, k) ==
    LET stops == p.routes[k].stops
    IN  Pick(stops, {i \in DOMAIN stops : Keeps(s, p, k, i)})

RoundTrip(customers) == <<Depot>> \o customers \o <<Depot>>

\* A route of which nothing is kept goes.
Repair(s, p) ==
    LET mended == [k \in DOMAIN p.routes |->
                     RouteOf(p.routes[k].vehicle, RoundTrip(Kept(s, p, k)))]
    IN  [ scenario |-> s.id,
          routes |-> Pick(mended, {k \in KnownRoutes(s, p) : Kept(s, p, k) # <<>>}) ]

-----------------------------------------------------------------------------
(* apply_event: the scenario after an operational event.                   *)

Blocking(from, to, both) == [type |-> "block", from |-> from, to |-> to, both |-> both]
Unavailable(c) == [type |-> "unavailable", customer |-> c]
Priority(c) == [type |-> "priority", customer |-> c]

Events == [type : {"block"}, from : {Depot} \cup Customers, to : {Depot} \cup Customers,
           both : BOOLEAN]
          \cup [type : {"unavailable", "priority"}, customer : Customers]

\* What the new id appends to the old one: not whether both ways are blocked.
Tag(e) == IF e.type = "block" THEN <<"block", e.from, e.to>> ELSE <<e.type, e.customer>>

Ways(e) == {<<e.from, e.to>>} \cup (IF e.both THEN {<<e.to, e.from>>} ELSE {})

\* Mutant: only the way named is blocked.
MutApplyEvent(s, e) ==
    IF e.type = "block"
      THEN [s EXCEPT !.id = Append(@, Tag(e)), !.blocked = @ \cup {<<e.from, e.to>>}]
      ELSE [s EXCEPT !.id = Append(@, Tag(e)),
                     !.open = IF e.type = "unavailable" THEN @ \ {e.customer} ELSE @]

ApplyEvent(s, e) ==
    IF e.type = "block"
      THEN [s EXCEPT !.id = Append(@, Tag(e)), !.blocked = @ \cup Ways(e)]
      ELSE [s EXCEPT !.id = Append(@, Tag(e)),
                     !.open = IF e.type = "unavailable" THEN @ \ {e.customer} ELSE @]

-----------------------------------------------------------------------------
(* build_plan_from_route_sequences, for the answer of a routing policy: an *)
(* object whose keys are vehicle ids, so no id comes twice.                *)

StartAtDepot(stops) == IF stops = <<>> \/ stops[1] # Depot THEN <<Depot>> \o stops ELSE stops
EndAtDepot(stops) == IF stops[Len(stops)] # Depot THEN Append(stops, Depot) ELSE stops

Built(s, answer) ==
    [ scenario |-> s.id,
      routes |-> [k \in DOMAIN answer |->
                    RouteOf(answer[k].vehicle, EndAtDepot(StartAtDepot(answer[k].stops)))] ]

\* scenario.distance raises KeyError on a node that the scenario does not list.
Buildable(s, answer) ==
    \A k \in DOMAIN answer :
        \A arc \in Arcs(Built(s, answer).routes[k]) : arc \in Nodes(s) \X Nodes(s)

\* The base plan under the new scenario's id.
Relabelled(s, p) == [p EXCEPT !.scenario = s.id]

=============================================================================
