-------------------------- MODULE RoutePlansProofs --------------------------
(***************************************************************************)
(* Facts about validation, repair, the plan built from an answer and the   *)
(* plan read from a solution, for every scenario and every plan; and that  *)
(* the integer program is exact, for any number of customers and vehicles. *)
(***************************************************************************)
EXTENDS RouteSolver, ReplanAnswers, DataLemmas, FiniteSetTheorems

NodeIds == {Depot, Stray} \cup Customers

\* A scenario with customers of its own, and a fleet.
IsScenario(s) ==
    /\ s.known \subseteq Customers /\ IsFiniteSet(s.known)
    /\ s.open \subseteq s.known
    /\ s.fleet \in Seq(DOMAIN Capacity)

\* Routes as they come: a vehicle with two routes has one twice that leaves the depot,
\* which happens when a fleet lists it twice.
IsPlan(p) ==
    /\ p.routes \in Seq(VehicleRoute)
    /\ \A k, l \in DOMAIN p.routes :
         k # l /\ p.routes[k].vehicle = p.routes[l].vehicle =>
             LET stops == p.routes[k].stops IN
             stops = p.routes[l].stops /\ Len(stops) > 1 /\ stops[2] # Depot

LEMMA RouteOfPlan ==
    ASSUME NEW p, IsPlan(p), NEW k \in DOMAIN p.routes
    PROVE  /\ k \in 1..Len(p.routes) /\ Len(p.routes) \in Nat
           /\ p.routes[k].stops \in Seq(NodeIds)
           /\ p.routes[k].vehicle \in DOMAIN Capacity \cup {Stray}
           /\ Len(p.routes[k].stops) \in Nat
           /\ DOMAIN p.routes[k].stops = 1..Len(p.routes[k].stops)
<1>1. p.routes \in Seq(VehicleRoute)
    BY DEF IsPlan
<1>2. k \in 1..Len(p.routes) /\ Len(p.routes) \in Nat /\ p.routes[k] \in VehicleRoute
    BY <1>1
<1>3. p.routes[k].stops \in Seq(NodeIds) /\ p.routes[k].vehicle \in DOMAIN Capacity \cup {Stray}
    BY <1>2 DEF VehicleRoute, NodeIds
<1> QED
    BY <1>2, <1>3

-----------------------------------------------------------------------------
(* Validation.                                                             *)

LEMMA VisitsMeans ==
    ASSUME NEW s, NEW p, NEW c
    PROVE  /\ \A k \in DOMAIN p.routes : \A i \in Interior(p.routes[k]) :
                <<k, i>> \in Visits(s, p, c) <=> /\ p.routes[k].vehicle \in Fleet(s)
                                                 /\ c \in Active(s) /\ p.routes[k].stops[i] = c
           /\ \A x \in Visits(s, p, c) :
                \E k \in DOMAIN p.routes : \E i \in Interior(p.routes[k]) : x = <<k, i>>
<1> DEFINE all == UNION {{k} \X Interior(p.routes[k]) : k \in DOMAIN p.routes}
<1>1. Visits(s, p, c) =
        {at \in all : /\ p.routes[at[1]].vehicle \in Fleet(s) /\ c \in Active(s)
                      /\ p.routes[at[1]].stops[at[2]] = c}
    BY DEF Visits
<1>2. \A k \in DOMAIN p.routes : \A i \in Interior(p.routes[k]) : <<k, i>> \in all
    OBVIOUS
<1>3. \A x \in all : \E k \in DOMAIN p.routes : \E i \in Interior(p.routes[k]) : x = <<k, i>>
    OBVIOUS
<1> HIDE DEF all
<1> QED
    BY <1>1, <1>2, <1>3

\* A plan passes when none of the violations is found.
LEMMA PassedMeans ==
    ASSUME NEW s, NEW p
    PROVE  Passed(s, p) <=>
             LET known == {p.routes[k] : k \in KnownRoutes(s, p)} IN
             /\ p.scenario = s.id
             /\ KnownRoutes(s, p) = DOMAIN p.routes
             /\ \A r \in known : ~BoundaryBroken(r)
             /\ \A r \in known : \A i \in Interior(r) : r.stops[i] \in Active(s)
             /\ \A r \in known : ~(Load(s, r) > Capacity[r.vehicle])
             /\ \A r \in known : Arcs(r) \cap s.blocked = {}
             /\ \A c \in Active(s) : Visits(s, p, c) # {}
             /\ \A c \in Active(s) : \A x, y \in Visits(s, p, c) : x = y
<1>1. Passed(s, p) <=> \A code \in Codes : ~Found(s, p)[code]
    BY DEF Passed, Violations
<1>2. Passed(s, p) <=>
        /\ ~Found(s, p).scenario_mismatch /\ ~Found(s, p).unknown_vehicle
        /\ ~Found(s, p).route_depot_boundary /\ ~Found(s, p).inactive_or_unknown_customer
        /\ ~Found(s, p).capacity_violation /\ ~Found(s, p).blocked_arc_used
        /\ ~Found(s, p).missing_customer /\ ~Found(s, p).duplicate_customer
    BY <1>1 DEF Codes
<1> DEFINE known == {p.routes[k] : k \in KnownRoutes(s, p)}
<1>3. /\ Found(s, p).scenario_mismatch <=> p.scenario # s.id
      /\ Found(s, p).unknown_vehicle <=> KnownRoutes(s, p) # DOMAIN p.routes
      /\ Found(s, p).route_depot_boundary <=> \E r \in known : BoundaryBroken(r)
      /\ Found(s, p).inactive_or_unknown_customer <=>
            \E r \in known : \E i \in Interior(r) : r.stops[i] \notin Active(s)
      /\ Found(s, p).capacity_violation <=> \E r \in known : Load(s, r) > Capacity[r.vehicle]
      /\ Found(s, p).blocked_arc_used <=> \E r \in known : Arcs(r) \cap s.blocked # {}
      /\ Found(s, p).missing_customer <=> \E c \in Active(s) : Visits(s, p, c) = {}
      /\ Found(s, p).duplicate_customer <=>
            \E c \in Active(s) : \E x, y \in Visits(s, p, c) : x # y
    BY DEF Found
<1> HIDE DEF known
<1>4. Passed(s, p) <=>
             /\ p.scenario = s.id
             /\ KnownRoutes(s, p) = DOMAIN p.routes
             /\ \A r \in known : ~BoundaryBroken(r)
             /\ \A r \in known : \A i \in Interior(r) : r.stops[i] \in Active(s)
             /\ \A r \in known : ~(Load(s, r) > Capacity[r.vehicle])
             /\ \A r \in known : Arcs(r) \cap s.blocked = {}
             /\ \A c \in Active(s) : Visits(s, p, c) # {}
             /\ \A c \in Active(s) : \A x, y \in Visits(s, p, c) : x = y
    BY <1>2, <1>3
<1> QED
    BY <1>4 DEF known

\* Two routes of one vehicle in a plan that passes would visit a customer twice.
LEMMA PassedIsApart ==
    ASSUME NEW s, IsScenario(s), NEW p, IsPlan(p), Passed(s, p),
           NEW k \in DOMAIN p.routes, NEW l \in DOMAIN p.routes,
           p.routes[k].vehicle = p.routes[l].vehicle
    PROVE  k = l
<1> SUFFICES ASSUME k # l PROVE FALSE
    OBVIOUS
<1> DEFINE stops == p.routes[k].stops
           c == stops[2]
<1>1. p.routes[l].stops = stops /\ Len(stops) > 1 /\ c # Depot
    BY DEF IsPlan
<1>2. /\ KnownRoutes(s, p) = DOMAIN p.routes
      /\ ~BoundaryBroken(p.routes[k])
      /\ \A m \in DOMAIN p.routes : \A i \in Interior(p.routes[m]) : p.routes[m].stops[i] \in Active(s)
      /\ \A d \in Active(s) : \A x, y \in Visits(s, p, d) : x = y
    BY PassedMeans
<1>3. Len(stops) \in Nat /\ stops[Len(stops)] = Depot
    BY <1>2, RouteOfPlan DEF BoundaryBroken
<1>4. Len(stops) # 2
    BY <1>1, <1>3
<1>5. 2 \in Interior(p.routes[k]) /\ 2 \in Interior(p.routes[l])
    BY <1>1, <1>3, <1>4 DEF Interior
<1>6. c \in Active(s) /\ p.routes[k].vehicle \in Fleet(s)
    BY <1>2, <1>5 DEF KnownRoutes
<1>7. <<k, 2>> \in Visits(s, p, c) /\ <<l, 2>> \in Visits(s, p, c)
    BY <1>1, <1>5, <1>6, VisitsMeans
<1>8. <<k, 2>> = <<l, 2>>
    BY <1>2, <1>6, <1>7
<1> QED
    BY <1>8

\* What validate_plan lets through is what a plan has to be.
LEMMA PassedIsFeasible ==
    ASSUME NEW s, IsScenario(s), NEW p, IsPlan(p), Passed(s, p)
    PROVE  Feasible(s, p)
<1>1. Depot \notin Active(s)
    BY NodesAssumption DEF IsScenario, Active
<1>2. /\ \A k \in DOMAIN p.routes : /\ p.routes[k].vehicle \in Fleet(s)
                                    /\ ~BoundaryBroken(p.routes[k])
                                    /\ ~(Load(s, p.routes[k]) > Capacity[p.routes[k].vehicle])
                                    /\ Arcs(p.routes[k]) \cap s.blocked = {}
      /\ \A k \in DOMAIN p.routes : \A i \in Interior(p.routes[k]) : p.routes[k].stops[i] \in Active(s)
      /\ \A c \in Active(s) : Visits(s, p, c) # {}
      /\ \A c \in Active(s) : \A x, y \in Visits(s, p, c) : x = y
  <2>1. KnownRoutes(s, p) = DOMAIN p.routes
    BY PassedMeans
  <2>2. \A k \in DOMAIN p.routes : p.routes[k].vehicle \in Fleet(s)
    BY <2>1 DEF KnownRoutes
  <2> QED
    BY <2>1, <2>2, PassedMeans
<1>3. ASSUME NEW k \in DOMAIN p.routes
      PROVE  LET r == p.routes[k] IN
         /\ r.vehicle \in Fleet(s)
         /\ \A l \in DOMAIN p.routes : p.routes[l].vehicle = r.vehicle => l = k
         /\ Len(r.stops) >= 2
         /\ \A i \in DOMAIN r.stops :
              IF i \in {1, Len(r.stops)} THEN r.stops[i] = Depot
                                         ELSE r.stops[i] \in Active(s)
         /\ ~(Load(s, r) > Capacity[r.vehicle])
         /\ \A i \in 1..(Len(r.stops) - 1) : <<r.stops[i], r.stops[i + 1]>> \notin s.blocked
  <2> DEFINE r == p.routes[k]
  <2>1. Len(r.stops) \in Nat /\ DOMAIN r.stops = 1..Len(r.stops)
    BY RouteOfPlan
  <2>2. Len(r.stops) >= 2 /\ r.stops[1] = Depot /\ r.stops[Len(r.stops)] = Depot
    BY <1>2, <2>1 DEF BoundaryBroken
  <2>3. \A i \in DOMAIN r.stops : i \notin {1, Len(r.stops)} => r.stops[i] \in Active(s)
    <3>1. \A i \in 1..Len(r.stops) : i \notin {1, Len(r.stops)} => i \in 2..(Len(r.stops) - 1)
      BY <2>1
    <3> QED
      BY <1>2, <2>1, <3>1 DEF Interior
  <2>4. \A i \in 1..(Len(r.stops) - 1) : <<r.stops[i], r.stops[i + 1]>> \notin s.blocked
    BY <1>2 DEF Arcs
  <2>5. \A l \in DOMAIN p.routes : p.routes[l].vehicle = r.vehicle => l = k
    BY PassedIsApart
  <2> QED
    BY <1>2, <2>2, <2>3, <2>4, <2>5
<1>4. ASSUME NEW k \in DOMAIN p.routes, NEW i \in DOMAIN p.routes[k].stops,
             p.routes[k].stops[i] \in Active(s)
      PROVE  <<k, i>> \in Visits(s, p, p.routes[k].stops[i])
  <2>1. Len(p.routes[k].stops) \in Nat /\ DOMAIN p.routes[k].stops = 1..Len(p.routes[k].stops)
    BY RouteOfPlan
  <2>2. i \notin {1, Len(p.routes[k].stops)}
    BY <1>1, <1>2, <1>4 DEF BoundaryBroken
  <2>3. i \in Interior(p.routes[k])
    BY <2>1, <2>2 DEF Interior
  <2> QED
    BY <1>2, <1>4, <2>3, VisitsMeans
<1>5. ASSUME NEW c \in Active(s)
      PROVE  \E k \in DOMAIN p.routes : \E i \in DOMAIN p.routes[k].stops :
         /\ p.routes[k].stops[i] = c
         /\ \A l \in DOMAIN p.routes : \A j \in DOMAIN p.routes[l].stops :
              p.routes[l].stops[j] = c => l = k /\ j = i
  <2>1. PICK x \in Visits(s, p, c) : TRUE
    BY <1>2
  <2>2. PICK k \in DOMAIN p.routes : \E i \in Interior(p.routes[k]) : x = <<k, i>>
    BY <2>1, VisitsMeans
  <2> PICK i \in Interior(p.routes[k]) : x = <<k, i>>
    BY <2>2
  <2>3. p.routes[k].stops[i] = c
    BY <2>2, VisitsMeans
  <2>4. i \in DOMAIN p.routes[k].stops
    BY RouteOfPlan DEF Interior
  <2>5. ASSUME NEW l \in DOMAIN p.routes, NEW j \in DOMAIN p.routes[l].stops,
               p.routes[l].stops[j] = c
        PROVE  l = k /\ j = i
    <3>1. <<l, j>> \in Visits(s, p, c)
      BY <1>4, <2>5
    <3>2. <<l, j>> = <<k, i>>
      BY <1>2, <2>2, <3>1
    <3> QED
      BY <3>2
  <2> QED
    BY <2>3, <2>4, <2>5
<1> QED
    BY <1>3, <1>5 DEF Feasible

\* A plan that is what it has to be serves the open customers and nobody else.
LEMMA FeasibleServes ==
    ASSUME NEW s, IsScenario(s), NEW p, Feasible(s, p)
    PROVE  Served(p) = Active(s)
<1>1. Depot \notin Active(s)
    BY NodesAssumption DEF IsScenario, Active
<1>2. \A x : x \in Served(p) <=>
               x # Depot /\ \E k \in DOMAIN p.routes : \E i \in DOMAIN p.routes[k].stops : x = p.routes[k].stops[i]
    BY DEF Served
<1>3. \A k \in DOMAIN p.routes : \A i \in DOMAIN p.routes[k].stops :
         p.routes[k].stops[i] = Depot \/ p.routes[k].stops[i] \in Active(s)
    BY DEF Feasible
<1>4. \A c \in Active(s) : \E k \in DOMAIN p.routes : \E i \in DOMAIN p.routes[k].stops :
         p.routes[k].stops[i] = c
    BY DEF Feasible
<1>5. ASSUME NEW x \in Served(p) PROVE x \in Active(s)
    BY <1>2, <1>3, <1>5
<1>6. ASSUME NEW c \in Active(s) PROVE c \in Served(p)
    BY <1>1, <1>2, <1>4
<1> QED
    BY <1>5, <1>6

-----------------------------------------------------------------------------
(* Repair.                                                                 *)

LEMMA RoundTripFacts ==
    ASSUME NEW q \in Seq(NodeIds)
    PROVE  /\ RoundTrip(q) \in Seq(NodeIds) /\ Len(RoundTrip(q)) = Len(q) + 2
           /\ RoundTrip(q)[1] = Depot /\ RoundTrip(q)[Len(q) + 2] = Depot
           /\ \A i \in 2..(Len(q) + 1) : i - 1 \in 1..Len(q) /\ RoundTrip(q)[i] = q[i - 1]
<1> DEFINE there == <<Depot>> \o q
<1>1. <<Depot>> \in Seq(NodeIds) /\ Len(<<Depot>>) = 1 /\ <<Depot>>[1] = Depot
    BY DEF NodeIds
<1>2. /\ there \in Seq(NodeIds) /\ Len(there) = Len(q) + 1 /\ there[1] = Depot
      /\ \A i \in 2..(Len(q) + 1) : there[i] = q[i - 1]
    BY <1>1
<1>3. RoundTrip(q) = there \o <<Depot>>
    BY DEF RoundTrip
<1> HIDE DEF there
<1>4. RoundTrip(q) \in Seq(NodeIds) /\ Len(RoundTrip(q)) = Len(q) + 2
    BY <1>1, <1>2, <1>3
<1>5. \A i \in 1..(Len(q) + 1) : RoundTrip(q)[i] = there[i]
    BY <1>1, <1>2, <1>3
<1>6. RoundTrip(q)[Len(q) + 2] = Depot
    BY <1>1, <1>2, <1>3
<1> QED
    BY <1>2, <1>4, <1>5, <1>6

Increasing(at) == at \in Seq(Nat) /\ \A i, j \in 1..Len(at) : i < j => at[i] < at[j]

LEMMA IncreasingOnce ==
    ASSUME NEW at, Increasing(at), NEW i \in 1..Len(at), NEW j \in 1..Len(at), at[i] = at[j]
    PROVE  i = j
<1>1. at[i] \in Nat /\ at[j] \in Nat /\ i \in Nat /\ j \in Nat
    BY DEF Increasing
<1>2. ~(i < j) /\ ~(j < i)
    BY <1>1 DEF Increasing
<1> QED
    BY <1>1, <1>2

\* The places of route k at which a stop is kept.
KeptAt(s, p, k, at) ==
    /\ Increasing(at)
    /\ Len(at) = Len(Kept(s, p, k))
    /\ \A j \in 1..Len(at) : /\ at[j] \in 1..Len(p.routes[k].stops) /\ Keeps(s, p, k, at[j])
                             /\ Kept(s, p, k)[j] = p.routes[k].stops[at[j]]

\* What is kept of a route is some of its stops, in order.
LEMMA KeptFacts ==
    ASSUME NEW s, NEW p, IsPlan(p), NEW k \in DOMAIN p.routes
    PROVE  /\ Kept(s, p, k) \in Seq(NodeIds) /\ Len(Kept(s, p, k)) \in Nat
           /\ \E at : KeptAt(s, p, k, at)
<1> DEFINE stops == p.routes[k].stops
           keep == {i \in DOMAIN stops : Keeps(s, p, k, i)}
           at == Places(keep, Len(stops))
<1>1. stops \in Seq(NodeIds) /\ Len(stops) \in Nat
    BY RouteOfPlan
<1>2. Kept(s, p, k) = Pick(stops, keep)
    BY DEF Kept
<1>3. \A i \in keep : Keeps(s, p, k, i)
    OBVIOUS
<1> HIDE DEF keep, stops
<1>4. /\ Pick(stops, keep) \in Seq(NodeIds) /\ Len(Pick(stops, keep)) = Len(at)
      /\ \A j \in 1..Len(at) : /\ at[j] \in 1..Len(stops) /\ at[j] \in keep
                               /\ Pick(stops, keep)[j] = stops[at[j]]
    BY <1>1, PickFacts
<1>5. at \in Seq(Nat) /\ \A i, j \in 1..Len(at) : i < j => at[i] < at[j]
    BY <1>1, PlacesFacts
<1> HIDE DEF at
<1>6. KeptAt(s, p, k, at)
    BY <1>2, <1>3, <1>4, <1>5 DEF KeptAt, Increasing, stops
<1> QED
    BY <1>2, <1>4, <1>6

\* Of the places that have the same stop one is kept at most.
LEMMA KeepsOnce ==
    ASSUME NEW s, NEW p, IsPlan(p),
           NEW k \in KnownRoutes(s, p), NEW a \in 1..Len(p.routes[k].stops), Keeps(s, p, k, a),
           NEW l \in KnownRoutes(s, p), NEW b \in 1..Len(p.routes[l].stops), Keeps(s, p, l, b),
           p.routes[k].stops[a] = p.routes[l].stops[b]
    PROVE  k = l /\ a = b
<1>1. /\ k \in DOMAIN p.routes /\ l \in DOMAIN p.routes
      /\ k \in Nat /\ l \in Nat /\ a \in Nat /\ b \in Nat
      /\ a \in DOMAIN p.routes[k].stops /\ b \in DOMAIN p.routes[l].stops
  <2>1. k \in DOMAIN p.routes /\ l \in DOMAIN p.routes
    BY DEF KnownRoutes
  <2> QED
    BY <2>1, RouteOfPlan
<1>2. ~Before(<<k, a>>, <<l, b>>) /\ ~Before(<<l, b>>, <<k, a>>)
    BY <1>1 DEF Keeps
<1> QED
    BY <1>1, <1>2 DEF Before

\* The routes of the plan that are in the repaired one.
MendedFrom(s, p, of) ==
    /\ Increasing(of)
    /\ DOMAIN Repair(s, p).routes = 1..Len(of)
    /\ \A n \in 1..Len(of) :
         /\ of[n] \in KnownRoutes(s, p) /\ Kept(s, p, of[n]) # <<>>
         /\ Repair(s, p).routes[n].vehicle = p.routes[of[n]].vehicle
         /\ Repair(s, p).routes[n].stops = RoundTrip(Kept(s, p, of[n]))

\* The routes of a repaired plan are what is kept of those of known vehicles.
LEMMA RepairFacts ==
    ASSUME NEW s, NEW p, IsPlan(p)
    PROVE  /\ Repair(s, p).scenario = s.id
           /\ Repair(s, p).routes \in Seq(VehicleRoute)
           /\ \E of : MendedFrom(s, p, of)
<1> DEFINE back == [k \in DOMAIN p.routes |->
                      RouteOf(p.routes[k].vehicle, RoundTrip(Kept(s, p, k)))]
           stay == {k \in KnownRoutes(s, p) : Kept(s, p, k) # <<>>}
           of == Places(stay, Len(back))
           r == Repair(s, p)
<1>1. r.scenario = s.id /\ r.routes = Pick(back, stay)
    BY DEF Repair
<1>2. Len(p.routes) \in Nat /\ DOMAIN p.routes = 1..Len(p.routes)
    BY DEF IsPlan
<1>3. \A k \in DOMAIN p.routes : RouteOf(p.routes[k].vehicle, RoundTrip(Kept(s, p, k))) \in VehicleRoute
  <2> TAKE k \in DOMAIN p.routes
  <2>1. Kept(s, p, k) \in Seq(NodeIds)
    BY KeptFacts
  <2>2. RoundTrip(Kept(s, p, k)) \in Seq(NodeIds)
    BY <2>1, RoundTripFacts
  <2> QED
    BY <2>2, RouteOfPlan DEF RouteOf, VehicleRoute, NodeIds
<1>4. back \in Seq(VehicleRoute) /\ Len(back) = Len(p.routes)
  <2>1. back \in [1..Len(p.routes) -> VehicleRoute]
    BY <1>2, <1>3
  <2> QED
    BY <1>2, <2>1
<1>5. \A k \in stay : k \in KnownRoutes(s, p) /\ Kept(s, p, k) # <<>>
    OBVIOUS
<1>6. \A k \in 1..Len(p.routes) : back[k] = RouteOf(p.routes[k].vehicle, RoundTrip(Kept(s, p, k)))
    BY <1>2
<1> HIDE DEF back, stay
<1>7. /\ Pick(back, stay) \in Seq(VehicleRoute) /\ Len(Pick(back, stay)) = Len(of)
      /\ \A n \in 1..Len(of) : /\ of[n] \in 1..Len(back) /\ of[n] \in stay
                               /\ Pick(back, stay)[n] = back[of[n]]
    BY <1>4, PickFacts
<1>8. of \in Seq(Nat) /\ \A n, m \in 1..Len(of) : n < m => of[n] < of[m]
    BY <1>2, <1>4, PlacesFacts
<1> HIDE DEF of, r
<1>9. \A n \in 1..Len(of) :
         /\ of[n] \in KnownRoutes(s, p) /\ Kept(s, p, of[n]) # <<>>
         /\ r.routes[n] = RouteOf(p.routes[of[n]].vehicle, RoundTrip(Kept(s, p, of[n])))
    BY <1>1, <1>4, <1>5, <1>6, <1>7
<1>10. DOMAIN r.routes = 1..Len(of)
    BY <1>1, <1>7
<1>11. \A n \in 1..Len(of) : /\ r.routes[n].vehicle = p.routes[of[n]].vehicle
                             /\ r.routes[n].stops = RoundTrip(Kept(s, p, of[n]))
  <2>1. \A v, t : RouteOf(v, t).vehicle = v /\ RouteOf(v, t).stops = t
    BY DEF RouteOf
  <2> QED
    BY <1>9, <2>1
<1>12. Increasing(of)
    BY <1>8 DEF Increasing
<1>13. MendedFrom(s, p, of)
    BY <1>9, <1>10, <1>11, <1>12 DEF MendedFrom, r
<1> QED
    BY <1>1, <1>7, <1>13 DEF r

\* What a stop of a repaired route was: place a of route k.
StopFrom(s, p, n, i, k, a) ==
    /\ k \in KnownRoutes(s, p) /\ a \in 1..Len(p.routes[k].stops) /\ Keeps(s, p, k, a)
    /\ p.routes[k].vehicle = Repair(s, p).routes[n].vehicle
    /\ p.routes[k].stops[a] = Repair(s, p).routes[n].stops[i]

LEMMA RepairedStops ==
    ASSUME NEW s, NEW p, IsPlan(p), NEW of, MendedFrom(s, p, of),
           NEW n \in 1..Len(of)
    PROVE  \E at : /\ Increasing(at)
                   /\ Len(Repair(s, p).routes[n].stops) = Len(at) + 2 /\ Len(at) \in Nat
                   /\ \A i \in Interior(Repair(s, p).routes[n]) :
                        i \in Int /\ i - 1 \in 1..Len(at) /\ StopFrom(s, p, n, i, of[n], at[i - 1])
<1> DEFINE r == Repair(s, p)
           q == Kept(s, p, of[n])
           k == of[n]
<1>1. /\ k \in KnownRoutes(s, p) /\ k \in DOMAIN p.routes
      /\ r.routes[n].vehicle = p.routes[k].vehicle /\ r.routes[n].stops = RoundTrip(q)
    BY DEF MendedFrom, KnownRoutes
<1>2. q \in Seq(NodeIds) /\ Len(q) \in Nat
    BY <1>1, KeptFacts
<1>3. PICK at : KeptAt(s, p, k, at)
    BY <1>1, KeptFacts
<1>4. /\ Increasing(at) /\ Len(at) = Len(q)
      /\ \A j \in 1..Len(at) : /\ at[j] \in 1..Len(p.routes[k].stops) /\ Keeps(s, p, k, at[j])
                               /\ q[j] = p.routes[k].stops[at[j]]
    BY <1>3 DEF KeptAt
<1> HIDE DEF q, k, r
<1>5. /\ Len(RoundTrip(q)) = Len(q) + 2
      /\ \A i \in 2..(Len(q) + 1) : i - 1 \in 1..Len(q) /\ RoundTrip(q)[i] = q[i - 1]
    BY <1>2, RoundTripFacts
<1>6. ASSUME NEW i \in Interior(r.routes[n])
      PROVE  i \in Int /\ i - 1 \in 1..Len(at) /\ StopFrom(s, p, n, i, k, at[i - 1])
  <2>1. i \in 2..(Len(q) + 1) /\ i \in Int
    BY <1>1, <1>2, <1>5 DEF Interior
  <2>2. i - 1 \in 1..Len(at) /\ r.routes[n].stops[i] = q[i - 1]
    BY <1>1, <1>4, <1>5, <2>1
  <2>3. /\ at[i - 1] \in 1..Len(p.routes[k].stops) /\ Keeps(s, p, k, at[i - 1])
        /\ q[i - 1] = p.routes[k].stops[at[i - 1]]
    BY <1>4, <2>2
  <2> QED
    BY <1>1, <2>1, <2>2, <2>3 DEF StopFrom, r
<1> QED
  <2>1. Len(r.routes[n].stops) = Len(at) + 2 /\ Len(at) \in Nat
    BY <1>1, <1>2, <1>4, <1>5
  <2> QED
    BY <1>4, <1>6, <2>1 DEF k, r

\* A repaired route is a round trip of its vehicle over open customers that it visited.
LEMMA RepairedRoutes ==
    ASSUME NEW s, NEW p, IsPlan(p), NEW n \in DOMAIN Repair(s, p).routes
    PROVE  /\ Repair(s, p).routes[n].vehicle \in Fleet(s)
           /\ ~BoundaryBroken(Repair(s, p).routes[n])
           /\ \A i \in Interior(Repair(s, p).routes[n]) :
                /\ Repair(s, p).routes[n].stops[i] \in Active(s)
                /\ \E k, a : StopFrom(s, p, n, i, k, a)
<1> DEFINE r == Repair(s, p)
<1>1. PICK of : MendedFrom(s, p, of)
    BY RepairFacts
<1>2. n \in 1..Len(of) /\ of[n] \in KnownRoutes(s, p) /\ of[n] \in DOMAIN p.routes
      /\ r.routes[n].vehicle = p.routes[of[n]].vehicle
      /\ r.routes[n].stops = RoundTrip(Kept(s, p, of[n]))
    BY <1>1 DEF MendedFrom, KnownRoutes
<1>3. r.routes[n].vehicle \in Fleet(s)
    BY <1>2 DEF KnownRoutes
<1>4. ~BoundaryBroken(r.routes[n])
    BY <1>2, KeptFacts, RoundTripFacts DEF BoundaryBroken
<1>5. \A i \in Interior(r.routes[n]) : \E k, a : StopFrom(s, p, n, i, k, a)
    BY <1>1, <1>2, RepairedStops
<1>6. ASSUME NEW i \in Interior(r.routes[n]) PROVE r.routes[n].stops[i] \in Active(s)
    BY <1>5 DEF StopFrom, Keeps
<1> QED
    BY <1>3, <1>4, <1>5, <1>6

\* No stop comes twice in a repaired plan.
LEMMA RepairedOnce ==
    ASSUME NEW s, NEW p, IsPlan(p),
           NEW n \in DOMAIN Repair(s, p).routes, NEW i \in Interior(Repair(s, p).routes[n]),
           NEW m \in DOMAIN Repair(s, p).routes, NEW j \in Interior(Repair(s, p).routes[m]),
           Repair(s, p).routes[n].stops[i] = Repair(s, p).routes[m].stops[j]
    PROVE  n = m /\ i = j
<1>1. PICK of : MendedFrom(s, p, of)
    BY RepairFacts
<1>2. n \in 1..Len(of) /\ m \in 1..Len(of) /\ Increasing(of)
    BY <1>1 DEF MendedFrom
<1>3. PICK at : /\ Increasing(at)
                /\ \A e \in Interior(Repair(s, p).routes[n]) :
                      e \in Int /\ e - 1 \in 1..Len(at) /\ StopFrom(s, p, n, e, of[n], at[e - 1])
    BY <1>1, <1>2, RepairedStops
<1>4. PICK bt : \A e \in Interior(Repair(s, p).routes[m]) :
                      e \in Int /\ e - 1 \in 1..Len(bt) /\ StopFrom(s, p, m, e, of[m], bt[e - 1])
    BY <1>1, <1>2, RepairedStops
<1>5. StopFrom(s, p, n, i, of[n], at[i - 1]) /\ StopFrom(s, p, m, j, of[m], bt[j - 1])
    BY <1>3, <1>4
<1>6. of[n] = of[m]
    BY <1>5, KeepsOnce DEF StopFrom
<1>7. n = m
    BY <1>2, <1>6, IncreasingOnce
<1>8. StopFrom(s, p, n, i, of[n], at[i - 1]) /\ StopFrom(s, p, n, j, of[n], at[j - 1])
      /\ i \in Int /\ j \in Int /\ i - 1 \in 1..Len(at) /\ j - 1 \in 1..Len(at)
    BY <1>3, <1>7
<1>9. at[i - 1] = at[j - 1]
  <2>1. Repair(s, p).routes[n].stops[i] = Repair(s, p).routes[n].stops[j]
    BY <1>7
  <2>2. PICK k, a, b : k = of[n] /\ a = at[i - 1] /\ b = at[j - 1]
    OBVIOUS
  <2>3. StopFrom(s, p, n, i, k, a) /\ StopFrom(s, p, n, j, k, b)
    BY <1>8, <2>2
  <2>4. a = b
    BY <2>1, <2>3, KeepsOnce DEF StopFrom
  <2> QED
    BY <2>2, <2>4
<1>10. i - 1 = j - 1
    BY <1>3, <1>8, <1>9, IncreasingOnce
<1> QED
    BY <1>7, <1>8, <1>10

\* No vehicle comes twice in a repaired plan.
LEMMA RepairIsPlan ==
    ASSUME NEW s, NEW p, IsPlan(p)
    PROVE  IsPlan(Repair(s, p))
<1> DEFINE r == Repair(s, p)
<1>1. PICK of : MendedFrom(s, p, of)
    BY RepairFacts
<1>2. r.routes \in Seq(VehicleRoute) /\ DOMAIN r.routes = 1..Len(of) /\ Increasing(of)
    BY <1>1, RepairFacts DEF MendedFrom
<1>3. ASSUME NEW n \in 1..Len(of), NEW m \in 1..Len(of), n # m
      PROVE  r.routes[n].vehicle # r.routes[m].vehicle
  <2>1. PICK k : k = of[n]
    OBVIOUS
  <2>2. PICK l : l = of[m]
    OBVIOUS
  <2>3. k # l
    BY <1>2, <1>3, <2>1, <2>2, IncreasingOnce
  <2>4. /\ k \in KnownRoutes(s, p) /\ l \in KnownRoutes(s, p)
        /\ Kept(s, p, k) # <<>> /\ Kept(s, p, l) # <<>>
        /\ r.routes[n].vehicle = p.routes[k].vehicle /\ r.routes[m].vehicle = p.routes[l].vehicle
    BY <1>1, <2>1, <2>2 DEF MendedFrom
  <2>5. k \in DOMAIN p.routes /\ l \in DOMAIN p.routes
    BY <2>4 DEF KnownRoutes
  <2>6. k \in Nat /\ l \in Nat
    BY <2>5, RouteOfPlan
  <2> HIDE DEF r
  <2> SUFFICES ASSUME p.routes[k].vehicle = p.routes[l].vehicle PROVE FALSE
    BY <2>4
  <2>7. p.routes[k].stops = p.routes[l].stops
    BY <2>3, <2>5 DEF IsPlan
  <2>8. ASSUME NEW h \in {k, l} PROVE \E a \in 1..Len(p.routes[h].stops) : Keeps(s, p, h, a)
    <3>1. h \in DOMAIN p.routes /\ Kept(s, p, h) # <<>>
      BY <2>4, <2>5
    <3>2. PICK at : KeptAt(s, p, h, at)
      BY <3>1, KeptFacts
    <3>3. Kept(s, p, h) \in Seq(NodeIds)
      BY <3>1, KeptFacts
    <3>4. 1 \in 1..Len(at)
      BY <3>1, <3>2, <3>3 DEF KeptAt
    <3> QED
      BY <3>2, <3>4 DEF KeptAt
  <2>9. PICK a \in 1..Len(p.routes[k].stops) : Keeps(s, p, k, a)
    BY <2>8
  <2>10. PICK b \in 1..Len(p.routes[l].stops) : Keeps(s, p, l, b)
    BY <2>8
  <2>11. /\ a \in DOMAIN p.routes[l].stops /\ b \in DOMAIN p.routes[k].stops
         /\ a \in Nat /\ b \in Nat
    BY <2>5, <2>7, <2>9, <2>10, RouteOfPlan
  <2>12. CASE k < l
    <3>1. Before(<<k, b>>, <<l, b>>)
      BY <2>12 DEF Before
    <3> QED
      BY <2>4, <2>7, <2>10, <2>11, <3>1 DEF Keeps
  <2>13. CASE l < k
    <3>1. Before(<<l, a>>, <<k, a>>)
      BY <2>13 DEF Before
    <3> QED
      BY <2>4, <2>7, <2>9, <2>11, <3>1 DEF Keeps
  <2> QED
    BY <2>3, <2>6, <2>12, <2>13
<1> QED
    BY <1>2, <1>3 DEF IsPlan, r

\* What is left to the solver after a repair is capacity, customers missing and roads blocked.
LEMMA RepairMends ==
    ASSUME NEW s, NEW p, IsPlan(p)
    PROVE  Violations(s, Repair(s, p)) \subseteq
               {"capacity_violation", "missing_customer", "blocked_arc_used"}
<1> DEFINE r == Repair(s, p)
           known == {r.routes[k] : k \in KnownRoutes(s, r)}
<1>1. r.scenario = s.id
    BY RepairFacts
<1>2. \A n \in DOMAIN r.routes :
             /\ r.routes[n].vehicle \in Fleet(s)
             /\ ~BoundaryBroken(r.routes[n])
             /\ \A i \in Interior(r.routes[n]) : r.routes[n].stops[i] \in Active(s)
    BY RepairedRoutes
<1>3. \A c \in Active(s) : \A x, y \in Visits(s, r, c) : x = y
  <2> SUFFICES ASSUME NEW c \in Active(s), NEW x \in Visits(s, r, c), NEW y \in Visits(s, r, c)
               PROVE  x = y
    OBVIOUS
  <2>1. PICK n \in DOMAIN r.routes : \E i \in Interior(r.routes[n]) : x = <<n, i>>
    BY VisitsMeans
  <2>2. PICK i \in Interior(r.routes[n]) : x = <<n, i>>
    BY <2>1
  <2>3. PICK m \in DOMAIN r.routes : \E j \in Interior(r.routes[m]) : y = <<m, j>>
    BY VisitsMeans
  <2>4. PICK j \in Interior(r.routes[m]) : y = <<m, j>>
    BY <2>3
  <2>5. r.routes[n].stops[i] = c /\ r.routes[m].stops[j] = c
    BY <2>2, <2>4, VisitsMeans
  <2> QED
    BY <2>2, <2>4, <2>5, RepairedOnce
<1> HIDE DEF r
<1>4. KnownRoutes(s, r) = DOMAIN r.routes
    BY <1>2 DEF KnownRoutes
<1>5. /\ \A q \in known : ~BoundaryBroken(q)
      /\ \A q \in known : \A i \in Interior(q) : q.stops[i] \in Active(s)
    BY <1>2, <1>4
<1> HIDE DEF known
<1>6. /\ ~Found(s, r).scenario_mismatch
      /\ ~Found(s, r).unknown_vehicle
      /\ ~Found(s, r).route_depot_boundary
      /\ ~Found(s, r).inactive_or_unknown_customer
      /\ ~Found(s, r).duplicate_customer
    BY <1>1, <1>3, <1>4, <1>5 DEF Found, known
<1>7. Violations(s, r) = {code \in Codes : Found(s, r)[code]}
    BY DEF Violations
<1> QED
    BY <1>6, <1>7 DEF Codes, r

-----------------------------------------------------------------------------
(* The plans that come: of a policy, of the solver.                        *)

\* An answer that names a vehicle once is a plan.
LEMMA BuiltIsPlan ==
    ASSUME NEW s, NEW answer \in Seq(VehicleRoute),
           \A k, l \in DOMAIN answer : answer[k].vehicle = answer[l].vehicle => k = l
    PROVE  IsPlan(Built(s, answer))
<1> DEFINE p == Built(s, answer)
           stops(k) == EndAtDepot(StartAtDepot(answer[k].stops))
<1>1. p.routes = [k \in DOMAIN answer |-> RouteOf(answer[k].vehicle, stops(k))]
    BY DEF Built
<1>2. ASSUME NEW k \in DOMAIN answer
      PROVE  RouteOf(answer[k].vehicle, stops(k)) \in VehicleRoute
  <2>1. answer[k].vehicle \in DOMAIN Capacity \cup {Stray} /\ answer[k].stops \in Seq(NodeIds)
    <3>1. answer[k] \in VehicleRoute
      OBVIOUS
    <3> QED
      BY <3>1 DEF VehicleRoute, NodeIds
  <2> DEFINE begun == StartAtDepot(answer[k].stops)
  <2>2. Depot \in NodeIds /\ <<Depot>> \in Seq(NodeIds)
    BY DEF NodeIds
  <2>3. begun \in Seq(NodeIds)
    BY <2>1, <2>2 DEF StartAtDepot
  <2> HIDE DEF begun
  <2>4. EndAtDepot(begun) \in Seq(NodeIds)
    BY <2>2, <2>3 DEF EndAtDepot
  <2> QED
    BY <2>1, <2>4 DEF begun, RouteOf, VehicleRoute, NodeIds
<1>3. DOMAIN answer = 1..Len(answer) /\ Len(answer) \in Nat
    OBVIOUS
<1> HIDE DEF stops
<1>4. p.routes \in [1..Len(answer) -> VehicleRoute]
    BY <1>1, <1>2, <1>3
<1>5. p.routes \in Seq(VehicleRoute)
    BY <1>3, <1>4
<1>6. \A k \in DOMAIN answer : p.routes[k].vehicle = answer[k].vehicle
    BY <1>1 DEF RouteOf
<1>7. DOMAIN p.routes = DOMAIN answer
    BY <1>1
<1> HIDE DEF p
<1> QED
    BY <1>5, <1>6, <1>7 DEF IsPlan, p

\* What the walk from the depot returns: it begins there and goes on to a customer.
Walks(s) ==
    {w \in Seq(PlannedNodes(s)) : Len(w) >= 1 /\ w[1] = Depot /\ (Len(w) > 1 => w[2] # Depot)}

LEMMA ActiveFacts ==
    ASSUME NEW s, IsScenario(s)
    PROVE  /\ IsFiniteSet(Active(s)) /\ Cardinality(Active(s)) \in Nat
           /\ Depot \notin Active(s) /\ Active(s) \subseteq Customers
           /\ IsFiniteSet(PlannedNodes(s))
           /\ PlannedNodes(s) \subseteq NodeIds
<1>1. IsFiniteSet(Active(s)) /\ Active(s) \subseteq Customers
    BY FS_Subset DEF IsScenario, Active
<1>2. IsFiniteSet({Depot} \cup Active(s))
  <2>1. IsFiniteSet(Active(s) \cup {Depot})
    BY <1>1, FS_AddElement
  <2>2. Active(s) \cup {Depot} = {Depot} \cup Active(s)
    OBVIOUS
  <2> QED
    BY <2>1, <2>2
<1>3. Cardinality(Active(s)) \in Nat
    BY <1>1, FS_CardinalityType
<1> QED
    BY <1>1, <1>2, <1>3, NodesAssumption DEF PlannedNodes, NodeIds

\* One step of the walk.
Further(X, w) ==
    IF (Len(w) > 1 /\ \E i \in 1..(Len(w) - 1) : w[i] = w[Len(w)]) \/ From(X, w[Len(w)]) = {}
      THEN w ELSE Append(w, (CHOOSE a \in From(X, w[Len(w)]) : TRUE)[2])

LEMMA FurtherWalks ==
    ASSUME NEW s, NEW X \in SUBSET ArcsOf(s), NEW w \in Walks(s)
    PROVE  Further(X, w) \in Walks(s)
<1>1. w \in Seq(PlannedNodes(s)) /\ Len(w) >= 1 /\ w[1] = Depot /\ (Len(w) > 1 => w[2] # Depot)
    BY DEF Walks
<1>2. CASE From(X, w[Len(w)]) # {}
  <2>1. PICK a \in From(X, w[Len(w)]) : a = CHOOSE b \in From(X, w[Len(w)]) : TRUE
    BY <1>2
  <2>2. a \in PlannedNodes(s) \X PlannedNodes(s) /\ a[1] # a[2] /\ a[1] = w[Len(w)]
    BY DEF From, ArcsOf
  <2>3. a[2] \in PlannedNodes(s) /\ (Len(w) = 1 => a[2] # Depot)
    BY <1>1, <2>2
  <2> DEFINE t == Append(w, a[2])
  <2>4. /\ t \in Seq(PlannedNodes(s)) /\ Len(t) = Len(w) + 1 /\ t[Len(w) + 1] = a[2]
        /\ \A i \in 1..Len(w) : t[i] = w[i]
    BY <1>1, <2>3
  <2> HIDE DEF t
  <2>5. Len(w) = 1 \/ Len(w) > 1
    <3>1. Len(w) \in Nat /\ Len(w) >= 1
      BY <1>1
    <3>2. \A n \in Nat : n >= 1 => n = 1 \/ n > 1
      OBVIOUS
    <3> QED
      BY <3>1, <3>2
  <2>6. Len(t) > 1 => t[2] # Depot
    <3>1. CASE Len(w) = 1
      BY <2>3, <2>4, <3>1
    <3>2. CASE Len(w) > 1
      BY <1>1, <2>4, <3>2
    <3> QED
      BY <2>5, <3>1, <3>2
  <2>7. t \in Walks(s)
    BY <1>1, <2>4, <2>6 DEF Walks
  <2>8. Further(X, w) = w \/ Further(X, w) = t
    BY <2>1 DEF Further, t
  <2> QED
    BY <2>7, <2>8
<1>3. CASE From(X, w[Len(w)]) = {}
    BY <1>3 DEF Further
<1> QED
    BY <1>2, <1>3

\* The walk is what so many steps come to.
Steps(s, X, stops) ==
    /\ stops[0] = <<Depot>>
    /\ \A n \in Nat : stops[n + 1] = Further(X, stops[n])
    /\ Walk(s, X) = stops[Cardinality(Active(s)) + 1]

LEMMA WalkUnfold ==
    ASSUME NEW s, NEW X \in SUBSET ArcsOf(s)
    PROVE  \E stops : Steps(s, X, stops)
<1> DEFINE Step(f, n) == IF n = 0 THEN <<Depot>> ELSE Further(X, f[n - 1])
           stops == CHOOSE f : f = [n \in Nat |-> Step(f, n)]
           step == [z \in Walks(s) \X Nat |-> Further(X, z[1])]
<1>1. <<Depot>> \in Walks(s)
    BY DEF Walks, PlannedNodes
<1>2. step \in [Walks(s) \X Nat -> Walks(s)]
    BY FurtherWalks
<1>3. PICK f \in [Nat -> Walks(s)] : Recurs(f, <<Depot>>, step)
  <2> HIDE DEF step
  <2> QED
    BY <1>1, <1>2, RecursionOnNat
<1>4. f = [n \in Nat |-> Step(f, n)]
  <2> SUFFICES ASSUME NEW n \in Nat PROVE f[n] = Step(f, n)
    OBVIOUS
  <2>1. n # 0 => <<f[n - 1], n>> \in Walks(s) \X Nat
    OBVIOUS
  <2>2. n # 0 => step[<<f[n - 1], n>>] = Further(X, f[n - 1])
    BY <2>1
  <2> HIDE DEF step
  <2> QED
    BY <1>3, <2>2 DEF Recurs
<1>5. stops = [n \in Nat |-> Step(stops, n)]
  <2> HIDE DEF Step
  <2> QED
    BY <1>4
<1>6. Walk(s, X) = stops[Cardinality(Active(s)) + 1]
    BY DEF Walk, Further
<1> HIDE DEF stops, step
<1>7. stops[0] = <<Depot>>
    BY <1>5
<1>8. \A n \in Nat : stops[n + 1] = Further(X, stops[n])
  <2> TAKE n \in Nat
  <2>1. n + 1 \in Nat /\ n + 1 # 0 /\ (n + 1) - 1 = n
    OBVIOUS
  <2> QED
    BY <1>5, <2>1
<1> QED
    BY <1>6, <1>7, <1>8 DEF Steps

LEMMA WalkFacts ==
    ASSUME NEW s, IsScenario(s), NEW X \in SUBSET ArcsOf(s)
    PROVE  Walk(s, X) \in Walks(s)
<1>1. PICK stops : Steps(s, X, stops)
    BY WalkUnfold
<1> DEFINE T == {n \in Nat : stops[n] \in Walks(s)}
<1>2. 0 \in T
  <2>1. <<Depot>> \in Walks(s)
    BY DEF Walks, PlannedNodes
  <2> QED
    BY <1>1, <2>1 DEF Steps
<1>3. ASSUME NEW n \in Nat, n \in T PROVE n + 1 \in T
    BY <1>1, <1>3, FurtherWalks DEF Steps
<1> HIDE DEF T
<1>4. \A n \in Nat : n \in T
    BY <1>2, <1>3, InductionOnNat
<1>5. Cardinality(Active(s)) + 1 \in Nat
    BY ActiveFacts
<1> QED
    BY <1>1, <1>4, <1>5 DEF T, Steps

\* A plan read from a solution is a plan; a vehicle listed twice has its tour twice.
LEMMA ExtractIsPlan ==
    ASSUME NEW s, IsScenario(s), NEW x \in Solutions(s)
    PROVE  IsPlan(Extract(s, x))
<1> DEFINE routes == [k \in DOMAIN s.fleet |-> RouteOf(s.fleet[k], Walk(s, x[s.fleet[k]]))]
           used == {k \in DOMAIN routes : Len(routes[k].stops) > 1}
           at == Places(used, Len(routes))
           p == Extract(s, x)
<1>1. p.routes = Pick(routes, used)
    BY DEF Extract
<1>2. s.fleet \in Seq(DOMAIN Capacity) /\ DOMAIN s.fleet = 1..Len(s.fleet) /\ Len(s.fleet) \in Nat
    BY DEF IsScenario
<1>3. ASSUME NEW k \in DOMAIN s.fleet
      PROVE  Walk(s, x[s.fleet[k]]) \in Walks(s)
  <2>1. s.fleet[k] \in Fleet(s)
    BY DEF Fleet
  <2>2. x[s.fleet[k]] \in Tours(s, s.fleet[k])
    BY <2>1 DEF Solutions
  <2>3. x[s.fleet[k]] \in SUBSET ArcsOf(s)
    BY <2>2 DEF Tours
  <2> QED
    BY <2>3, WalkFacts
<1>4. PlannedNodes(s) \subseteq NodeIds
    BY DEF PlannedNodes, NodeIds, IsScenario, Active
<1>5. ASSUME NEW k \in DOMAIN s.fleet
      PROVE  RouteOf(s.fleet[k], Walk(s, x[s.fleet[k]])) \in VehicleRoute
  <2>1. Walk(s, x[s.fleet[k]]) \in Seq(NodeIds)
    BY <1>3, <1>4 DEF Walks
  <2> QED
    BY <1>2, <2>1 DEF RouteOf, VehicleRoute, NodeIds
<1>6. routes \in Seq(VehicleRoute) /\ Len(routes) = Len(s.fleet)
  <2>1. routes \in [1..Len(s.fleet) -> VehicleRoute]
    BY <1>2, <1>5
  <2> QED
    BY <1>2, <2>1
<1>7. \A k \in DOMAIN s.fleet : /\ routes[k].vehicle = s.fleet[k]
                                /\ routes[k].stops = Walk(s, x[s.fleet[k]])
    BY DEF RouteOf
<1>8. \A k \in used : k \in DOMAIN s.fleet /\ Len(routes[k].stops) > 1
    OBVIOUS
<1> HIDE DEF routes, used
<1>9. /\ Pick(routes, used) \in Seq(VehicleRoute)
      /\ Len(Pick(routes, used)) = Len(at)
      /\ \A j \in 1..Len(at) : at[j] \in used /\ Pick(routes, used)[j] = routes[at[j]]
    BY <1>6, PickFacts
<1> HIDE DEF at, p
<1>10. p.routes \in Seq(VehicleRoute) /\ DOMAIN p.routes = 1..Len(at)
    BY <1>1, <1>9
<1>11. ASSUME NEW k \in DOMAIN p.routes, NEW l \in DOMAIN p.routes,
              p.routes[k].vehicle = p.routes[l].vehicle
       PROVE  LET stops == p.routes[k].stops IN
              stops = p.routes[l].stops /\ Len(stops) > 1 /\ stops[2] # Depot
  <2>1. PICK i, j : i = at[k] /\ j = at[l]
    OBVIOUS
  <2>2. i \in used /\ j \in used /\ p.routes[k] = routes[i] /\ p.routes[l] = routes[j]
    BY <1>1, <1>9, <1>10, <2>1
  <2>3. /\ i \in DOMAIN s.fleet /\ j \in DOMAIN s.fleet /\ s.fleet[i] = s.fleet[j]
        /\ p.routes[k].stops = Walk(s, x[s.fleet[i]]) /\ p.routes[l].stops = Walk(s, x[s.fleet[j]])
        /\ Len(p.routes[k].stops) > 1
    BY <1>7, <1>8, <1>11, <2>2
  <2>4. p.routes[k].stops \in Walks(s)
    BY <1>3, <2>3
  <2> QED
    BY <2>3, <2>4 DEF Walks
<1> QED
    BY <1>10, <1>11 DEF IsPlan, p

-----------------------------------------------------------------------------
(* Events.                                                                 *)

ScenarioFields == {"id", "known", "open", "fleet", "blocked"}

\* An event changes the id, and what it is about.
LEMMA AfterEvent ==
    ASSUME NEW s, DOMAIN s = ScenarioFields, NEW e \in Events
    PROVE  LET t == ApplyEvent(s, e) IN
           /\ t.id = Append(s.id, Tag(e)) /\ t.known = s.known /\ t.fleet = s.fleet
           /\ t.open = s.open \ (IF e.type = "unavailable" THEN {e.customer} ELSE {})
           /\ t.blocked = s.blocked \cup (IF e.type = "block" THEN Ways(e) ELSE {})
<1>1. e.type \in {"block", "unavailable", "priority"}
    BY DEF Events
<1>2. CASE e.type = "block"
    BY <1>2 DEF ApplyEvent, ScenarioFields
<1>3. CASE e.type # "block"
    BY <1>1, <1>3 DEF ApplyEvent, ScenarioFields
<1> QED
    BY <1>2, <1>3

LEMMA EventKeepsScenario ==
    ASSUME NEW s, DOMAIN s = ScenarioFields, IsScenario(s), NEW e \in Events
    PROVE  IsScenario(ApplyEvent(s, e))
    BY AfterEvent DEF IsScenario

\* A plan whose edges the blockage leaves alone passes in the new scenario too.
LEMMA StillPasses ==
    ASSUME NEW s, DOMAIN s = ScenarioFields, NEW e \in Events, e.type = "block",
           NEW p, "scenario" \in DOMAIN p, "routes" \in DOMAIN p, Passed(s, p),
           Edges(p) \cap {<<e.from, e.to>>, <<e.to, e.from>>} = {}
    PROVE  Passed(ApplyEvent(s, e), Relabelled(ApplyEvent(s, e), p))
<1> DEFINE t == ApplyEvent(s, e)
           q == Relabelled(t, p)
           known == {p.routes[k] : k \in KnownRoutes(s, p)}
<1>1. /\ t.fleet = s.fleet /\ t.open = s.open /\ t.blocked = s.blocked \cup Ways(e)
  <2>1. /\ t.fleet = s.fleet
        /\ t.open = s.open \ (IF e.type = "unavailable" THEN {e.customer} ELSE {})
        /\ t.blocked = s.blocked \cup (IF e.type = "block" THEN Ways(e) ELSE {})
    BY AfterEvent
  <2> HIDE DEF t
  <2>2. e.type # "unavailable" /\ s.open \ {} = s.open
    OBVIOUS
  <2> QED
    BY <2>1, <2>2
<1>2. q.scenario = t.id /\ q.routes = p.routes
    BY DEF Relabelled
<1> HIDE DEF t, q
<1>3. Active(t) = Active(s) /\ Fleet(t) = Fleet(s)
    BY <1>1 DEF Active, Fleet
<1>4. KnownRoutes(t, q) = KnownRoutes(s, p)
    BY <1>2, <1>3 DEF KnownRoutes
<1>5. \A r : Load(t, r) = Load(s, r)
    BY <1>3 DEF Load
<1>6. \A c : Visits(t, q, c) = Visits(s, p, c)
    BY <1>2, <1>3 DEF Visits
<1>7. /\ KnownRoutes(s, p) = DOMAIN p.routes
      /\ \A r \in known : Arcs(r) \cap s.blocked = {}
    BY PassedMeans
<1>8. \A r \in known : Arcs(r) \subseteq Edges(p)
    BY <1>7 DEF Edges
<1>9. Ways(e) \subseteq {<<e.from, e.to>>, <<e.to, e.from>>}
    BY DEF Ways
<1>10. \A r \in known : Arcs(r) \cap t.blocked = {}
  <2> HIDE DEF known
  <2> QED
    BY <1>1, <1>7, <1>8, <1>9
<1>11. known = {q.routes[k] : k \in KnownRoutes(t, q)}
    BY <1>2, <1>4
<1>12. /\ \A r \in known : ~BoundaryBroken(r)
       /\ \A r \in known : \A i \in Interior(r) : r.stops[i] \in Active(s)
       /\ \A r \in known : ~(Load(s, r) > Capacity[r.vehicle])
       /\ \A c \in Active(s) : Visits(s, p, c) # {}
       /\ \A c \in Active(s) : \A x, y \in Visits(s, p, c) : x = y
    BY PassedMeans
<1> HIDE DEF known
<1>13. LET all == {q.routes[k] : k \in KnownRoutes(t, q)} IN
             /\ q.scenario = t.id
             /\ KnownRoutes(t, q) = DOMAIN q.routes
             /\ \A r \in all : ~BoundaryBroken(r)
             /\ \A r \in all : \A i \in Interior(r) : r.stops[i] \in Active(t)
             /\ \A r \in all : ~(Load(t, r) > Capacity[r.vehicle])
             /\ \A r \in all : Arcs(r) \cap t.blocked = {}
             /\ \A c \in Active(t) : Visits(t, q, c) # {}
             /\ \A c \in Active(t) : \A x, y \in Visits(t, q, c) : x = y
    BY <1>2, <1>3, <1>4, <1>5, <1>6, <1>7, <1>10, <1>11, <1>12
<1>14. Passed(t, q)
    BY <1>13, PassedMeans
<1> QED
    BY <1>14 DEF q, t

LEMMA RelabelledIsPlan ==
    ASSUME NEW s, NEW p, "routes" \in DOMAIN p, IsPlan(p)
    PROVE  IsPlan(Relabelled(s, p))
<1>1. Relabelled(s, p).routes = p.routes
    BY DEF Relabelled
<1> QED
    BY <1>1 DEF IsPlan

\* A plan that is what it has to be takes no blocked arc.
LEMMA FeasibleAvoids ==
    ASSUME NEW s, NEW p, Feasible(s, p)
    PROVE  Edges(p) \cap s.blocked = {}
<1>1. \A k \in DOMAIN p.routes : Arcs(p.routes[k]) \cap s.blocked = {}
    BY DEF Feasible, Arcs
<1> QED
    BY <1>1 DEF Edges

-----------------------------------------------------------------------------
(* The arcs of a vehicle: a circuit, which levels rise along.              *)

\* Arcs that leave a node and come back to it, or do neither.
Circuit(s, X) ==
    /\ \A i, j, k \in PlannedNodes(s) : <<i, j>> \in X /\ <<i, k>> \in X => j = k
    /\ \A i, j, k \in PlannedNodes(s) : <<j, i>> \in X /\ <<k, i>> \in X => j = k
    /\ \A m \in PlannedNodes(s) :
         (\E j \in PlannedNodes(s) : <<m, j>> \in X) <=> (\E j \in PlannedNodes(s) : <<j, m>> \in X)

LEMMA ArcMeans ==
    ASSUME NEW s, NEW X \in SUBSET ArcsOf(s), NEW a \in X
    PROVE  \E i, j \in PlannedNodes(s) : a = <<i, j>> /\ i # j
<1>1. a \in PlannedNodes(s) \X PlannedNodes(s) /\ a[1] # a[2]
    BY DEF ArcsOf
<1> QED
    BY <1>1

LEMMA FromToMeans ==
    ASSUME NEW s, NEW X \in SUBSET ArcsOf(s), NEW m
    PROVE  /\ From(X, m) = {} <=> ~\E j \in PlannedNodes(s) : <<m, j>> \in X
           /\ To(X, m) = {} <=> ~\E j \in PlannedNodes(s) : <<j, m>> \in X
           /\ \A a \in From(X, m) : a \in X /\ \E j \in PlannedNodes(s) : a = <<m, j>>
           /\ \A a \in To(X, m) : a \in X /\ \E j \in PlannedNodes(s) : a = <<j, m>>
<1>1. \A a \in From(X, m) : a \in X /\ \E j \in PlannedNodes(s) : a = <<m, j>>
  <2> TAKE a \in From(X, m)
  <2>1. a \in X /\ a[1] = m
    BY DEF From
  <2>2. PICK i, j \in PlannedNodes(s) : a = <<i, j>>
    BY <2>1, ArcMeans
  <2> QED
    BY <2>1, <2>2
<1>2. \A a \in To(X, m) : a \in X /\ \E j \in PlannedNodes(s) : a = <<j, m>>
  <2> TAKE a \in To(X, m)
  <2>1. a \in X /\ a[2] = m
    BY DEF To
  <2>2. PICK i, j \in PlannedNodes(s) : a = <<i, j>>
    BY <2>1, ArcMeans
  <2> QED
    BY <2>1, <2>2
<1>3. \A j : <<m, j>> \in X => <<m, j>> \in From(X, m)
    BY DEF From
<1>4. \A j : <<j, m>> \in X => <<j, m>> \in To(X, m)
    BY DEF To
<1> QED
    BY <1>1, <1>2, <1>3, <1>4

LEMMA AtMostOne ==
    ASSUME NEW S, IsFiniteSet(S)
    PROVE  /\ Cardinality(S) \in Nat
           /\ Cardinality(S) <= 1 <=> \A a, b \in S : a = b
<1>1. Cardinality(S) \in Nat
    BY FS_CardinalityType
<1>2. Cardinality(S) <= 1 <=> Cardinality(S) = 0 \/ Cardinality(S) = 1
    BY <1>1
<1>3. Cardinality(S) = 0 <=> S = {}
    BY FS_EmptySet
<1>4. Cardinality(S) = 1 <=> \E x : S = {x}
    BY FS_Singleton
<1>5. (S = {} \/ \E x : S = {x}) <=> \A a, b \in S : a = b
  <2>1. ASSUME \A a, b \in S : a = b, S # {} PROVE \E x : S = {x}
    <3>1. PICK x \in S : TRUE
      BY <2>1
    <3>2. S = {x}
      BY <2>1
    <3> QED
      BY <3>2
  <2> QED
    BY <2>1
<1> QED
    BY <1>1, <1>2, <1>3, <1>4, <1>5

\* The flow constraints say that a vehicle's arcs are a circuit.
LEMMA FlowMeans ==
    ASSUME NEW s, IsScenario(s), NEW X \in SUBSET ArcsOf(s)
    PROVE  Flow(s, X) <=> Circuit(s, X)
<1> DEFINE P == PlannedNodes(s)
<1>1. IsFiniteSet(X)
  <2>1. IsFiniteSet(P \X P)
    BY ActiveFacts, FS_Product
  <2>2. X \in SUBSET (P \X P)
    BY DEF ArcsOf
  <2> HIDE DEF P
  <2> QED
    BY <2>1, <2>2, FS_Subset
<1>2. \A m : IsFiniteSet(From(X, m)) /\ IsFiniteSet(To(X, m))
  <2> TAKE m
  <2>1. From(X, m) \in SUBSET X /\ To(X, m) \in SUBSET X
    BY DEF From, To
  <2> QED
    BY <1>1, <2>1, FS_Subset
<1>3. \A m : /\ Cardinality(From(X, m)) \in Nat /\ Cardinality(To(X, m)) \in Nat
             /\ Cardinality(From(X, m)) <= 1 <=> \A a, b \in From(X, m) : a = b
             /\ Cardinality(To(X, m)) <= 1 <=> \A a, b \in To(X, m) : a = b
             /\ Cardinality(From(X, m)) = 0 <=> From(X, m) = {}
             /\ Cardinality(To(X, m)) = 0 <=> To(X, m) = {}
    BY <1>2, AtMostOne, FS_EmptySet
<1>4. \A m \in P : (\A a, b \in From(X, m) : a = b) <=>
                   \A j, k \in P : <<m, j>> \in X /\ <<m, k>> \in X => j = k
  <2> TAKE m \in P
  <2>1. \A a \in From(X, m) : a \in X /\ \E j \in P : a = <<m, j>>
    BY FromToMeans
  <2>2. \A j \in P : <<m, j>> \in X => <<m, j>> \in From(X, m)
    BY DEF From
  <2> HIDE DEF P
  <2> QED
    BY <2>1, <2>2
<1>5. \A m \in P : (\A a, b \in To(X, m) : a = b) <=>
                   \A j, k \in P : <<j, m>> \in X /\ <<k, m>> \in X => j = k
  <2> TAKE m \in P
  <2>1. \A a \in To(X, m) : a \in X /\ \E j \in P : a = <<j, m>>
    BY FromToMeans
  <2>2. \A j \in P : <<j, m>> \in X => <<j, m>> \in To(X, m)
    BY DEF To
  <2> HIDE DEF P
  <2> QED
    BY <2>1, <2>2
<1>6. \A m \in P : /\ From(X, m) = {} <=> ~\E j \in P : <<m, j>> \in X
                   /\ To(X, m) = {} <=> ~\E j \in P : <<j, m>> \in X
    BY FromToMeans
<1>7. Flow(s, X) <=>
        \A m \in P : Cardinality(From(X, m)) = Cardinality(To(X, m)) /\ Cardinality(From(X, m)) <= 1
    BY DEF Flow
<1>8. \A a, b \in Nat : (a = b /\ a <= 1) <=> (a <= 1 /\ b <= 1 /\ (a = 0 <=> b = 0))
    OBVIOUS
<1> DEFINE One(m) == \A j, k \in P : <<m, j>> \in X /\ <<m, k>> \in X => j = k
           OneTo(m) == \A j, k \in P : <<j, m>> \in X /\ <<k, m>> \in X => j = k
           Both(m) == (\E j \in P : <<m, j>> \in X) <=> (\E j \in P : <<j, m>> \in X)
<1>9. Circuit(s, X) <=> \A m \in P : One(m) /\ OneTo(m) /\ Both(m)
    BY DEF Circuit
<1>10. \A m \in P :
        (Cardinality(From(X, m)) = Cardinality(To(X, m)) /\ Cardinality(From(X, m)) <= 1)
        <=> One(m) /\ OneTo(m) /\ Both(m)
  <2> TAKE m \in P
  <2>1. Cardinality(From(X, m)) <= 1 <=> One(m)
    BY <1>3, <1>4
  <2>2. Cardinality(To(X, m)) <= 1 <=> OneTo(m)
    BY <1>3, <1>5
  <2>3. (Cardinality(From(X, m)) = 0 <=> Cardinality(To(X, m)) = 0) <=> Both(m)
    BY <1>3, <1>6
  <2>4. Cardinality(From(X, m)) \in Nat /\ Cardinality(To(X, m)) \in Nat
    BY <1>3
  <2> HIDE DEF One, OneTo, Both
  <2> QED
    BY <1>8, <2>1, <2>2, <2>3, <2>4
<1> HIDE DEF One, OneTo, Both, P
<1> QED
    BY <1>7, <1>9, <1>10

\* A way from the depot along the arcs of X.
Path(s, X, w) ==
    /\ w \in Seq(PlannedNodes(s)) /\ Len(w) >= 1 /\ w[1] = Depot
    /\ \A i \in 1..(Len(w) - 1) : <<w[i], w[i + 1]>> \in X

\* Up to place m it has customers only.
Out(s, w, m) == m \in 1..Len(w) /\ \A i \in 2..m : w[i] \in Active(s)

\* It comes back to the depot.
Back(s, w) == Len(w) >= 3 /\ w[Len(w)] = Depot /\ Out(s, w, Len(w) - 1)

\* Levels that rise along the arcs, but for those back to the depot.
Rising(s, X, level) ==
    /\ level \in [PlannedNodes(s) -> 0..Cardinality(Active(s))]
    /\ \A i, j \in PlannedNodes(s) : <<i, j>> \in X /\ j # Depot => level[i] + 1 <= level[j]

LEMMA OrderedRises ==
    ASSUME NEW s, IsScenario(s), NEW X \in SUBSET ArcsOf(s), Circuit(s, X), Ordered(s, X)
    PROVE  \E level : Rising(s, X, level)
<1> DEFINE n == Cardinality(Active(s))
<1>1. n \in Nat /\ Depot \notin Active(s)
    BY ActiveFacts
<1>2. PICK u \in [Active(s) -> 0..n] :
        /\ \A c \in Active(s) : IF Assigned(X, c) THEN u[c] >= 1 ELSE u[c] = 0
        /\ \A i, j \in Active(s) : i # j =>
             u[i] - u[j] + (IF <<i, j>> \in X THEN n ELSE 0) <= n - 1
    BY DEF Ordered
<1> DEFINE level == [m \in PlannedNodes(s) |-> IF m = Depot THEN 0 ELSE u[m]]
<1> HIDE DEF n
<1>3. level \in [PlannedNodes(s) -> 0..n]
    BY <1>1, <1>2 DEF PlannedNodes
<1>4. ASSUME NEW i \in PlannedNodes(s), NEW j \in PlannedNodes(s), <<i, j>> \in X, j # Depot
      PROVE  level[i] + 1 <= level[j]
  <2>1. j \in Active(s) /\ i # j /\ (i # Depot => i \in Active(s))
    <3>1. i # j
      BY <1>4, ArcMeans
    <3> QED
      BY <1>4, <3>1 DEF PlannedNodes
  <2>2. level[j] = u[j] /\ u[j] \in Int
    BY <1>2, <1>4, <2>1
  <2>3. CASE i = Depot
    <3>1. \E k \in PlannedNodes(s) : <<j, k>> \in X
      BY <1>4 DEF Circuit
    <3>2. Assigned(X, j)
      BY <3>1, FromToMeans DEF Assigned
    <3>3. u[j] >= 1 /\ level[i] = 0
      BY <1>2, <2>1, <2>3, <3>2
    <3> QED
      BY <2>2, <3>3
  <2>4. CASE i # Depot
    <3>1. u[i] - u[j] + n <= n - 1 /\ u[i] \in Int
      BY <1>2, <1>4, <2>1, <2>4
    <3>2. level[i] = u[i]
      BY <2>1, <2>4
    <3> HIDE DEF level
    <3> QED
      BY <1>1, <2>2, <3>1, <3>2
  <2> QED
    BY <2>3, <2>4
<1> HIDE DEF level
<1>5. Rising(s, X, level)
    BY <1>3, <1>4 DEF Rising, n
<1> QED
    BY <1>5

\* What rises at each step rises with the distance.
LEMMA Climbs ==
    ASSUME NEW m \in Nat, NEW g \in [1..m -> Int], \A i \in 1..(m - 1) : g[i] + 1 <= g[i + 1]
    PROVE  \A i, j \in 1..m : i <= j => g[i] + (j - i) <= g[j]
<1> DEFINE T == {d \in Nat : \A i \in 1..m : i + d <= m => g[i] + d <= g[i + d]}
<1>1. 0 \in T
    OBVIOUS
<1>2. ASSUME NEW d \in Nat, d \in T PROVE d + 1 \in T
  <2> SUFFICES ASSUME NEW i \in 1..m, i + (d + 1) <= m PROVE g[i] + (d + 1) <= g[i + (d + 1)]
    OBVIOUS
  <2>1. g[i] + d <= g[i + d]
    BY <1>2
  <2>2. i + d \in 1..(m - 1) /\ i + (d + 1) = (i + d) + 1
    OBVIOUS
  <2>3. g[i + d] + 1 <= g[i + (d + 1)]
    BY <2>2
  <2>4. i + d \in 1..m /\ i + (d + 1) \in 1..m
    BY <2>2
  <2>5. g[i] \in Int /\ g[i + d] \in Int /\ g[i + (d + 1)] \in Int
    BY <2>4
  <2> QED
    BY <2>1, <2>3, <2>5
<1> HIDE DEF T
<1>3. \A d \in Nat : d \in T
    BY <1>1, <1>2, InductionOnNat
<1> SUFFICES ASSUME NEW i \in 1..m, NEW j \in 1..m, i <= j PROVE g[i] + (j - i) <= g[j]
    OBVIOUS
<1>4. j - i \in Nat /\ i + (j - i) = j
    OBVIOUS
<1>5. j - i \in T
    BY <1>3, <1>4
<1> QED
    BY <1>4, <1>5 DEF T

\* On the way out no node comes twice, and there are only so many customers.
LEMMA OutClimbs ==
    ASSUME NEW s, IsScenario(s), NEW X, NEW level, Rising(s, X, level),
           NEW w, Path(s, X, w), NEW m, Out(s, w, m)
    PROVE  /\ \A i, j \in 1..m : w[i] = w[j] => i = j
           /\ m <= Cardinality(Active(s)) + 1
<1> DEFINE n == Cardinality(Active(s))
           g == [i \in 1..m |-> level[w[i]]]
<1>1. n \in Nat /\ Depot \notin Active(s)
    BY ActiveFacts
<1>2. w \in Seq(PlannedNodes(s)) /\ Len(w) \in Nat /\ m \in 1..Len(w) /\ m \in Nat
    BY DEF Path, Out
<1>3. \A i \in 1..m : w[i] \in PlannedNodes(s)
    BY <1>2
<1>4. \A i \in 1..m : g[i] \in 0..n
    BY <1>3 DEF Rising
<1>5. g \in [1..m -> Int]
    BY <1>4
<1>6. ASSUME NEW i \in 1..(m - 1) PROVE g[i] + 1 <= g[i + 1]
  <2>1. i \in 1..m /\ i + 1 \in 1..m /\ i + 1 \in 2..m /\ i \in 1..(Len(w) - 1)
    BY <1>2
  <2>2. <<w[i], w[i + 1]>> \in X /\ w[i + 1] # Depot
    BY <1>1, <2>1 DEF Path, Out
  <2>3. level[w[i]] + 1 <= level[w[i + 1]]
    BY <1>3, <2>1, <2>2 DEF Rising
  <2> QED
    BY <2>1, <2>3
<1>7. \A i, j \in 1..m : w[i] = w[j] => g[i] = g[j]
    OBVIOUS
<1> HIDE DEF g
<1>8. \A i, j \in 1..m : i <= j => g[i] + (j - i) <= g[j]
    BY <1>2, <1>5, <1>6, Climbs
<1>9. ASSUME NEW i \in 1..m, NEW j \in 1..m, w[i] = w[j] PROVE i = j
  <2>1. g[i] = g[j] /\ g[i] \in Int
    BY <1>5, <1>7, <1>9
  <2>2. i <= j => g[i] + (j - i) <= g[j]
    BY <1>8
  <2>3. j <= i => g[j] + (i - j) <= g[i]
    BY <1>8
  <2> QED
    BY <2>1, <2>2, <2>3
<1>10. m <= n + 1
  <2>1. 1 \in 1..m /\ m \in 1..m /\ 1 <= m
    BY <1>2
  <2>2. g[1] + (m - 1) <= g[m] /\ g[1] \in 0..n /\ g[m] \in 0..n
    BY <1>4, <1>8, <2>1
  <2> QED
    BY <1>1, <1>2, <2>2
<1> QED
    BY <1>9, <1>10

-----------------------------------------------------------------------------
(* The walk along a circuit comes back to the depot, with every arc on it. *)

LEMMA AheadIs ==
    ASSUME NEW s, NEW X \in SUBSET ArcsOf(s), Circuit(s, X),
           NEW m \in PlannedNodes(s), NEW j \in PlannedNodes(s), <<m, j>> \in X
    PROVE  From(X, m) # {} /\ (CHOOSE a \in From(X, m) : TRUE)[2] = j
<1>1. From(X, m) # {}
    BY FromToMeans
<1> DEFINE c == CHOOSE a \in From(X, m) : TRUE
<1>2. PICK a \in From(X, m) : a = c
    BY <1>1
<1> HIDE DEF c
<1>3. \A b \in From(X, m) : b \in X /\ \E k \in PlannedNodes(s) : b = <<m, k>>
    BY FromToMeans
<1>4. PICK k \in PlannedNodes(s) : a \in X /\ a = <<m, k>>
    BY <1>3
<1>5. k = j
    BY <1>4 DEF Circuit
<1>6. c[2] = j
    BY <1>2, <1>4, <1>5
<1> QED
    BY <1>1, <1>6 DEF c

LEMMA PastOne ==
    \A n \in Nat : n >= 1 /\ n # 1 =>
        /\ n - 1 \in 1..(n - 1) /\ (n - 1) + 1 = n
        /\ n + 1 >= 3 /\ (n + 1) - 1 = n /\ n \in 1..(n + 1)
    OBVIOUS

\* Where the walk is after k steps: out, back, or still where it began.
Going(s, X, k, w) ==
    /\ Path(s, X, w)
    /\ \/ Out(s, w, Len(w)) /\ Len(w) = k + 1
       \/ Back(s, w)
       \/ w = <<Depot>> /\ From(X, Depot) = {}

LEMMA PathFacts ==
    ASSUME NEW s, NEW X, NEW w, Path(s, X, w)
    PROVE  /\ w \in Seq(PlannedNodes(s)) /\ Len(w) \in Nat /\ Len(w) >= 1 /\ w[1] = Depot
           /\ DOMAIN w = 1..Len(w) /\ 1 \in 1..Len(w) /\ Len(w) \in 1..Len(w)
           /\ \A i \in 1..Len(w) : w[i] \in PlannedNodes(s)
           /\ \A i \in 1..(Len(w) - 1) : <<w[i], w[i + 1]>> \in X /\ i \in 1..Len(w) /\ i + 1 \in 1..Len(w)
<1>1. w \in Seq(PlannedNodes(s)) /\ Len(w) \in Nat /\ Len(w) >= 1 /\ w[1] = Depot
    BY DEF Path
<1>2. \A i \in 1..(Len(w) - 1) : i \in 1..Len(w) /\ i + 1 \in 1..Len(w)
    BY <1>1
<1> QED
    BY <1>1, <1>2 DEF Path

LEMMA PathAppend ==
    ASSUME NEW s, NEW X, NEW w, Path(s, X, w), NEW j \in PlannedNodes(s), <<w[Len(w)], j>> \in X
    PROVE  /\ Path(s, X, Append(w, j)) /\ Len(Append(w, j)) = Len(w) + 1
           /\ Append(w, j)[Len(w) + 1] = j
           /\ \A i \in 1..Len(w) : Append(w, j)[i] = w[i]
<1> DEFINE t == Append(w, j)
<1>1. w \in Seq(PlannedNodes(s)) /\ Len(w) \in Nat /\ Len(w) >= 1 /\ w[1] = Depot
    BY PathFacts
<1>2. /\ t \in Seq(PlannedNodes(s)) /\ Len(t) = Len(w) + 1 /\ t[Len(w) + 1] = j
      /\ \A i \in 1..Len(w) : t[i] = w[i]
    BY <1>1
<1> HIDE DEF t
<1>3. ASSUME NEW i \in 1..(Len(t) - 1) PROVE <<t[i], t[i + 1]>> \in X
  <2>1. CASE i = Len(w)
    BY <1>1, <1>2, <2>1
  <2>2. CASE i # Len(w)
    <3>1. i \in 1..(Len(w) - 1) /\ i \in 1..Len(w) /\ i + 1 \in 1..Len(w)
      BY <1>1, <1>2, <2>2
    <3> QED
      BY <1>2, <3>1 DEF Path
  <2> QED
    BY <2>1, <2>2
<1>4. t[1] = Depot /\ Len(t) >= 1
    BY <1>1, <1>2
<1>5. Path(s, X, t)
    BY <1>2, <1>3, <1>4 DEF Path
<1> QED
    BY <1>2, <1>5 DEF t

LEMMA GoingFurther ==
    ASSUME NEW s, IsScenario(s), NEW X \in SUBSET ArcsOf(s), Circuit(s, X),
           NEW level, Rising(s, X, level), NEW k \in Nat, NEW w, Going(s, X, k, w)
    PROVE  Going(s, X, k + 1, Further(X, w))
<1> DEFINE L == Len(w)
           m == w[L]
<1>1. /\ w \in Seq(PlannedNodes(s)) /\ L \in Nat /\ L >= 1 /\ w[1] = Depot /\ Path(s, X, w)
      /\ m \in PlannedNodes(s) /\ Depot \notin Active(s)
    BY PathFacts, ActiveFacts DEF Going
<1>2. CASE Back(s, w)
  <2>1. L > 1 /\ 1 \in 1..(L - 1) /\ w[1] = w[L]
    BY <1>1, <1>2 DEF Back
  <2>2. Further(X, w) = w
    BY <2>1 DEF Further
  <2> QED
    BY <1>1, <1>2, <2>2 DEF Going
<1>3. CASE w = <<Depot>> /\ From(X, Depot) = {}
  <2>1. L = 1 /\ m = Depot
    BY <1>3
  <2>2. Further(X, w) = w
    BY <1>3, <2>1 DEF Further
  <2> QED
    BY <1>1, <1>3, <2>2 DEF Going
<1>4. CASE Out(s, w, L) /\ L = k + 1
  <2>1. \A i \in 1..(L - 1) : w[i] # m
    <3>1. \A i, j \in 1..L : w[i] = w[j] => i = j
      BY <1>1, <1>4, OutClimbs
    <3> TAKE i \in 1..(L - 1)
    <3>2. i \in 1..L /\ L \in 1..L /\ i # L
      BY <1>1
    <3> QED
      BY <3>1, <3>2
  <2>2. CASE From(X, m) = {}
    <3>1. L = 1
      <4> SUFFICES ASSUME L # 1 PROVE FALSE
        OBVIOUS
      <4>1. L - 1 \in 1..(L - 1) /\ (L - 1) + 1 = L
        BY <1>1, PastOne
      <4>2. <<w[L - 1], m>> \in X /\ w[L - 1] \in PlannedNodes(s)
        BY <1>1, <4>1, PathFacts
      <4>3. \E j \in PlannedNodes(s) : <<m, j>> \in X
        BY <1>1, <4>2 DEF Circuit
      <4> QED
        BY <2>2, <4>3, FromToMeans
    <3>2. w = <<Depot>>
      BY <1>1, <3>1
    <3>3. Further(X, w) = w
      BY <2>2 DEF Further
    <3> QED
      BY <1>1, <2>2, <3>1, <3>2, <3>3 DEF Going
  <2>3. CASE From(X, m) # {}
    <3>1. PICK j \in PlannedNodes(s) : <<m, j>> \in X
      BY <2>3, FromToMeans
    <3> DEFINE t == Append(w, j)
    <3>2. (CHOOSE a \in From(X, m) : TRUE)[2] = j
      BY <1>1, <3>1, AheadIs
    <3>3. Further(X, w) = t
      BY <2>1, <2>3, <3>2 DEF Further
    <3>4. /\ Path(s, X, t) /\ Len(t) = L + 1 /\ t[L + 1] = j
          /\ \A i \in 1..L : t[i] = w[i]
      BY <1>1, <3>1, PathAppend
    <3> HIDE DEF t
    <3>5. \A i \in 2..L : i \in 1..L /\ t[i] \in Active(s)
      <4> TAKE i \in 2..L
      <4>1. i \in 1..L
        BY <1>1
      <4> QED
        BY <1>4, <3>4, <4>1 DEF Out
    <3>6. CASE j = Depot
      <4>1. L # 1
        <5>1. m # j
          BY <3>1, ArcMeans
        <5> QED
          BY <1>1, <3>6, <5>1
      <4>2. Len(t) >= 3 /\ Len(t) - 1 = L /\ L \in 1..Len(t)
        BY <1>1, <3>4, <4>1, PastOne
      <4>3. Out(s, t, L)
        BY <3>5, <4>2 DEF Out
      <4>4. t[Len(t)] = Depot
        BY <3>4, <3>6
      <4>5. Back(s, t)
        BY <4>2, <4>3, <4>4 DEF Back
      <4> QED
        BY <3>3, <3>4, <4>5 DEF Going
    <3>7. CASE j # Depot
      <4>1. j \in Active(s)
        BY <3>7 DEF PlannedNodes
      <4>2. \A i \in 2..(L + 1) : i = L + 1 \/ i \in 2..L
        BY <1>1
      <4>3. \A i \in 2..(L + 1) : t[i] \in Active(s)
        BY <3>4, <3>5, <4>1, <4>2
      <4>4. L + 1 \in 1..(L + 1) /\ L + 1 = (k + 1) + 1
        BY <1>1, <1>4
      <4>5. Out(s, t, Len(t)) /\ Len(t) = (k + 1) + 1
        BY <3>4, <4>3, <4>4 DEF Out
      <4> QED
        BY <3>3, <3>4, <4>5 DEF Going
    <3> QED
      BY <3>6, <3>7
  <2> QED
    BY <2>2, <2>3
<1> QED
    BY <1>2, <1>3, <1>4 DEF Going

\* The walk along a circuit comes back, unless the circuit does not touch the depot.
LEMMA WalkEnds ==
    ASSUME NEW s, IsScenario(s), NEW X \in SUBSET ArcsOf(s), Circuit(s, X),
           NEW level, Rising(s, X, level)
    PROVE  /\ Path(s, X, Walk(s, X))
           /\ Back(s, Walk(s, X)) \/ (Walk(s, X) = <<Depot>> /\ From(X, Depot) = {})
<1> DEFINE n == Cardinality(Active(s))
<1>1. PICK stops : Steps(s, X, stops)
    BY WalkUnfold
<1> DEFINE T == {k \in Nat : Going(s, X, k, stops[k])}
<1>2. 0 \in T
  <2> DEFINE w == <<Depot>>
  <2>1. w \in Seq(PlannedNodes(s)) /\ Len(w) = 1 /\ w[1] = Depot
    BY DEF PlannedNodes
  <2> HIDE DEF w
  <2>2. Path(s, X, w) /\ Out(s, w, Len(w)) /\ Len(w) = 0 + 1
    BY <2>1 DEF Path, Out
  <2>3. Going(s, X, 0, w)
    BY <2>2 DEF Going
  <2>4. stops[0] = w
    BY <1>1 DEF Steps, w
  <2> QED
    BY <2>3, <2>4
<1>3. ASSUME NEW k \in Nat, k \in T PROVE k + 1 \in T
  <2>1. Going(s, X, k + 1, Further(X, stops[k]))
    BY <1>3, GoingFurther
  <2>2. stops[k + 1] = Further(X, stops[k])
    BY <1>1 DEF Steps
  <2> QED
    BY <2>1, <2>2
<1> HIDE DEF T
<1>4. \A k \in Nat : k \in T
    BY <1>2, <1>3, InductionOnNat
<1>5. n \in Nat /\ n + 1 \in Nat
    BY ActiveFacts
<1>6. Going(s, X, n + 1, Walk(s, X))
    BY <1>1, <1>4, <1>5 DEF T, Steps
<1> DEFINE w == Walk(s, X)
<1>7. ~(Out(s, w, Len(w)) /\ Len(w) = (n + 1) + 1)
  <2> SUFFICES ASSUME Out(s, w, Len(w)), Len(w) = (n + 1) + 1 PROVE FALSE
    OBVIOUS
  <2>1. Len(w) <= n + 1
    BY <1>6, OutClimbs DEF Going
  <2> HIDE DEF w, n
  <2> QED
    BY <1>5, <2>1
<1> QED
    BY <1>6, <1>7 DEF Going

\* A circuit goes from the depot back to it in one way.
LEMMA OneWayBack ==
    ASSUME NEW s, IsScenario(s), NEW X \in SUBSET ArcsOf(s), Circuit(s, X),
           NEW w, Path(s, X, w), Back(s, w), NEW t, Path(s, X, t), Back(s, t)
    PROVE  w = t
<1> DEFINE T == {k \in Nat : k + 1 <= Len(w) /\ k + 1 <= Len(t) => w[k + 1] = t[k + 1]}
<1>1. /\ w \in Seq(PlannedNodes(s)) /\ Len(w) \in Nat /\ w[1] = Depot
      /\ \A i \in 1..Len(w) : w[i] \in PlannedNodes(s)
      /\ \A i \in 1..(Len(w) - 1) : <<w[i], w[i + 1]>> \in X
      /\ Len(w) >= 3 /\ w[Len(w)] = Depot /\ \A i \in 2..(Len(w) - 1) : w[i] \in Active(s)
    BY PathFacts DEF Back, Out
<1>2. /\ t \in Seq(PlannedNodes(s)) /\ Len(t) \in Nat /\ t[1] = Depot
      /\ \A i \in 1..Len(t) : t[i] \in PlannedNodes(s)
      /\ \A i \in 1..(Len(t) - 1) : <<t[i], t[i + 1]>> \in X
      /\ Len(t) >= 3 /\ t[Len(t)] = Depot /\ \A i \in 2..(Len(t) - 1) : t[i] \in Active(s)
    BY PathFacts DEF Back, Out
<1>3. 0 \in T
    BY <1>1, <1>2
<1>4. ASSUME NEW k \in Nat, k \in T PROVE k + 1 \in T
  <2> SUFFICES ASSUME (k + 1) + 1 <= Len(w), (k + 1) + 1 <= Len(t)
               PROVE  w[(k + 1) + 1] = t[(k + 1) + 1]
    OBVIOUS
  <2>1. /\ k + 1 \in 1..(Len(w) - 1) /\ k + 1 \in 1..(Len(t) - 1)
        /\ k + 1 \in 1..Len(w) /\ (k + 1) + 1 \in 1..Len(w) /\ (k + 1) + 1 \in 1..Len(t)
        /\ k + 1 <= Len(w) /\ k + 1 <= Len(t)
    BY <1>1, <1>2
  <2>2. w[k + 1] = t[k + 1]
    BY <1>4, <2>1
  <2>3. <<w[k + 1], w[(k + 1) + 1]>> \in X /\ <<w[k + 1], t[(k + 1) + 1]>> \in X
    BY <1>1, <1>2, <2>1, <2>2
  <2> QED
    BY <1>1, <1>2, <2>1, <2>3 DEF Circuit
<1> HIDE DEF T
<1>5. \A k \in Nat : k \in T
    BY <1>3, <1>4, InductionOnNat
<1>6. \A i \in 1..Len(w) : i \in 1..Len(t) => w[i] = t[i]
  <2> SUFFICES ASSUME NEW i \in 1..Len(w), i \in 1..Len(t) PROVE w[i] = t[i]
    OBVIOUS
  <2>1. i - 1 \in Nat /\ (i - 1) + 1 = i /\ i <= Len(w) /\ i <= Len(t)
    BY <1>1, <1>2
  <2>2. i - 1 \in T
    BY <1>5, <2>1
  <2> QED
    BY <2>1, <2>2 DEF T
<1>7. Depot \notin Active(s)
    BY ActiveFacts
<1>8. Len(w) = Len(t)
  <2>1. ~(Len(w) < Len(t))
    <3> SUFFICES ASSUME Len(w) < Len(t) PROVE FALSE
      OBVIOUS
    <3>1. Len(w) \in 1..Len(w) /\ Len(w) \in 1..Len(t) /\ Len(w) \in 2..(Len(t) - 1)
      BY <1>1, <1>2
    <3>2. w[Len(w)] = t[Len(w)]
      BY <1>6, <3>1
    <3> QED
      BY <1>1, <1>2, <1>7, <3>1, <3>2
  <2>2. ~(Len(t) < Len(w))
    <3> SUFFICES ASSUME Len(t) < Len(w) PROVE FALSE
      OBVIOUS
    <3>1. Len(t) \in 1..Len(w) /\ Len(t) \in 1..Len(t) /\ Len(t) \in 2..(Len(w) - 1)
      BY <1>1, <1>2
    <3>2. w[Len(t)] = t[Len(t)]
      BY <1>6, <3>1
    <3> QED
      BY <1>1, <1>2, <1>7, <3>1, <3>2
  <2> QED
    BY <1>1, <1>2, <2>1, <2>2
<1> QED
    BY <1>1, <1>2, <1>6, <1>8

-----------------------------------------------------------------------------
(* The legs of an order are such a circuit, and every circuit is one.      *)

\* The arcs of an order's round trip.
Legs(f) ==
    IF f = <<>> THEN {}
      ELSE {<<RoundTrip(f)[i], RoundTrip(f)[i + 1]>> : i \in 1..(Len(f) + 1)}

LEMMA OrderMeans ==
    ASSUME NEW s, IsScenario(s), NEW f
    PROVE  f \in Orders(s) <=>
             \E m \in 0..Cardinality(Active(s)) :
                f \in [1..m -> Active(s)] /\ \A i, j \in 1..m : f[i] = f[j] => i = j
<1>1. f \in Orders(s) <=> \E m \in 0..Cardinality(Active(s)) : f \in [1..m -> Active(s)] /\ IsInjective(f)
    BY DEF Orders
<1>2. \A m : f \in [1..m -> Active(s)] =>
            (IsInjective(f) <=> \A i, j \in 1..m : f[i] = f[j] => i = j)
    BY DEF IsInjective
<1> QED
    BY <1>1, <1>2

LEMMA OrderFacts ==
    ASSUME NEW s, IsScenario(s), NEW f \in Orders(s)
    PROVE  /\ f \in Seq(Active(s)) /\ Len(f) \in Nat /\ Len(f) <= Cardinality(Active(s))
           /\ DOMAIN f = 1..Len(f)
           /\ \A i \in 1..Len(f) : f[i] \in Active(s)
           /\ \A i, j \in 1..Len(f) : f[i] = f[j] => i = j
           /\ f = <<>> <=> Len(f) = 0
<1>1. PICK m \in 0..Cardinality(Active(s)) :
        f \in [1..m -> Active(s)] /\ \A i, j \in 1..m : f[i] = f[j] => i = j
    BY OrderMeans
<1>2. m \in Nat /\ m <= Cardinality(Active(s))
    BY ActiveFacts
<1>3. f \in Seq(Active(s)) /\ Len(f) = m
    BY <1>1, <1>2
<1> QED
    BY <1>1, <1>2, <1>3

LEMMA TripFacts ==
    ASSUME NEW s, IsScenario(s), NEW f \in Orders(s)
    PROVE  LET w == RoundTrip(f) IN
           /\ w \in Seq(PlannedNodes(s)) /\ Len(w) = Len(f) + 2
           /\ w[1] = Depot /\ w[Len(f) + 2] = Depot
           /\ \A i \in 1..Len(f) : w[i + 1] = f[i]
           /\ \A i \in 2..(Len(f) + 1) : i - 1 \in 1..Len(f) /\ w[i] = f[i - 1] /\ w[i] \in Active(s)
           /\ \A i \in 1..(Len(f) + 2) : w[i] \in PlannedNodes(s)
<1> DEFINE w == RoundTrip(f)
<1>1. /\ f \in Seq(Active(s)) /\ Len(f) \in Nat /\ \A i \in 1..Len(f) : f[i] \in Active(s)
    BY OrderFacts
<1>2. f \in Seq(NodeIds)
  <2>1. Active(s) \subseteq NodeIds
    BY ActiveFacts DEF PlannedNodes
  <2> QED
    BY <1>1, <2>1
<1>3. /\ w \in Seq(NodeIds) /\ Len(w) = Len(f) + 2
      /\ w[1] = Depot /\ w[Len(f) + 2] = Depot
      /\ \A i \in 2..(Len(f) + 1) : i - 1 \in 1..Len(f) /\ w[i] = f[i - 1]
    BY <1>2, RoundTripFacts
<1> HIDE DEF w
<1>4. \A i \in 2..(Len(f) + 1) : w[i] \in Active(s)
    BY <1>1, <1>3
<1>5. \A i \in 1..(Len(f) + 2) : w[i] \in PlannedNodes(s)
  <2> TAKE i \in 1..(Len(f) + 2)
  <2>1. i = 1 \/ i = Len(f) + 2 \/ i \in 2..(Len(f) + 1)
    BY <1>1
  <2> QED
    BY <1>3, <1>4, <2>1 DEF PlannedNodes
<1>6. w \in Seq(PlannedNodes(s))
  <2>1. w \in [1..(Len(f) + 2) -> PlannedNodes(s)]
    <3>1. DOMAIN w = 1..(Len(f) + 2) /\ w = [i \in DOMAIN w |-> w[i]]
      BY <1>3
    <3> QED
      BY <1>5, <3>1
  <2> QED
    BY <1>1, <2>1
<1>7. \A i \in 1..Len(f) : w[i + 1] = f[i]
  <2> TAKE i \in 1..Len(f)
  <2>1. i + 1 \in 2..(Len(f) + 1) /\ (i + 1) - 1 = i
    BY <1>1
  <2> QED
    BY <1>3, <2>1
<1> QED
    BY <1>3, <1>4, <1>5, <1>6, <1>7 DEF w

\* No node comes twice on a round trip, but for the depot at its ends.
LEMMA TripOnce ==
    ASSUME NEW s, IsScenario(s), NEW f \in Orders(s)
    PROVE  LET w == RoundTrip(f) IN
           /\ \A i, j \in 1..(Len(f) + 1) : w[i] = w[j] => i = j
           /\ \A i, j \in 2..(Len(f) + 2) : w[i] = w[j] => i = j
<1> DEFINE w == RoundTrip(f)
<1>1. Len(f) \in Nat /\ \A i, j \in 1..Len(f) : f[i] = f[j] => i = j
    BY OrderFacts
<1>2. /\ w[1] = Depot /\ w[Len(f) + 2] = Depot /\ Depot \notin Active(s)
      /\ \A i \in 2..(Len(f) + 1) : i - 1 \in 1..Len(f) /\ w[i] = f[i - 1] /\ w[i] \in Active(s)
    BY TripFacts, ActiveFacts
<1> HIDE DEF w
<1>3. \A i, j \in 2..(Len(f) + 1) : w[i] = w[j] => i = j
  <2> SUFFICES ASSUME NEW i \in 2..(Len(f) + 1), NEW j \in 2..(Len(f) + 1), w[i] = w[j] PROVE i = j
    OBVIOUS
  <2>1. i - 1 = j - 1
    BY <1>1, <1>2
  <2> QED
    BY <2>1
<1>4. \A i \in 1..(Len(f) + 1) : i = 1 \/ i \in 2..(Len(f) + 1)
    BY <1>1
<1>5. \A i \in 2..(Len(f) + 2) : i = Len(f) + 2 \/ i \in 2..(Len(f) + 1)
    BY <1>1
<1>6. \A i, j \in 1..(Len(f) + 1) : w[i] = w[j] => i = j
    BY <1>2, <1>3, <1>4
<1>7. \A i, j \in 2..(Len(f) + 2) : w[i] = w[j] => i = j
    BY <1>2, <1>3, <1>5
<1> QED
    BY <1>6, <1>7 DEF w

LEMMA LegsMean ==
    ASSUME NEW s, IsScenario(s), NEW f \in Orders(s), f # <<>>
    PROVE  /\ \A a : a \in Legs(f) <=>
                \E i \in 1..(Len(f) + 1) : a = <<RoundTrip(f)[i], RoundTrip(f)[i + 1]>>
           /\ Len(f) \in Nat /\ Len(f) >= 1
<1>1. Len(f) \in Nat /\ Len(f) # 0
    BY OrderFacts
<1>2. Len(f) >= 1
    BY <1>1
<1> QED
    BY <1>1, <1>2 DEF Legs

LEMMA LegsAreArcs ==
    ASSUME NEW s, IsScenario(s), NEW f \in Orders(s)
    PROVE  Legs(f) \in SUBSET ArcsOf(s)
<1> DEFINE w == RoundTrip(f)
<1>1. CASE f = <<>>
    BY <1>1 DEF Legs
<1>2. CASE f # <<>>
  <2> SUFFICES ASSUME NEW a \in Legs(f) PROVE a \in ArcsOf(s)
    OBVIOUS
  <2>1. Len(f) \in Nat /\ Len(f) >= 1
    BY <1>2, LegsMean
  <2>2. PICK i \in 1..(Len(f) + 1) : a = <<w[i], w[i + 1]>>
    BY <1>2, LegsMean
  <2>3. i \in 1..(Len(f) + 2) /\ i + 1 \in 1..(Len(f) + 2) /\ i + 1 # i
    BY <2>1
  <2>4. w[i] \in PlannedNodes(s) /\ w[i + 1] \in PlannedNodes(s)
    BY <2>3, TripFacts
  <2>5. w[i] # w[i + 1]
    <3>1. CASE i = Len(f) + 1
      <4>1. w[i + 1] = Depot /\ w[i] \in Active(s)
        BY <2>1, <3>1, TripFacts
      <4> QED
        BY <4>1, ActiveFacts
    <3>2. CASE i # Len(f) + 1
      <4>1. i \in 1..(Len(f) + 1) /\ i + 1 \in 1..(Len(f) + 1)
        BY <2>1, <3>2
      <4> QED
        BY <2>3, <4>1, TripOnce
    <3> QED
      BY <3>1, <3>2
  <2> HIDE DEF w
  <2> QED
    BY <2>2, <2>4, <2>5 DEF ArcsOf
<1> QED
    BY <1>1, <1>2

\* Which nodes the legs leave and reach.
LEMMA LegsTouch ==
    ASSUME NEW s, IsScenario(s), NEW f \in Orders(s), f # <<>>, NEW m
    PROVE  /\ (\E j \in PlannedNodes(s) : <<m, j>> \in Legs(f)) <=>
                 m = Depot \/ \E i \in 1..Len(f) : f[i] = m
           /\ (\E j \in PlannedNodes(s) : <<j, m>> \in Legs(f)) <=>
                 m = Depot \/ \E i \in 1..Len(f) : f[i] = m
<1> DEFINE w == RoundTrip(f)
           L == Len(f)
<1>1. /\ \A a : a \in Legs(f) <=> \E i \in 1..(L + 1) : a = <<w[i], w[i + 1]>>
      /\ L \in Nat /\ L >= 1
    BY LegsMean
<1>2. /\ w[1] = Depot /\ w[L + 2] = Depot
      /\ \A i \in 1..L : w[i + 1] = f[i]
      /\ \A i \in 2..(L + 1) : i - 1 \in 1..L /\ w[i] = f[i - 1]
      /\ \A i \in 1..(L + 2) : w[i] \in PlannedNodes(s)
    BY TripFacts
<1> HIDE DEF w, L
<1>3. \A i \in 1..(L + 1) : i \in 1..(L + 2) /\ i + 1 \in 1..(L + 2) /\ i + 1 \in 2..(L + 2)
    BY <1>1
<1>4. (\E j \in PlannedNodes(s) : <<m, j>> \in Legs(f)) <=> \E i \in 1..(L + 1) : w[i] = m
  <2>1. ASSUME NEW j, <<m, j>> \in Legs(f) PROVE \E i \in 1..(L + 1) : w[i] = m
    BY <1>1, <2>1
  <2>2. ASSUME NEW i \in 1..(L + 1), w[i] = m PROVE \E j \in PlannedNodes(s) : <<m, j>> \in Legs(f)
    BY <1>1, <1>2, <1>3, <2>2
  <2> QED
    BY <2>1, <2>2
<1>5. (\E j \in PlannedNodes(s) : <<j, m>> \in Legs(f)) <=> \E i \in 1..(L + 1) : w[i + 1] = m
  <2>1. ASSUME NEW j, <<j, m>> \in Legs(f) PROVE \E i \in 1..(L + 1) : w[i + 1] = m
    BY <1>1, <2>1
  <2>2. ASSUME NEW i \in 1..(L + 1), w[i + 1] = m PROVE \E j \in PlannedNodes(s) : <<j, m>> \in Legs(f)
    BY <1>1, <1>2, <1>3, <2>2
  <2> QED
    BY <2>1, <2>2
<1>6. (\E i \in 1..(L + 1) : w[i] = m) <=> m = Depot \/ \E i \in 1..L : f[i] = m
  <2>1. ASSUME NEW i \in 1..(L + 1), w[i] = m PROVE m = Depot \/ \E k \in 1..L : f[k] = m
    <3>1. i = 1 \/ i \in 2..(L + 1)
      BY <1>1
    <3> QED
      BY <1>2, <2>1, <3>1
  <2>2. 1 \in 1..(L + 1) /\ \A i \in 1..L : i + 1 \in 1..(L + 1)
    BY <1>1
  <2> QED
    BY <1>2, <2>1, <2>2
<1>7. (\E i \in 1..(L + 1) : w[i + 1] = m) <=> m = Depot \/ \E i \in 1..L : f[i] = m
  <2>1. ASSUME NEW i \in 1..(L + 1), w[i + 1] = m PROVE m = Depot \/ \E k \in 1..L : f[k] = m
    <3>1. i + 1 = L + 2 \/ i \in 1..L
      BY <1>1
    <3> QED
      BY <1>2, <2>1, <3>1
  <2>2. L + 1 \in 1..(L + 1) /\ (L + 1) + 1 = L + 2 /\ \A i \in 1..L : i \in 1..(L + 1)
    BY <1>1
  <2> QED
    BY <1>2, <2>1, <2>2
<1> QED
    BY <1>4, <1>5, <1>6, <1>7 DEF L

LEMMA LegsCircuit ==
    ASSUME NEW s, IsScenario(s), NEW f \in Orders(s)
    PROVE  Circuit(s, Legs(f))
<1> DEFINE w == RoundTrip(f)
           L == Len(f)
<1>1. CASE f = <<>>
    BY <1>1 DEF Legs, Circuit
<1>2. CASE f # <<>>
  <2>1. /\ \A a : a \in Legs(f) <=> \E i \in 1..(L + 1) : a = <<w[i], w[i + 1]>>
        /\ L \in Nat
    BY <1>2, LegsMean
  <2>2. /\ \A i, j \in 1..(L + 1) : w[i] = w[j] => i = j
        /\ \A i, j \in 2..(L + 2) : w[i] = w[j] => i = j
    BY TripOnce
  <2> HIDE DEF w, L
  <2>3. \A i, j, k \in PlannedNodes(s) : <<i, j>> \in Legs(f) /\ <<i, k>> \in Legs(f) => j = k
    <3> SUFFICES ASSUME NEW i, NEW j, NEW k, <<i, j>> \in Legs(f), <<i, k>> \in Legs(f) PROVE j = k
      OBVIOUS
    <3>1. PICK a \in 1..(L + 1) : <<i, j>> = <<w[a], w[a + 1]>>
      BY <2>1
    <3>2. PICK b \in 1..(L + 1) : <<i, k>> = <<w[b], w[b + 1]>>
      BY <2>1
    <3>3. a = b
      BY <2>2, <3>1, <3>2
    <3> QED
      BY <3>1, <3>2, <3>3
  <2>4. \A i, j, k \in PlannedNodes(s) : <<j, i>> \in Legs(f) /\ <<k, i>> \in Legs(f) => j = k
    <3> SUFFICES ASSUME NEW i, NEW j, NEW k, <<j, i>> \in Legs(f), <<k, i>> \in Legs(f) PROVE j = k
      OBVIOUS
    <3>1. PICK a \in 1..(L + 1) : <<j, i>> = <<w[a], w[a + 1]>>
      BY <2>1
    <3>2. PICK b \in 1..(L + 1) : <<k, i>> = <<w[b], w[b + 1]>>
      BY <2>1
    <3>3. a + 1 \in 2..(L + 2) /\ b + 1 \in 2..(L + 2)
      BY <2>1
    <3>4. a + 1 = b + 1
      BY <2>2, <3>1, <3>2, <3>3
    <3>5. a = b
      BY <2>1, <3>4
    <3> QED
      BY <3>1, <3>2, <3>5
  <2>5. \A m \in PlannedNodes(s) :
         (\E j \in PlannedNodes(s) : <<m, j>> \in Legs(f)) <=>
         (\E j \in PlannedNodes(s) : <<j, m>> \in Legs(f))
    BY <1>2, LegsTouch
  <2> QED
    BY <2>3, <2>4, <2>5 DEF Circuit
<1> QED
    BY <1>1, <1>2

\* The legs go to the customers of the order, from the depot.
LEMMA LegsAssign ==
    ASSUME NEW s, IsScenario(s), NEW f \in Orders(s)
    PROVE  /\ \A c \in Active(s) : Assigned(Legs(f), c) <=> \E i \in 1..Len(f) : f[i] = c
           /\ f # <<>> => Used(Legs(f))
<1>1. Legs(f) \in SUBSET ArcsOf(s) /\ Depot \notin Active(s)
    BY LegsAreArcs, ActiveFacts
<1>2. \A m : From(Legs(f), m) # {} <=> \E j \in PlannedNodes(s) : <<m, j>> \in Legs(f)
    BY <1>1, FromToMeans
<1>3. CASE f = <<>>
  <2>1. \A m : From(Legs(f), m) = {}
    BY <1>3 DEF Legs, From
  <2>2. Len(f) = 0
    BY <1>3
  <2> QED
    BY <1>3, <2>1, <2>2 DEF Assigned
<1>4. CASE f # <<>>
  <2>1. \A m : (\E j \in PlannedNodes(s) : <<m, j>> \in Legs(f)) <=>
                 m = Depot \/ \E i \in 1..Len(f) : f[i] = m
    BY <1>4, LegsTouch
  <2>2. \A m : From(Legs(f), m) # {} <=> m = Depot \/ \E i \in 1..Len(f) : f[i] = m
    BY <1>2, <2>1
  <2>3. Used(Legs(f))
    BY <2>2 DEF Used
  <2>4. \A c \in Active(s) : Assigned(Legs(f), c) <=> \E i \in 1..Len(f) : f[i] = c
    BY <1>1, <2>2 DEF Assigned
  <2> QED
    BY <2>3, <2>4
<1> QED
    BY <1>3, <1>4

\* An order that is as long as there are customers has them all.
LEMMA FullOrder ==
    ASSUME NEW s, IsScenario(s), NEW f \in Orders(s), Len(f) = Cardinality(Active(s)),
           NEW c \in Active(s)
    PROVE  \E i \in 1..Len(f) : f[i] = c
<1> DEFINE n == Cardinality(Active(s))
<1>1. n \in Nat /\ IsFiniteSet(Active(s))
    BY ActiveFacts
<1>2. f \in Injection(1..n, Active(s))
    BY OrderFacts DEF Injection, IsInjective
<1>3. Cardinality(1..n) = n
    BY <1>1, FS_Interval
<1>4. f \in Surjection(1..n, Active(s))
    BY <1>1, <1>2, <1>3, FS_Injection
<1> QED
    BY <1>4 DEF Surjection

LEMMA LegsOrdered ==
    ASSUME NEW s, IsScenario(s), NEW f \in Orders(s)
    PROVE  Ordered(s, Legs(f))
<1> DEFINE n == Cardinality(Active(s))
           L == Len(f)
           at(c) == CHOOSE i \in 1..L : f[i] = c
           on(c) == \E i \in 1..L : f[i] = c
           u == [c \in Active(s) |-> IF on(c) THEN at(c) ELSE 0]
<1>1. /\ n \in Nat /\ L \in Nat /\ L <= n
      /\ \A i \in 1..L : f[i] \in Active(s)
      /\ \A i, j \in 1..L : f[i] = f[j] => i = j
    BY ActiveFacts, OrderFacts
<1>2. \A c \in Active(s) : on(c) => at(c) \in 1..L /\ f[at(c)] = c
    OBVIOUS
<1> HIDE DEF at
<1>3. \A c \in Active(s) : /\ on(c) => u[c] \in 1..L /\ f[u[c]] = c
                           /\ ~on(c) => u[c] = 0
    BY <1>2
<1>4. u \in [Active(s) -> 0..n]
    BY <1>1, <1>2
<1> HIDE DEF u
<1>5. \A c \in Active(s) : Assigned(Legs(f), c) <=> on(c)
    BY LegsAssign
<1> HIDE DEF on
<1>6. \A c \in Active(s) : IF Assigned(Legs(f), c) THEN u[c] >= 1 ELSE u[c] = 0
    BY <1>1, <1>3, <1>5
<1>7. ASSUME NEW i \in Active(s), NEW j \in Active(s), i # j, <<i, j>> \in Legs(f)
      PROVE  u[i] - u[j] + n <= n - 1
  <2> DEFINE w == RoundTrip(f)
  <2>1. f # <<>>
    BY <1>7 DEF Legs
  <2>2. PICK a \in 1..(L + 1) : <<i, j>> = <<w[a], w[a + 1]>>
    BY <1>7, <2>1, LegsMean
  <2>3. w[1] = Depot /\ w[L + 2] = Depot /\ Depot \notin Active(s)
    BY TripFacts, ActiveFacts
  <2>4. \A k \in 1..L : w[k + 1] = f[k]
    BY TripFacts
  <2> HIDE DEF w, L
  <2>5. a # 1 /\ a + 1 # L + 2
    BY <1>7, <2>2, <2>3
  <2>6. a - 1 \in 1..L /\ a \in 1..L /\ (a - 1) + 1 = a
    BY <1>1, <2>5
  <2>7. i = f[a - 1] /\ j = f[a]
    BY <2>2, <2>4, <2>6
  <2>8. on(i) /\ on(j)
    BY <2>6, <2>7 DEF on, L
  <2>9. u[i] \in 1..L /\ u[j] \in 1..L /\ f[u[i]] = i /\ f[u[j]] = j
    BY <1>3, <2>8
  <2>10. u[i] = a - 1 /\ u[j] = a
    BY <1>1, <2>6, <2>7, <2>9
  <2> QED
    BY <1>1, <2>6, <2>10
<1>8. ASSUME NEW i \in Active(s), NEW j \in Active(s)
      PROVE  u[i] - u[j] <= n - 1
  <2>1. u[i] \in 0..n /\ u[j] \in 0..n
    BY <1>4
  <2>2. CASE u[i] # n
    <3> HIDE DEF n
    <3> QED
      BY <1>1, <2>1, <2>2
  <2>3. CASE u[i] = n
    <3>1. n # 0
      BY ActiveFacts, FS_EmptySet
    <3>2. on(i)
      BY <1>3, <2>3, <3>1
    <3>3. u[i] \in 1..L
      BY <1>3, <3>2
    <3>4. L = n
      BY <1>1, <2>3, <3>3
    <3>5. on(j)
      BY <3>4, FullOrder DEF on
    <3>6. u[j] \in 1..L
      BY <1>3, <3>5
    <3> HIDE DEF n, L
    <3> QED
      BY <1>1, <2>3, <3>6
  <2> QED
    BY <2>2, <2>3
<1>9. \A i, j \in Active(s) : i # j =>
             u[i] - u[j] + (IF <<i, j>> \in Legs(f) THEN n ELSE 0) <= n - 1
  <2> SUFFICES ASSUME NEW i \in Active(s), NEW j \in Active(s), i # j
               PROVE  u[i] - u[j] + (IF <<i, j>> \in Legs(f) THEN n ELSE 0) <= n - 1
    OBVIOUS
  <2>1. CASE <<i, j>> \in Legs(f)
    BY <1>7, <2>1
  <2>2. CASE <<i, j>> \notin Legs(f)
    <3>1. u[i] - u[j] <= n - 1 /\ u[i] \in Int /\ u[j] \in Int
      BY <1>4, <1>8
    <3>2. (IF <<i, j>> \in Legs(f) THEN n ELSE 0) = 0
      BY <2>2
    <3> HIDE DEF n
    <3>3. u[i] - u[j] + 0 <= n - 1
      BY <1>1, <3>1
    <3> QED
      BY <3>2, <3>3
  <2> QED
    BY <2>1, <2>2
<1> QED
    BY <1>4, <1>6, <1>9 DEF Ordered

\* The walk along an order's legs is its round trip.
LEMMA WalkOfLegs ==
    ASSUME NEW s, IsScenario(s), NEW f \in Orders(s)
    PROVE  Walk(s, Legs(f)) = IF f = <<>> THEN <<Depot>> ELSE RoundTrip(f)
<1> DEFINE X == Legs(f)
           w == RoundTrip(f)
           L == Len(f)
<1>1. X \in SUBSET ArcsOf(s) /\ Circuit(s, X) /\ Ordered(s, X)
    BY LegsAreArcs, LegsCircuit, LegsOrdered
<1>2. PICK level : Rising(s, X, level)
    BY <1>1, OrderedRises
<1>3. /\ Path(s, X, Walk(s, X))
      /\ Back(s, Walk(s, X)) \/ (Walk(s, X) = <<Depot>> /\ From(X, Depot) = {})
    BY <1>1, <1>2, WalkEnds
<1>4. CASE f = <<>>
  <2>1. X = {}
    BY <1>4 DEF Legs
  <2>2. ~Back(s, Walk(s, X))
    <3> SUFFICES ASSUME Back(s, Walk(s, X)) PROVE FALSE
      OBVIOUS
    <3>1. Len(Walk(s, X)) >= 3 /\ Len(Walk(s, X)) \in Nat
      BY <1>3, PathFacts DEF Back
    <3>2. 1 \in 1..(Len(Walk(s, X)) - 1)
      BY <3>1
    <3> QED
      BY <1>3, <2>1, <3>2, PathFacts
  <2> QED
    BY <1>3, <1>4, <2>2
<1>5. CASE f # <<>>
  <2>1. From(X, Depot) # {}
    BY <1>5, LegsAssign DEF Used
  <2>2. /\ \A a : a \in X <=> \E i \in 1..(L + 1) : a = <<w[i], w[i + 1]>>
        /\ L \in Nat /\ L >= 1
    BY <1>5, LegsMean
  <2>3. /\ w \in Seq(PlannedNodes(s)) /\ Len(w) = L + 2
        /\ w[1] = Depot /\ w[L + 2] = Depot
        /\ \A i \in 2..(L + 1) : w[i] \in Active(s)
    BY TripFacts
  <2> HIDE DEF w, L, X
  <2>4. Len(w) >= 3 /\ Len(w) - 1 = L + 1 /\ L + 1 \in 1..Len(w) /\ Len(w) >= 1
    BY <2>2, <2>3
  <2>5. Path(s, X, w)
    BY <2>2, <2>3, <2>4 DEF Path
  <2>6. Back(s, w)
    BY <2>3, <2>4 DEF Back, Out
  <2>7. Walk(s, X) = w
    BY <1>1, <1>3, <2>1, <2>5, <2>6, OneWayBack
  <2> QED
    BY <1>5, <2>7 DEF X, w
<1> QED
    BY <1>4, <1>5

\* Every customer that has an arc is on the way back from the depot to it.
LEMMA WayCovers ==
    ASSUME NEW s, IsScenario(s), NEW X \in SUBSET ArcsOf(s), Circuit(s, X),
           NEW level, Rising(s, X, level), NEW w, Path(s, X, w), Back(s, w),
           NEW i \in PlannedNodes(s), NEW j \in PlannedNodes(s), <<i, j>> \in X
    PROVE  \E k \in 1..(Len(w) - 1) : w[k] = i /\ w[k + 1] = j
<1> DEFINE L == Len(w)
           Missed == {c \in PlannedNodes(s) :
                        /\ \E d \in PlannedNodes(s) : <<c, d>> \in X
                        /\ \A k \in 1..(L - 1) : w[k] # c}
<1>1. /\ L \in Nat /\ L >= 3 /\ w[1] = Depot /\ w[L] = Depot
      /\ \A k \in 1..L : w[k] \in PlannedNodes(s)
      /\ \A k \in 1..(L - 1) : <<w[k], w[k + 1]>> \in X /\ k \in 1..L /\ k + 1 \in 1..L
    BY PathFacts DEF Back
<1>2. \A a, b, c \in PlannedNodes(s) : <<a, b>> \in X /\ <<a, c>> \in X => b = c
    BY DEF Circuit
<1>3. \A a, b, c \in PlannedNodes(s) : <<b, a>> \in X /\ <<c, a>> \in X => b = c
    BY DEF Circuit
<1>4. ASSUME NEW c \in Missed
      PROVE  \E d \in Missed : level[c] < level[d]
  <2>1. PICK d \in PlannedNodes(s) : <<c, d>> \in X
    OBVIOUS
  <2>2. c \in PlannedNodes(s) /\ \A k \in 1..(L - 1) : w[k] # c
    OBVIOUS
  <2>3. \A k \in 1..(L - 1) : w[k + 1] # d
    <3> SUFFICES ASSUME NEW k \in 1..(L - 1), w[k + 1] = d PROVE FALSE
      OBVIOUS
    <3>1. <<w[k], d>> \in X /\ w[k] \in PlannedNodes(s)
      BY <1>1
    <3>2. w[k] = c
      BY <1>3, <2>1, <2>2, <3>1
    <3> QED
      BY <2>2, <3>2
  <2>4. d # Depot
    <3>1. L - 1 \in 1..(L - 1) /\ (L - 1) + 1 = L
      BY <1>1
    <3> QED
      BY <1>1, <2>3, <3>1
  <2>5. \A k \in 1..(L - 1) : w[k] # d
    <3> SUFFICES ASSUME NEW k \in 1..(L - 1), w[k] = d PROVE FALSE
      OBVIOUS
    <3>1. k # 1
      BY <1>1, <2>4
    <3>2. k - 1 \in 1..(L - 1) /\ (k - 1) + 1 = k
      BY <1>1, <3>1
    <3> QED
      BY <2>3, <3>2
  <2>6. \E e \in PlannedNodes(s) : <<d, e>> \in X
    BY <2>1, <2>2 DEF Circuit
  <2>7. d \in Missed
    BY <2>5, <2>6
  <2>8. level[c] + 1 <= level[d] /\ level[c] \in Int /\ level[d] \in Int
    BY <2>1, <2>2, <2>4 DEF Rising
  <2>9. level[c] < level[d]
    BY <2>8
  <2> HIDE DEF Missed
  <2> QED
    BY <2>7, <2>9
<1>5. Missed = {}
  <2> SUFFICES ASSUME Missed # {} PROVE FALSE
    OBVIOUS
  <2> DEFINE n == Cardinality(Active(s))
             levels == {level[c] : c \in Missed}
  <2>1. n \in Nat /\ \A c \in PlannedNodes(s) : level[c] \in 0..n
    BY ActiveFacts DEF Rising
  <2>2. \A c \in Missed : level[c] \in 0..n
    BY <2>1
  <2> HIDE DEF Missed, n
  <2>3. levels \in SUBSET (0..n) /\ levels # {} /\ 0 \in Int /\ n \in Int
    BY <2>1, <2>2
  <2>4. PICK top \in levels : \A k \in levels : k <= top
    <3> HIDE DEF levels
    <3> QED
      BY <2>3, LargestExists
  <2>5. PICK c \in Missed : top = level[c]
    OBVIOUS
  <2>6. PICK d \in Missed : level[c] < level[d]
    BY <1>4
  <2>7. level[d] <= level[c] /\ level[c] \in Int /\ level[d] \in Int
    BY <2>1, <2>2, <2>4, <2>5
  <2> QED
    BY <2>6, <2>7
<1>6. PICK k \in 1..(L - 1) : w[k] = i
    BY <1>5
<1>7. w[k + 1] = j
    BY <1>1, <1>2, <1>6
<1> QED
    BY <1>6, <1>7

\* A circuit in order is the legs of some order.
LEMMA TourIsOrder ==
    ASSUME NEW s, IsScenario(s), NEW X \in SUBSET ArcsOf(s), Circuit(s, X), Ordered(s, X),
           \A c \in Active(s) : Assigned(X, c) => Used(X)
    PROVE  \E f \in Orders(s) : X = Legs(f)
<1> DEFINE n == Cardinality(Active(s))
           w == Walk(s, X)
           L == Len(w)
<1>1. PICK level : Rising(s, X, level)
    BY OrderedRises
<1>2. /\ Path(s, X, w)
      /\ Back(s, w) \/ (w = <<Depot>> /\ From(X, Depot) = {})
    BY <1>1, WalkEnds
<1>3. n \in Nat
    BY ActiveFacts
<1>4. CASE From(X, Depot) = {}
  <2>1. X = {}
    <3> SUFFICES ASSUME NEW a \in X PROVE FALSE
      OBVIOUS
    <3>1. PICK i, j \in PlannedNodes(s) : a = <<i, j>>
      BY ArcMeans
    <3>2. From(X, i) # {}
      BY <3>1, FromToMeans
    <3>3. i \in Active(s)
      BY <1>4, <3>1, <3>2 DEF PlannedNodes
    <3> QED
      BY <1>4, <3>2, <3>3 DEF Assigned, Used
  <2>2. <<>> \in Orders(s)
    <3>1. 0 \in 0..n /\ <<>> \in [1..0 -> Active(s)]
      BY <1>3
    <3>2. \A i, j \in 1..0 : <<>>[i] = <<>>[j] => i = j
      OBVIOUS
    <3> QED
      BY <3>1, <3>2, OrderMeans
  <2>3. Legs(<<>>) = {}
    BY DEF Legs
  <2> QED
    BY <2>1, <2>2, <2>3
<1>5. CASE Back(s, w)
  <2>1. /\ w \in Seq(PlannedNodes(s)) /\ L \in Nat /\ L >= 3 /\ w[1] = Depot /\ w[L] = Depot
        /\ \A i \in 2..(L - 1) : w[i] \in Active(s)
        /\ \A i \in 1..(L - 1) : <<w[i], w[i + 1]>> \in X
        /\ Out(s, w, L - 1)
    BY <1>2, <1>5, PathFacts DEF Back, Out
  <2>2. (\A i, j \in 1..(L - 1) : w[i] = w[j] => i = j) /\ L - 1 <= n + 1
    BY <1>1, <1>2, <2>1, OutClimbs
  <2> DEFINE m == L - 2
             f == [i \in 1..m |-> w[i + 1]]
  <2> HIDE DEF w, L, n
  <2>3. /\ m \in Nat /\ m \in 0..n /\ m >= 1 /\ L = m + 2 /\ L - 1 = m + 1
        /\ \A i \in 1..m : i + 1 \in 2..(L - 1) /\ i + 1 \in 1..(L - 1)
    BY <1>3, <2>1, <2>2
  <2>4. f \in [1..m -> Active(s)]
    BY <2>1, <2>3
  <2>5. \A i, j \in 1..m : f[i] = f[j] => i = j
    <3> SUFFICES ASSUME NEW i \in 1..m, NEW j \in 1..m, w[i + 1] = w[j + 1] PROVE i = j
      OBVIOUS
    <3>1. i + 1 = j + 1
      BY <2>2, <2>3
    <3> QED
      BY <3>1
  <2>6. \A i \in 1..m : f[i] = w[i + 1]
    OBVIOUS
  <2> HIDE DEF f
  <2>7. f \in Orders(s)
    BY <2>3, <2>4, <2>5, OrderMeans DEF n
  <2>8. Len(f) = m /\ f # <<>>
    <3>1. f \in Seq(Active(s)) /\ Len(f) = m
      BY <2>3, <2>4
    <3> QED
      BY <2>3, <3>1
  <2> HIDE DEF m
  <2>9. \A i \in 1..(m + 2) : RoundTrip(f)[i] = w[i]
    <3> DEFINE t == RoundTrip(f)
    <3>1. t[1] = Depot /\ t[m + 2] = Depot /\ \A i \in 1..m : t[i + 1] = f[i]
      BY <2>7, <2>8, TripFacts
    <3> HIDE DEF t
    <3> SUFFICES ASSUME NEW i \in 1..(m + 2) PROVE t[i] = w[i]
      BY DEF t
    <3>2. CASE i = 1
      BY <2>1, <3>1, <3>2
    <3>3. CASE i = m + 2
      BY <2>1, <2>3, <3>1, <3>3
    <3>4. CASE i # 1 /\ i # m + 2
      <4>1. i - 1 \in 1..m /\ (i - 1) + 1 = i
        BY <2>3, <3>4
      <4> QED
        BY <2>6, <3>1, <4>1
    <3> QED
      BY <3>2, <3>3, <3>4
  <2>10. \A i \in 1..(m + 1) : i \in 1..(m + 2) /\ i + 1 \in 1..(m + 2)
    BY <2>3
  <2>11. \A a : a \in Legs(f) <=> \E i \in 1..(m + 1) : a = <<w[i], w[i + 1]>>
    <3>1. \A a : a \in Legs(f) <=> \E i \in 1..(m + 1) : a = <<RoundTrip(f)[i], RoundTrip(f)[i + 1]>>
      BY <2>7, <2>8, LegsMean
    <3> QED
      BY <2>9, <2>10, <3>1
  <2>12. Legs(f) \subseteq X
    BY <2>1, <2>3, <2>11
  <2>13. ASSUME NEW a \in X PROVE a \in Legs(f)
    <3>1. PICK i, j \in PlannedNodes(s) : a = <<i, j>>
      BY ArcMeans
    <3>2. PICK k \in 1..(L - 1) : w[k] = i /\ w[k + 1] = j
      BY <1>1, <1>2, <1>5, <3>1, WayCovers DEF w, L
    <3> QED
      BY <2>3, <2>11, <3>1, <3>2
  <2> QED
    BY <2>7, <2>12, <2>13
<1> QED
    BY <1>2, <1>4, <1>5

\* A route's load is the demand of the customers its vehicle is assigned.
LEMMA LoadIs ==
    ASSUME NEW s, IsScenario(s), NEW f \in Orders(s), NEW v
    PROVE  /\ Load(s, RouteOf(v, RoundTrip(f))) =
                SumFunctionOnSet(Demand, {c \in Active(s) : Assigned(Legs(f), c)})
           /\ Load(s, RouteOf(v, RoundTrip(f))) \in Int
           /\ f = <<>> => Load(s, RouteOf(v, RoundTrip(f))) = 0
<1> DEFINE w == RoundTrip(f)
           L == Len(f)
           r == RouteOf(v, w)
           counted == {i \in Interior(r) : r.stops[i] \in Active(s)}
           k == [i \in counted |-> Demand[r.stops[i]]]
           T == 2..(L + 1)
<1>1. /\ L \in Nat /\ Len(w) = L + 2
      /\ \A i \in T : i - 1 \in 1..L /\ w[i] = f[i - 1] /\ w[i] \in Active(s)
      /\ \A i \in 1..L : w[i + 1] = f[i]
      /\ \A i, j \in 2..(L + 2) : w[i] = w[j] => i = j
    BY OrderFacts, TripFacts, TripOnce
<1>2. r.stops = w
    BY DEF RouteOf
<1>3. Load(s, r) = SumFunction(k)
    BY DEF Load
<1> HIDE DEF w, L, r
<1>4. counted = T
  <2>1. Interior(r) = 2..((L + 2) - 1) /\ (L + 2) - 1 = L + 1
    BY <1>1, <1>2 DEF Interior
  <2> QED
    BY <1>1, <1>2, <2>1
<1>5. k = [i \in T |-> Demand[w[i]]]
    BY <1>2, <1>4
<1> HIDE DEF k, counted
<1>6. Load(s, r) = SumFunctionOnSet(k, T)
  <2>1. DOMAIN k = T
    BY <1>5
  <2> QED
    BY <1>3, <2>1 DEF SumFunction
<1>7. IsFiniteSet(T)
  <2>1. 2 \in Int /\ L + 1 \in Int
    BY <1>1
  <2> QED
    BY <2>1, FS_Interval
<1>8. \A c \in Active(s) : Demand[c] \in Int
    BY ActiveFacts, AmountsAssumption
<1>9. \A i \in T : Demand[w[i]] \in Int /\ k[i] = Demand[w[i]]
    BY <1>1, <1>5, <1>8
<1>10. \A i, j \in T : w[i] = w[j] => i = j
  <2>1. \A i \in T : i \in 2..(L + 2)
    BY <1>1
  <2> QED
    BY <1>1, <2>1
<1>11. {w[i] : i \in T} = {c \in Active(s) : Assigned(Legs(f), c)}
  <2>1. \A c \in Active(s) : Assigned(Legs(f), c) <=> \E i \in 1..L : f[i] = c
    BY LegsAssign DEF L
  <2>2. \A i \in 1..L : i + 1 \in T
    BY <1>1
  <2>3. ASSUME NEW i \in T PROVE w[i] \in {c \in Active(s) : Assigned(Legs(f), c)}
    BY <1>1, <2>1
  <2>4. ASSUME NEW c \in Active(s), Assigned(Legs(f), c) PROVE c \in {w[i] : i \in T}
    BY <1>1, <2>1, <2>2, <2>4
  <2> QED
    BY <2>3, <2>4
<1> HIDE DEF T
<1>12. SumFunctionOnSet(k, T) = SumFunctionOnSet(Demand, {w[i] : i \in T})
    BY <1>7, <1>9, <1>10, SumRenamed
<1>13. SumFunctionOnSet(k, T) \in Int /\ (T = {} => SumFunctionOnSet(k, T) = 0)
    BY <1>7, <1>9, SumChosen
<1>14. f = <<>> => T = {}
  <2>1. f = <<>> => L = 0
    BY OrderFacts DEF L
  <2> QED
    BY <2>1 DEF T
<1> QED
    BY <1>6, <1>11, <1>12, <1>13, <1>14 DEF r, w

\* A vehicle can take an order.
Fits(s, v, f) ==
    Legs(f) \cap s.blocked = {} /\ ~(Load(s, RouteOf(v, RoundTrip(f))) > Capacity[v])

\* The tours of a vehicle are the legs of the orders it can take.
LEMMA ToursMean ==
    ASSUME NEW s, IsScenario(s), NEW v \in Fleet(s)
    PROVE  /\ \A X \in Tours(s, v) : \E f \in Orders(s) : X = Legs(f) /\ Fits(s, v, f)
           /\ \A f \in Orders(s) : Fits(s, v, f) => Legs(f) \in Tours(s, v)
<1>1. Capacity[v] \in Int
  <2>1. v \in DOMAIN Capacity
    BY DEF IsScenario, Fleet
  <2> QED
    BY <2>1, AmountsAssumption
<1>2. \A f \in Orders(s) : WithinCapacity(s, v, Legs(f)) <=>
                           ~(Load(s, RouteOf(v, RoundTrip(f))) > Capacity[v])
  <2> TAKE f \in Orders(s)
  <2> DEFINE load == Load(s, RouteOf(v, RoundTrip(f)))
  <2>1. load \in Int /\ (WithinCapacity(s, v, Legs(f)) <=> load <= Capacity[v])
    BY LoadIs DEF WithinCapacity
  <2> HIDE DEF load
  <2>2. load <= Capacity[v] <=> ~(load > Capacity[v])
    BY <1>1, <2>1
  <2> QED
    BY <2>1, <2>2 DEF load
<1>3. ASSUME NEW X \in Tours(s, v)
      PROVE  \E f \in Orders(s) : X = Legs(f) /\ Fits(s, v, f)
  <2>1. /\ X \in SUBSET ArcsOf(s) /\ X \cap s.blocked = {}
        /\ Flow(s, X) /\ WithinCapacity(s, v, X) /\ Ordered(s, X)
        /\ \A c \in Active(s) : Assigned(X, c) => Used(X)
    BY DEF Tours
  <2>2. Circuit(s, X)
    BY <2>1, FlowMeans
  <2>3. PICK f \in Orders(s) : X = Legs(f)
    BY <2>1, <2>2, TourIsOrder
  <2> QED
    BY <1>2, <2>1, <2>3 DEF Fits
<1>4. ASSUME NEW f \in Orders(s), Fits(s, v, f)
      PROVE  Legs(f) \in Tours(s, v)
  <2>1. Legs(f) \in SUBSET ArcsOf(s) /\ Circuit(s, Legs(f)) /\ Ordered(s, Legs(f))
    BY LegsAreArcs, LegsCircuit, LegsOrdered
  <2>2. Flow(s, Legs(f))
    BY <2>1, FlowMeans
  <2>3. \A c \in Active(s) : Assigned(Legs(f), c) => Used(Legs(f))
    <3>1. f = <<>> => \A c \in Active(s) : ~Assigned(Legs(f), c)
      BY DEF Legs, Assigned, From
    <3> QED
      BY <3>1, LegsAssign
  <2>4. WithinCapacity(s, v, Legs(f)) /\ Legs(f) \in SUBSET (ArcsOf(s) \ s.blocked)
    BY <1>2, <1>4, <2>1 DEF Fits
  <2> QED
    BY <2>1, <2>2, <2>3, <2>4 DEF Tours
<1> QED
    BY <1>3, <1>4

-----------------------------------------------------------------------------
(* The plan of some orders.                                                *)

\* The arcs of each vehicle when each takes its order.
LegsOf(s, g) == [v \in Fleet(s) |-> Legs(g[v])]

LEMMA FleetFacts ==
    ASSUME NEW s, IsScenario(s)
    PROVE  /\ Len(s.fleet) \in Nat /\ DOMAIN s.fleet = 1..Len(s.fleet)
           /\ \A k \in DOMAIN s.fleet : s.fleet[k] \in Fleet(s)
           /\ IsFiniteSet(Fleet(s))
<1>1. Len(s.fleet) \in Nat /\ DOMAIN s.fleet = 1..Len(s.fleet)
    BY DEF IsScenario
<1>2. \A k \in DOMAIN s.fleet : s.fleet[k] \in Fleet(s)
    BY DEF Fleet
<1>3. s.fleet \in [1..Len(s.fleet) -> Fleet(s)]
  <2>1. s.fleet = [k \in 1..Len(s.fleet) |-> s.fleet[k]]
    BY <1>1 DEF IsScenario
  <2> QED
    BY <1>1, <1>2, <2>1
<1>4. s.fleet \in Surjection(1..Len(s.fleet), Fleet(s))
    BY <1>1, <1>3 DEF Surjection, Fleet
<1>5. IsFiniteSet(1..Len(s.fleet))
  <2>1. 1 \in Int /\ Len(s.fleet) \in Int
    BY <1>1
  <2> QED
    BY <2>1, FS_Interval
<1> QED
    BY <1>1, <1>2, <1>4, <1>5, FS_Surjection

\* The plan read from the legs of orders gives each vehicle its order.
LEMMA ExtractIsPlanOf ==
    ASSUME NEW s, IsScenario(s), NEW g \in [Fleet(s) -> Orders(s)]
    PROVE  Extract(s, LegsOf(s, g)) = PlanOf(s, g)
<1> DEFINE x == LegsOf(s, g)
           r == [k \in DOMAIN s.fleet |-> RouteOf(s.fleet[k], Walk(s, x[s.fleet[k]]))]
           t == [k \in DOMAIN s.fleet |-> RouteOf(s.fleet[k], RoundTrip(g[s.fleet[k]]))]
           at == {k \in DOMAIN r : Len(r[k].stops) > 1}
           bt == {k \in DOMAIN t : Len(t[k].stops) > 2}
           N == Len(s.fleet)
<1>1. /\ N \in Nat /\ DOMAIN s.fleet = 1..N
      /\ \A k \in DOMAIN s.fleet : s.fleet[k] \in Fleet(s)
    BY FleetFacts
<1>2. \A k \in 1..N : r[k].stops = Walk(s, x[s.fleet[k]]) /\ t[k].stops = RoundTrip(g[s.fleet[k]])
    BY <1>1 DEF RouteOf
<1>3. ASSUME NEW k \in 1..N
      PROVE  /\ Len(r[k].stops) > 1 <=> Len(t[k].stops) > 2
             /\ Len(r[k].stops) > 1 => r[k] = t[k]
  <2> DEFINE f == g[s.fleet[k]]
  <2>1. f \in Orders(s) /\ x[s.fleet[k]] = Legs(f)
    BY <1>1 DEF LegsOf
  <2>2. r[k].stops = Walk(s, Legs(f)) /\ t[k].stops = RoundTrip(f)
    BY <1>2, <2>1
  <2>3. r[k] = RouteOf(s.fleet[k], r[k].stops) /\ t[k] = RouteOf(s.fleet[k], t[k].stops)
    BY <1>1 DEF RouteOf
  <2> HIDE DEF r, t, f
  <2>4. /\ Len(RoundTrip(f)) = Len(f) + 2 /\ Len(f) \in Nat
        /\ f = <<>> <=> Len(f) = 0
    BY <2>1, TripFacts, OrderFacts
  <2>5. CASE f = <<>>
    <3>1. r[k].stops = <<Depot>>
      BY <2>1, <2>2, <2>5, WalkOfLegs
    <3>2. Len(<<Depot>>) = 1
      OBVIOUS
    <3>3. Len(r[k].stops) = 1
      BY <3>1, <3>2
    <3>4. Len(f) = 0
      BY <2>4, <2>5
    <3>5. Len(t[k].stops) = 2
      BY <2>2, <2>4, <3>4
    <3> QED
      BY <3>3, <3>5
  <2>6. CASE f # <<>>
    <3>1. r[k].stops = RoundTrip(f)
      BY <2>1, <2>2, <2>6, WalkOfLegs
    <3>2. Len(RoundTrip(f)) > 2 /\ Len(RoundTrip(f)) > 1
      BY <2>4, <2>6
    <3> QED
      BY <2>2, <2>3, <3>1, <3>2
  <2> QED
    BY <2>5, <2>6
<1>4. DOMAIN r = 1..N /\ DOMAIN t = 1..N
    BY <1>1
<1>5. IsList(r) /\ IsList(t) /\ Len(r) = N /\ Len(t) = N
  <2>1. r = [k \in DOMAIN r |-> r[k]] /\ t = [k \in DOMAIN t |-> t[k]]
    OBVIOUS
  <2> HIDE DEF r, t, N
  <2> QED
    BY <1>1, <1>4, <2>1, FunctionIsList
<1>6. Extract(s, x) = [scenario |-> s.id, routes |-> Pick(r, at)]
    BY DEF Extract
<1>7. PlanOf(s, g) = [scenario |-> s.id, routes |-> Pick(t, bt)]
    BY DEF PlanOf
<1>8. \A k \in DOMAIN r : k \in at <=> k \in bt
    BY <1>3, <1>4
<1>9. \A k \in DOMAIN r : k \in at => r[k] = t[k]
    BY <1>3, <1>4
<1> HIDE DEF r, t, at, bt, N, x
<1>10. Pick(r, at) = Pick(t, bt)
    BY <1>5, <1>8, <1>9, PickSame
<1> QED
    BY <1>6, <1>7, <1>10 DEF x

\* The routes of a plan are the round trips of the vehicles that have an order.
RoutesOf(s, g, routes) ==
    /\ \A j \in DOMAIN routes : \E v \in Fleet(s) :
         g[v] # <<>> /\ routes[j] = RouteOf(v, RoundTrip(g[v]))
    /\ \A v \in Fleet(s) : g[v] # <<>> => \E j \in DOMAIN routes : routes[j] = RouteOf(v, RoundTrip(g[v]))
    /\ \A j, l \in DOMAIN routes : routes[j].vehicle = routes[l].vehicle => j = l

LEMMA PlanOfFacts ==
    ASSUME NEW s, IsScenario(s), FleetInOrder(s), NEW g \in [Fleet(s) -> Orders(s)]
    PROVE  RoutesOf(s, g, PlanOf(s, g).routes)
<1> DEFINE t == [k \in DOMAIN s.fleet |-> RouteOf(s.fleet[k], RoundTrip(g[s.fleet[k]]))]
           bt == {k \in DOMAIN t : Len(t[k].stops) > 2}
           N == Len(s.fleet)
           routes == PlanOf(s, g).routes
<1>1. /\ N \in Nat /\ DOMAIN s.fleet = 1..N
      /\ \A k \in DOMAIN s.fleet : s.fleet[k] \in Fleet(s)
    BY FleetFacts
<1>2. DOMAIN t = 1..N /\ \A k \in 1..N : t[k] = RouteOf(s.fleet[k], RoundTrip(g[s.fleet[k]]))
    BY <1>1
<1>3. IsList(t)
  <2>1. t = [k \in DOMAIN t |-> t[k]]
    OBVIOUS
  <2> HIDE DEF t, N
  <2> QED
    BY <1>1, <1>2, <2>1, FunctionIsList
<1>4. routes = Pick(t, bt)
    BY DEF PlanOf
<1>5. \A k \in DOMAIN t : k \in bt <=> g[s.fleet[k]] # <<>>
  <2> TAKE k \in DOMAIN t
  <2> DEFINE f == g[s.fleet[k]]
  <2>1. f \in Orders(s) /\ t[k].stops = RoundTrip(f)
    BY <1>1, <1>2 DEF RouteOf
  <2> HIDE DEF f, t
  <2>2. Len(RoundTrip(f)) = Len(f) + 2 /\ Len(f) \in Nat /\ (f = <<>> <=> Len(f) = 0)
    BY <2>1, TripFacts, OrderFacts
  <2>3. Len(f) + 2 > 2 <=> Len(f) # 0
    BY <2>2
  <2> QED
    BY <2>1, <2>2, <2>3 DEF f
<1>6. bt \in SUBSET DOMAIN t
    OBVIOUS
<1> HIDE DEF t, bt, routes, N
<1>7. PICK p : PickedFrom(t, bt, p)
    BY <1>3, <1>6, ListPick
<1>8. DOMAIN routes = 1..Len(p) /\ Len(p) \in Nat
    BY <1>3, <1>4, <1>6, <1>7, ListPick, ListFacts DEF PickedFrom
<1>9. \A j \in 1..Len(p) : p[j] \in 1..N /\ p[j] \in bt /\ p[j] \in Nat /\ routes[j] = t[p[j]]
    BY <1>1, <1>2, <1>4, <1>7 DEF PickedFrom
<1>10. ASSUME NEW j \in DOMAIN routes
       PROVE  \E v \in Fleet(s) : g[v] # <<>> /\ routes[j] = RouteOf(v, RoundTrip(g[v]))
  <2>1. p[j] \in 1..N /\ p[j] \in bt /\ routes[j] = t[p[j]]
    BY <1>8, <1>9
  <2>2. s.fleet[p[j]] \in Fleet(s) /\ g[s.fleet[p[j]]] # <<>>
    BY <1>1, <1>2, <1>5, <2>1
  <2> QED
    BY <1>2, <2>1, <2>2
<1>11. ASSUME NEW v \in Fleet(s), g[v] # <<>>
       PROVE  \E j \in DOMAIN routes : routes[j] = RouteOf(v, RoundTrip(g[v]))
  <2>1. PICK k \in 1..N : v = s.fleet[k]
    BY <1>1 DEF Fleet
  <2>2. k \in bt
    BY <1>2, <1>5, <1>11, <2>1
  <2>3. PICK j \in 1..Len(p) : p[j] = k
    BY <1>7, <2>2 DEF PickedFrom
  <2> QED
    BY <1>2, <1>8, <1>9, <2>1, <2>3
<1>12. ASSUME NEW j \in DOMAIN routes, NEW l \in DOMAIN routes,
              routes[j].vehicle = routes[l].vehicle
       PROVE  j = l
  <2>1. /\ p[j] \in 1..N /\ p[l] \in 1..N /\ p[j] \in Nat /\ p[l] \in Nat
        /\ routes[j] = t[p[j]] /\ routes[l] = t[p[l]] /\ j \in Nat /\ l \in Nat
    BY <1>8, <1>9
  <2>2. s.fleet[p[j]] = s.fleet[p[l]]
    BY <1>2, <1>12, <2>1 DEF RouteOf
  <2>3. p[j] = p[l]
    BY <1>1, <2>1, <2>2 DEF FleetInOrder, IsInjective
  <2>4. ~(j < l) /\ ~(l < j)
    BY <1>7, <1>8, <2>1, <2>3 DEF PickedFrom
  <2> QED
    BY <2>1, <2>4
<1>13. RoutesOf(s, g, routes)
    BY <1>10, <1>11, <1>12 DEF RoutesOf
<1> QED
    BY <1>13 DEF routes

-----------------------------------------------------------------------------
(* The solutions of the integer program are the feasible plans.            *)

\* Every open customer is in the order of exactly one vehicle.
OnceEach(s, g) ==
    \A c \in Active(s) : \E v \in Fleet(s) : \A u \in Fleet(s) :
        (\E i \in 1..Len(g[u]) : g[u][i] = c) <=> u = v

LEMMA VisitOnceMeans ==
    ASSUME NEW s, IsScenario(s), NEW g \in [Fleet(s) -> Orders(s)]
    PROVE  VisitOnce(s, LegsOf(s, g)) <=> OnceEach(s, g)
<1> DEFINE takers(c) == {v \in Fleet(s) : Assigned(LegsOf(s, g)[v], c)}
<1>1. ASSUME NEW c \in Active(s)
      PROVE  Cardinality(takers(c)) = 1 <=>
               \E v \in Fleet(s) : \A u \in Fleet(s) : (\E i \in 1..Len(g[u]) : g[u][i] = c) <=> u = v
  <2>1. \A u \in Fleet(s) : u \in takers(c) <=> \E i \in 1..Len(g[u]) : g[u][i] = c
    BY LegsAssign DEF LegsOf
  <2>2. takers(c) \in SUBSET Fleet(s)
    OBVIOUS
  <2> HIDE DEF takers
  <2>3. IsFiniteSet(takers(c))
    BY <2>2, FleetFacts, FS_Subset
  <2>4. Cardinality(takers(c)) = 1 <=> \E v \in Fleet(s) : \A u \in Fleet(s) : u \in takers(c) <=> u = v
    BY <2>2, <2>3, OneMember
  <2> QED
    BY <2>1, <2>4
<1> QED
  BY <1>1 DEF VisitOnce, OnceEach

\* A vehicle that has no order can always take it.
LEMMA IdleFits ==
    ASSUME NEW s, IsScenario(s), FleetInOrder(s), NEW v \in Fleet(s)
    PROVE  Fits(s, v, <<>>)
<1>1. <<>> \in Orders(s)
  <2>1. 0 \in 0..Cardinality(Active(s)) /\ <<>> \in [1..0 -> Active(s)]
    BY ActiveFacts
  <2>2. \A i, j \in 1..0 : <<>>[i] = <<>>[j] => i = j
    OBVIOUS
  <2> QED
    BY <2>1, <2>2, OrderMeans
<1>2. Load(s, RouteOf(v, RoundTrip(<<>>))) = 0
  BY <1>1, LoadIs
<1>3. Capacity[v] \in Int /\ Capacity[v] >= 0
  <2>1. v \in DOMAIN Capacity
    BY DEF IsScenario, Fleet
  <2> QED
    BY <2>1, AmountsAssumption DEF FleetInOrder
<1>4. ~(0 > Capacity[v])
  BY <1>3
<1> QED
  BY <1>2, <1>4 DEF Fits, Legs

\* The legs of an order are the arcs of its route.
LEMMA LegsOfRoute ==
    ASSUME NEW s, IsScenario(s), NEW f \in Orders(s), f # <<>>
    PROVE  LET w == RoundTrip(f) IN
           Legs(f) \cap s.blocked = {} <=> \A i \in 1..(Len(w) - 1) : <<w[i], w[i + 1]>> \notin s.blocked
<1> DEFINE w == RoundTrip(f)
<1>1. Len(w) = Len(f) + 2 /\ Len(f) \in Nat
  BY TripFacts, OrderFacts
<1>2. \A a : a \in Legs(f) <=> \E i \in 1..(Len(f) + 1) : a = <<w[i], w[i + 1]>>
  BY LegsMean
<1> HIDE DEF w
<1>3. Len(w) - 1 = Len(f) + 1
  BY <1>1
<1>4. (\A i \in 1..(Len(w) - 1) : <<w[i], w[i + 1]>> \notin s.blocked) <=>
        \A i \in 1..(Len(f) + 1) : <<w[i], w[i + 1]>> \notin s.blocked
  BY <1>3
<1>5. Legs(f) \cap s.blocked = {} <=>
        \A i \in 1..(Len(f) + 1) : <<w[i], w[i + 1]>> \notin s.blocked
  BY <1>2
<1> QED
  BY <1>4, <1>5 DEF w

\* The place of a customer in an order and on its round trip.
LEMMA PlaceOnTrip ==
    ASSUME NEW s, IsScenario(s), NEW f \in Orders(s), NEW c \in Active(s)
    PROVE  LET w == RoundTrip(f) IN
           /\ \A m \in 1..Len(f) : f[m] = c => m + 1 \in DOMAIN w /\ w[m + 1] = c
           /\ \A i \in DOMAIN w : w[i] = c => i - 1 \in 1..Len(f) /\ f[i - 1] = c
<1> DEFINE w == RoundTrip(f)
           L == Len(f)
<1>1. /\ L \in Nat /\ w \in Seq(PlannedNodes(s)) /\ Len(w) = L + 2
      /\ w[1] = Depot /\ w[L + 2] = Depot /\ Depot \notin Active(s)
      /\ \A i \in 1..L : w[i + 1] = f[i]
      /\ \A i \in 2..(L + 1) : i - 1 \in 1..L /\ w[i] = f[i - 1]
  BY OrderFacts, TripFacts, ActiveFacts
<1> HIDE DEF w, L
<1>2. DOMAIN w = 1..(L + 2)
  BY <1>1
<1>3. \A m \in 1..L : m + 1 \in 1..(L + 2)
  BY <1>1
<1>4. \A i \in 1..(L + 2) : i = 1 \/ i = L + 2 \/ i \in 2..(L + 1)
  BY <1>1
<1>5. \A i \in DOMAIN w : w[i] = c => i - 1 \in 1..L /\ f[i - 1] = c
  BY <1>1, <1>2, <1>4
<1>6. \A m \in 1..L : f[m] = c => m + 1 \in DOMAIN w /\ w[m + 1] = c
  BY <1>1, <1>2, <1>3
<1> QED
  BY <1>5, <1>6 DEF w, L

\* The two halves of Feasible.
RoutesSound(s, routes) ==
    \A k \in DOMAIN routes : LET r == routes[k] IN
         /\ r.vehicle \in Fleet(s)
         /\ \A l \in DOMAIN routes : routes[l].vehicle = r.vehicle => l = k
         /\ Len(r.stops) >= 2
         /\ \A i \in DOMAIN r.stops :
              IF i \in {1, Len(r.stops)} THEN r.stops[i] = Depot
                                         ELSE r.stops[i] \in Active(s)
         /\ ~(Load(s, r) > Capacity[r.vehicle])
         /\ \A i \in 1..(Len(r.stops) - 1) : <<r.stops[i], r.stops[i + 1]>> \notin s.blocked

ServedOnce(s, routes) ==
    \A c \in Active(s) : \E k \in DOMAIN routes : \E i \in DOMAIN routes[k].stops :
         /\ routes[k].stops[i] = c
         /\ \A l \in DOMAIN routes : \A j \in DOMAIN routes[l].stops :
              routes[l].stops[j] = c => l = k /\ j = i

LEMMA FeasibleParts ==
    ASSUME NEW s, NEW p
    PROVE  Feasible(s, p) <=> RoutesSound(s, p.routes) /\ ServedOnce(s, p.routes)
<1> QED
  BY DEF Feasible, RoutesSound, ServedOnce

\* The routes of orders are sound when every vehicle can take its own.
LEMMA SoundMeans ==
    ASSUME NEW s, IsScenario(s), FleetInOrder(s), NEW g \in [Fleet(s) -> Orders(s)],
           NEW routes, RoutesOf(s, g, routes)
    PROVE  RoutesSound(s, routes) <=> \A v \in Fleet(s) : Fits(s, v, g[v])
<1>1. ASSUME RoutesSound(s, routes), NEW v \in Fleet(s)
      PROVE  Fits(s, v, g[v])
  <2>1. CASE g[v] = <<>>
    BY <2>1, IdleFits
  <2>2. CASE g[v] # <<>>
    <3>1. PICK j \in DOMAIN routes : routes[j] = RouteOf(v, RoundTrip(g[v]))
      BY <2>2 DEF RoutesOf
    <3>2. routes[j].vehicle = v /\ routes[j].stops = RoundTrip(g[v])
      BY <3>1 DEF RouteOf
    <3>3. /\ ~(Load(s, routes[j]) > Capacity[routes[j].vehicle])
          /\ \A i \in 1..(Len(routes[j].stops) - 1) :
               <<routes[j].stops[i], routes[j].stops[i + 1]>> \notin s.blocked
      BY <1>1, <3>1 DEF RoutesSound
    <3>4. g[v] \in Orders(s)
      OBVIOUS
    <3>5. Legs(g[v]) \cap s.blocked = {}
      BY <2>2, <3>2, <3>3, <3>4, LegsOfRoute
    <3> QED
      BY <3>1, <3>2, <3>3, <3>5 DEF Fits
  <2> QED
    BY <2>1, <2>2
<1>2. ASSUME \A v \in Fleet(s) : Fits(s, v, g[v])
      PROVE  RoutesSound(s, routes)
  <2> SUFFICES ASSUME NEW k \in DOMAIN routes
               PROVE  LET r == routes[k] IN
                      /\ r.vehicle \in Fleet(s)
                      /\ \A l \in DOMAIN routes : routes[l].vehicle = r.vehicle => l = k
                      /\ Len(r.stops) >= 2
                      /\ \A i \in DOMAIN r.stops :
                           IF i \in {1, Len(r.stops)} THEN r.stops[i] = Depot
                                                      ELSE r.stops[i] \in Active(s)
                      /\ ~(Load(s, r) > Capacity[r.vehicle])
                      /\ \A i \in 1..(Len(r.stops) - 1) : <<r.stops[i], r.stops[i + 1]>> \notin s.blocked
    BY DEF RoutesSound
  <2> DEFINE r == routes[k]
  <2>1. PICK v \in Fleet(s) : g[v] # <<>> /\ r = RouteOf(v, RoundTrip(g[v]))
    BY DEF RoutesOf
  <2>2. \A l \in DOMAIN routes : routes[l].vehicle = r.vehicle => l = k
    BY DEF RoutesOf
  <2> HIDE DEF r
  <2> DEFINE f == g[v]
             w == RoundTrip(f)
             L == Len(f)
  <2>3. f \in Orders(s) /\ f # <<>> /\ Fits(s, v, f)
    BY <1>2, <2>1
  <2>4. r.vehicle = v /\ r.stops = w
    BY <2>1 DEF RouteOf
  <2>5. r = RouteOf(v, w)
    BY <2>1
  <2> HIDE DEF f
  <2>6. /\ L \in Nat /\ w \in Seq(PlannedNodes(s)) /\ Len(w) = L + 2
        /\ w[1] = Depot /\ w[L + 2] = Depot
        /\ \A i \in 2..(L + 1) : w[i] \in Active(s)
    BY <2>3, OrderFacts, TripFacts
  <2>7. ~(Load(s, r) > Capacity[r.vehicle])
    BY <2>3, <2>4, <2>5 DEF Fits
  <2>8. \A i \in 1..(Len(w) - 1) : <<w[i], w[i + 1]>> \notin s.blocked
    BY <2>3, LegsOfRoute DEF Fits
  <2> HIDE DEF w, L
  <2>9. DOMAIN w = 1..(L + 2) /\ Len(w) >= 2
    BY <2>6
  <2>10. \A i \in 1..(L + 2) : i \notin {1, L + 2} => i \in 2..(L + 1)
    BY <2>6
  <2>11. \A i \in DOMAIN w : IF i \in {1, Len(w)} THEN w[i] = Depot ELSE w[i] \in Active(s)
    BY <2>6, <2>9, <2>10
  <2> QED
    BY <2>2, <2>4, <2>7, <2>8, <2>9, <2>11 DEF r
<1> QED
  BY <1>1, <1>2

\* Every customer is served once when exactly one vehicle's order has it.
LEMMA ServedMeans ==
    ASSUME NEW s, IsScenario(s), NEW g \in [Fleet(s) -> Orders(s)],
           NEW routes, RoutesOf(s, g, routes)
    PROVE  ServedOnce(s, routes) <=> OnceEach(s, g)
<1>1. \A v \in Fleet(s) : g[v] \in Orders(s)
  OBVIOUS
<1>2. ASSUME ServedOnce(s, routes), NEW c \in Active(s)
      PROVE  \E v \in Fleet(s) : \A u \in Fleet(s) :
               (\E i \in 1..Len(g[u]) : g[u][i] = c) <=> u = v
  <2>1. \E k \in DOMAIN routes : \E i \in DOMAIN routes[k].stops :
          /\ routes[k].stops[i] = c
          /\ \A l \in DOMAIN routes : \A j \in DOMAIN routes[l].stops :
               routes[l].stops[j] = c => l = k /\ j = i
    BY <1>2 DEF ServedOnce
  <2>9. PICK k \in DOMAIN routes : \E i \in DOMAIN routes[k].stops :
          /\ routes[k].stops[i] = c
          /\ \A l \in DOMAIN routes : \A j \in DOMAIN routes[l].stops :
               routes[l].stops[j] = c => l = k /\ j = i
    BY <2>1
  <2>2. PICK i \in DOMAIN routes[k].stops :
          /\ routes[k].stops[i] = c
          /\ \A l \in DOMAIN routes : \A j \in DOMAIN routes[l].stops :
               routes[l].stops[j] = c => l = k /\ j = i
    BY <2>9
  <2>3. PICK v \in Fleet(s) : g[v] # <<>> /\ routes[k] = RouteOf(v, RoundTrip(g[v]))
    BY DEF RoutesOf
  <2>4. routes[k].vehicle = v /\ routes[k].stops = RoundTrip(g[v])
    BY <2>3 DEF RouteOf
  <2>5. i - 1 \in 1..Len(g[v]) /\ g[v][i - 1] = c
    BY <1>1, <2>2, <2>4, PlaceOnTrip
  <2>6. ASSUME NEW u \in Fleet(s), NEW m \in 1..Len(g[u]), g[u][m] = c
        PROVE  u = v
    <3>1. g[u] # <<>>
      <4>1. Len(g[u]) \in Nat /\ (g[u] = <<>> <=> Len(g[u]) = 0)
        BY <1>1, OrderFacts
      <4> QED
        BY <2>6, <4>1
    <3>2. PICK l \in DOMAIN routes : routes[l] = RouteOf(u, RoundTrip(g[u]))
      BY <3>1 DEF RoutesOf
    <3>3. routes[l].vehicle = u /\ routes[l].stops = RoundTrip(g[u])
      BY <3>2 DEF RouteOf
    <3>4. m + 1 \in DOMAIN RoundTrip(g[u]) /\ RoundTrip(g[u])[m + 1] = c
      BY <1>1, <2>6, PlaceOnTrip
    <3>5. l = k
      BY <2>2, <3>3, <3>4
    <3> QED
      BY <2>4, <3>3, <3>5
  <2>7. \A u \in Fleet(s) : (\E j \in 1..Len(g[u]) : g[u][j] = c) <=> u = v
    BY <2>5, <2>6
  <2> QED
    BY <2>7
<1>3. ASSUME OnceEach(s, g), NEW c \in Active(s)
      PROVE  \E k \in DOMAIN routes : \E i \in DOMAIN routes[k].stops :
               /\ routes[k].stops[i] = c
               /\ \A l \in DOMAIN routes : \A j \in DOMAIN routes[l].stops :
                    routes[l].stops[j] = c => l = k /\ j = i
  <2>1. PICK v \in Fleet(s) : \A u \in Fleet(s) : (\E i \in 1..Len(g[u]) : g[u][i] = c) <=> u = v
    BY <1>3 DEF OnceEach
  <2>2. PICK m \in 1..Len(g[v]) : g[v][m] = c
    BY <2>1
  <2>3. /\ Len(g[v]) \in Nat /\ (g[v] = <<>> <=> Len(g[v]) = 0)
        /\ \A i, j \in 1..Len(g[v]) : g[v][i] = g[v][j] => i = j
    BY <1>1, OrderFacts
  <2>4. g[v] # <<>>
    BY <2>2, <2>3
  <2>5. PICK k \in DOMAIN routes : routes[k] = RouteOf(v, RoundTrip(g[v]))
    BY <2>4 DEF RoutesOf
  <2>6. routes[k].vehicle = v /\ routes[k].stops = RoundTrip(g[v])
    BY <2>5 DEF RouteOf
  <2>7. m + 1 \in DOMAIN routes[k].stops /\ routes[k].stops[m + 1] = c
    BY <1>1, <2>2, <2>6, PlaceOnTrip
  <2>8. ASSUME NEW l \in DOMAIN routes, NEW j \in DOMAIN routes[l].stops, routes[l].stops[j] = c
        PROVE  l = k /\ j = m + 1
    <3>1. PICK u \in Fleet(s) : g[u] # <<>> /\ routes[l] = RouteOf(u, RoundTrip(g[u]))
      BY DEF RoutesOf
    <3>2. routes[l].vehicle = u /\ routes[l].stops = RoundTrip(g[u])
      BY <3>1 DEF RouteOf
    <3>3. j - 1 \in 1..Len(g[u]) /\ g[u][j - 1] = c /\ j \in DOMAIN RoundTrip(g[u])
      BY <1>1, <2>8, <3>2, PlaceOnTrip
    <3>4. u = v
      BY <2>1, <3>3
    <3>5. l = k
      BY <2>6, <3>2, <3>4 DEF RoutesOf
    <3>6. j - 1 = m
      BY <2>2, <2>3, <3>3, <3>4
    <3>7. j \in Int
      <4>1. RoundTrip(g[u]) \in Seq(PlannedNodes(s))
        BY <1>1, TripFacts
      <4>2. DOMAIN RoundTrip(g[u]) \subseteq Int
        BY <4>1
      <4> QED
        BY <3>3, <4>2
    <3> QED
      BY <3>5, <3>6, <3>7
  <2> QED
    BY <2>7, <2>8
<1> QED
  BY <1>2, <1>3 DEF ServedOnce, OnceEach

LEMMA FeasibleMeans ==
    ASSUME NEW s, IsScenario(s), FleetInOrder(s), NEW g \in [Fleet(s) -> Orders(s)]
    PROVE  Feasible(s, PlanOf(s, g)) <=>
             (\A v \in Fleet(s) : Fits(s, v, g[v])) /\ VisitOnce(s, LegsOf(s, g))
<1> DEFINE routes == PlanOf(s, g).routes
<1>1. RoutesOf(s, g, routes)
  BY PlanOfFacts
<1>2. Feasible(s, PlanOf(s, g)) <=> RoutesSound(s, routes) /\ ServedOnce(s, routes)
  BY FeasibleParts
<1> HIDE DEF routes
<1> QED
  BY <1>1, <1>2, SoundMeans, ServedMeans, VisitOnceMeans

\* The solutions are the legs of orders that fit and serve every customer once.
LEMMA SolutionsMean ==
    ASSUME NEW s, IsScenario(s)
    PROVE  /\ \A x \in Solutions(s) : \E g \in [Fleet(s) -> Orders(s)] :
                x = LegsOf(s, g) /\ (\A v \in Fleet(s) : Fits(s, v, g[v])) /\ VisitOnce(s, x)
           /\ \A g \in [Fleet(s) -> Orders(s)] :
                (\A v \in Fleet(s) : Fits(s, v, g[v])) /\ VisitOnce(s, LegsOf(s, g)) =>
                    LegsOf(s, g) \in Solutions(s)
<1> DEFINE tours == [v \in Fleet(s) |-> Tours(s, v)]
<1>1. Solutions(s) = {x \in [Fleet(s) -> UNION {tours[v] : v \in Fleet(s)}] :
                        (\A v \in Fleet(s) : x[v] \in tours[v]) /\ VisitOnce(s, x)}
  BY DEF Solutions
<1>2. \A v \in Fleet(s) : tours[v] = Tours(s, v)
  OBVIOUS
<1> HIDE DEF tours
<1>3. ASSUME NEW x \in Solutions(s)
      PROVE  \E g \in [Fleet(s) -> Orders(s)] :
                x = LegsOf(s, g) /\ (\A v \in Fleet(s) : Fits(s, v, g[v])) /\ VisitOnce(s, x)
  <2> DEFINE order(v) == CHOOSE f \in Orders(s) : x[v] = Legs(f) /\ Fits(s, v, f)
             g == [v \in Fleet(s) |-> order(v)]
  <2>1. /\ x \in [Fleet(s) -> UNION {tours[v] : v \in Fleet(s)}] /\ VisitOnce(s, x)
        /\ \A v \in Fleet(s) : x[v] \in Tours(s, v)
    BY <1>1, <1>2
  <2>2. \A v \in Fleet(s) : \E f \in Orders(s) : x[v] = Legs(f) /\ Fits(s, v, f)
    BY <2>1, ToursMean
  <2>3. \A v \in Fleet(s) : order(v) \in Orders(s) /\ x[v] = Legs(order(v)) /\ Fits(s, v, order(v))
    BY <2>2
  <2> HIDE DEF order
  <2>4. g \in [Fleet(s) -> Orders(s)] /\ \A v \in Fleet(s) : x[v] = Legs(g[v]) /\ Fits(s, v, g[v])
    BY <2>3
  <2> HIDE DEF g
  <2>5. x = LegsOf(s, g)
    <3>1. x = [v \in Fleet(s) |-> x[v]]
      BY <2>1
    <3> QED
      BY <2>4, <3>1 DEF LegsOf
  <2> QED
    BY <2>1, <2>4, <2>5
<1>4. ASSUME NEW g \in [Fleet(s) -> Orders(s)],
             \A v \in Fleet(s) : Fits(s, v, g[v]), VisitOnce(s, LegsOf(s, g))
      PROVE  LegsOf(s, g) \in Solutions(s)
  <2> DEFINE x == LegsOf(s, g)
  <2>1. \A v \in Fleet(s) : x[v] = Legs(g[v]) /\ g[v] \in Orders(s)
    BY DEF LegsOf
  <2>2. \A v \in Fleet(s) : x[v] \in tours[v]
    BY <1>2, <1>4, <2>1, ToursMean
  <2>3. x = [v \in Fleet(s) |-> x[v]]
    BY DEF LegsOf
  <2> HIDE DEF x
  <2>4. x \in [Fleet(s) -> UNION {tours[v] : v \in Fleet(s)}]
    BY <2>2, <2>3
  <2> QED
    BY <1>1, <1>4, <2>2, <2>4 DEF x
<1> QED
  BY <1>3, <1>4

\* The integer program and the walk give the feasible plans, for every scenario.
LEMMA SolverExactFor ==
    ASSUME NEW s, IsScenario(s)
    PROVE  SolverIsExactFor(s)
<1> SUFFICES ASSUME FleetInOrder(s)
             PROVE  SolverPlans(s) = {p \in RoundTripPlans(s) : Feasible(s, p)}
  BY DEF SolverIsExactFor
<1>1. ASSUME NEW p \in SolverPlans(s)
      PROVE  p \in RoundTripPlans(s) /\ Feasible(s, p)
  <2>1. PICK x \in Solutions(s) : p = Extract(s, x)
    BY DEF SolverPlans
  <2>2. PICK g \in [Fleet(s) -> Orders(s)] :
          x = LegsOf(s, g) /\ (\A v \in Fleet(s) : Fits(s, v, g[v])) /\ VisitOnce(s, x)
    BY SolutionsMean
  <2>3. p = PlanOf(s, g)
    BY <2>1, <2>2, ExtractIsPlanOf
  <2>4. Feasible(s, p)
    BY <2>2, <2>3, FeasibleMeans
  <2> QED
    BY <2>3, <2>4 DEF RoundTripPlans
<1>2. ASSUME NEW p \in RoundTripPlans(s), Feasible(s, p)
      PROVE  p \in SolverPlans(s)
  <2>1. PICK g \in [Fleet(s) -> Orders(s)] : p = PlanOf(s, g)
    BY DEF RoundTripPlans
  <2>2. (\A v \in Fleet(s) : Fits(s, v, g[v])) /\ VisitOnce(s, LegsOf(s, g))
    BY <1>2, <2>1, FeasibleMeans
  <2>3. LegsOf(s, g) \in Solutions(s)
    BY <2>2, SolutionsMean
  <2>4. p = Extract(s, LegsOf(s, g))
    BY <2>1, ExtractIsPlanOf
  <2> QED
    BY <2>3, <2>4 DEF SolverPlans
<1> QED
  BY <1>1, <1>2

=============================================================================
