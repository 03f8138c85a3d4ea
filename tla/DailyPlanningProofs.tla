------------------------ MODULE DailyPlanningProofs ------------------------
(* What holds of drivers, routes and requests in every instance. *)
EXTENDS DailyPlanning, FiniteSetTheorems, TLAPS

\* One request moves on: what it becomes is all there is to check.
LEMMA OpenStep ==
    ASSUME FleetOpenInv, NEW r \in Requests, NEW q \in Request, LocalOK(q),
           req' = [req EXCEPT ![r] = q],
           drivers' \in [Drivers -> DriverStatus \cup {None}],
           routes' \in [RouteIds -> Route \cup {None}]
    PROVE  FleetOpenInv'
BY DEF FleetOpenInv, FleetTypeOK, FleetLocalsOK

LEMMA IdleOK ==
    /\ Idle \in Request /\ LocalOK(Idle)
    /\ Idle.op = "none" /\ Idle.todo = {} /\ Idle.plan = <<>> /\ Len(Idle.plan) = 0
BY NoneAssumption DEF Idle, LocalOK, Request, Op, At, Pair

LEMMA RouteIdsOK ==
    /\ Cardinality(Drivers) \in Nat \ {0}
    /\ \A p \in Prefixes : <<p, 1>> \in RouteIds
<1>1. Cardinality(Drivers) \in Nat \ {0}
  BY DriversAssumption, FS_CardinalityType, FS_EmptySet
<1> QED BY <1>1 DEF RouteIds

LEMMA PlanningOK ==
    ASSUME NEW p \in Prefixes
    PROVE  /\ Planning(p) \in Request /\ LocalOK(Planning(p))
           /\ Planning(p).op = "planning" /\ Planning(p).plan = <<>>
           /\ Planning(p).todo = {} /\ Planning(p).at = "list"
<1> DEFINE id == <<p, 1>>
<1>1. id \in RouteIds /\ id[2] = 1
  BY RouteIdsOK
<1>2. Planning(p) = [Idle EXCEPT !.op = "planning", !.at = "list", !.route = id]
  BY DEF Planning
<1> HIDE DEF id
<1>3. Planning(p) \in Request
  BY <1>1, <1>2, IdleOK DEF Request, Op, At
<1>4. /\ Planning(p).op = "planning" /\ Planning(p).at = "list" /\ Planning(p).route = id
      /\ Planning(p).plan = <<>> /\ Planning(p).todo = {} /\ Len(Planning(p).plan) = 0
  BY <1>2, IdleOK DEF Request
<1>5. LocalOK(Planning(p))
  BY <1>1, <1>4, RouteIdsOK DEF LocalOK, PlanningAt
<1> QED BY <1>3, <1>4, <1>5

\* A plan has a pair for each vehicle used, and no more than there are drivers.
LEMMA PairingOK ==
    ASSUME NEW order \in Orders(Available), NEW pick \in Picks(Cardinality(Available))
    PROVE  /\ Pairing(order, pick) \in Seq(Pair)
           /\ Len(Pairing(order, pick)) <= Cardinality(Available)
           /\ Cardinality(Available) <= Cardinality(Drivers)
           /\ pick # <<>> => Len(Pairing(order, pick)) >= 1
           /\ pick = <<>> => Len(Pairing(order, pick)) = 0
           /\ \A i \in 1..Len(Pairing(order, pick)) :
                Pairing(order, pick)[i].driver \in Available
           /\ \A i, j \in 1..Len(Pairing(order, pick)) :
                Pairing(order, pick)[i].driver = Pairing(order, pick)[j].driver => i = j
<1> DEFINE n == Cardinality(Available)
           plan == Pairing(order, pick)
<1>1. n \in Nat /\ n <= Cardinality(Drivers)
  BY DriversAssumption, FS_Subset, FS_CardinalityType DEF Available
<1>2. PICK m \in 0..n : pick \in [1..m -> 1..n]
  BY DEF Picks
<1>3. order \in [1..n -> Available] /\ \A i, j \in 1..n : order[i] = order[j] => i = j
  BY DEF Orders
<1>4. plan = [i \in 1..m |-> [driver |-> order[i], vehicle |-> order[pick[i]]]]
  BY <1>2 DEF Pairing
<1>5. m \in Nat /\ \A i \in 1..m : i \in 1..n /\ pick[i] \in 1..n
  BY <1>1, <1>2
<1>6. \A i \in 1..m : order[i] \in Drivers /\ order[pick[i]] \in Drivers
  BY <1>3, <1>5 DEF Available
<1>7. plan \in [1..m -> Pair]
  BY <1>4, <1>6 DEF Pair
<1>8. plan \in Seq(Pair) /\ Len(plan) = m
  BY <1>5, <1>7
<1>9. pick # <<>> => m >= 1
  BY <1>2, <1>5
<1>10. pick = <<>> => m = 0
  <2> SUFFICES ASSUME pick = <<>>, m # 0 PROVE FALSE
    OBVIOUS
  <2>1. 1 \in 1..m
    BY <1>5
  <2>2. DOMAIN pick = 1..m
    BY <1>2
  <2>3. DOMAIN pick = {}
    OBVIOUS
  <2> QED
    BY <2>1, <2>2, <2>3
<1>11. \A i \in 1..m : plan[i].driver = order[i]
  BY <1>4
<1>12. \A i \in 1..m : plan[i].driver \in Available
  BY <1>11, <1>3, <1>5
<1>13. \A i, j \in 1..m : plan[i].driver = plan[j].driver => i = j
  BY <1>11, <1>3, <1>5
<1> HIDE DEF plan, n
<1>14. n = Cardinality(Available) /\ plan = Pairing(order, pick)
  BY DEF n, plan
<1> QED BY <1>1, <1>2, <1>5, <1>8, <1>9, <1>10, <1>12, <1>13, <1>14

-----------------------------------------------------------------------------
(* FleetOpenInv is inductive whatever the clients do.                           *)

LEMMA OpenFacts ==
    ASSUME FleetOpenInv, NEW r \in Requests
    PROVE  /\ req[r] \in Request /\ LocalOK(req[r])
           /\ drivers \in [Drivers -> DriverStatus \cup {None}]
           /\ routes \in [RouteIds -> Route \cup {None}]
BY DEF FleetOpenInv, FleetTypeOK, FleetLocalsOK

LEMMA OpenPlanning ==
    ASSUME FleetOpenInv, NEW r \in Requests, PlanningStep(r)
    PROVE  FleetOpenInv'
<1> USE OpenFacts
<1>1. ASSUME NEW p \in Prefixes, StartPlanning(r, p)
      PROVE  FleetOpenInv'
  BY <1>1, PlanningOK, OpenStep DEF StartPlanning, Go
<1>2. ASSUME NEW p \in Prefixes, StartDemoPlanning(r, p)
      PROVE  FleetOpenInv'
  <2> DEFINE q == [Planning(p) EXCEPT !.at = "release", !.todo = OnDemoRoute]
  <2>1. OnDemoRoute \subseteq Drivers
    BY DemoAssumption DEF OnDemoRoute
  <2>2. q \in Request
    BY <2>1, PlanningOK DEF Request, At
  <2>3. /\ q.op = "planning" /\ q.at = "release" /\ q.todo \subseteq Drivers
        /\ q.route = Planning(p).route /\ q.plan = Planning(p).plan
    BY <2>1, PlanningOK DEF Request
  <2>4. LocalOK(q)
    BY <2>3, PlanningOK DEF LocalOK, PlanningAt
  <2> QED BY <1>2, <2>2, <2>4, OpenStep DEF StartDemoPlanning, Go
<1>3. ASSUME NEW d \in Drivers, Release(r, d)
      PROVE  FleetOpenInv'
  <2> DEFINE q == [req[r] EXCEPT !.todo = @ \ {d}]
  <2>1. q \in Request /\ LocalOK(q)
    BY <1>3 DEF Release, Is, Request, LocalOK, PlanningAt
  <2>2. drivers' \in [Drivers -> DriverStatus \cup {None}]
    BY <1>3 DEF Release, SetDriverStatus, DriverStatus
  <2>3. req' = [req EXCEPT ![r] = q] /\ routes' = routes
    BY <1>3 DEF Release, Go
  <2> HIDE DEF q
  <2> QED BY <2>1, <2>2, <2>3, OpenStep
<1>4. ASSUME NEW d \in Drivers, Seed(r, d)
      PROVE  FleetOpenInv'
  <2> DEFINE q == [req[r] EXCEPT !.todo = @ \ {d}]
  <2>1. q \in Request /\ LocalOK(q)
    BY <1>4 DEF Seed, Is, Request, LocalOK, PlanningAt
  <2>2. drivers' \in [Drivers -> DriverStatus \cup {None}]
    BY <1>4 DEF Seed, SaveDriver, DriverStatus
  <2>3. req' = [req EXCEPT ![r] = q] /\ routes' = routes
    BY <1>4 DEF Seed, Go
  <2> HIDE DEF q
  <2> QED BY <2>1, <2>2, <2>3, OpenStep
<1>5. CASE Ensure(r)
  <2> DEFINE s == [req[r] EXCEPT !.at = "seed", !.todo = Demo]
             l == [req[r] EXCEPT !.at = "list"]
  <2>1. s \in Request /\ LocalOK(s)
    BY <1>5, DemoAssumption DEF Ensure, Is, Request, At, LocalOK, PlanningAt
  <2>2. l \in Request /\ LocalOK(l)
    BY <1>5 DEF Ensure, Is, Request, At, LocalOK, PlanningAt
  <2>3. req' = [req EXCEPT ![r] = s] \/ req' = [req EXCEPT ![r] = l]
    BY <1>5 DEF Ensure, Go
  <2> QED BY <1>5, <2>1, <2>2, <2>3, OpenStep DEF Ensure
<1>6. CASE ListAndSolve(r)
  <2>1. PICK order \in Orders(Available), pick \in Picks(Cardinality(Available)) :
          req' = [req EXCEPT ![r] =
                    [req[r] EXCEPT !.plan = Pairing(order, pick),
                                   !.at = IF pick = <<>> THEN "respond" ELSE "save"]]
    BY <1>6 DEF ListAndSolve, Go
  <2> DEFINE plan == Pairing(order, pick)
             q == [req[r] EXCEPT !.plan = plan,
                                 !.at = IF pick = <<>> THEN "respond" ELSE "save"]
  <2>2. req[r].op = "planning" /\ req[r].route \in RouteIds
    BY <1>6 DEF ListAndSolve, ReadyToList, Is, LocalOK
  <2>3. plan \in Seq(Pair) /\ Len(plan) <= Cardinality(Drivers)
    <3>1. Len(plan) \in Nat /\ Cardinality(Available) \in Nat /\ Cardinality(Drivers) \in Nat
      BY PairingOK, RouteIdsOK, DriversAssumption, FS_Subset, FS_CardinalityType DEF Available
    <3> HIDE DEF plan
    <3>2. plan = Pairing(order, pick)
      BY DEF plan
    <3> QED BY <3>1, <3>2, PairingOK
  <2>4. pick # <<>> => req[r].route[2] <= Len(plan)
    <3>1. req[r].route[2] = 1
      BY <1>6 DEF ListAndSolve, ReadyToList, Is, LocalOK
    <3> QED BY <3>1, PairingOK
  <2> HIDE DEF plan
  <2>5. q \in Request /\ LocalOK(q)
    BY <2>2, <2>3, <2>4 DEF Request, At, LocalOK, PlanningAt
  <2>6. req' = [req EXCEPT ![r] = q] /\ UNCHANGED <<drivers, routes>>
    BY <1>6, <2>1 DEF plan, ListAndSolve
  <2> HIDE DEF q
  <2> QED BY <2>5, <2>6, OpenStep
<1>7. CASE NoPlan(r) \/ Respond(r)
  BY <1>7, IdleOK, OpenStep DEF NoPlan, Respond, EndRequest, Go
<1>8. CASE SaveRoute(r)
  <2> DEFINE q == [req[r] EXCEPT !.at = "mark"]
             i == req[r].route[2]
  <2>1. q \in Request /\ LocalOK(q)
    BY <1>8 DEF SaveRoute, Is, Request, At, LocalOK, PlanningAt
  <2>2. req[r].route \in RouteIds /\ i \in 1..Len(req[r].plan)
    BY <1>8 DEF SaveRoute, Is, Request, LocalOK, RouteIds
  <2>3. req[r].plan[i] \in Pair
    BY <2>2 DEF Request
  <2>4. routes' \in [RouteIds -> Route \cup {None}]
    BY <1>8, <2>2, <2>3 DEF SaveRoute, Current, NewRoute, Route, RouteStatus, Pair
  <2>5. req' = [req EXCEPT ![r] = q] /\ UNCHANGED drivers
    BY <1>8 DEF SaveRoute, Go
  <2> HIDE DEF q
  <2> QED BY <2>1, <2>4, <2>5, OpenStep
<1>9. CASE MarkOnRoute(r)
  <2>1. AfterMark(r) \in Request /\ LocalOK(AfterMark(r))
    <3>1. /\ req[r].route \in Prefixes \X (1..Cardinality(Drivers))
          /\ Len(req[r].plan) \in Nat /\ Len(req[r].plan) <= Cardinality(Drivers)
          /\ req[r].op = "planning" /\ Cardinality(Drivers) \in Nat
      BY <1>9, RouteIdsOK DEF MarkOnRoute, Is, Request, LocalOK, RouteIds
    <3>2. req[r].route[2] < Len(req[r].plan) =>
            <<req[r].route[1], req[r].route[2] + 1>> \in RouteIds
      BY <3>1 DEF RouteIds
    <3>3. CASE req[r].route[2] < Len(req[r].plan)
      <4> DEFINE id == <<req[r].route[1], req[r].route[2] + 1>>
      <4>1. AfterMark(r) = [req[r] EXCEPT !.at = "save", !.route = id]
        BY <3>3 DEF AfterMark
      <4>2. id \in RouteIds /\ id[2] <= Len(req[r].plan)
        BY <3>1, <3>2, <3>3
      <4> HIDE DEF id
      <4> QED BY <3>1, <4>1, <4>2 DEF Request, At, LocalOK, PlanningAt
    <3>4. CASE ~(req[r].route[2] < Len(req[r].plan))
      <4>1. AfterMark(r) = [req[r] EXCEPT !.at = "respond"]
        BY <3>4 DEF AfterMark
      <4> QED BY <3>1, <4>1 DEF Request, At, LocalOK, PlanningAt
    <3> QED BY <3>3, <3>4
  <2>2. drivers' \in [Drivers -> DriverStatus \cup {None}]
    BY <1>9 DEF MarkOnRoute, SetDriverStatus, DriverStatus
  <2> QED BY <1>9, <2>1, <2>2, OpenStep DEF MarkOnRoute, Go
<1> QED BY <1>1, <1>2, <1>3, <1>4, <1>5, <1>6, <1>7, <1>8, <1>9 DEF PlanningStep

LEMMA OpenEdit ==
    ASSUME FleetOpenInv, NEW r \in Requests, EditStep(r)
    PROVE  FleetOpenInv'
<1> USE OpenFacts
<1>1. ASSUME NEW d \in Drivers, StartProfile(r, d)
      PROVE  FleetOpenInv'
  <2> DEFINE q == [Idle EXCEPT !.op = "profile", !.at = "get", !.driver = d,
                               !.status = drivers[d]]
  <2>1. q \in Request /\ LocalOK(q)
    <3>1. drivers[d] \in DriverStatus
      BY <1>1 DEF StartProfile
    <3> QED BY <3>1, IdleOK DEF Request, Op, At, LocalOK
  <2>2. req' = [req EXCEPT ![r] = q] /\ UNCHANGED <<drivers, routes>>
    BY <1>1 DEF StartProfile, Go
  <2> HIDE DEF q
  <2> QED BY <2>1, <2>2, OpenStep
<1>2. ASSUME NEW d \in Drivers, NEW s \in Edits, StartEdit(r, d, s)
      PROVE  FleetOpenInv'
  <2> DEFINE q == [Idle EXCEPT !.op = "edit", !.at = "get", !.driver = d, !.status = s]
  <2>1. q \in Request /\ LocalOK(q)
    BY IdleOK, PayloadAssumption DEF Request, Op, At, LocalOK
  <2>2. req' = [req EXCEPT ![r] = q] /\ UNCHANGED <<drivers, routes>>
    BY <1>2 DEF StartEdit, Go
  <2> HIDE DEF q
  <2> QED BY <2>1, <2>2, OpenStep
<1>3. CASE GetForUpdate(r)
  <2> DEFINE q == [req[r] EXCEPT !.at = "write"]
  <2>1. q \in Request /\ LocalOK(q)
    BY <1>3 DEF GetForUpdate, Request, At, LocalOK
  <2>2. /\ req' = [req EXCEPT ![r] = q] \/ req' = [req EXCEPT ![r] = Idle]
        /\ UNCHANGED <<drivers, routes>>
    BY <1>3 DEF GetForUpdate, Go, EndRequest
  <2> HIDE DEF q
  <2> QED BY <2>1, <2>2, IdleOK, OpenStep
<1>4. CASE WriteUpdate(r)
  <2>1. drivers' \in [Drivers -> DriverStatus \cup {None}]
    BY <1>4 DEF WriteUpdate, SaveDriver, LocalOK
  <2> QED BY <1>4, <2>1, IdleOK, OpenStep DEF WriteUpdate, EndRequest, Go
<1> QED BY <1>1, <1>2, <1>3, <1>4 DEF EditStep

LEMMA OpenDelete ==
    ASSUME FleetOpenInv, NEW r \in Requests, DeleteStep(r)
    PROVE  FleetOpenInv'
<1> USE OpenFacts
<1>1. ASSUME NEW d \in Drivers, StartDelete(r, d)
      PROVE  FleetOpenInv'
  <2> DEFINE q == [Idle EXCEPT !.op = "delete", !.at = "find", !.driver = d]
  <2>1. q \in Request /\ LocalOK(q)
    BY IdleOK DEF Request, Op, At, LocalOK
  <2>2. req' = [req EXCEPT ![r] = q] /\ UNCHANGED <<drivers, routes>>
    BY <1>1 DEF StartDelete, Go
  <2> HIDE DEF q
  <2> QED BY <2>1, <2>2, OpenStep
<1>2. CASE FindRoutes(r)
  <2> DEFINE q == [req[r] EXCEPT !.at = "removing", !.todo = RoutesOf(req[r].driver)]
  <2>1. RoutesOf(req[r].driver) \subseteq RouteIds
    BY DEF RoutesOf
  <2>2. q \in Request /\ LocalOK(q)
    BY <1>2, <2>1 DEF FindRoutes, Is, Request, At, LocalOK
  <2>3. req' = [req EXCEPT ![r] = q] /\ UNCHANGED <<drivers, routes>>
    BY <1>2 DEF FindRoutes, Go
  <2> HIDE DEF q
  <2> QED BY <2>2, <2>3, OpenStep
<1>3. CASE DeleteDriver(r)
  <2>1. drivers' \in [Drivers -> DriverStatus \cup {None}]
    BY <1>3 DEF DeleteDriver, SaveDriver
  <2> QED BY <1>3, <2>1, IdleOK, OpenStep DEF DeleteDriver, EndRequest, Go
<1>4. ASSUME NEW id \in RouteIds, MarkRemoved(r, id)
      PROVE  FleetOpenInv'
  <2> DEFINE q == [req[r] EXCEPT !.todo = @ \ {id}]
  <2>1. q \in Request /\ LocalOK(q)
    BY <1>4 DEF MarkRemoved, Is, Request, At, LocalOK
  <2>2. routes' \in [RouteIds -> Route \cup {None}]
    BY <1>4 DEF MarkRemoved, RoutesOf, Route
  <2>3. req' = [req EXCEPT ![r] = q] /\ UNCHANGED drivers
    BY <1>4 DEF MarkRemoved, Go
  <2> HIDE DEF q
  <2> QED BY <2>1, <2>2, <2>3, OpenStep
<1> QED BY <1>1, <1>2, <1>3, <1>4 DEF DeleteStep

LEMMA OpenReport ==
    ASSUME FleetOpenInv, NEW r \in Requests, ReportStep(r)
    PROVE  FleetOpenInv'
<1> USE OpenFacts
<1>1. ASSUME NEW d \in Drivers, NEW id \in RouteIds, NEW s \in Reports,
             StartReport(r, d, id, s)
      PROVE  FleetOpenInv'
  <2> DEFINE q == [Idle EXCEPT !.op = "report", !.at = "check", !.driver = d,
                               !.route = id, !.status = s]
  <2>1. q \in Request /\ LocalOK(q)
    BY IdleOK, PayloadAssumption DEF Request, Op, At, LocalOK
  <2>2. req' = [req EXCEPT ![r] = q] /\ UNCHANGED <<drivers, routes>>
    BY <1>1 DEF StartReport, Go
  <2> HIDE DEF q
  <2> QED BY <2>1, <2>2, OpenStep
<1>2. CASE CheckOwner(r)
  <2> DEFINE q == [req[r] EXCEPT !.at = "write"]
  <2>1. q \in Request /\ LocalOK(q)
    BY <1>2 DEF CheckOwner, Is, Request, At, LocalOK
  <2>2. /\ req' = [req EXCEPT ![r] = q] \/ req' = [req EXCEPT ![r] = Idle]
        /\ UNCHANGED <<drivers, routes>>
    BY <1>2 DEF CheckOwner, Go, EndRequest
  <2> HIDE DEF q
  <2> QED BY <2>1, <2>2, IdleOK, OpenStep
<1>3. CASE WriteReport(r)
  <2>1. routes' \in [RouteIds -> Route \cup {None}]
    BY <1>3 DEF WriteReport, SetRouteStatus, Is, LocalOK, Route
  <2> QED BY <1>3, <2>1, IdleOK, OpenStep DEF WriteReport, EndRequest, Go
<1> QED BY <1>1, <1>2, <1>3 DEF ReportStep


LEMMA OpenInit == FleetInit => FleetOpenInv
<1> SUFFICES ASSUME FleetInit
             PROVE  FleetOpenInv
  OBVIOUS
<1> QED BY IdleOK DEF FleetInit, FleetOpenInv, FleetTypeOK, FleetLocalsOK, DriverStatus

LEMMA OpenNext == FleetOpenInv /\ [FleetNext]_fleetVars => FleetOpenInv'
<1> SUFFICES ASSUME FleetOpenInv, [FleetNext]_fleetVars
             PROVE  FleetOpenInv'
  OBVIOUS
<1>1. ASSUME NEW r \in Requests, Abandon(r)
      PROVE  FleetOpenInv'
  BY <1>1, IdleOK, OpenFacts, OpenStep DEF Abandon, EndRequest, Go
<1>2. ASSUME NEW id \in RouteIds, NEW d \in Drivers, NEW s \in Reports,
             CreateRoute(id, d, s)
      PROVE  FleetOpenInv'
  <2>1. NewRoute(d, s, None) \in Route
    BY PayloadAssumption DEF NewRoute, Route
  <2> QED BY <1>2, <2>1 DEF CreateRoute, FleetOpenInv, FleetTypeOK, FleetLocalsOK
<1>3. ASSUME NEW d \in Drivers, NEW s \in Edits, CreateDriver(d, s)
      PROVE  FleetOpenInv'
  BY <1>3, PayloadAssumption DEF CreateDriver, SaveDriver, FleetOpenInv, FleetTypeOK, FleetLocalsOK
<1>4. CASE UNCHANGED fleetVars
  BY <1>4 DEF fleetVars, FleetOpenInv, FleetTypeOK, FleetLocalsOK
<1> QED
  BY <1>1, <1>2, <1>3, <1>4, OpenPlanning, OpenEdit, OpenDelete, OpenReport
     DEF FleetNext, Create

\* Whatever the clients do, drivers, routes and requests keep their types and no
\* request makes a call without the locals the call uses.
THEOREM RequestsWellFormed == FleetSpec => []FleetOpenInv
<1>1. FleetInit => FleetOpenInv
  BY OpenInit
<1>2. FleetOpenInv /\ [FleetNext]_fleetVars => FleetOpenInv'
  BY OpenNext
<1> QED BY <1>1, <1>2, PTL DEF FleetSpec

-----------------------------------------------------------------------------
(* FleetInv is inductive when Alone holds.                                 *)

\* While a request plans, and when it starts or ends, no other is in flight.
LEMMA PlanningIsAlone ==
    ASSUME Alone, FleetInv, NEW r \in Requests, PlanningStep(r)
    PROVE  /\ req'[r].op \in {"planning", "none"}
           /\ req'[r].op = "none" => req'[r] = Idle
           /\ \A q \in Requests \ {r} : req[q] = Idle /\ req'[q] = Idle
<1> DEFINE Others == \A q \in Requests \ {r} : req[q] = Idle
<1>1. /\ req \in [Requests -> Request]
      /\ req[r].op = "planning" => Others
  BY DEF FleetInv, FleetOpenInv, FleetTypeOK, Exclusive
<1>2. PICK to : /\ req' = [req EXCEPT ![r] = to]
                /\ to = Idle \/ to.op = "planning"
                /\ Others
  <2>1. ASSUME NEW p \in Prefixes, StartPlanning(r, p)
        PROVE  Others /\ req' = [req EXCEPT ![r] = Planning(p)]
    BY <2>1 DEF StartPlanning, MayStartAlone, Go
  <2>2. ASSUME NEW p \in Prefixes, StartDemoPlanning(r, p)
        PROVE  /\ Others
               /\ req' = [req EXCEPT ![r] =
                            [Planning(p) EXCEPT !.at = "release", !.todo = OnDemoRoute]]
    BY <2>2 DEF StartDemoPlanning, MayStartAlone, Go
  <2>3. \A p \in Prefixes : Planning(p) \in Request /\ Planning(p).op = "planning"
    BY PlanningOK
  <2>4. ASSUME NEW p \in Prefixes
        PROVE  [Planning(p) EXCEPT !.at = "release", !.todo = OnDemoRoute].op = "planning"
    BY <2>3 DEF Request
  <2>5. ASSUME NEW d \in Drivers, Release(r, d) \/ Seed(r, d)
        PROVE  /\ req[r].op = "planning"
               /\ req' = [req EXCEPT ![r] = [req[r] EXCEPT !.todo = @ \ {d}]]
               /\ [req[r] EXCEPT !.todo = @ \ {d}].op = "planning"
    BY <1>1, <2>5 DEF Release, Seed, Is, Go, Request
  <2>6. ASSUME Ensure(r)
        PROVE  \E to : /\ req[r].op = "planning"
                       /\ req' = [req EXCEPT ![r] = to] /\ to.op = "planning"
    BY <1>1, <2>6 DEF Ensure, Is, Go, Request
  <2>7. ASSUME ListAndSolve(r)
        PROVE  \E to : /\ req[r].op = "planning"
                       /\ req' = [req EXCEPT ![r] = to] /\ to.op = "planning"
    <3>1. PICK plan, at : req' = [req EXCEPT ![r] = [req[r] EXCEPT !.plan = plan, !.at = at]]
      BY <2>7 DEF ListAndSolve, Go
    <3>2. req[r].op = "planning"
      BY <2>7 DEF ListAndSolve, ReadyToList, Is
    <3>3. [req[r] EXCEPT !.plan = plan, !.at = at].op = "planning"
      BY <1>1, <3>2 DEF Request
    <3> QED BY <3>1, <3>2, <3>3
  <2>8. ASSUME NoPlan(r) \/ Respond(r)
        PROVE  req[r].op = "planning" /\ req' = [req EXCEPT ![r] = Idle]
    BY <2>8 DEF NoPlan, Respond, ReadyToList, Is, EndRequest, Go
  <2>9. ASSUME SaveRoute(r)
        PROVE  /\ req[r].op = "planning"
               /\ req' = [req EXCEPT ![r] = [req[r] EXCEPT !.at = "mark"]]
               /\ [req[r] EXCEPT !.at = "mark"].op = "planning"
    BY <1>1, <2>9 DEF SaveRoute, Is, Go, Request
  <2>10. ASSUME MarkOnRoute(r)
         PROVE  /\ req[r].op = "planning"
                /\ req' = [req EXCEPT ![r] = AfterMark(r)]
                /\ AfterMark(r).op = "planning"
    BY <1>1, <2>10 DEF MarkOnRoute, AfterMark, Is, Go, Request
  <2> HIDE DEF Others
  <2> QED
    BY <1>1, <2>1, <2>2, <2>3, <2>4, <2>5, <2>6, <2>7, <2>8, <2>9, <2>10 DEF PlanningStep
<1> QED BY <1>1, <1>2, IdleOK

\* What planning and the others in their stillness leave to check.
LEMMA PlanningFrame ==
    ASSUME Alone, FleetInv, NEW r \in Requests, PlanningStep(r), FleetOpenInv',
           req'[r].op = "planning" => PlanOK(r)',
           PlannedRoutesHaveDrivers'
    PROVE  FleetInv'
<1>1. /\ req'[r].op \in {"planning", "none"}
      /\ \A q \in Requests \ {r} : req'[q] = Idle
  BY PlanningIsAlone
<1>2. Exclusive'
  BY <1>1, IdleOK DEF Exclusive
<1>3. RemovalsOK'
  BY <1>1, IdleOK DEF RemovalsOK, Is
<1>4. PlansOK'
  BY <1>1, IdleOK DEF PlansOK
<1> QED BY <1>2, <1>3, <1>4 DEF FleetInv

\* No driver of a planned route is lost as long as no driver is.
LEMMA DriversKept ==
    ASSUME PlannedRoutesHaveDrivers, UNCHANGED routes, FleetOpenInv', FleetOpenInv,
           \A d \in Drivers : drivers[d] # None => drivers'[d] # None
    PROVE  PlannedRoutesHaveDrivers'
<1> SUFFICES ASSUME NEW id \in RouteIds, routes[id] # None, routes[id].vehicle # None,
                    ~routes[id].removed
             PROVE  drivers'[routes[id].driver] # None
  BY DEF PlannedRoutesHaveDrivers
<1>1. routes[id] \in Route
  BY DEF FleetOpenInv, FleetTypeOK
<1> QED BY <1>1 DEF PlannedRoutesHaveDrivers, Route


LEMMA FleetPlanning ==
    ASSUME Alone, FleetInv, NEW r \in Requests, PlanningStep(r)
    PROVE  FleetInv'
<1>1. FleetOpenInv /\ FleetOpenInv' /\ PlannedRoutesHaveDrivers
  BY OpenPlanning DEF FleetInv
<1>2. /\ req \in [Requests -> Request] /\ req[r] \in Request /\ LocalOK(req[r])
      /\ drivers \in [Drivers -> DriverStatus \cup {None}]
      /\ routes \in [RouteIds -> Route \cup {None}]
  BY <1>1 DEF FleetOpenInv, FleetTypeOK, FleetLocalsOK
<1>3. req[r].op = "planning" => PlanOK(r)
  BY DEF FleetInv, PlansOK
<1>4. ASSUME NEW p \in Prefixes, StartPlanning(r, p)
      PROVE  FleetInv'
  <2>1. req'[r] = Planning(p) /\ UNCHANGED <<drivers, routes>>
    BY <1>2, <1>4 DEF StartPlanning, Go
  <2>2. PlanOK(r)'
    BY <2>1, PlanningOK DEF PlanOK
  <2>3. PlannedRoutesHaveDrivers'
    BY <1>1, <2>1, DriversKept
  <2> QED BY <1>1, <2>2, <2>3, PlanningFrame
<1>5. ASSUME NEW p \in Prefixes, StartDemoPlanning(r, p)
      PROVE  FleetInv'
  <2>1. /\ req'[r].at = "release" /\ req'[r].todo = OnDemoRoute
        /\ UNCHANGED <<drivers, routes>>
    BY <1>2, <1>5, PlanningOK DEF StartDemoPlanning, Go, Request
  <2>2. PlanOK(r)'
    BY <2>1 DEF PlanOK, OnDemoRoute
  <2>3. PlannedRoutesHaveDrivers'
    BY <1>1, <2>1, DriversKept
  <2> QED BY <1>1, <2>2, <2>3, PlanningFrame
<1>6. ASSUME NEW d \in Drivers, Release(r, d)
      PROVE  FleetInv'
  <2>1. /\ req[r].at = "release" /\ req[r].op = "planning" /\ d \in req[r].todo
        /\ drivers' = [drivers EXCEPT ![d] = IF @ = None THEN None ELSE "available"]
        /\ req'[r].at = "release" /\ req'[r].todo = req[r].todo \ {d}
        /\ UNCHANGED routes
    BY <1>2, <1>6 DEF Release, Is, SetDriverStatus, Go, Request
  <2>2. req[r].todo \subseteq Drivers
    BY <1>2, <2>1 DEF LocalOK
  <2>3. PlanOK(r)'
    BY <1>2, <1>3, <2>1, <2>2 DEF PlanOK
  <2>4. PlannedRoutesHaveDrivers'
    BY <1>1, <1>2, <2>1, DriversKept, NoneAssumption DEF DriverStatus
  <2> QED BY <1>1, <2>3, <2>4, PlanningFrame
<1>7. ASSUME NEW d \in Drivers, Seed(r, d)
      PROVE  FleetInv'
  <2>1. /\ req[r].at = "seed" /\ req[r].op = "planning" /\ d \in req[r].todo
        /\ drivers' = [drivers EXCEPT ![d] = "available"]
        /\ req'[r].at = "seed" /\ req'[r].todo = req[r].todo \ {d}
        /\ UNCHANGED routes
    BY <1>2, <1>7 DEF Seed, Is, SaveDriver, Go, Request
  <2>2. req[r].todo \subseteq Drivers
    BY <1>2, <2>1 DEF LocalOK
  <2>3. PlanOK(r)'
    BY <1>2, <1>3, <2>1, <2>2 DEF PlanOK
  <2>4. PlannedRoutesHaveDrivers'
    BY <1>1, <1>2, <2>1, DriversKept, NoneAssumption DEF DriverStatus
  <2> QED BY <1>1, <2>3, <2>4, PlanningFrame
<1>8. CASE Ensure(r)
  <2>1. /\ UNCHANGED <<drivers, routes>>
        /\ \/ req'[r].at = "list"
           \/ /\ req'[r].at = "seed" /\ req'[r].todo = Demo
              /\ \A d \in Drivers : drivers[d] = None
    BY <1>2, <1>8 DEF Ensure, Go, Request
  <2>2. PlanOK(r)'
    BY <2>1, DemoAssumption DEF PlanOK
  <2>3. PlannedRoutesHaveDrivers'
    BY <1>1, <2>1, DriversKept
  <2> QED BY <1>1, <2>2, <2>3, PlanningFrame
<1>9. CASE ListAndSolve(r)
  <2>1. PICK order \in Orders(Available), pick \in Picks(Cardinality(Available)) :
          req' = [req EXCEPT ![r] =
                    [req[r] EXCEPT !.plan = Pairing(order, pick),
                                   !.at = IF pick = <<>> THEN "respond" ELSE "save"]]
    BY <1>9 DEF ListAndSolve, Go
  <2> DEFINE plan == Pairing(order, pick)
  <2>2. /\ UNCHANGED <<drivers, routes>>
        /\ req'[r].plan = plan /\ req'[r].route = req[r].route
        /\ req'[r].at = IF pick = <<>> THEN "respond" ELSE "save"
    BY <1>2, <1>9, <2>1 DEF ListAndSolve, Request
  <2>3. req[r].route[2] = 1
    BY <1>2, <1>9 DEF ListAndSolve, ReadyToList, Is, LocalOK
  <2>4. /\ pick = <<>> => Len(plan) = 0
        /\ \A i \in 1..Len(plan) : drivers[plan[i].driver] = "available"
        /\ \A i, j \in 1..Len(plan) : plan[i].driver = plan[j].driver => i = j
    BY PairingOK DEF Available
  <2> HIDE DEF plan
  <2>5. PlanHolds(r)'
    BY <2>2, <2>3, <2>4 DEF PlanHolds, Marked
  <2>6. PlanOK(r)'
    BY <2>2, <2>5 DEF PlanOK
  <2>7. PlannedRoutesHaveDrivers'
    BY <1>1, <2>2, DriversKept
  <2> QED BY <1>1, <2>6, <2>7, PlanningFrame
<1>10. CASE NoPlan(r) \/ Respond(r)
  <2>1. req'[r] = Idle /\ UNCHANGED <<drivers, routes>>
    BY <1>2, <1>10 DEF NoPlan, Respond, EndRequest, Go
  <2>2. PlannedRoutesHaveDrivers'
    BY <1>1, <2>1, DriversKept
  <2> QED BY <1>1, <2>1, <2>2, IdleOK, PlanningFrame
<1>11. CASE SaveRoute(r)
  <2> DEFINE p == req[r].route[1]
             k == req[r].route[2]
             new == NewRoute(Current(r).driver, "assigned", Current(r).vehicle)
  <2>1. /\ req[r].op = "planning" /\ req[r].at = "save"
        /\ routes' = [routes EXCEPT ![req[r].route] = new]
        /\ req'[r].at = "mark" /\ req'[r].plan = req[r].plan /\ req'[r].route = req[r].route
        /\ UNCHANGED drivers
    BY <1>2, <1>11 DEF SaveRoute, Is, Go, Request
  <2>2. PlanHolds(r)
    BY <1>3, <2>1 DEF PlanOK
  <2>3. /\ req[r].route = <<p, k>> /\ p \in Prefixes
        /\ k \in 1..Cardinality(Drivers) /\ k \in 1..Len(req[r].plan)
    BY <1>2, <2>1, RouteIdsOK DEF LocalOK, RouteIds, Request
  <2>4. Current(r) = req[r].plan[k] /\ Current(r) \in Pair
    BY <1>2, <2>3 DEF Current, Request
  <2>5. drivers[Current(r).driver] = "available"
    BY <2>1, <2>2, <2>3, <2>4 DEF PlanHolds, Marked
  <2>6. routes'[<<p, k>>] = new
    BY <1>2, <2>1, <2>3 DEF RouteIds
  <2>7. \A i \in 1..Len(req[r].plan) : i # k => routes'[<<p, i>>] = routes[<<p, i>>]
    <3>1. \A i \in 1..Len(req[r].plan) : i # k => <<p, i>> # req[r].route
      BY <2>3
    <3>2. \A i \in 1..Len(req[r].plan) : <<p, i>> \in RouteIds
      BY <1>2, <2>1, <2>3, RouteIdsOK DEF LocalOK, RouteIds, Request
    <3> QED BY <1>2, <2>1, <3>1, <3>2
  <2>8. PlanHolds(r)'
    <3>1. Stored(r, k)'
      BY <2>1, <2>4, <2>6 DEF Stored
    <3>2. ASSUME NEW i \in 1..Len(req[r].plan), i # k, Stored(r, i)
          PROVE  Stored(r, i)'
      BY <2>1, <2>7, <3>2 DEF Stored
    <3>3. Marked(r)' = Marked(r) /\ Marked(r) = k - 1
      BY <2>1 DEF Marked
    <3> HIDE DEF p, k, new
    <3>4. k \in Int /\ Len(req[r].plan) \in Nat
      BY <1>2, <2>3 DEF Request
    <3>5. ASSUME NEW i \in 1..Len(req[r].plan)
          PROVE  IF i <= Marked(r)
                   THEN Stored(r, i)' /\ drivers[req[r].plan[i].driver] = "on_route"
                   ELSE drivers[req[r].plan[i].driver] = "available"
      <4>1. i <= Marked(r) => i # k
        BY <3>3, <3>4
      <4> QED BY <2>2, <3>2, <4>1 DEF PlanHolds
    <3>6. Stored(r, req[r].route[2])'
      BY <3>1 DEF k
    <3> QED BY <2>1, <2>2, <3>3, <3>5, <3>6 DEF PlanHolds
  <2>9. PlanOK(r)'
    BY <2>1, <2>8 DEF PlanOK
  <2>10. PlannedRoutesHaveDrivers'
    <3> SUFFICES ASSUME NEW id \in RouteIds, routes'[id] # None, routes'[id].vehicle # None,
                        ~routes'[id].removed
                 PROVE  drivers[routes'[id].driver] # None
      BY <2>1 DEF PlannedRoutesHaveDrivers
    <3>1. CASE id = req[r].route
      BY <1>2, <2>1, <2>5, <3>1, NoneAssumption DEF NewRoute, DriverStatus
    <3>2. CASE id # req[r].route
      BY <1>1, <1>2, <2>1, <3>2 DEF PlannedRoutesHaveDrivers
    <3> QED BY <3>1, <3>2
  <2> QED BY <1>1, <2>9, <2>10, PlanningFrame
<1>12. CASE MarkOnRoute(r)
  <2> DEFINE k == req[r].route[2]
             d == Current(r).driver
  <2>1. /\ req[r].op = "planning" /\ req[r].at = "mark"
        /\ drivers' = [drivers EXCEPT ![d] = IF @ = None THEN None ELSE "on_route"]
        /\ req'[r] = AfterMark(r)
        /\ UNCHANGED routes
    BY <1>2, <1>12 DEF MarkOnRoute, Is, SetDriverStatus, Go
  <2>2. PlanHolds(r)
    BY <1>3, <2>1 DEF PlanOK
  <2>3. /\ k \in 1..Cardinality(Drivers) /\ k \in 1..Len(req[r].plan)
        /\ Len(req[r].plan) \in Nat
    BY <1>2, <2>1, RouteIdsOK DEF LocalOK, RouteIds, Request
  <2>4. d = req[r].plan[k].driver /\ \A i \in 1..Len(req[r].plan) : req[r].plan[i] \in Pair
    BY <1>2, <2>3 DEF Current, Request
  <2>5. drivers[d] = "available" /\ Stored(r, k)
    BY <2>1, <2>2, <2>3, <2>4 DEF PlanHolds, Marked
  <2>6. drivers'[d] = "on_route" /\ \A e \in Drivers \ {d} : drivers'[e] = drivers[e]
    BY <1>2, <2>1, <2>3, <2>4, <2>5, NoneAssumption DEF Pair, DriverStatus
  <2>7. /\ req'[r].plan = req[r].plan /\ req'[r].route[1] = req[r].route[1]
        /\ \/ req'[r].at = "save" /\ req'[r].route[2] = k + 1
           \/ req'[r].at = "respond" /\ k = Len(req[r].plan)
    BY <1>2, <2>1, <2>3 DEF AfterMark, Request
  <2>8. PlanHolds(r)'
    <3> HIDE DEF k, d
    <3>1. Marked(r)' = k
      BY <2>3, <2>7 DEF Marked
    <3>2. Marked(r) = k - 1
      BY <2>1 DEF Marked, k
    <3>3. ASSUME NEW i \in 1..Len(req[r].plan)
          PROVE  /\ Stored(r, i)' = Stored(r, i)
                 /\ i # k => drivers'[req[r].plan[i].driver] = drivers[req[r].plan[i].driver]
      <4>1. Stored(r, i)' = Stored(r, i)
        BY <2>1, <2>7 DEF Stored
      <4>2. i # k => req[r].plan[i].driver \in Drivers \ {d}
        BY <2>2, <2>3, <2>4 DEF PlanHolds, Pair
      <4> QED BY <4>1, <4>2, <2>6
    <3>4. ASSUME NEW i \in 1..Len(req[r].plan)
          PROVE  IF i <= k
                   THEN Stored(r, i)' /\ drivers'[req[r].plan[i].driver] = "on_route"
                   ELSE drivers'[req[r].plan[i].driver] = "available"
      <4>1. CASE i = k
        BY <2>3, <2>4, <2>5, <2>6, <3>3, <4>1
      <4>2. CASE i # k
        <5>1. i <= k <=> i <= Marked(r)
          BY <2>3, <3>2, <4>2
        <5>2. k \in Int
          BY <2>3
        <5> QED BY <2>2, <3>3, <4>2, <5>1, <5>2 DEF PlanHolds
      <4> QED BY <4>1, <4>2
    <3> QED BY <2>2, <2>7, <3>1, <3>4 DEF PlanHolds
  <2>9. PlanOK(r)'
    BY <2>7, <2>8 DEF PlanOK
  <2>10. PlannedRoutesHaveDrivers'
    BY <1>1, <1>2, <2>1, DriversKept, NoneAssumption DEF DriverStatus
  <2> QED BY <1>1, <2>9, <2>10, PlanningFrame
<1> QED
  BY <1>4, <1>5, <1>6, <1>7, <1>8, <1>9, <1>10, <1>11, <1>12 DEF PlanningStep

\* Any other request in flight means that no planning is.
LEMMA NoPlanning ==
    ASSUME Alone, FleetInv, NEW r \in Requests,
           EditStep(r) \/ DeleteStep(r) \/ ReportStep(r) \/ Abandon(r)
    PROVE  /\ \A q \in Requests : req'[q].op # "planning"
           /\ \A q \in Requests \ {r} : req'[q] = req[q]
<1>1. /\ req \in [Requests -> Request] /\ Exclusive /\ LocalOK(req[r])
  BY DEF FleetInv, FleetOpenInv, FleetTypeOK, FleetLocalsOK
<1> DEFINE NoneElse == \A q \in Requests \ {r} : req[q].op # "planning"
<1>2. req[r] # Idle => NoneElse
  BY <1>1 DEF Exclusive
<1>3. MayStart => NoneElse
  BY DEF MayStart
<1>4. SUFFICES \E to : NoneElse /\ to.op # "planning" /\ req' = [req EXCEPT ![r] = to]
  BY <1>1
<1>5. Idle.op # "planning"
  BY IdleOK
<1>6. CASE EditStep(r)
  <2>1. ASSUME NEW d \in Drivers, StartProfile(r, d)
        PROVE  \E to : NoneElse /\ to.op # "planning" /\ req' = [req EXCEPT ![r] = to]
    BY <1>3, <2>1 DEF StartProfile, Go, Idle
  <2>2. ASSUME NEW d \in Drivers, NEW s \in Edits, StartEdit(r, d, s)
        PROVE  \E to : NoneElse /\ to.op # "planning" /\ req' = [req EXCEPT ![r] = to]
    BY <1>3, <2>2 DEF StartEdit, Go, Idle
  <2>3. CASE GetForUpdate(r)
    <3>1. req[r].op \in {"edit", "profile"}
      BY <1>1, <2>3 DEF GetForUpdate, LocalOK
    <3>2. [req[r] EXCEPT !.at = "write"].op # "planning"
      BY <1>1, <3>1 DEF Request
    <3>3. NoneElse
      BY <1>2, <3>1, IdleOK
    <3> HIDE DEF NoneElse
    <3> QED BY <1>5, <2>3, <3>2, <3>3 DEF GetForUpdate, Go, EndRequest
  <2>4. CASE WriteUpdate(r)
    <3>1. NoneElse
      BY <1>2, <2>4, IdleOK DEF WriteUpdate
    <3> HIDE DEF NoneElse
    <3> QED BY <1>5, <2>4, <3>1 DEF WriteUpdate, Go, EndRequest
  <2> QED BY <1>6, <2>1, <2>2, <2>3, <2>4 DEF EditStep
<1>7. CASE DeleteStep(r)
  <2>1. ASSUME NEW d \in Drivers, StartDelete(r, d)
        PROVE  \E to : NoneElse /\ to.op # "planning" /\ req' = [req EXCEPT ![r] = to]
    BY <1>3, <2>1 DEF StartDelete, Go, Idle
  <2>2. CASE req[r].op = "delete"
    <3>1. NoneElse
      BY <1>2, <2>2, IdleOK
    <3>2. \E to : to.op # "planning" /\ req' = [req EXCEPT ![r] = to]
      <4>1. ASSUME FindRoutes(r)
            PROVE  \E to : to.op # "planning" /\ req' = [req EXCEPT ![r] = to]
        BY <1>1, <2>2, <4>1 DEF FindRoutes, Go, Request
      <4>2. ASSUME NEW id \in RouteIds, MarkRemoved(r, id)
            PROVE  \E to : to.op # "planning" /\ req' = [req EXCEPT ![r] = to]
        BY <1>1, <2>2, <4>2 DEF MarkRemoved, Go, Request
      <4>3. ASSUME DeleteDriver(r)
            PROVE  \E to : to.op # "planning" /\ req' = [req EXCEPT ![r] = to]
        BY <1>5, <4>3 DEF DeleteDriver, Go, EndRequest
      <4>4. ASSUME NEW d \in Drivers, StartDelete(r, d)
            PROVE  FALSE
        BY <2>2, <4>4, IdleOK DEF StartDelete
      <4> QED BY <1>7, <4>1, <4>2, <4>3, <4>4 DEF DeleteStep
    <3> QED BY <3>1, <3>2
  <2> QED BY <1>7, <2>1, <2>2 DEF DeleteStep, FindRoutes, MarkRemoved, DeleteDriver, Is
<1>8. CASE ReportStep(r)
  <2>1. ASSUME NEW d \in Drivers, NEW id \in RouteIds, NEW s \in Reports,
               StartReport(r, d, id, s)
        PROVE  \E to : NoneElse /\ to.op # "planning" /\ req' = [req EXCEPT ![r] = to]
    BY <1>3, <2>1 DEF StartReport, Go, Idle
  <2>2. CASE CheckOwner(r) \/ WriteReport(r)
    <3>1. req[r].op = "report"
      BY <2>2 DEF CheckOwner, WriteReport, Is
    <3>2. NoneElse
      BY <1>2, <3>1, IdleOK
    <3>3. [req[r] EXCEPT !.at = "write"].op # "planning"
      BY <1>1, <3>1 DEF Request
    <3> HIDE DEF NoneElse
    <3> QED BY <1>5, <2>2, <3>2, <3>3 DEF CheckOwner, WriteReport, Go, EndRequest
  <2> QED BY <1>8, <2>1, <2>2 DEF ReportStep
<1>9. CASE Abandon(r)
  <2>1. NoneElse
    BY <1>2, <1>9 DEF Abandon
  <2> HIDE DEF NoneElse
  <2> QED BY <1>5, <1>9, <2>1 DEF Abandon, Go, EndRequest
<1> QED BY <1>6, <1>7, <1>8, <1>9

\* Steps of the other requests: without planning, two facts are left to check.
LEMMA OtherFrame ==
    ASSUME FleetInv, FleetOpenInv', \A q \in Requests : req'[q].op # "planning",
           PlannedRoutesHaveDrivers', RemovalsOK'
    PROVE  FleetInv'
<1>1. Exclusive' /\ PlansOK'
  BY DEF Exclusive, PlansOK
<1> QED BY <1>1 DEF FleetInv

\* What a step that leaves the routes' drivers alone keeps of the facts about
\* other requests; of r itself they are given.
LEMMA OtherRequests ==
    ASSUME FleetInv, FleetOpenInv', NEW r \in Requests,
           \A q \in Requests \ {r} : req'[q] = req[q],
           \A id \in RouteIds :
             /\ routes[id] # None => /\ routes'[id] # None
                                     /\ routes'[id].driver = routes[id].driver
             /\ routes'[id] # None /\ ~routes'[id].removed
                  => routes[id] # None /\ ~routes[id].removed,
           (Is(r, "delete", "removing") => RoutesOf(req[r].driver) \subseteq req[r].todo)'
    PROVE  /\ RemovalsOK'
           /\ \A d \in Drivers : RoutesOf(d)' \subseteq RoutesOf(d)
<1>1. \A d \in Drivers : RoutesOf(d)' \subseteq RoutesOf(d)
  BY DEF RoutesOf
<1>2. ASSUME NEW q \in Requests
      PROVE  (Is(q, "delete", "removing") => RoutesOf(req[q].driver) \subseteq req[q].todo)'
  <2>1. CASE q = r
    BY <2>1 DEF Is, RoutesOf
  <2>2. CASE q # r
    <3>1. req'[q] = req[q] /\ LocalOK(req[q])
      BY <2>2 DEF FleetInv, FleetOpenInv, FleetLocalsOK
    <3>2. Is(q, "delete", "removing") => RoutesOf(req[q].driver) \subseteq req[q].todo
      BY DEF FleetInv, RemovalsOK
    <3>3. Is(q, "delete", "removing") => req[q].driver \in Drivers
      BY <3>1 DEF LocalOK, Is
    <3>4. Is(q, "delete", "removing") => RoutesOf(req[q].driver)' \subseteq RoutesOf(req[q].driver)
      BY <3>1, <3>3 DEF RoutesOf
    <3> QED BY <3>1, <3>2, <3>3, <3>4 DEF Is, RoutesOf
  <2> QED BY <2>1, <2>2
<1> QED BY <1>1, <1>2 DEF RemovalsOK

LEMMA FleetFacts ==
    ASSUME FleetInv, NEW r \in Requests
    PROVE  /\ req \in [Requests -> Request] /\ req[r] \in Request /\ LocalOK(req[r])
           /\ drivers \in [Drivers -> DriverStatus \cup {None}]
           /\ routes \in [RouteIds -> Route \cup {None}]
           /\ PlannedRoutesHaveDrivers /\ FleetOpenInv
BY DEF FleetInv, FleetOpenInv, FleetTypeOK, FleetLocalsOK

LEMMA FleetEdit ==
    ASSUME Alone, FleetInv, NEW r \in Requests, EditStep(r)
    PROVE  FleetInv'
<1>1. FleetOpenInv'
  BY OpenEdit DEF FleetInv
<1>2. UNCHANGED routes
  BY DEF EditStep, StartProfile, StartEdit, GetForUpdate, WriteUpdate
<1>3. \A d \in Drivers : drivers[d] # None => drivers'[d] # None
  <2>1. CASE WriteUpdate(r)
    <3>1. req[r].status \in DriverStatus /\ req[r].status # None
      BY <2>1, FleetFacts, NoneAssumption DEF WriteUpdate, LocalOK
    <3> QED BY <2>1, <3>1, FleetFacts DEF WriteUpdate, SaveDriver
  <2>2. CASE UNCHANGED drivers
    BY <2>2
  <2> QED BY <2>1, <2>2 DEF EditStep, StartProfile, StartEdit, GetForUpdate
<1>4. PlannedRoutesHaveDrivers'
  BY <1>1, <1>2, <1>3, DriversKept, FleetFacts
<1>5. req'[r].op \notin {"delete", "report"}
  <2>1. ASSUME NEW d \in Drivers, StartProfile(r, d)
        PROVE  req'[r].op = "profile"
    BY <2>1, FleetFacts DEF StartProfile, Go, Idle
  <2>2. ASSUME NEW d \in Drivers, NEW s \in Edits, StartEdit(r, d, s)
        PROVE  req'[r].op = "edit"
    BY <2>2, FleetFacts DEF StartEdit, Go, Idle
  <2>3. ASSUME GetForUpdate(r)
        PROVE  req'[r].op \in {"none", "edit", "profile"}
    <3>1. req[r].op \in {"edit", "profile"}
      BY <2>3, FleetFacts DEF GetForUpdate, LocalOK
    <3>2. req'[r] = Idle \/ req'[r] = [req[r] EXCEPT !.at = "write"]
      BY <2>3, FleetFacts DEF GetForUpdate, Go, EndRequest
    <3>3. [req[r] EXCEPT !.at = "write"].op = req[r].op
      BY FleetFacts DEF Request
    <3> QED BY <3>1, <3>2, <3>3, IdleOK
  <2>4. ASSUME WriteUpdate(r)
        PROVE  req'[r].op = "none"
    BY <2>4, FleetFacts, IdleOK DEF WriteUpdate, Go, EndRequest
  <2> QED BY <2>1, <2>2, <2>3, <2>4 DEF EditStep
<1>6. RemovalsOK'
  <2>1. \A q \in Requests \ {r} : req'[q] = req[q]
    BY NoPlanning
  <2> QED BY <1>1, <1>2, <1>5, <2>1, OtherRequests DEF Is
<1>7. \A q \in Requests : req'[q].op # "planning"
  BY NoPlanning
<1> QED BY <1>1, <1>4, <1>6, <1>7, OtherFrame

LEMMA FleetDelete ==
    ASSUME Alone, FleetInv, NEW r \in Requests, DeleteStep(r)
    PROVE  FleetInv'
<1>1. FleetOpenInv'
  BY OpenDelete DEF FleetInv
<1>2. /\ \A q \in Requests : req'[q].op # "planning"
      /\ \A q \in Requests \ {r} : req'[q] = req[q]
  BY NoPlanning
<1> DEFINE Rest == RemovalsOK'
<1>3. ASSUME NEW d \in Drivers, StartDelete(r, d)
      PROVE  PlannedRoutesHaveDrivers' /\ Rest
  <2>1. /\ req'[r].op = "delete" /\ req'[r].at = "find"
        /\ UNCHANGED <<drivers, routes>>
    BY <1>3, FleetFacts DEF StartDelete, Go, Idle
  <2>2. PlannedRoutesHaveDrivers'
    BY <1>1, <2>1, DriversKept, FleetFacts
  <2> QED BY <1>1, <1>2, <2>1, <2>2, OtherRequests DEF Is
<1>4. ASSUME FindRoutes(r)
      PROVE  PlannedRoutesHaveDrivers' /\ Rest
  <2>1. /\ req'[r].op = "delete" /\ req'[r].driver = req[r].driver
        /\ req'[r].todo = RoutesOf(req[r].driver)
        /\ UNCHANGED <<drivers, routes>>
    BY <1>4, FleetFacts DEF FindRoutes, Is, Go, Request
  <2>2. PlannedRoutesHaveDrivers'
    BY <1>1, <2>1, DriversKept, FleetFacts
  <2>3. (RoutesOf(req[r].driver) \subseteq req[r].todo)'
    BY <2>1 DEF RoutesOf
  <2> QED BY <1>1, <1>2, <2>1, <2>2, <2>3, OtherRequests DEF Is
<1>5. ASSUME NEW id \in RouteIds, MarkRemoved(r, id)
      PROVE  PlannedRoutesHaveDrivers' /\ Rest
  <2>1. /\ req[r].op = "delete" /\ req[r].at = "removing" /\ req[r].driver \in Drivers
        /\ req'[r] = [req[r] EXCEPT !.todo = @ \ {id}]
        /\ routes' = IF id \in RoutesOf(req[r].driver)
                       THEN [routes EXCEPT ![id].removed = TRUE]
                       ELSE routes
        /\ UNCHANGED drivers
    BY <1>5, FleetFacts DEF MarkRemoved, Is, Go, LocalOK
  <2>2. /\ req'[r].op = "delete" /\ req'[r].driver = req[r].driver
        /\ req'[r].todo = req[r].todo \ {id}
    BY <2>1, FleetFacts DEF Request
  <2>3. ASSUME NEW i \in RouteIds
        PROVE  /\ routes[i] # None => /\ routes'[i] # None
                                      /\ routes'[i].driver = routes[i].driver
                                      /\ routes'[i].vehicle = routes[i].vehicle
               /\ routes'[i] # None /\ ~routes'[i].removed
                    => routes[i] # None /\ ~routes[i].removed
               /\ i = id /\ id \in RoutesOf(req[r].driver) => routes'[i].removed
    <3>1. CASE id \in RoutesOf(req[r].driver)
      <4>1. routes[id] \in Route
        BY <3>1, FleetFacts DEF RoutesOf
      <4>2. routes' = [routes EXCEPT ![id] = [routes[id] EXCEPT !.removed = TRUE]]
        BY <2>1, <3>1
      <4>3. /\ [routes[id] EXCEPT !.removed = TRUE] \in Route
            /\ [routes[id] EXCEPT !.removed = TRUE].driver = routes[id].driver
            /\ [routes[id] EXCEPT !.removed = TRUE].vehicle = routes[id].vehicle
            /\ [routes[id] EXCEPT !.removed = TRUE].removed
        BY <4>1 DEF Route
      <4> QED BY <4>2, <4>3, FleetFacts, NoneAssumption
    <3>2. CASE id \notin RoutesOf(req[r].driver)
      BY <2>1, <3>2
    <3> QED BY <3>1, <3>2
  <2>4. PlannedRoutesHaveDrivers'
    BY <2>1, <2>3, FleetFacts DEF PlannedRoutesHaveDrivers
  <2>5. (RoutesOf(req[r].driver) \subseteq req[r].todo)'
    <3>1. RoutesOf(req[r].driver) \subseteq req[r].todo
      BY <2>1 DEF FleetInv, RemovalsOK, Is
    <3> QED BY <2>1, <2>2, <2>3, <3>1 DEF RoutesOf
  <2> QED BY <1>1, <1>2, <2>2, <2>3, <2>4, <2>5, OtherRequests DEF Is
<1>6. ASSUME DeleteDriver(r)
      PROVE  PlannedRoutesHaveDrivers' /\ Rest
  <2>1. /\ req[r].op = "delete" /\ req[r].at = "removing" /\ req[r].driver \in Drivers
        /\ req[r].todo = {} /\ req'[r] = Idle /\ UNCHANGED routes
        /\ drivers' = [drivers EXCEPT ![req[r].driver] = None]
    BY <1>6, FleetFacts DEF DeleteDriver, SaveDriver, Is, EndRequest, Go, LocalOK
  <2>2. RoutesOf(req[r].driver) = {}
    BY <2>1 DEF FleetInv, RemovalsOK, Is
  <2>3. PlannedRoutesHaveDrivers'
    <3> SUFFICES ASSUME NEW id \in RouteIds, routes[id] # None, routes[id].vehicle # None,
                        ~routes[id].removed
                 PROVE  drivers'[routes[id].driver] # None
      BY <2>1 DEF PlannedRoutesHaveDrivers
    <3>1. routes[id].driver \in Drivers /\ drivers[routes[id].driver] # None
      BY FleetFacts DEF PlannedRoutesHaveDrivers, Route
    <3>2. routes[id].driver # req[r].driver
      BY <2>2 DEF RoutesOf
    <3> QED BY <2>1, <3>1, <3>2, FleetFacts
  <2> QED BY <1>1, <1>2, <2>1, <2>3, OtherRequests, IdleOK DEF Is
<1> HIDE DEF Rest
<1>7. PlannedRoutesHaveDrivers' /\ Rest
  BY <1>3, <1>4, <1>5, <1>6 DEF DeleteStep
<1> QED BY <1>1, <1>2, <1>7, OtherFrame DEF Rest

LEMMA FleetReport ==
    ASSUME Alone, FleetInv, NEW r \in Requests, ReportStep(r)
    PROVE  FleetInv'
<1>1. FleetOpenInv'
  BY OpenReport DEF FleetInv
<1>2. /\ \A q \in Requests : req'[q].op # "planning"
      /\ \A q \in Requests \ {r} : req'[q] = req[q]
  BY NoPlanning
<1> DEFINE Rest == RemovalsOK'
<1>3. ASSUME NEW d \in Drivers, NEW id \in RouteIds, NEW s \in Reports,
             StartReport(r, d, id, s)
      PROVE  PlannedRoutesHaveDrivers' /\ Rest
  <2>1. /\ req'[r].op = "report" /\ req'[r].at = "check"
        /\ UNCHANGED <<drivers, routes>>
    BY <1>3, FleetFacts DEF StartReport, Go, Idle
  <2>2. PlannedRoutesHaveDrivers'
    BY <1>1, <2>1, DriversKept, FleetFacts
  <2> QED BY <1>1, <1>2, <2>1, <2>2, OtherRequests DEF Is
<1>4. ASSUME CheckOwner(r)
      PROVE  PlannedRoutesHaveDrivers' /\ Rest
  <2>1. /\ UNCHANGED <<drivers, routes>>
        /\ req'[r] = Idle \/ req'[r] = [req[r] EXCEPT !.at = "write"]
    BY <1>4, FleetFacts DEF CheckOwner, Go, EndRequest
  <2>2. req'[r].op # "delete"
    BY <1>4, <2>1, FleetFacts, IdleOK DEF CheckOwner, Is, Request
  <2>3. PlannedRoutesHaveDrivers'
    BY <1>1, <2>1, DriversKept, FleetFacts
  <2> QED BY <1>1, <1>2, <2>1, <2>2, <2>3, OtherRequests DEF Is
<1>5. ASSUME WriteReport(r)
      PROVE  PlannedRoutesHaveDrivers' /\ Rest
  <2> DEFINE id == req[r].route
  <2>1. /\ req'[r] = Idle /\ UNCHANGED drivers /\ id \in RouteIds
        /\ req[r].status \in RouteStatus
        /\ SetRouteStatus(id, req[r].status)
    BY <1>5, FleetFacts DEF WriteReport, Is, EndRequest, Go, LocalOK
  <2>2. CASE routes[id] = None
    <3>1. UNCHANGED routes
      BY <2>1, <2>2, FleetFacts DEF SetRouteStatus
    <3>2. PlannedRoutesHaveDrivers'
      BY <1>1, <2>1, <3>1, DriversKept, FleetFacts
    <3> QED BY <1>1, <1>2, <2>1, <3>1, <3>2, OtherRequests, IdleOK DEF Is
  <2>3. CASE routes[id] # None
    <3>1. routes[id] \in Route
      BY <2>1, <2>3, FleetFacts
    <3>2. /\ [routes[id] EXCEPT !.status = req[r].status] # None
          /\ [routes[id] EXCEPT !.status = req[r].status].driver = routes[id].driver
          /\ [routes[id] EXCEPT !.status = req[r].status].vehicle = routes[id].vehicle
          /\ [routes[id] EXCEPT !.status = req[r].status].removed = routes[id].removed
      <4>1. [routes[id] EXCEPT !.status = req[r].status] \in Route
        BY <2>1, <3>1 DEF Route
      <4> QED BY <3>1, <4>1, NoneAssumption DEF Route
    <3>3. routes' = [routes EXCEPT ![id] = [routes[id] EXCEPT !.status = req[r].status]]
      BY <2>1, <2>3 DEF SetRouteStatus
    <3> HIDE DEF id
    <3>4. ASSUME NEW i \in RouteIds
          PROVE  /\ routes'[i] # None <=> routes[i] # None
                 /\ routes'[i].driver = routes[i].driver
                 /\ routes'[i].vehicle = routes[i].vehicle
                 /\ routes'[i].removed = routes[i].removed
      BY <2>1, <2>3, <3>2, <3>3, FleetFacts
    <3>5. PlannedRoutesHaveDrivers'
      BY <2>1, <3>4, FleetFacts DEF PlannedRoutesHaveDrivers
    <3> QED BY <1>1, <1>2, <2>1, <3>4, <3>5, OtherRequests, IdleOK DEF Is
  <2> QED BY <2>2, <2>3
<1> HIDE DEF Rest
<1>6. PlannedRoutesHaveDrivers' /\ Rest
  BY <1>3, <1>4, <1>5 DEF ReportStep
<1> QED BY <1>1, <1>2, <1>6, OtherFrame DEF Rest

LEMMA FleetInvNext == ASSUME Alone, FleetInv, [FleetNext]_fleetVars PROVE FleetInv'
<1>1. FleetOpenInv'
  BY OpenNext DEF FleetInv
<1>2. ASSUME NEW r \in Requests, Abandon(r)
      PROVE  FleetInv'
  <2>1. /\ \A q \in Requests : req'[q].op # "planning"
        /\ \A q \in Requests \ {r} : req'[q] = req[q]
    BY <1>2, NoPlanning
  <2>2. req'[r] = Idle /\ UNCHANGED <<drivers, routes>>
    BY <1>2, FleetFacts DEF Abandon, EndRequest, Go
  <2>3. PlannedRoutesHaveDrivers'
    BY <1>1, <1>2, <2>2, DriversKept, FleetFacts
  <2>4. RemovalsOK'
    BY <1>1, <1>2, <2>1, <2>2, OtherRequests, IdleOK DEF Is
  <2> QED BY <1>1, <2>1, <2>3, <2>4, OtherFrame
<1>3. ASSUME NEW id \in RouteIds, NEW d \in Drivers, NEW s \in Reports,
             CreateRoute(id, d, s)
      PROVE  FleetInv'
  <2>1. /\ \A q \in Requests : req[q] = Idle
        /\ routes' = [routes EXCEPT ![id] = NewRoute(d, s, None)]
        /\ UNCHANGED <<drivers, req>>
    BY <1>3 DEF CreateRoute, MayStartAlone
  <2>2. PlannedRoutesHaveDrivers'
    <3> SUFFICES ASSUME NEW i \in RouteIds, routes'[i] # None, routes'[i].vehicle # None,
                        ~routes'[i].removed
                 PROVE  drivers[routes'[i].driver] # None
      BY <2>1 DEF PlannedRoutesHaveDrivers
    <3>1. routes \in [RouteIds -> Route \cup {None}] /\ PlannedRoutesHaveDrivers
      BY DEF FleetInv, FleetOpenInv, FleetTypeOK
    <3>2. i # id
      BY <2>1, <3>1 DEF NewRoute
    <3> QED BY <2>1, <3>1, <3>2 DEF PlannedRoutesHaveDrivers
  <2>3. Exclusive' /\ RemovalsOK' /\ PlansOK'
    BY <2>1, IdleOK DEF Exclusive, RemovalsOK, PlansOK, Is
  <2> QED BY <1>1, <2>2, <2>3 DEF FleetInv
<1>4. ASSUME NEW d \in Drivers, NEW s \in Edits, CreateDriver(d, s)
      PROVE  FleetInv'
  <2>1. /\ \A q \in Requests : req[q].op # "planning"
        /\ drivers' = [drivers EXCEPT ![d] = s]
        /\ UNCHANGED <<routes, req>>
    BY <1>4 DEF CreateDriver, SaveDriver, MayStart
  <2>2. /\ drivers \in [Drivers -> DriverStatus \cup {None}] /\ s # None
        /\ FleetOpenInv /\ PlannedRoutesHaveDrivers
    BY PayloadAssumption, NoneAssumption DEF FleetInv, FleetOpenInv, FleetTypeOK
  <2>3. PlannedRoutesHaveDrivers'
    BY <1>1, <2>1, <2>2, DriversKept
  <2>4. Exclusive' /\ RemovalsOK' /\ PlansOK'
    BY <2>1 DEF FleetInv, Exclusive, RemovalsOK, RoutesOf, PlansOK, Is
  <2> QED BY <1>1, <2>3, <2>4 DEF FleetInv
<1>5. CASE UNCHANGED fleetVars
  <2>1. UNCHANGED <<drivers, routes, req>>
    BY <1>5 DEF fleetVars
  <2>2. Exclusive' /\ RemovalsOK' /\ PlannedRoutesHaveDrivers'
    BY <2>1 DEF FleetInv, Exclusive, RemovalsOK, RoutesOf, PlannedRoutesHaveDrivers,
                Is
  <2>3. PlansOK'
    BY <2>1 DEF FleetInv, PlansOK, PlanOK, PlanHolds, Marked, Stored
  <2> QED BY <1>1, <2>2, <2>3 DEF FleetInv
<1> QED
  BY <1>2, <1>3, <1>4, <1>5, FleetPlanning, FleetEdit, FleetDelete, FleetReport
     DEF FleetNext, Create

\* Requests that save whole routes running alone, the inductive invariant holds.
THEOREM FleetInvariant == ASSUME Alone PROVE FleetSpec => []FleetInv
<1>1. FleetInit => FleetInv
  <2> SUFFICES ASSUME FleetInit
               PROVE  FleetInv
    OBVIOUS
  <2>1. FleetOpenInv
    BY OpenInit
  <2>2. (\A r \in Requests : req[r] = Idle) /\ (\A id \in RouteIds : routes[id] = None)
    BY DEF FleetInit
  <2> QED
    BY <2>1, <2>2, IdleOK DEF FleetInv, Exclusive, RemovalsOK, PlansOK, Is,
                              PlannedRoutesHaveDrivers
<1>2. FleetInv /\ [FleetNext]_fleetVars => FleetInv'
  BY FleetInvNext
<1> QED BY <1>1, <1>2, PTL DEF FleetSpec

\* Every planned route not marked removed has its driver, wherever requests have
\* been stopped (routes.py:431-444, service.py:61-80).
THEOREM RoutesHaveDrivers == ASSUME Alone PROVE FleetSpec => []PlannedRoutesHaveDrivers
<1>1. FleetInv => PlannedRoutesHaveDrivers
  BY DEF FleetInv
<1> QED BY <1>1, FleetInvariant, PTL

=============================================================================
