--------------------------- MODULE DailyPlanning ---------------------------
(***************************************************************************)
(* Drivers, operational routes and the daily planning that ties them:      *)
(* DailyPlanningService (planning/service.py), DriverService               *)
(* (drivers/service.py), OperationalRouteService (operations/service.py)   *)
(* and the handlers of api/routes.py that call them, over two MongoDB      *)
(* collections. No call spans both and nothing is locked: a request is a   *)
(* sequence of single-document calls, and what it read stays in its        *)
(* locals. One action is one call.                                         *)
(*                                                                         *)
(* A driver document is its status: names, regions, shifts and passwords   *)
(* play no part, and a vehicle is named by the driver whose record carries *)
(* it. The order list_drivers returns (latest update first) is left open.  *)
(***************************************************************************)
EXTENDS Integers, Sequences, FiniteSets

CONSTANTS
    Drivers,    \* driver ids
    Demo,       \* DEMO_DRIVER_IDS
    Prefixes,   \* the route_prefix of planning requests
    Requests,   \* threads of the API and worker processes that serve requests
    Edits,      \* the statuses administrators give drivers
    Reports,    \* the statuses routes are created with or drivers report
    None,       \* no document, no value
    Alone       \* requests that save whole routes run with no other in flight

ASSUME DriversAssumption == IsFiniteSet(Drivers) /\ Drivers # {}
ASSUME DemoAssumption == Demo \subseteq Drivers
ASSUME AloneAssumption == Alone \in BOOLEAN

DriverStatus == {"available", "on_route", "off_duty", "inactive"}
RouteStatus == {"assigned", "in_progress", "completed", "cancelled"}

ASSUME PayloadAssumption == Edits \subseteq DriverStatus /\ Reports \subseteq RouteStatus

\* route_id = f"{prefix}-{index:03d}"
RouteIds == Prefixes \X (1..Cardinality(Drivers))

\* removed: the driver id reads "removed:<driver>". vehicle is the metadata's
\* solver_vehicle_id, which only daily planning sets.
Route == [driver : Drivers, removed : BOOLEAN, status : RouteStatus,
          vehicle : Drivers \cup {None}]

ASSUME NoneAssumption == None \notin DriverStatus \cup RouteStatus \cup Route
                                     \cup Drivers \cup RouteIds

NewRoute(d, s, v) == [driver |-> d, removed |-> FALSE, status |-> s, vehicle |-> v]

VARIABLES
    drivers,   \* drivers[d]: the status of driver d, or None
    routes,    \* routes[id]: the operational route with this id, or None
    req        \* req[r]: the request on thread r, its next call and its locals

fleetVars == <<drivers, routes, req>>

-----------------------------------------------------------------------------
(* A request: at is its next call; driver, status and route are what it    *)
(* was asked or has read; todo is what a loop of it still has to visit;    *)
(* plan pairs each route of the solver's plan with a driver.               *)

Op == {"none", "planning", "edit", "profile", "delete", "report"}
At == {"none", "release", "seed", "list", "save", "mark", "respond",
       "get", "write", "find", "removing", "check"}
Pair == [driver : Drivers, vehicle : Drivers]

Request == [op : Op, at : At, driver : Drivers \cup {None},
            status : DriverStatus \cup RouteStatus \cup {None},
            route : RouteIds \cup {None},
            todo : SUBSET (Drivers \cup RouteIds), plan : Seq(Pair)]

Idle == [op |-> "none", at |-> "none", driver |-> None, status |-> None,
         route |-> None, todo |-> {}, plan |-> <<>>]

FleetTypeOK ==
    /\ drivers \in [Drivers -> DriverStatus \cup {None}]
    /\ routes \in [RouteIds -> Route \cup {None}]
    /\ req \in [Requests -> Request]

\* The service may come up on any roster.
FleetInit ==
    /\ drivers \in [Drivers -> {None, "available"}]
    /\ routes = [id \in RouteIds |-> None]
    /\ req = [r \in Requests |-> Idle]

Is(r, op, at) == req[r].op = op /\ req[r].at = at
Go(r, to) == req' = [req EXCEPT ![r] = to]
EndRequest(r) == Go(r, Idle)

\* What Alone assumes of the clients; nothing in the code sees to it.
MayStart == Alone => \A q \in Requests : req[q].op # "planning"
MayStartAlone == Alone => \A q \in Requests : req[q] = Idle

-----------------------------------------------------------------------------
(* Calls on the two collections.                                           *)

\* update_status: find_one_and_update without upsert, nothing if there is none.
SetDriverStatus(d, s) ==
    drivers' = [drivers EXCEPT ![d] = IF @ = None THEN None ELSE s]

\* save_driver: replace_one(upsert=True); delete_driver is a save of None.
SaveDriver(d, s) == drivers' = [drivers EXCEPT ![d] = s]

\* update_status of a route, as that of a driver.
SetRouteStatus(id, s) ==
    routes' = [routes EXCEPT ![id] = IF @ = None THEN None ELSE [@ EXCEPT !.status = s]]

\* The plan has a route for the vehicles the solver uses, in the order of the
\* drivers; the i-th route goes to the i-th driver of the list.
Pairing(order, pick) ==
    [i \in DOMAIN pick |-> [driver |-> order[i], vehicle |-> order[pick[i]]]]

Orders(S) == {f \in [1..Cardinality(S) -> S] : \A i, j \in DOMAIN f : f[i] = f[j] => i = j}

\* The vehicles a plan uses, as increasing positions in the list; _extract_plan
\* leaves out the vehicles that stay at the depot.
Picks(n) == UNION {{f \in [1..m -> 1..n] : \A i, j \in 1..m : i < j => f[i] < f[j]} : m \in 0..n}

-----------------------------------------------------------------------------
(* run_daily_planning.                                                     *)

Planning(p) == [Idle EXCEPT !.op = "planning", !.at = "list", !.route = <<p, 1>>]

\* Mutant: every demo driver not available is released, not only those on_route.
MutOnDemoRoute == {d \in Demo : drivers[d] \notin {None, "available"}}

OnDemoRoute == {d \in Demo : drivers[d] = "on_route"}

StartPlanning(r, p) ==
    /\ req[r] = Idle
    /\ MayStartAlone
    /\ Go(r, Planning(p))
    /\ UNCHANGED <<drivers, routes>>

\* include_demo_drivers: release_demo_drivers_for_planning lists the drivers and
\* frees those of the demo fleet that were on a route in that list.
StartDemoPlanning(r, p) ==
    /\ req[r] = Idle
    /\ MayStartAlone
    /\ Go(r, [Planning(p) EXCEPT !.at = "release", !.todo = OnDemoRoute])
    /\ UNCHANGED <<drivers, routes>>

Release(r, d) ==
    /\ Is(r, "planning", "release")
    /\ d \in req[r].todo
    /\ SetDriverStatus(d, "available")
    /\ Go(r, [req[r] EXCEPT !.todo = @ \ {d}])
    /\ UNCHANGED routes

\* ensure_demo_drivers: an empty collection is filled with the demo drivers.
Ensure(r) ==
    /\ Is(r, "planning", "release")
    /\ req[r].todo = {}
    /\ IF \A d \in Drivers : drivers[d] = None
         THEN Go(r, [req[r] EXCEPT !.at = "seed", !.todo = Demo])
         ELSE Go(r, [req[r] EXCEPT !.at = "list"])
    /\ UNCHANGED <<drivers, routes>>

Seed(r, d) ==
    /\ Is(r, "planning", "seed")
    /\ d \in req[r].todo
    /\ SaveDriver(d, "available")
    /\ Go(r, [req[r] EXCEPT !.todo = @ \ {d}])
    /\ UNCHANGED routes

ReadyToList(r) ==
    \/ Is(r, "planning", "list")
    \/ Is(r, "planning", "seed") /\ req[r].todo = {}

Available == {d \in Drivers : drivers[d] = "available"}

\* The list the plan is made from, and the solver run on it, which touches no
\* shared state: from here on the statuses it read are not looked at again.
ListAndSolve(r) ==
    /\ ReadyToList(r)
    /\ Available # {}
    /\ \E order \in Orders(Available) : \E pick \in Picks(Cardinality(Available)) :
         Go(r, [req[r] EXCEPT !.plan = Pairing(order, pick),
                              !.at = IF pick = <<>> THEN "respond" ELSE "save"])
    /\ UNCHANGED <<drivers, routes>>

\* "No available drivers for planning.", or the solver finds no plan.
NoPlan(r) ==
    /\ ReadyToList(r)
    /\ EndRequest(r)
    /\ UNCHANGED <<drivers, routes>>

Current(r) == req[r].plan[req[r].route[2]]

\* create_route_from_plan: a whole-document upsert under the next id.
SaveRoute(r) ==
    /\ Is(r, "planning", "save")
    /\ routes' = [routes EXCEPT ![req[r].route] =
                    NewRoute(Current(r).driver, "assigned", Current(r).vehicle)]
    /\ Go(r, [req[r] EXCEPT !.at = "mark"])
    /\ UNCHANGED drivers

\* Where the loop goes after route i of n.
AfterMark(r) ==
    LET p == req[r].route[1]
        i == req[r].route[2]
    IN  IF i < Len(req[r].plan)
          THEN [req[r] EXCEPT !.at = "save", !.route = <<p, i + 1>>]
          ELSE [req[r] EXCEPT !.at = "respond"]

\* Mutant: the driver of the vehicle is marked, not the driver of the route.
MutMarkOnRoute(r) ==
    /\ Is(r, "planning", "mark")
    /\ SetDriverStatus(Current(r).vehicle, "on_route")
    /\ Go(r, AfterMark(r))
    /\ UNCHANGED routes

MarkOnRoute(r) ==
    /\ Is(r, "planning", "mark")
    /\ SetDriverStatus(Current(r).driver, "on_route")
    /\ Go(r, AfterMark(r))
    /\ UNCHANGED routes

Respond(r) ==
    /\ Is(r, "planning", "respond")
    /\ EndRequest(r)
    /\ UNCHANGED <<drivers, routes>>

-----------------------------------------------------------------------------
(* Administrators and drivers.                                             *)

\* POST /v1/operational-routes: create_route reads nothing of either collection,
\* not even whether the driver exists.
CreateRoute(id, d, s) ==
    /\ MayStartAlone
    /\ routes' = [routes EXCEPT ![id] = NewRoute(d, s, None)]
    /\ UNCHANGED <<drivers, req>>

\* POST /v1/drivers: of the existing document only created_at is kept.
CreateDriver(d, s) ==
    /\ MayStart
    /\ SaveDriver(d, s)
    /\ UNCHANGED <<routes, req>>

\* PUT /v1/drivers/{id}: the status is the payload's.
StartEdit(r, d, s) ==
    /\ req[r] = Idle
    /\ MayStart
    /\ Go(r, [Idle EXCEPT !.op = "edit", !.at = "get", !.driver = d, !.status = s])
    /\ UNCHANGED <<drivers, routes>>

\* PUT /v1/driver-portal/profile, and a login that hashes a legacy password: the
\* driver is authenticated, and the status it had then is passed to update_driver.
StartProfile(r, d) ==
    /\ req[r] = Idle
    /\ MayStart
    /\ drivers[d] # None
    /\ Go(r, [Idle EXCEPT !.op = "profile", !.at = "get", !.driver = d,
                          !.status = drivers[d]])
    /\ UNCHANGED <<drivers, routes>>

\* update_driver reads the document again: "Driver not found." if it is gone.
GetForUpdate(r) ==
    /\ req[r].at = "get"
    /\ IF drivers[req[r].driver] = None
         THEN EndRequest(r)
         ELSE Go(r, [req[r] EXCEPT !.at = "write"])
    /\ UNCHANGED <<drivers, routes>>

WriteUpdate(r) ==
    /\ req[r].op \in {"edit", "profile"}
    /\ req[r].at = "write"
    /\ SaveDriver(req[r].driver, req[r].status)
    /\ EndRequest(r)
    /\ UNCHANGED routes

\* DELETE /v1/drivers/{id}: 404 unless get_driver finds it.
StartDelete(r, d) ==
    /\ req[r] = Idle
    /\ MayStart
    /\ drivers[d] # None
    /\ Go(r, [Idle EXCEPT !.op = "delete", !.at = "find", !.driver = d])
    /\ UNCHANGED <<drivers, routes>>

\* The routes mark_driver_removed would change now.
RoutesOf(d) == {id \in RouteIds : routes[id] # None /\ routes[id].driver = d
                                    /\ ~routes[id].removed}

\* Mutant: only routes not yet under way are looked for.
MutFindRoutes(r) ==
    /\ Is(r, "delete", "find")
    /\ Go(r, [req[r] EXCEPT !.at = "removing",
                !.todo = {id \in RoutesOf(req[r].driver) : routes[id].status = "assigned"}])
    /\ UNCHANGED <<drivers, routes>>

\* update_many is atomic for each document, not for all: it finds them first.
FindRoutes(r) ==
    /\ Is(r, "delete", "find")
    /\ Go(r, [req[r] EXCEPT !.at = "removing", !.todo = RoutesOf(req[r].driver)])
    /\ UNCHANGED <<drivers, routes>>

MarkRemoved(r, id) ==
    /\ Is(r, "delete", "removing")
    /\ id \in req[r].todo
    /\ routes' = IF id \in RoutesOf(req[r].driver)
                   THEN [routes EXCEPT ![id].removed = TRUE]
                   ELSE routes
    /\ Go(r, [req[r] EXCEPT !.todo = @ \ {id}])
    /\ UNCHANGED drivers

\* Mutant: the driver goes first, its routes are marked afterwards.
MutDeleteDriver(r) ==
    /\ Is(r, "delete", "removing")
    /\ SaveDriver(req[r].driver, None)
    /\ IF req[r].todo = {} THEN EndRequest(r) ELSE UNCHANGED req
    /\ UNCHANGED routes

DeleteDriver(r) ==
    /\ Is(r, "delete", "removing")
    /\ req[r].todo = {}
    /\ SaveDriver(req[r].driver, None)
    /\ EndRequest(r)
    /\ UNCHANGED routes

\* POST /v1/driver-portal/routes/{id}/status: the driver is authenticated, the
\* route read and its owner checked, then the status is set by id.
StartReport(r, d, id, s) ==
    /\ req[r] = Idle
    /\ MayStart
    /\ drivers[d] # None
    /\ Go(r, [Idle EXCEPT !.op = "report", !.at = "check", !.driver = d,
                          !.route = id, !.status = s])
    /\ UNCHANGED <<drivers, routes>>

CheckOwner(r) ==
    /\ Is(r, "report", "check")
    /\ IF req[r].route \in RoutesOf(req[r].driver)
         THEN Go(r, [req[r] EXCEPT !.at = "write"])
         ELSE EndRequest(r)
    /\ UNCHANGED <<drivers, routes>>

WriteReport(r) ==
    /\ Is(r, "report", "write")
    /\ SetRouteStatus(req[r].route, req[r].status)
    /\ EndRequest(r)
    /\ UNCHANGED drivers

\* The process is stopped, or a call raises, between any two calls.
Abandon(r) ==
    /\ req[r] # Idle
    /\ EndRequest(r)
    /\ UNCHANGED <<drivers, routes>>

-----------------------------------------------------------------------------
PlanningStep(r) ==
    \/ \E p \in Prefixes : StartPlanning(r, p) \/ StartDemoPlanning(r, p)
    \/ \E d \in Drivers : Release(r, d) \/ Seed(r, d)
    \/ Ensure(r) \/ ListAndSolve(r) \/ NoPlan(r)
    \/ SaveRoute(r) \/ MarkOnRoute(r) \/ Respond(r)

EditStep(r) ==
    \/ \E d \in Drivers : StartProfile(r, d) \/ \E s \in Edits : StartEdit(r, d, s)
    \/ GetForUpdate(r) \/ WriteUpdate(r)

DeleteStep(r) ==
    \/ \E d \in Drivers : StartDelete(r, d)
    \/ FindRoutes(r) \/ DeleteDriver(r)
    \/ \E id \in RouteIds : MarkRemoved(r, id)

ReportStep(r) ==
    \/ \E d \in Drivers, id \in RouteIds, s \in Reports : StartReport(r, d, id, s)
    \/ CheckOwner(r) \/ WriteReport(r)

Create ==
    \/ \E id \in RouteIds, d \in Drivers, s \in Reports : CreateRoute(id, d, s)
    \/ \E d \in Drivers, s \in Edits : CreateDriver(d, s)

FleetNext ==
    \/ \E r \in Requests :
         PlanningStep(r) \/ EditStep(r) \/ DeleteStep(r) \/ ReportStep(r) \/ Abandon(r)
    \/ Create

FleetSpec == FleetInit /\ [][FleetNext]_fleetVars

-----------------------------------------------------------------------------
(* What must hold while Alone does.                                        *)

\* FRONTEND_UX.md:104 "When a driver is deleted, existing routes are retained for
\* auditability and marked with a removed-driver reference": a planned route not
\* so marked has its driver, wherever deletions and plannings have stopped.
PlannedRoutesHaveDrivers ==
    \A id \in RouteIds :
        routes[id] # None /\ routes[id].vehicle # None /\ ~routes[id].removed
            => drivers[routes[id].driver] # None

\* When run_daily_planning answers, every route of the plan is stored under its
\* id for a driver of its own, and each of these drivers is on_route.
RunDelivers ==
    \A r \in Requests : Is(r, "planning", "respond") =>
        \A i \in 1..Len(req[r].plan) :
            LET route == routes[<<req[r].route[1], i>>] IN
            /\ route = NewRoute(req[r].plan[i].driver, "assigned", req[r].plan[i].vehicle)
            /\ drivers[route.driver] = "on_route"
            /\ \A j \in 1..(i - 1) : route.driver # req[r].plan[j].driver

\* Planning, releasing the demo fleet included, leaves a driver who is not at
\* work alone.
PlanningRespectsDuty ==
    [][\A r \in Requests : req[r].op = "planning" /\ req'[r] # req[r] =>
         \A d \in Drivers :
            drivers[d] \in {"off_duty", "inactive"} => drivers'[d] = drivers[d]]_fleetVars

-----------------------------------------------------------------------------
(* What the documentation promises and the code does not keep.             *)

\* FRONTEND_UX.md:102 "generated route records are associated to
\* drivers/vehicles": a route was computed for the vehicle of its driver.
RouteFitsVehicle ==
    \A id \in RouteIds :
        routes[id] # None /\ routes[id].vehicle # None
            => routes[id].vehicle = routes[id].driver

\* API_REFERENCE.md:237 "Existing routes assigned to that driver are retained but
\* marked with a removed-driver reference.": a deletion leaves no other.
DeletionMarksRoutes ==
    [][\A d \in Drivers : drivers[d] # None /\ drivers'[d] = None => RoutesOf(d)' = {}]_fleetVars

\* API_REFERENCE.md:277 "Update authenticated driver's password and capacity.":
\* saving a profile does not change the driver's status.
ProfileKeepsStatus ==
    [][\A r \in Requests :
         Is(r, "profile", "write") /\ WriteUpdate(r) => drivers' = drivers]_fleetVars

-----------------------------------------------------------------------------
(* Inductive invariants.                                                   *)

PlanningAt == {"release", "seed", "list", "save", "mark", "respond"}

\* What a request holds is what its next calls use.
LocalOK(q) ==
    /\ q.op = "none" => q = Idle
    /\ q.at = "get" => q.op \in {"edit", "profile"}
    /\ q.op \in {"edit", "profile"} =>
         /\ q.at \in {"get", "write"}
         /\ q.driver \in Drivers /\ q.status \in DriverStatus
    /\ q.op = "delete" =>
         /\ q.at \in {"find", "removing"}
         /\ q.driver \in Drivers /\ q.todo \subseteq RouteIds
    /\ q.op = "report" =>
         /\ q.at \in {"check", "write"}
         /\ q.driver \in Drivers /\ q.route \in RouteIds /\ q.status \in RouteStatus
    /\ q.op = "planning" =>
         /\ q.at \in PlanningAt
         /\ q.route \in RouteIds
         /\ Len(q.plan) <= Cardinality(Drivers)
         /\ q.at \in {"release", "seed"} => q.todo \subseteq Drivers
         /\ q.at \in {"release", "seed", "list"} => q.route[2] = 1
         /\ q.at \in {"save", "mark"} => q.route[2] <= Len(q.plan)

FleetLocalsOK == \A r \in Requests : LocalOK(req[r])

\* Holds whatever the clients do.
FleetOpenInv == FleetTypeOK /\ FleetLocalsOK

\* Planning is alone while it lasts.
Exclusive ==
    \A r, q \in Requests : req[r].op = "planning" /\ q # r => req[q] = Idle

\* No route is assigned to a driver whose routes have been found for removal.
RemovalsOK ==
    \A r \in Requests :
        Is(r, "delete", "removing") => RoutesOf(req[r].driver) \subseteq req[r].todo

\* The routes saved whose driver has been marked.
Marked(r) == IF req[r].at = "respond" THEN Len(req[r].plan) ELSE req[r].route[2] - 1

Stored(r, i) ==
    routes[<<req[r].route[1], i>>] =
        NewRoute(req[r].plan[i].driver, "assigned", req[r].plan[i].vehicle)

\* The drivers of the plan are distinct; those before the loop's position have
\* their route and are on_route, those after it are as they were listed.
PlanHolds(r) ==
    /\ \A i, j \in 1..Len(req[r].plan) :
         req[r].plan[i].driver = req[r].plan[j].driver => i = j
    /\ \A i \in 1..Len(req[r].plan) :
         IF i <= Marked(r)
           THEN Stored(r, i) /\ drivers[req[r].plan[i].driver] = "on_route"
           ELSE drivers[req[r].plan[i].driver] = "available"
    /\ req[r].at = "mark" => Stored(r, req[r].route[2])

PlanOK(r) ==
    /\ req[r].at = "release" => \A d \in req[r].todo : drivers[d] = "on_route"
    /\ req[r].at = "seed" => \A d \in req[r].todo : drivers[d] = None
    /\ req[r].at \in {"save", "mark", "respond"} => PlanHolds(r)

PlansOK == \A r \in Requests : req[r].op = "planning" => PlanOK(r)

\* Holds when Alone does.
FleetInv ==
    /\ FleetOpenInv
    /\ Exclusive /\ RemovalsOK /\ PlansOK
    /\ PlannedRoutesHaveDrivers

=============================================================================
