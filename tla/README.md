# AdaptiveRoute in TLA+

Specifications, model checking and proofs for AdaptiveRoute, the route-planning
service under `src/`. Paths below are relative to the repository; Python files
are under `src/adaptiveroute/` unless the path says otherwise.

The service plans the day's delivery routes for a fleet, publishes them to
drivers, and replans a route when an event comes in, with a language model
proposing a plan and a solver standing by. It runs as one API process (uvicorn
with one worker, `Dockerfile:25`) whose request handlers run on a thread pool,
plus one operating system process per planning job. What they share is MongoDB.
Most writes are a whole-document `replace_one(upsert=True)` of a record built from
an earlier read, the others set a status by id, and there is no lock, version
number or transaction anywhere.
Most of what can go wrong follows from that.

## 1. Inventory

| component | state | operations | what is hard |
|---|---|---|---|
| Planning jobs (`planning/jobs.py`, `planning/worker.py`) | one document per job; a worker process per job; copies held by handlers | create, get, list, cancel, delete, reconcile; the worker's progress updates and outcome | API threads, worker and kernel race on one document; crashes, restarts, zombies, pid reuse, signals |
| Daily planning (`planning/service.py`) | none of its own: drivers and routes | release drivers, ensure fleet, list available, solve, publish one route per driver and mark it on route | multi-step publication with no transaction, concurrent runs, cancellation by SIGTERM between two steps |
| Drivers (`drivers/`) | driver documents | create, update, delete, mark_on_route, release, ensure fleet | lost updates between a profile edit and a planning run |
| Operational routes (`operations/`) | route documents: driver, plan, scenario, status | publish, update status, update current plan, driver removed | route ids are reused by later runs; check-then-act on the owner and on the vehicle |
| HTTP API (`api/`) | none | the endpoints; removing a driver and the driver portal are multi-step | the steps of two requests interleave |
| Agentic workflow (`agentic/graph.py`, `agents.py`, `routing.py`, `service.py`) | the workflow state of one run | extract, solve, mutate, propose, validate, repair, fall back, respond | every branch must end validated or failed, whatever models and engine answer |
| Candidate generation (`agentic/candidates.py`) | the attempt counter, the last plan drafted | reuse, ask, parse, validate, retry with feedback | bounded retries; which attempt's plan is handed over |
| Validation, repair, mutation (`services/validation.py`, `agentic/repair.py`, `services/mutations.py`) | none | pure functions over scenarios and plans | duplicates, unknown customers, capacities, blocked edges |
| Event extraction (`services/event_extraction.py`) | none | text to event, by rules or a language model with rules to fall back on | several lists of keywords match one text; nodes missing or unknown |
| Solver (`solvers/`) | none | build an integer program, read a plan from its solution | subtours, unused vehicles, capacities |
| Conversations and context (`memory/`) | conversations, messages, runs, one context window per conversation | replan in a conversation, create, append, delete, rebuild the window | read-modify-write of the window, deletion during a run, a stale plan written back to a route |
| RAG (`rag/`) | documents, chunks, embeddings | chunk, ingest, search | termination and coverage of the chunker; concurrent or failing ingestions |
| Dataset building (`scripts/build_sft_dataset*.py`) | chunk files, splits and a resume point, per shard | generate ranges, retry smaller, skip, resume, merge shards | resuming after a crash; shards kept apart by a stride |
| Web console (`frontend/src/main.jsx`) | lists, the selected conversation and route, what is shown of them | follow planning jobs; chat: select, restore, send, delete | answers in any order; decisions by values of an older render |
| Scenarios, reports, tracing, LLM client, maps, orders, security | scenarios by id | upserts, read-only computations, external calls | nothing concurrent of their own |

Who calls whom: the console calls the API; `POST /v1/planning/jobs` saves a job
and starts `python -m adaptiveroute.planning.worker <job id>`; the worker calls
`run_daily_planning`, which reads drivers, solves, and writes routes and driver
states; the driver portal and the admin endpoints write the same two
collections; replanning in a conversation reads the route it is about and its
scenario, runs the agentic workflow and writes the resulting plan and scenario
to the route. The console polls the jobs every 2.5 s while it shows a running one,
which is also what drives their reconciliation.

What makes each component correct:

* Planning jobs: a job that reads *cancelled* has no worker behind it; a running
  job can be reached by its pid; a job blamed on a lost worker has lost it; a
  completed job has published its routes; a job that ended stays ended; a job
  ends.
* Daily planning, drivers, routes: a driver with work is not offered again; a
  route names an existing driver or says that its driver was removed; a route
  fits the vehicle it is given to.
* Agentic workflow: success means that the final plan is feasible in the scenario
  after the event; a failure is explained, and reported only after everything
  was tried; what the user is told is so; a run ends.
* Validation, repair, solver: a validated plan is feasible; a repair invents
  nothing; the integer program has the feasible plans as its solutions.
* Conversations: the window holds what the messages and runs say; what is shown
  can be audited; nothing is left of what was deleted; a route gets validated
  plans only, each of them one event further on, and is never set back to an older one.
* Chunker, ingestion, dataset builder: they end, lose nothing, and are not taken
  apart by a crash or by another request.
* Console: it comes to show what is so, and of one thing at a time.

`PROJECT.json` lists each hazard at its line, with the properties that cover it.

## 2. Plan

In order of importance; all of it is done:

1. `PlanningJobs`, `JobLifecycle` (section 3): the only part with real processes.
2. `DailyPlanning` (section 4): drivers and routes, and every request that writes
   them. It details the single `Solve` step that `PlanningJobs` sees of
   `run_daily_planning`.
3. `AgenticWorkflow` (section 5), on `RoutePlans`, `RouteSolver`, `EventExtraction`
   and `ReplanAnswers`; its abstract specification is `ReplanContract`.
4. `Conversations` (section 6): replans, deletions and publications interleaved. It
   sees the workflow through `ReplanOutcomes`, the answers the contract allows, so
   the two compose: what `AgenticWorkflow` is proved to answer is what
   `Conversations` assumes.
5. `Chunking`, `Ingestion` (section 7), `DatasetBuild` (section 8).
6. `JobPolling`, `ChatView` (section 9): the console.

`MCServices` checks items 3 to 6 in one run: its variable `part` chooses which
component moves, and the others stay in their initial state, so the state space
is the sum of theirs. `MCOperations` does the same for items 1 and 2. `Nothing` declares `None` for the modules that share it.
No module declares a RECURSIVE operator. What could follow is said in section 11.

## 3. Planning jobs

### The model

`PlanningJobs` models the handlers of `PlanningJobService` and `worker.main`.
Its state:

* `db[j]`, the job's document: `status`, `progress`, `pid`, and whether `result` and
  `completed_at` are set; `error` says whether the worker (`raised`) or the
  reconciliation (`gone`) wrote it. Messages, logs, dates and the payload are
  left out; no branch depends on them.
* `creator[j]`, how far `create_job` has come; `wpc[j]`, the next call of the
  worker process, or `zombie` or `reaped` after its end; `wpid[j]`, the pid
  Popen returned; `wjob[j]` and `wlatest[j]`, the worker's variables; `orphan`, the
  workers whose parent, the API process, was restarted; `published`, the jobs
  whose planning run returned.
* `tpc[t]`, `todo[t]`, `copy[t]`, `deleting`: the handler on thread `t` of the API,
  and the documents it holds between two calls.

Every database call, signal and process start is an action of its own:

| code | actions |
|---|---|
| `create_job` | `CreateQueued`, `Popen`, `CreateRunning`, `CreateFails` |
| `cancel_job` | `CancelRead`, `Kill`, `CancelSave` |
| `delete_job` | `DeleteRead`, `DeleteCancelRead`, (`Kill`, `CancelSave`), `DeleteDoc` |
| `get_job`, `list_jobs`, `_reconcile_job` | `PollRead`, `Reconcile` |
| `worker.main` | `Boot`, `ReportLoading`, `ReportOptimizing`, `Solve`, `ReportCompleted`, `ReportFailure` |
| exceptions in a call | `CallRaises`, `SaveRaises` (applied, then reported as failed), `HandlerFails` |
| the operating system | `WorkerCrash`, `ApiRestart`, `HostRestart`, zombies and pid reuse in `Popen` and `ProcessExists` |

What the model takes for granted:

* The process check and the save in `_reconcile_job` are one step. Once a process
  does not exist it stays so, unless its pid is given to a new job's worker.
* A save of a worker that is killed takes effect before the signal or not at all.
* `os.killpg` is never refused (workers run under the API's user) and pids are
  positive.
* One API process. The in-memory repository, which rejects duplicate ids in
  other ways, is used by tests only.
* CPython's `subprocess` module: `Popen` first reaps abandoned children that have
  ended, and dropping a `Popen` object reaps its child if that has ended.
  Together with pids, signals and zombies this is the external part.

The constant `QuietCreate` says what is assumed about the environment: nobody acts
on a job before its `create_job` has ended, and the API neither restarts nor fails
between Popen and the second save. It is an assumption about timing that the
code does not enforce; what happens without it is finding 1. Without it a worker
may also run on with a document that never names its pid. About pids nothing is
assumed but what the kernel guarantees: that of a process that ended and was
reaped may be handed out again at any time. What comes of it is finding 4.

### The runs

| run | instance | shows |
|---|---|---|
| `operations` | 2 jobs, 1 thread, 1 pid, 1 fault, without `QuietCreate` | `TypeOK`, `OpenInv`, `GoneMeansReaped`, `CompletedIsReal` |
| `jobs_quiet` | 2 jobs, 2 threads, 2 pids, 1 fault, `QuietCreate`, `FewAtOnce` | `QuietInv`, `CancelledMeansStopped`, `RunningIsReachable`, `CancelSparesOthers`, `ImplementsLifecycle` |
| `services` (part "job") | 1 job, 2 threads, 2 faults, `QuietCreate`, fairness | `JobSettles` |
| `jobs_cancel_race` | 1 job, 1 thread, no fault, no `QuietCreate` | finding 1 |
| `jobs_zombie` | 1 job, 1 thread, 1 fault, fairness | finding 2 |
| `jobs_undelete` | 1 job, 2 threads, no fault | finding 3 |
| `jobs_pid_reuse` | 2 jobs, 1 thread, 1 pid, no fault | finding 4 |

`CancelSparesOthers` is what the code does promise about signals, whoever reuses
pids: the signal of a cancellation can meet another job's worker only once the
job's own worker is gone and reaped, since a zombie keeps its pid and no save puts
one job's pid into the document of another. `CancelHitsOwnWorker`, which leaves out
that exception, is false.

`MaxFaults` bounds crashes, restarts and failing calls; it is the only counter.
Two jobs are what pid confusion, the reaping of one job's zombie by another
job's Popen and a list that reconciles several jobs need; two threads are what
overlapping handlers need (a poll behind a cancellation behind a deletion). One
job meets another only through pids and reaping, so a third adds no new
interaction. `FewAtOnce` keeps `jobs_quiet` small: once its fault has happened, two
handlers overlap only while a single job has been created. With no fault, with one
job, and with one handler at a time all interleavings are there, and the theorems
below need no such bound. Deadlock is checked: clients may always ask.

`JobLifecycle` is what a client may rely on: a record is created once, is queued,
running and then ended, never the other way round. It deliberately allows two
things the code does not prevent: a second ending (a cancelled job overwritten by
the outcome of a save already under way) and the return of a deleted record as
an ended one (finding 3). `ImplementsLifecycle` maps the document to its phase and
`creator` to "was created".

Fairness (`Fairness`): the worker is a process that the operating system
schedules and its solver has a time limit; handlers run on threads of their own,
so each started request goes on; a started creation goes on. These are weak
fairness. Polling is strong fairness of `PollRead(t, Jobs)`: the console asks for
the list every 2.5 s while any job is active (`frontend/src/main.jsx:309-317`), so
a poll that again and again has something to reconcile does happen, although
the threads may be busy at times. Nothing is assumed of users: cancellations and
deletions may never come. `Settles` (`JobSettles` in `MCServices`) excludes zombies, which
finding 2 is about.

### Findings

1. `jobs_cancel_race`: a cancellation between the two saves of `create_job` finds no
   pid to signal, and the second save overwrites it, or the worker runs on
   behind a job that reads cancelled.
2. `jobs_zombie`: `os.kill(pid, 0)` succeeds on a zombie, and the service does not
   wait for its children. A worker that crashes leaves a job that is running
   until the next job's Popen, or a restart, reaps it.
3. `jobs_undelete`: `save_job` is an upsert, so a cancellation that overlaps a
   deletion brings the record back.
4. `jobs_pid_reuse`: `os.killpg` is sent to the pid read from the document. When the
   worker has ended since, and another job's Popen was given its pid, that job's
   worker is stopped, although nobody cancelled it.

### What is proved

In `PlanningJobsProofs`, for all sets of jobs, threads and pids and any number of
faults (from `NoPid` being no pid, `NoDoc` no record and `MaxFaults` a number):

* `TypeCorrect`: `Spec => []TypeOK`. The type invariant is not
  inductive alone: a save writes the worker's or the handler's copy, so the
  proof carries `LocalsOK` along, which says that a copy exists wherever the
  program uses it.
* `CopiesStayTrue`: `Spec => []OpenInv`. The argument: every save
  writes a document derived from some copy, so an invariant of the database alone
  cannot be inductive. `HeldOK` says the same four facts of *every* copy of a
  document, wherever it is held. What they refer to (that the job was made, its
  pid, that its worker is reaped, that its routes are out) never reverts: the
  lemma `NextGrows` shows this of every step. So a copy that fits now fits later
  however stale it has become (`FitsSaved`, `OldFits`), and what a step writes is
  derived from a copy that fits.
* `GoneIsReaped`, `CompletedJobsPublished`: consequences of `OpenInv`, the properties
  `GoneMeansReaped` and `CompletedIsReal` of the run.

* `SignalsSpareOthers`: `Spec => []CancelSparesOthers`, from the same invariant: the pid in
  a copy is that of the job's own worker (`HeldOK`), and two workers have the same
  pid only if one of them was reaped (`PidsUnique`).

With `QuietCreate` as well:

* `QuietCopies`: `Spec => []QuietInv`. Four facts hold each other up. Every copy of a
  document names the worker's pid once `create_job` has ended (`QuietHeldOK`); so a
  handler that has signalled the pid in its copy has stopped the worker, and only
  then saves (`StopsFirst`); so a worker that has yet to report an outcome has not
  been overtaken, and finds its job running (`FindsRunning`); so nothing makes an
  ended job active again (`EndedStaysEnded`), which a deletion relies on.
* `CancelStops`, `WorkersAreReachable`: consequences, the properties
  `CancelledMeansStopped`, `RunningIsReachable`.
* `LifecycleImplemented`: `Spec => ImplementsLifecycle`; a step moves the record of at
  most one job, and by a move that `JobLifecycle` has.

Only model-checked: `Settles`, since liveness under fairness is beyond the prover.

## 4. Drivers, routes and daily planning

### The model

`DailyPlanning` has two collections and the requests that write them. `drivers[d]`
is the status of driver `d`, or `None`. `routes[id]` is an operational route: its
driver, whether that driver was removed (the `removed:` prefix), its status, and
the vehicle it was computed for. `req[r]` is the request on thread `r`, of the API
or of a planning job's worker: its next call and its locals, which is what it
read in earlier calls.

Every call on a collection is an action of its own:

| code | actions |
|---|---|
| `run_daily_planning` | `StartPlanning`, `ListAndSolve`, `NoPlan`, (`SaveRoute`, `MarkOnRoute`) per route, `Respond` |
| ... with demo drivers | `StartDemoPlanning`, `Release` per driver, `Ensure`, `Seed` per driver, then as above |
| `POST /v1/operational-routes` | `CreateRoute` |
| `POST /v1/drivers` | `CreateDriver` |
| `PUT /v1/drivers/{id}` | `StartEdit`, `GetForUpdate`, `WriteUpdate` |
| `PUT /v1/driver-portal/profile`, a login with a legacy password | `StartProfile`, `GetForUpdate`, `WriteUpdate` |
| `DELETE /v1/drivers/{id}` | `StartDelete`, `FindRoutes`, `MarkRemoved` per route, `DeleteDriver` |
| `POST /v1/driver-portal/routes/{id}/status` | `StartReport`, `CheckOwner`, `WriteReport` |
| a process stopped, or a call that raises | `Abandon` |

What the model abstracts:

* A driver document is its status. A vehicle is named by the driver whose record
  carries it, so `vehicle # driver` in a route says that the route was computed
  for another driver's vehicle.
* `list_drivers` sorts by the latest update; any order is possible and `Orders`
  takes any. The solver may use any subset of the vehicles (`Picks`), and
  `_extract_plan` keeps the order of those it uses.
* `update_many` changes one document at a time: it finds the routes, then sets
  each that still matches.
* Stops and loads are in `RoutePlans`, `update_current_plan` is in `Conversations`.
* A request that is abandoned after a call took effect and one abandoned before
  it are both steps of the model; a retry is a new request.

The constant `Alone` is a discipline of the clients that nothing in the code
enforces: a request that saves whole routes (a daily planning, the creation of a
route) starts only when no other is in flight, and no other starts during a
planning. Editing, deleting and reporting overlap freely. Without it none of the
invariants below holds, as TLC shows in a few steps for each: two plannings
book the same driver, a deletion leaves a route without its driver (finding 6),
a driver set off duty between list and release is made available. What overlaps
with a planning is therefore not covered by them; where a document of the
repository promises the contrary, it is a run of its own, without `Alone`, and a
finding. Among what neither the code nor a document promises is that a report,
whose owner was checked, is written to a route that still is the driver's.

### The runs

| run | instance | shows |
|---|---|---|
| `operations` | 2 drivers, one of them in the demo fleet, 1 prefix, 2 requests, `Alone` | `FleetInv`, `PlannedRoutesHaveDrivers`, `RunDelivers`, `PlanningRespectsDuty` |
| `fleet_vehicle` | the same | finding 5 |
| `fleet_delete` | the same, not `Alone` | finding 6 |
| `fleet_profile` | the same, not `Alone` | finding 7 |

Nothing is counted, so no bound is needed but the sizes of the sets. Two drivers
make plans of none, one and two routes in either order, with the second vehicle
alone in use; the second driver is outside the demo fleet and is not released.
With one prefix each planning overwrites the routes of the one before. Two
requests are what every overlap needs: each property relates one request's
locals to the collections, which one other request changes. The statuses given
in payloads are few, as only `available`, `off_duty` and a status other than
`assigned` are told apart. No state of the fleet is a deadlock. The run `operations`
has 1.2 million states; in each behaviour either the jobs or the fleet moves.

### Findings

5. `fleet_vehicle`: routes and drivers are paired by position, but a vehicle that
   stays at the depot has no route in the plan, so the drivers after it are given
   the wrong routes.
6. `fleet_delete`: the driver's routes are marked in one call and the driver is
   deleted in another; a route saved in between keeps the name of a driver who
   no longer exists.
7. `fleet_profile`: a driver who changes a password while being marked `on_route`
   becomes `available` again, because the status read at authentication is saved.

### What is proved

For every finite fleet, demo fleet, set of prefixes and set of threads
(`DailyPlanningProofs`):

* `RequestsWellFormed`: `FleetSpec => []FleetOpenInv`, whatever the clients do. `FleetTypeOK` is not
  inductive alone: which driver, route and status a request holds depends on the
  call it has come to, and an index into its plan is within the plan (`LocalOK`).

With `Alone`:

* `FleetInvariant`: `FleetSpec => []FleetInv`. `Exclusive` says that a planning has no
  company, so what it listed is still so: `PlanHolds` describes the collections
  in the middle of the loop, routes stored and drivers marked up to the current
  position, drivers available beyond it. Deletions overlap with one another and
  with edits, and `RemovalsOK` is what carries `PlannedRoutesHaveDrivers` through
  them: from the moment a deletion has found its routes, no other route is
  assigned to the driver, as routes are only ever assigned when no deletion is
  in flight.
* `RoutesHaveDrivers`: its consequence, `PlannedRoutesHaveDrivers`.

Only model-checked, and with `Alone` only: `RunDelivers` and `PlanningRespectsDuty`.

## 5. The agentic workflow

### The model

`AgenticWorkflow` is one run of the LangGraph graph. Its variables are the keys of
`RoutingWorkflowState`; each node is an action, with the routing function that follows it
in the same action, as nothing runs in between:

| code | actions |
|---|---|
| `AgenticRoutingService.run` | `Invoke`, `Return` |
| `ExtractEventAgent`, `SolveBaseAgent`, `ApplyEventAgent` | `ExtractEvent`, `SolveBase`, `ApplyEventNode` |
| `GenerateCandidateAgent` with the solver | `GenerateBySolver` |
| ... with a routing policy | `ReuseBasePlan`, or per answer `PolicyAnswers`, `PolicyFails` |
| `ValidateCandidateAgent`, `RepairCandidateAgent`, `SolverFallbackAgent`, `ComposeResponseAgent` | `ValidateCandidate`, `RepairCandidate`, `SolverFallback`, `ComposeResponse` |
| `services/replanning.py`, the same without agents | the operator `DirectReplan` |

The pure code it calls is in modules of operators:

* `RoutePlans`: `validate_plan` as the set of violation codes it finds (`Violations`),
  `repair_candidate_plan` (`Repair`), `apply_event` (`ApplyEvent`) and
  `build_plan_from_route_sequences` (`Built`). A scenario is its id, customers, open
  customers, fleet and blocked arcs. Ids are sequences to which each event
  appends a tag, as the code appends a suffix. `Feasible` is what a plan has to
  be, written without reference to `validate_plan`. Distances are left out.
* `RouteSolver`: the integer program. A solution is, per vehicle, the set of arcs
  whose variable is 1; constraints are predicates on it, the plan is what
  `_extract_plan` walks along. The ordering variables are integers in the model:
  a system of difference bounds with integer constants that has a real solution
  has an integral one. Without an open customer Pyomo refuses the capacity
  constraint, which has no variable, and the code returns an error; the model
  then allows the plan without routes next to an error.
* `EventExtraction`: the rules over classes of keywords (a class is a set of
  keywords that occur in the same lists) and the ids a text names in order; a
  language model's answer is any event that the code accepts, or the rules'.
* `ReplanAnswers`: what the user is told of the event and of the customers.

What may be answered is left open: the policy may answer any member of `Answers`,
no plan, or raise; an engine may find any of its plans, none, or, as another
`RoutingEngine` may, any of `OtherRoutes`.

`validate_plan` compares capacities route by route. `Feasible` asks for one route
per vehicle; that validated plans have that is so because an engine makes one
route per vehicle and a policy's answer is an object keyed by vehicle, which is
what `Answers` and `OtherRoutes` contain.

### What is checked (run `services`)

* `DeliveredIsFeasible`: a plan delivered is feasible in the scenario after the
  event; and a run about an event succeeds exactly when replanning without
  agents would with the same plans.
* `EventHonoured`: from the message to the plan, a blocked road is not driven and
  the customers served are those to be served.
* `FailureIsExplicit`: a failure has an error, and is not given before candidate,
  repair and fallback have failed.
* `AnswerMeans`: what each sentence about the event amounts to in the plans before
  and after. Most say what is so. "Remains served" does not: it is written of a
  customer for whom the comparison found no removal, which here means one served
  neither before nor after. Nor does the note that a customer is "already"
  inactive or deferred (`NotedDeferred`), which is taken from the scenario after the
  event and so includes the customer whom the event itself defers. Both are
  findings without a run.
* `RepairIsConservative`: no new customer, no other vehicle, and only violations
  that a repair cannot mend are left.
* `SolverIsExact`: wherever the engine is called (base plan, candidate, fallback), the
  plans of the integer program are exactly the feasible plans among all orders
  of all customers on all vehicles (`RoundTripPlans`), if the fleet is in order:
  no vehicle twice, no negative capacity. The generator, the demo and an order
  list make such fleets; `domain/serialization.py` and the list of drivers in
  `planning/service.py` are not checked for it, and without it the property is
  false: a vehicle listed twice gets its tour twice, and an idle vehicle with a
  negative capacity makes the program infeasible though it would have no route.
* `RunWindsDown`: each step goes towards the end of the graph or asks the policy
  once more, `MaxRetries + 1` times at most. With the check for deadlock this says
  that a run ends; no fairness has to be assumed for it.
* `KeepsContract`: the workflow refines `ReplanContract`, asked and answered once, with
  one of `Outcomes`. Whether the plan it answers with is valid is not what the
  run noted (`finalVerdict`) but what `validate_plan` says of it.

Bounds: three customers and two vehicles, one of which can carry only one; three
scenarios (all open; a blocked arc, a closed customer and the small vehicle
first; two customers and one vehicle, for the language model's larger choice of
events); five messages, one per rule and one with an unknown id, and a follow-up
with and without a window; seven answers of a policy (feasible, a customer
missing, the depot in the middle, customers twice on a route and on two, an
unknown vehicle, an unknown stop); one retry, so that an answer that is no plan
comes before and after one that is. `Cases` lists the combinations. About 15
thousand states.

### What is proved (`AgenticWorkflowProofs`)

For all cases, answers, engine results and any number of retries:

* `WorkflowTypes`: `WorkflowSpec => []WorkflowTypeOK`, by `CountInv`, which says where in
  the graph the counter of attempts is still zero and where it is within the
  retries. That what is understood is an event about nodes that exist needs that
  the first of some places in a text is one of them (`LeastExists`).
* `FailureExplained`, `RunsWindDown`: `WorkflowSpec => []FailureIsExplicit` and
  `WorkflowSpec => RunWindsDown`, from `ControlInv`. It says, for each node, what has
  been settled when the run comes there: at `compose_response` the event was not
  understood, or there was no base plan, or a plan was chosen and passed, or all
  three ways have failed. `FailureIsExplicit` alone is not inductive, as it speaks
  of the end only.
* `RefinesContract`: `WorkflowSpec => KeepsContract`. `AnsweredInv`: at the end, the reply
  is one of the contract's outcomes; every other step of the graph is a stutter.
* `DeliversFeasible`: `WorkflowSpec => []DeliveredIsFeasible`. `PlansInv` says that each
  plan a run holds is a plan, whoever made it (a policy, `build_plan_from_route_sequences`,
  a repair, the walk along a solution), that the verdict on the base plan is on this
  base plan, and that the repaired plan is the repair of this candidate. What
  remains is that a plan which passes `validate_plan` is feasible (`PassedIsFeasible`),
  and the comparison with `DirectReplan`, by what has been settled at the end.
* `HonoursEvent`, `AnswersMean`: `WorkflowSpec => []EventHonoured` and
  `[]AnswerMeans`, from the same invariant with `AfterEvent`, what an event does to a
  scenario, and `FeasibleServes`, `FeasibleAvoids`, what a feasible plan does in it.
* `RepairsConserve`: `WorkflowSpec => []RepairIsConservative`. `RepairMends` compares the
  candidate and its repair stop by stop: of a route the known open customers are
  kept that occur here for the first time, in order (`KeptFacts`, `KeepsOnce`), between
  depots, and routes of vehicles that are not in the fleet are dropped.
* `SolverExact`: `WorkflowSpec => []SolverIsExact`, by `SolverExactFor`, which says it of
  every scenario: any number of customers and vehicles, any demands, capacities
  and blocked arcs. The argument, in the last sections of `RoutePlansProofs`:
  1. The flow constraints say that each node has one arc out and one in, or none
     (`FlowMeans`); the ordering constraints are levels that rise along every arc
     but those to the depot (`OrderedRises`).
  2. So a walk from the depot repeats no node before it comes back, has at most as
     many steps as `_extract_plan` allows itself, and does come back (`OutClimbs`,
     `WalkEnds`); there is one way back only (`OneWayBack`), and no arc is off it, for
     from an arc off it the levels would rise for ever (`WayCovers`): a tour has no
     cycle of its own beside the depot's.
  3. Hence the arcs of a vehicle are the legs of the round trip of some order of
     some customers (`TourIsOrder`), and the legs of each order satisfy flow and
     ordering (`LegsCircuit`, `LegsOrdered`; its highest level is the number of open
     customers only when it visits them all, `FullOrder`). The walk along the legs
     is the round trip (`WalkOfLegs`).
  4. The load the program bounds is a sum over customers assigned, that of
     `validate_plan` a sum over places of a route; one renames the other
     (`LoadIs`, on `SumRenamed` of `DataLemmas`). With the blocked arcs, the tours of a
     vehicle are the legs of the orders it can take (`ToursMean`).
  5. Each customer visited by one vehicle is each customer served once in the plan
     (`VisitOnceMeans`, `ServedMeans`), so solutions and feasible plans correspond
     (`SolutionsMean`, `FeasibleMeans`), and the plan read is that one (`ExtractIsPlanOf`).

The facts about the operators are in `RoutePlansProofs`. They are about loops: what
filtering a list keeps of it, where a walk along arcs leads. The library states
induction with an operator as parameter, which the provers cannot use; `DataLemmas`
derives what is needed from the library's well-foundedness of the numbers. There
induction is over a *set* of numbers (`InductionOnNat`), and `RecursionOnNat` shows that
a function with given first value and step exists, so that the equation of a
recursive function of the model may be used. What a loop keeps is written with
`Pick` of the module `Picking`, places first, and the lemmas about `Places` and `Pick` serve
here and in section 6. A sum over a finite set takes its terms in an order that
`CHOOSE` makes; `SumsAgree` and `SumAny` show that any order gives the same sum.

Assumptions: `CasesAssumption` (scenarios have finitely many customers of their own,
the open ones among them, a fleet of known vehicles, and texts have ids in order),
`RoutesAssumption` (an answer and an engine's plan name a vehicle once: the one is an
object keyed by vehicle, the other has a route per vehicle), `NodesAssumption` (the
depot is no customer), `AmountsAssumption` (demands and capacities are `int`, of any
sign), `NoEventAssumption` and `NoneAssumption` (`None` is not an event, not an answer),
`RetriesAssumption`.

Every property of the workflow that the run checks is proved.

## 6. Conversations

### The model

`Conversations` has the four collections of `memory/repository.py`, the scenarios and
the operational routes. `pc[q]` is the next call of request `q` and `work[q]` its
locals. A document is identified by the request that made its id.

| code | actions |
|---|---|
| `POST .../replan`: checks and lookups | `Receive`, `Require`, `ResolveRoute`, `CreateConversation`, `ResolveScenario` |
| the replan | `SaveUserMessage`, `ReadContext` (window and answer), `StoreScenario`, `UpdateRoute` |
| its record | `SaveRun`, `SaveAssistantMessage`, `ListMessages`, `ReadPrevious`, `SaveWindow` |
| `POST /v1/conversations`, `.../messages` | `CreateConversation`, `Require` then `AppendMessage` |
| `DELETE /v1/conversations/{id}` | `DeleteConversation`, `DeleteMessages`, `DeleteWindows`, `DeleteRuns` |
| a daily planning that publishes the route again | `Publish` |
| an exception, or the process stopped | `Crash` |

Plans are reduced to what matters here: their scenario and whether they are valid
in it. Which vehicles' parts of a plan a route keeps
(`_filter_plan_for_operational_route`) is left out. Two history variables serve the
properties: `met`, the pairs of requests that were in progress together, and
`died`, those that ended halfway.

### What is checked (run `services`)

In any order, with crashes:

* `ReplansArriveValidated`: what a replan writes to a route is valid for the scenario
  it writes with it, which is in the store.
* `AuditTrail`: an answer that is shown has its run and its question before it, a
  window names messages that exist.
* `LeftoversExplained`: a conversation whose deletion went through stays away, and
  each record that is left of it was written by a request in progress together
  with the deletion. That nothing is left is what the docs say, and false
  (finding 9).
* `EventsAddUp`: a replan appends its one event to the scenario the route is in when
  it writes; or another request that may change routes was in progress together
  with it. In that case the later of two replans may take the other's event back.

For requests that come one at a time (`inTurn`):

* `WindowIsCurrent`: the window is what the runs amount to. Of two replans of a
  conversation at once, the later one drops the other's event from the window, or
  is refused. Nothing in the repository promises otherwise, so this is a condition
  and not a finding.

Bounds: `Menu` gives each request what it may be and `After` which requests end
before it: a first replan or an empty conversation, then two at a time of a
replan (with or without a question about the route), an append, a deletion, a
first replan about another route whose scenario is not stored, and a
publication of the route. Two overlapping requests are what every race here
needs, and the one before gives them something to race about. One event tag;
`RecentLimit` 3 and `ConstraintLimit` 1, so that messages and constraints are
dropped; `Mortal`: one request may crash, anywhere. About 112 thousand states.
`SolverSound` FALSE lets invalid plans come with failures, as the contract allows.

### Findings

8. `follow_up` (`MCConversations`): a message without an event succeeds with the last
   plan of the conversation's window as its final plan, and every successful answer
   with a final plan is written to the route. Two conversations about one route,
   one request at a time: the question in the first takes back what was replanned
   in the second, and leaves the route with the plan of one scenario under the id
   of another.
9. `delete_overlap` (`MCConversations`): a conversation is deleted while a message in it
   is being answered. `API_REFERENCE.md:53` has it deleted with its associated records;
   what the replan saves afterwards stays for good.

Found by reading, without a run, as the filter is not modelled: `FRONTEND_UX.md:129` says
that plans are filtered to the driver's own route. The code keeps the routes of up
to four vehicle ids, one of them a position in the new plan, and the whole plan if
none matches, so a driver may be given another's part, several parts or all of it.

### What is proved (`ConversationsProofs`)

For all sets of requests, routes, menus and limits, any interleaving and any crash:

* `ReplansValidated`: `ConversationsSpec => []ReplansArriveValidated`. A write is three
  calls after the answer it comes from; `ValidatedInv` carries over them that an
  answer of the workflow on its way into a route has a valid plan (`Locals`), and that
  its scenario is in the store, from which no modelled request removes anything
  (`DELETE /v1/scenarios/{id}` is not modelled). `Tables` is the shape of the documents.
* `ConversationsTyped`: `ConversationsSpec => []ConversationsTypeOK`, by `TypeInv`: the
  locals of a request hold what the call it has come to needs.
* `TrailIsWhole`: `ConversationsSpec => []AuditTrail`, by `AuditInv`. It says of each
  request what it has written so far, as long as its conversation is there
  (`Progress`), and that what a request deletes is of a conversation that is gone.
  Ids are new (`Named`): there is nothing of a conversation that is yet to be made,
  so none begins with what was left of another.

* `DeletionsExplained`: `ConversationsSpec => []LeftoversExplained`, and `ReplansAddUp`:
  `ConversationsSpec => EventsAddUp`, both by `TogetherInv`. Its parts: `met` knows all
  pairs of requests now in progress (`MetInv`); of each deletion that has come past a
  call, what that call removed is gone or was written by one it met (`Leaves`); and a
  request that holds a scenario of its route holds the current one, or has met a
  request that may change routes (`Based`). `Fits` says that a request
  makes the calls of what it was asked for.

With `inTurn`, requests one at a time:

* `WindowsAreCurrent`: `ConversationsSpec => []WindowIsCurrent`. The inductive invariant
  is `AllInv` with `TurnInv`: at most one request is busy, and for that one `Turn` says
  how far the documents are behind: the window of its conversation is that of the
  runs before its own (`BuildsFrom`), and all other windows agree with their runs
  (`Agrees`). That adding one run to a window gives the window of
  all runs (`build_context_window` looks at the previous window and the latest run
  only) is the lemma `LastKnownMore`, about lists of any length, on `DataLemmas`.

Assumptions: `LimitsAssumption`; `MenuAssumption` (a request is one of the five and
names a route that exists); `TextsAssumption` (ids of scenarios are texts to which an
event appends); `NoWindowAssumption` (`None` is not a window).

## 7. Retrieval

### The models

`Chunking` is `chunk_text`, one chunk per step, on any text of letters, spaces and
newlines up to `TextLimit`. `PassagesWhole`: a passage no longer than the overlap is
whole in some chunk. `ChunksAdvance`: a chunk begins within the text, and more than
half a chunk, less the overlap, after the one before. Both are stated for every
overlap that `chunk_text` accepts, that is, less than the chunk
(`ChunkingAssumption`). Up to half a chunk of overlap, as with the defaults 160 of
1200, it follows that the loop ends. Beyond that it may not: with chunks of 4, an
overlap of 3 and a text of three letters, a newline and a letter, every chunk
begins at 0, a finding without a run, as its states are endless. TLC checks chunks of 4
with an overlap of 2 on all texts of up to 8 characters, which takes three chunks
and more.

`Ingestion` is `ingest_paths` with both repositories. `ReadFile`, `Embed` (which may
fail), `DeleteDocument` and `InsertDocument` are separate steps, as two requests may
each have read; in Postgres the last two are one transaction, in which a row
that another transaction deleted is not deleted again and the primary key may
refuse the insertion. In memory they are one step (`UpsertInMemory`).
`DocumentsAreWhole`: a query finds a document in one version, all of it and nothing
of an older one; in memory as long as a file is named by one path.
`IngestedIsFound`: a request that returned has made each of its files known, every
chunk of it, in the version it had when the request began or a newer one, and no
failure of a later request takes that away; for requests one by one (`oneByOne`).
Two requests, a file with two names that changes once in length (to and from
empty, which has no chunks) and version, another file. About 58 thousand states.

### What is proved (`CorpusProofs`)

For every chunk size, overlap and text:

* `ChunksWhole`, `ChunkingAdvances`: the inductive invariant is that all passages up to
  the end of the last chunk are whole (`WholeInv`); that a cut falls behind the middle of its chunk
  (`CutsBehindMiddle`) rests on the largest position of a separator
  (`LargestExists`).

For all sets of files, paths and requests:

* `IngestedWhole`: `IngestionSpec => []DocumentsAreWhole`. `ChunksInv` says that no chunk
  is without its document, no document without its chunks. It holds because a
  document and its chunks are written in one step, whoever has written the row
  meanwhile, and `RowsInv` says why: a transaction that comes to insert deletes what
  it read before, unless that row is gone, and then the primary key refuses.
* `IngestedFound`: `IngestionSpec => []IngestedIsFound`. `FreshInv` says what a request
  has done so far, file by file (`Fresh`): what it has handled is known, and what it
  has read is not older than what is indexed. Every write replaces one document by
  one not older (`InsertReplaces`).

Assumptions: `ChunkingAssumption`, and `IngestionAssumption` (lengths are numbers, a request
asks for a list of paths).

## 8. The training set

`DatasetBuild` is `build_sft_dataset_parallel.py` and, per shard, the loop of
`build_sft_dataset_chunked.py`. An example is the seed it was made from; `Fruitful`
says which seeds give one. `NothingLost`: of the seeds a shard went past, every
fruitful one is there once or in a range that was skipped, through crashes of
chunks, kills of shards and resumes. `DatasetIsWhole`: the dataset is complete, each
shard's share in its place, or there is none, and it is without repetitions as
long as no shard reaches the first seed of the next one (`Apart`).
`AttemptsAdvance`: after every attempt the next is smaller or further on, so a
shard ends where there are fruitful seeds ahead. In the run `services` the instance
has two shards of 4 and 3 examples in chunks of 3 and at least 2, two crashes and one kill; seeds are scarce at first and then absent for
a while, so that chunks fall short, are halved and skipped. `Apart` is true of this
instance, as each shard finds its share within its stride of 80 seeds.

`Apart` is a condition, as nothing in the code makes it so: a shard starts 20 seeds
for each example of a share after the one before it and goes on, skipping, until
it has its share. Where fewer than one seed in 20 is fruitful it comes to the seeds
of the next shard, and examples are there twice; the script's own description,
"non-overlapping seed shards", is true of the seeds shards start from. (With two
shards of one example each and no fruitful seed below 21 both make that of seed 21.)

### What is proved (`CorpusProofs`)

For any number of examples, workers and seeds, any sizes of chunks, and any number
of crashes, kills and restarts (`DatasetInv`):

* `DatasetLosesNothing`: `DatasetSpec => []NothingLost`. What a shard knows in its loop
  it may have read from chunks written by earlier runs of it, so the invariant is
  about the disk (`OnDisk`): the chunks follow on one another, and up to the last
  seed of each of them nothing fruitful is missing that was not skipped. A chunk
  that fell short is on the disk as well, behind those the loop counts
  (`LoopOK`); it is written over by the next attempt, or it is read by a resume and
  is then a chunk like the others, because it was made from the seed where the
  loop was. `Resumed` is the step from `OnDisk` to `LoopOK`.
* `DatasetBuiltWhole`: `DatasetSpec => []DatasetIsWhole`. A shard that returned 0 has
  its share written (`WroteShare`); the shares are `Total` in sum with the last one
  short (`SharesAre`), so that one after the other each is at its place
  (`SharesJoined`) and nothing is cut off.
* `DatasetAdvances`: `DatasetSpec => AttemptsAdvance`. A chunk that succeeds is not
  empty and ends at a seed not before the one it began at (`SucceededFits`).

That FlattenSeq and a choice of seeds in order do what they say rests on
`DataLemmas`. Assumption: `DatasetAssumption` (the numbers on the command line are
positive; the script refuses fewer than one worker, and nothing can be built with
the others at zero).

## 9. The console

`JobPolling` is the console following the planning jobs. Requests are served and
answered in any order; the timer is there while a running job is shown.
`SettledShowsTruth`: when it has stopped asking, it shows every job as it ended.
`ConsoleCatchesUp` (liveness): a job shown as running comes to be shown as it ended,
with its routes loaded if it completed. Fairness (`PollingFairness`, all weak): a
worker ends, since its solver has a time limit; the browser's timer fires while
it is set; each request in flight is served and its answer arrives. The user
may do nothing. The cases in which the console does stay behind are recorded by
the history variable `missed` and what follows them is left out: a completion
brought by *Refresh jobs*, by the first list or by the answer to a cancellation
does not load the routes; a list read before one of the user's own changes and
arriving after its answer (`overtaken`) hides a job that was just started or brings
back one that was deleted; an older list of routes arrives last. Two jobs, two
requests in flight: one of the timer's and one of the user's. About 97 thousand
states.

Terminal statuses are taken as final, which findings 1 to 3 show they are not always.

`ChatView` is the administrator's route chat: which conversation is selected, which
conversation each pane is of, and the requests in flight with what their closures
know. A request is served when its answer arrives. The map and the selected route
are left out: a message may name any route, which is then the one shown, and
`loadRoutes` decides by the route of an older render. `PanesAgree`: when everything is
answered, each pane shows the selected conversation, except one whose last answer
was for a conversation that was not selected when it came. The console shows such
an answer all the same (`main.jsx:977-1014`), a finding without a run; the property
says that nothing else goes wrong, and that the next answer mends it (`strayed`).
`ReloadRestores`: the conversation that was open is open again after a reload.
Three conversations, one of them without a run and one not made yet; three
acts of the user, one request in flight when he acts (`MaxActs`, `MaxWaiting`),
besides those an act sends at once.

### What is proved (`ConsoleProofs`)

For all sets of jobs and conversations, any number of requests and every order of
their answers:

* `SettledIsTrue`: `PollingSpec => []SettledShowsTruth`. The argument is `PollingInv`: what
  an answer in flight or the console says of a job may be late, but then it says
  *running*, for which the console asks again, or that it knows nothing; or a
  deletion the user asked for is not answered yet (`MayShow`). The user does one thing
  at a time (`OneAtATime`), because the buttons are disabled meanwhile.
* `PanesComeToAgree`: `ChatSpec => []PanesAgree`. A pane that does not show the selected
  conversation is being asked for, or has strayed (`PanesInv`); so when nothing is
  asked for, all others agree.
* `ReloadComesBack`: `ChatSpec => []ReloadRestores`, by `ReloadInv`: from a reload until the
  user acts, the id in the browser's storage stays, and either the conversation
  is open or the list that opens it is on its way or there.

Assumptions: `InFlightAssumption` (the console's first two requests fit),
`ChatAssumption` (the first conversations are conversations, and `null` is not). The
liveness property `ConsoleCatchesUp` is only model-checked.

## 10. The run `services`

It checks all properties of sections 5 to 9, and `JobSettles` of section 3 (part "job"),
and finds 333,229 states; deadlock is
checked, and the resting places of a component are steps of its own (`Rest`,
`ChunkingRest`, `DatasetRest`, `IngestionRest`, `PollingRest`, `ChatRest`). `ServicesTypeOK` is
the conjunction of two type invariants, `WorkflowTypeOK` and `ConversationsTypeOK`, each
of them proved (`WorkflowTypes`, `ConversationsTyped`).

## 11. Not modelled

* HiGHS, language models, embeddings, MongoDB and Postgres themselves: external;
  the models let them answer anything their interfaces allow, or fail.
* Scenarios (`scenarios/`, `data/`): `DELETE /v1/scenarios/{id}`, upserts of whole documents by id and a
  generator that is a function of its seed; of them only which scenarios exist is
  modelled, in `Conversations`. A scenario deleted between being stored and being written to a
  route would make the last clause of `ReplansArriveValidated` false.
* Reports, tracing, the harness, evaluation and audits (`services/`, `training/`):
  read-only computations over plans, whose results nothing reads back.
* `llm/`, `maps/`, `orders/`, `security.py`: stateless calls, file import, hashing.
* Prompts, the parsing of a model's text, loading and serving LoRA weights,
  training and benchmark scripts: formats and external libraries; the models
  take what they result in, a plan, no plan or an exception.
* `merge_sft_datasets.py`, `prepare_chat_dataset.py` and the demo scripts: one pass
  over files.
* The rest of the user interface, pagination, schemas and authentication of the
  API.
* Hazards without a property: a job record abandoned in `create_job`; a driver left
  between the two writes of a planning run; what overlaps with a planning run, or
  comes between the owner's check and the report. The steps are in the models; the
  code and its documents promise nothing of them. The selected route of the
  console is not in the models.

What could follow: larger instances (three overlapping replans of a conversation),
the parts of a plan that a route keeps, the selected route of the console, and the
promises of the hazards without a property, once the code makes them.
