-------------------------- MODULE AgenticWorkflow --------------------------
(***************************************************************************)
(* A run of the LangGraph workflow (agentic/graph.py, routing.py,          *)
(* agents.py) with the loop in which a routing policy is asked again until *)
(* its plan is valid (agentic/candidates.py). One action is one node of    *)
(* the graph, but for generate_candidate, where it is one answer of the    *)
(* policy. The keys of RoutingWorkflowState are the variables; the trace   *)
(* and the comparison, which nothing reads, are left out.                  *)
(*                                                                         *)
(* Where the language models can answer anything they answer anything: the *)
(* extractor any event that is accepted, the policy any of Answers.        *)
(***************************************************************************)
EXTENDS EventExtraction, RouteSolver, ReplanAnswers

CONSTANTS
    Cases,        \* what is asked: [scenario, text, context, extractor, generator], with
                  \*   extractor "rules" or "api": ADAPTIVEROUTE_ORCHESTRATOR_BACKEND
                  \*   generator "solver" or "policy": ADAPTIVEROUTE_ROUTING_POLICY_BACKEND
    Answers,      \* a policy's answers, as sequences of [vehicle, stops]
    OtherRoutes,  \* routes an engine other than PyomoHighsEngine may return
    MaxRetries    \* ADAPTIVEROUTE_ROUTING_POLICY_MAX_RETRIES

ASSUME RetriesAssumption == MaxRetries \in Nat

\* A case is about a scenario with finitely many customers of its own, the open ones
\* among them, and a fleet of vehicles; and a text with ids in order.
ASSUME CasesAssumption ==
    \A case \in Cases :
        /\ DOMAIN case.scenario = {"id", "known", "open", "fleet", "blocked"}
        /\ case.scenario.known \subseteq Customers /\ IsFiniteSet(case.scenario.known)
        /\ case.scenario.open \subseteq case.scenario.known
        /\ case.scenario.fleet \in Seq(DOMAIN Capacity)
        /\ DOMAIN case.text.ids = 1..Len(case.text.ids)
        /\ case.context \in BOOLEAN

\* A policy answers with an object whose keys are vehicles, and an engine gives a
\* vehicle one route: validate_plan does not look whether a vehicle comes twice.
ASSUME RoutesAssumption ==
    \A routes \in Answers \cup OtherRoutes :
        /\ routes \in Seq(VehicleRoute)
        /\ \A k, l \in DOMAIN routes : routes[k].vehicle = routes[l].vehicle => k = l

VARIABLES
    node,      \* the node of the graph that runs next, or "idle", "end"
    scenario, text, context, config,   \* the input; context: a window is given
    event,
    basePlan, baseVerdict,
    target,    \* replanning_scenario
    attempt, lastPlan,                 \* locals of the generator's loop
    candidate, candidateVerdict,
    repaired, repairedVerdict,
    fallbackVerdict,  \* of fallback_result's plan, or "not run"
    finalPlan, finalVerdict, source,
    errors,    \* the list of errors is not empty
    answer     \* the response, or None

input == <<scenario, text, context, config>>
basis == <<event, basePlan, baseVerdict>>
loop == <<attempt, lastPlan>>
proposal == <<candidate, candidateVerdict>>
mended == <<repaired, repairedVerdict>>
final == <<finalPlan, finalVerdict, source>>
workflowVars == <<node, input, basis, target, loop, proposal, mended, fallbackVerdict, final,
                  errors, answer>>

\* state.get("..._validation"): none there, passed or failed.
Verdict(s, p) == IF p = None THEN "none" ELSE IF Passed(s, p) THEN "passed" ELSE "failed"

-----------------------------------------------------------------------------
\* Every key but the input is unset.
Cleared ==
    /\ event' = None /\ basePlan' = None /\ baseVerdict' = "none" /\ target' = None
    /\ attempt' = 0 /\ lastPlan' = None
    /\ candidate' = None /\ candidateVerdict' = "none"
    /\ repaired' = None /\ repairedVerdict' = "none" /\ fallbackVerdict' = "not run"
    /\ finalPlan' = None /\ finalVerdict' = "none" /\ source' = None
    /\ errors' = FALSE /\ answer' = None

WorkflowInit ==
    /\ node = "idle"
    /\ scenario = None /\ text = None /\ context = FALSE /\ config = None
    /\ event = None /\ basePlan = None /\ baseVerdict = "none" /\ target = None
    /\ attempt = 0 /\ lastPlan = None
    /\ candidate = None /\ candidateVerdict = "none"
    /\ repaired = None /\ repairedVerdict = "none" /\ fallbackVerdict = "not run"
    /\ finalPlan = None /\ finalVerdict = "none" /\ source = None
    /\ errors = FALSE /\ answer = None

\* AgenticRoutingService.run, of a service built from_env.
Invoke(case) ==
    /\ node = "idle"
    /\ scenario' = case.scenario /\ text' = case.text /\ context' = case.context
    /\ config' = [extractor |-> case.extractor, generator |-> case.generator]
    /\ node' = "extract_event"
    /\ UNCHANGED <<basis, target, loop, proposal, mended, fallbackVerdict, final, errors, answer>>

\* invoke returns the response; the state of the run is not kept.
Return ==
    /\ node = "end"
    /\ node' = "idle"
    /\ scenario' = None /\ text' = None /\ context' = FALSE /\ config' = None
    /\ Cleared

ExtractEvent ==
    /\ node = "extract_event"
    /\ event' \in Extractions(config.extractor, text, scenario)
    /\ errors' = (event' = None)
    /\ node' = IF event' # None THEN "solve_base" ELSE "compose_response"
    /\ UNCHANGED <<input, basePlan, baseVerdict, target, loop, proposal, mended, fallbackVerdict,
                   final, answer>>

\* The scenarios an engine is given, and what PyomoHighsEngine can return for each.
Scenarios == {case.scenario : case \in Cases}
Texts == {case.text : case \in Cases}
Solvable == Scenarios \cup {ApplyEvent(s, e) : s \in Scenarios, e \in Events}
PyomoPlans == [s \in Solvable |-> SolverPlans(s)]

\* RoutingEngine.solve: PyomoHighsEngine finds a plan or none; another engine may
\* return anything, which is why what it returns is validated.
EngineResults(s) ==
    PyomoPlans[s] \cup {None} \cup {[scenario |-> s.id, routes |-> r] : r \in OtherRoutes}

SolveBase ==
    /\ node = "solve_base"
    /\ basePlan' \in EngineResults(scenario)
    /\ baseVerdict' = Verdict(scenario, basePlan')
    /\ errors' = (errors \/ baseVerdict' # "passed")
    /\ node' = IF baseVerdict' = "passed" THEN "apply_event" ELSE "compose_response"
    /\ UNCHANGED <<input, event, target, loop, proposal, mended, fallbackVerdict, final, answer>>

\* ReplanningService.replan, which the scripts call, takes the same steps without agents:
\* whether it succeeds when the engine answers the base scenario with one plan and the
\* scenario after the event with the other.
DirectReplan(s, e, base, replanned) ==
    Verdict(s, base) = "passed" /\ Verdict(ApplyEvent(s, e), replanned) = "passed"

ApplyEventNode ==
    /\ node = "apply_event"
    /\ target' = ApplyEvent(scenario, event)
    /\ node' = "generate_candidate"
    /\ UNCHANGED <<input, basis, loop, proposal, mended, fallbackVerdict, final, errors, answer>>

-----------------------------------------------------------------------------
(* generate_candidate.                                                     *)

Propose(plan) ==
    /\ candidate' = plan
    /\ errors' = (errors \/ plan = None)
    /\ node' = "validate_candidate"

\* SolverBackedCandidateGenerator.generate
GenerateBySolver ==
    /\ node = "generate_candidate" /\ config.generator = "solver"
    /\ \E plan \in EngineResults(target) : Propose(plan)
    /\ UNCHANGED <<input, basis, target, loop, candidateVerdict, mended, fallbackVerdict, final, answer>>

Reusable == Passed(target, Relabelled(target, basePlan))

\* _reusable_base_plan: a plan that the event leaves valid is kept.
ReuseBasePlan ==
    /\ node = "generate_candidate" /\ config.generator = "policy"
    /\ attempt = 0
    /\ Reusable
    /\ Propose(Relabelled(target, basePlan))
    /\ UNCHANGED <<input, basis, target, loop, candidateVerdict, mended, fallbackVerdict, final, answer>>

\* The policy is, or is about to be, asked for the attempt-th time.
Asking ==
    /\ node = "generate_candidate" /\ config.generator = "policy"
    /\ attempt = 0 => ~Reusable

\* What is read in a policy's text: stops by vehicle, or None if there are none to read.
PolicyTexts == Answers \cup {None}

\* An answer that is no plan leaves the last plan that was built in place.
Drafted(a) ==
    IF a # None /\ Buildable(target, a) THEN Built(target, a) ELSE lastPlan

\* Mutant: one attempt more than there are retries.
MutPolicyAnswers(a) ==
    /\ Asking
    /\ attempt' = attempt + 1
    /\ lastPlan' = Drafted(a)
    /\ IF \/ a # None /\ Buildable(target, a) /\ Passed(target, lastPlan')
          \/ attempt > MaxRetries + 1
         THEN Propose(lastPlan')
         ELSE UNCHANGED <<candidate, errors, node>>
    /\ UNCHANGED <<input, basis, target, candidateVerdict, mended, fallbackVerdict, final, answer>>

\* The policy's answer a to one prompt. It is asked again, with the violations, until a plan is valid or the retries are used up.
PolicyAnswers(a) ==
    /\ Asking
    /\ attempt' = attempt + 1
    /\ lastPlan' = Drafted(a)
    /\ IF \/ a # None /\ Buildable(target, a) /\ Passed(target, lastPlan')
          \/ attempt' > MaxRetries
         THEN Propose(lastPlan')
         ELSE UNCHANGED <<candidate, errors, node>>
    /\ UNCHANGED <<input, basis, target, candidateVerdict, mended, fallbackVerdict, final, answer>>

\* The chat call raises: what was drafted before is given up with it.
PolicyFails ==
    /\ Asking
    /\ attempt' = attempt + 1
    /\ Propose(None)
    /\ UNCHANGED <<input, basis, target, lastPlan, candidateVerdict, mended, fallbackVerdict, final, answer>>

-----------------------------------------------------------------------------
\* final_plan, final_validation and final_source are set together.
Settle(plan, verdict, from) ==
    finalPlan' = plan /\ finalVerdict' = verdict /\ source' = from

ValidateCandidate ==
    /\ node = "validate_candidate"
    /\ candidateVerdict' = Verdict(target, candidate)
    /\ IF candidateVerdict' = "passed"
         THEN Settle(candidate, "passed", "candidate") /\ node' = "compose_response"
         ELSE UNCHANGED final /\ node' = "repair_candidate"
    /\ UNCHANGED <<input, basis, target, loop, candidate, mended, fallbackVerdict, errors, answer>>

\* Mutant: a repaired plan needs no second validation.
MutRepairCandidate ==
    /\ node = "repair_candidate"
    /\ repaired' = IF candidate = None THEN None ELSE Repair(target, candidate)
    /\ repairedVerdict' = IF candidate = None THEN "none" ELSE "passed"
    /\ IF repairedVerdict' = "passed"
         THEN Settle(repaired', "passed", "candidate_repaired") /\ node' = "compose_response"
         ELSE UNCHANGED final /\ node' = "solver_fallback"
    /\ UNCHANGED <<input, basis, target, loop, proposal, fallbackVerdict, errors, answer>>

RepairCandidate ==
    /\ node = "repair_candidate"
    /\ repaired' = IF candidate = None THEN None ELSE Repair(target, candidate)
    /\ repairedVerdict' = Verdict(target, repaired')
    /\ IF repairedVerdict' = "passed"
         THEN Settle(repaired', "passed", "candidate_repaired") /\ node' = "compose_response"
         ELSE UNCHANGED final /\ node' = "solver_fallback"
    /\ UNCHANGED <<input, basis, target, loop, proposal, fallbackVerdict, errors, answer>>

\* Mutant: a fallback that finds nothing is no error.
MutSolverFallback ==
    /\ node = "solver_fallback"
    /\ \E plan \in EngineResults(target) :
         /\ fallbackVerdict' = Verdict(target, plan)
         /\ IF plan = None THEN UNCHANGED final
              ELSE Settle(plan, Verdict(target, plan), "solver_fallback")
    /\ errors' = errors
    /\ node' = "compose_response"
    /\ UNCHANGED <<input, basis, target, loop, proposal, mended, answer>>

\* A plan of the fallback becomes the final plan even if it is not valid.
SolverFallback ==
    /\ node = "solver_fallback"
    /\ \E plan \in EngineResults(target) :
         /\ fallbackVerdict' = Verdict(target, plan)
         /\ IF plan = None THEN UNCHANGED final
              ELSE Settle(plan, Verdict(target, plan), "solver_fallback")
    /\ errors' = (errors \/ fallbackVerdict' # "passed")
    /\ node' = "compose_response"
    /\ UNCHANGED <<input, basis, target, loop, proposal, mended, answer>>

Response(succeeded, from) == [succeeded |-> succeeded, source |-> from]

\* Mutant: there is a final plan, so the run succeeded.
MutComposeResponse ==
    /\ node = "compose_response"
    /\ answer' = IF event = None /\ context THEN Response(TRUE, "context_window")
                   ELSE Response(finalPlan # None, source)
    /\ node' = "end"
    /\ UNCHANGED <<input, basis, target, loop, proposal, mended, fallbackVerdict, final, errors>>

\* Without an event, a context window answers for the run: its plan, whatever it is.
ComposeResponse ==
    /\ node = "compose_response"
    /\ answer' = IF event = None /\ context THEN Response(TRUE, "context_window")
                   ELSE Response(finalPlan # None /\ finalVerdict = "passed", source)
    /\ node' = "end"
    /\ UNCHANGED <<input, basis, target, loop, proposal, mended, fallbackVerdict, final, errors>>

-----------------------------------------------------------------------------
WorkflowStep ==
    \/ ExtractEvent \/ SolveBase \/ ApplyEventNode
    \/ GenerateBySolver \/ ReuseBasePlan
    \/ (\E a \in PolicyTexts : PolicyAnswers(a)) \/ PolicyFails
    \/ ValidateCandidate \/ RepairCandidate \/ SolverFallback \/ ComposeResponse

WorkflowNext ==
    \/ WorkflowStep
    \/ Return
    \/ \E case \in Cases : Invoke(case)

WorkflowSpec == WorkflowInit /\ [][WorkflowNext]_workflowVars

-----------------------------------------------------------------------------
GraphNodes == {"extract_event", "solve_base", "apply_event", "generate_candidate",
           "validate_candidate", "repair_candidate", "solver_fallback", "compose_response"}

Verdicts == {"none", "passed", "failed"}

Sources == {None, "context_window", "candidate", "candidate_repaired", "solver_fallback"}

WorkflowTypeOK ==
    /\ node \in GraphNodes \cup {"idle", "end"}
    /\ scenario \in Scenarios \cup {None} /\ text \in Texts \cup {None} /\ context \in BOOLEAN
    /\ event \in Events \cup {None}
    /\ attempt \in 0..(MaxRetries + 1)
    /\ {baseVerdict, candidateVerdict, repairedVerdict, finalVerdict} \subseteq Verdicts
    /\ fallbackVerdict \in Verdicts \cup {"not run"}
    /\ source \in Sources \ {"context_window"}
    /\ errors \in BOOLEAN
    /\ answer \in {None} \cup [succeeded : BOOLEAN, source : Sources]

\* The run ended as succeeded with a plan of its own.
Delivered ==
    /\ answer # None
    /\ answer.succeeded
    /\ answer.source # "context_window"

\* AGENTIC_WORKFLOW.md:5 "convert a natural-language route disruption into a
\* validated route plan or a safe explanation": a plan delivered is feasible, by
\* the definition that does not look at validate_plan, in the scenario after the
\* event. And a run about an event succeeds exactly when replanning without agents
\* would with the same plans.
DeliveredIsFeasible ==
    /\ Delivered => target = ApplyEvent(scenario, event) /\ Feasible(target, finalPlan)
    /\ answer # None /\ event # None =>
           (answer.succeeded <=> DirectReplan(scenario, event, basePlan, finalPlan))

\* From the message to the plan: a blocked road is not taken, a customer who
\* cannot receive is not visited, and everyone else who was to be served is.
EventHonoured ==
    Delivered =>
        LET gone == IF event.type = "unavailable" THEN {event.customer} ELSE {} IN
        /\ Served(finalPlan) = scenario.open \ gone
        /\ event.type = "block" => <<event.from, event.to>> \notin Edges(finalPlan)
        /\ event.type = "block" /\ event.both => <<event.to, event.from>> \notin Edges(finalPlan)

\* What each sentence about the event amounts to, when a plan is delivered. "not
\* affected": the plan from before is still valid after the event. "still used": only
\* one way is blocked, and it is not the one taken. "deferred" is written exactly of a
\* customer who was to be served; "remains served" only of one who was not, and is not
\* after the event either, so it never means what it says. Who is noted as deferred is
\* not served, and the customer of the event always is noted.
AnswerMeans ==
    Delivered =>
        LET claim == Claim(event, basePlan, finalPlan)
            noted == NotedDeferred(event, target)
        IN  /\ claim = "not affected" => Passed(target, Relabelled(target, basePlan))
            /\ claim = "still used" => ~event.both
            /\ event.type = "unavailable" =>
                 /\ claim = IF event.customer \in scenario.open THEN "deferred" ELSE "remains served"
                 /\ event.customer \in noted
            /\ noted \cap Served(finalPlan) = {}

\* ENGINE_IMPLEMENTATION_PLAN.md:537 "Every branch must end with either a
\* validated final route or an explicit failure status.": a failure has an error
\* to report, and is not reported before candidate, repair and solver have failed.
FailureIsExplicit ==
    answer # None /\ ~answer.succeeded =>
        /\ errors
        /\ \/ event = None
           \/ baseVerdict # "passed"
           \/ /\ candidateVerdict # "passed" /\ repairedVerdict # "passed"
              /\ fallbackVerdict \in {"none", "failed"}

\* Which vehicle visits which customer.
Duties(p) == UNION {{p.routes[k].vehicle} \X {p.routes[k].stops[i] : i \in DOMAIN p.routes[k].stops}
                        : k \in DOMAIN p.routes}

\* repair.py:9-16 "conservative local repairs that cannot invent new optimization
\* choices": nobody is served who was not, or by another vehicle, and what is left
\* to the solver is capacity, customers missing and roads blocked.
RepairIsConservative ==
    repaired # None =>
        /\ \A duty \in Duties(repaired) : duty[2] # Depot => duty \in Duties(candidate)
        /\ Violations(target, repaired) \subseteq
               {"capacity_violation", "missing_customer", "blocked_arc_used"}

ExactFor == [s \in Solvable |-> SolverIsExactFor(s)]

\* The integer program of every scenario the engine is given is exact.
SolverIsExact ==
    /\ node = "solve_base" => ExactFor[scenario]
    /\ node \in {"generate_candidate", "solver_fallback"} => ExactFor[target]

\* How far the graph still goes from a node, by its longest way.
ToGo == [extract_event |-> 8, solve_base |-> 7, apply_event |-> 6, generate_candidate |-> 5,
         validate_candidate |-> 4, repair_candidate |-> 3, solver_fallback |-> 2,
         compose_response |-> 1, end |-> 0]

Onward ==
    \/ node' \in DOMAIN ToGo /\ ToGo[node'] < ToGo[node]
    \/ /\ node = "generate_candidate" /\ node' = node
       /\ attempt' = attempt + 1 /\ attempt' <= MaxRetries

\* A run that has begun ends, whatever the models and the engine answer: no node of it
\* comes twice, and the policy is asked again no more often than there are retries.
RunWindsDown == [][(node \in GraphNodes) => Onward]_workflowVars

-----------------------------------------------------------------------------
(* The workflow implements its contract: asked when invoked, answered when *)
(* the response is composed; whether the plan it carries is valid is not   *)
(* what the workflow noted but what validate_plan says of it.              *)

Asked == IF node = "idle" THEN None ELSE [id |-> scenario.id, context |-> context]

OwnPlan ==
    IF finalPlan = None THEN None ELSE [scenario |-> finalPlan.scenario,
                                        valid |-> Passed(target, finalPlan)]

Replied ==
    IF answer = None THEN None
      ELSE IF answer.source = "context_window"
        THEN [succeeded |-> TRUE, source |-> "context_window", event |-> None, plan |-> None]
        ELSE [succeeded |-> answer.succeeded, source |-> "workflow",
              event |-> IF event = None THEN None ELSE Tag(event), plan |-> OwnPlan]

EventTags == {Tag(e) : e \in Events}
FirstIds == {case.scenario.id : case \in Cases}

\* None is none of what it is told from.
ASSUME NoneAssumption ==
    /\ None # "context_window"
    /\ None \notin [succeeded : BOOLEAN, source : Sources]
    /\ None \notin [id : FirstIds, context : BOOLEAN]
    /\ None \notin [succeeded : BOOLEAN, source : {"workflow", "context_window"},
                   event : EventTags \cup {None},
                   plan : {None} \cup [scenario : {Append(id, tag) : id \in FirstIds, tag \in EventTags},
                                      valid : BOOLEAN]]

Contract == INSTANCE ReplanContract
                WITH asked <- Asked, reply <- Replied, Tags <- EventTags

KeepsContract == Contract!ContractSpec

=============================================================================
