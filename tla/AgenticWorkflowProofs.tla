----------------------- MODULE AgenticWorkflowProofs -----------------------
(***************************************************************************)
(* The control of the workflow, for every set of cases, every engine and   *)
(* policy and any number of retries: each run ends with one of the         *)
(* outcomes of ReplanContract, and explains a failure.                     *)
(***************************************************************************)
EXTENDS AgenticWorkflow, RoutePlansProofs, TLAPS

\* The first of some places is one of them.
LEMMA FirstIsOneOf ==
    ASSUME NEW places \in SUBSET Nat, places # {}
    PROVE  First(places) \in places
    BY LeastExists DEF First

\* A case is about a scenario and a text of the assumption.
LEMMA CaseFacts ==
    ASSUME NEW case \in Cases
    PROVE  /\ IsScenario(case.scenario) /\ DOMAIN case.scenario = ScenarioFields
           /\ DOMAIN case.text.ids \subseteq Nat
           /\ case.scenario \in Scenarios /\ case.scenario.id \in FirstIds
<1>1. /\ DOMAIN case.text.ids = 1..Len(case.text.ids)
      /\ DOMAIN case.scenario = ScenarioFields
      /\ IsScenario(case.scenario)
    BY CasesAssumption DEF IsScenario, ScenarioFields
<1>2. \A n : 1..n \subseteq Nat
    OBVIOUS
<1> QED
    BY <1>1, <1>2 DEF Scenarios, FirstIds

\* An event about nodes of the scenario.
About(s, e) ==
    IF e.type = "block" THEN {e.from, e.to} \subseteq Nodes(s) ELSE e.customer \in s.known

\* What is understood is an event about nodes of the scenario, or nothing.
LEMMA ExtractionsAreEvents ==
    ASSUME NEW case \in Cases, NEW extractor,
           NEW e \in Extractions(extractor, case.text, case.scenario)
    PROVE  e \in {x \in Events : About(case.scenario, x)} \cup {None}
<1> DEFINE t == case.text
           s == case.scenario
           nodes == Named(t, Nodes(s))
           others == nodes \ {First(nodes)}
           customers == Named(t, s.known)
           Right == {x \in Events : About(s, x)}
<1>1. s.known \subseteq Customers /\ DOMAIN t.ids \subseteq Nat
    BY CaseFacts DEF IsScenario
<1>2. ASSUME others # {}
      PROVE  t.ids[First(nodes)] \in Nodes(s) /\ t.ids[First(others)] \in Nodes(s)
  <2>1. nodes \in SUBSET Nat /\ others \in SUBSET Nat /\ nodes # {}
    BY <1>1, <1>2 DEF Named
  <2>2. First(nodes) \in nodes /\ First(others) \in nodes
    BY <1>2, <2>1, FirstIsOneOf
  <2> QED
    BY <2>2 DEF Named
<1>3. ASSUME customers # {} PROVE t.ids[First(customers)] \in s.known
  <2>1. customers \in SUBSET Nat
    BY <1>1 DEF Named
  <2>2. First(customers) \in customers
    BY <1>3, <2>1, FirstIsOneOf
  <2> QED
    BY <2>2 DEF Named
<1>4. Nodes(s) \subseteq {Depot} \cup Customers
    BY <1>1 DEF Nodes
<1>5. \A a, b \in Nodes(s) : Blocking(a, b, TRUE) \in Right
    BY <1>4 DEF Blocking, Events, About
<1>6. \A c \in s.known : Unavailable(c) \in Right /\ Priority(c) \in Right
    BY <1>1 DEF Unavailable, Priority, Events, About
<1>7. Rules(t, s) \in Right \cup {None}
  <2> DEFINE a == t.ids[First(nodes)]
             b == t.ids[First(others)]
             c == t.ids[First(customers)]
             found == others # {}
             blockage == Says(t, {"blocked", "road", "closed"})
  <2>1. Rules(t, s) =
          CASE blockage /\ found -> Blocking(a, b, TRUE)
            [] blockage /\ others = {} /\ ~Says(t, {"customer"}) -> None
            [] OTHER -> IF customers = {} THEN None
                        ELSE IF Says(t, {"closed", "cannot", "unable"}) THEN Unavailable(c)
                        ELSE IF Says(t, {"urgent"}) THEN Priority(c)
                        ELSE None
    BY DEF Rules
  <2>2. found => Blocking(a, b, TRUE) \in Right
    BY <1>2, <1>5
  <2>3. customers # {} => Unavailable(c) \in Right /\ Priority(c) \in Right
    BY <1>3, <1>6
  <2>4. found <=> others # {}
    OBVIOUS
  <2> HIDE DEF found, blockage, nodes, others, customers, a, b, c, t, s, Right
  <2> QED
    BY <2>1, <2>2, <2>3, <2>4
<1>8. ModelEvents(s) \subseteq Right
    BY DEF ModelEvents, About
<1> QED
    BY <1>7, <1>8 DEF Extractions

-----------------------------------------------------------------------------
NoFinal == finalPlan = None /\ finalVerdict = "none" /\ source = None

\* The event is applied, to a scenario that has a valid base plan.
Mutated ==
    /\ event \in Events
    /\ baseVerdict = "passed"
    /\ target = ApplyEvent(scenario, event)

\* The ways to compose_response: nothing understood, no base plan, a plan, and
\* neither candidate nor repair nor solver good enough.
NotUnderstood == event = None /\ NoFinal /\ errors
NoBase == event \in Events /\ baseVerdict # "passed" /\ NoFinal /\ errors
Chosen ==
    /\ Mutated
    /\ finalPlan # None /\ finalVerdict = "passed" /\ Passed(target, finalPlan)
    /\ source \in {"candidate", "candidate_repaired", "solver_fallback"}
Exhausted ==
    /\ Mutated
    /\ candidateVerdict # "passed" /\ repairedVerdict # "passed" /\ errors
    /\ \/ fallbackVerdict = "none" /\ NoFinal
       \/ /\ fallbackVerdict = "failed" /\ finalPlan # None
          /\ finalPlan.scenario = target.id
          /\ finalVerdict = "failed" /\ ~Passed(target, finalPlan)
          /\ source = "solver_fallback"

Composed ==
    answer = IF event = None /\ context THEN Response(TRUE, "context_window")
               ELSE Response(finalPlan # None /\ finalVerdict = "passed", source)

OfACase ==
    \E case \in Cases : scenario = case.scenario /\ text = case.text /\ context = case.context

ControlInv ==
    /\ node \in GraphNodes \cup {"idle", "end"}
    /\ attempt \in Nat
    /\ node # "idle" => OfACase
    /\ node \in {"idle", "extract_event"} => event = None
    /\ node = "solve_base" => event \in Events
    /\ node = "apply_event" => event \in Events /\ baseVerdict = "passed"
    /\ node \in {"generate_candidate", "validate_candidate", "repair_candidate", "solver_fallback"} => Mutated
    /\ node \in {"repair_candidate", "solver_fallback"} => candidateVerdict # "passed"
    /\ node = "solver_fallback" => repairedVerdict # "passed"
    /\ node \notin {"compose_response", "end"} => NoFinal
    /\ node \in {"compose_response", "end"} => NotUnderstood \/ NoBase \/ Chosen \/ Exhausted
    /\ node # "end" => answer = None
    /\ node = "end" => Composed

-----------------------------------------------------------------------------
\* What an engine returns is for the scenario it was given.
LEMMA EnginesNameScenario ==
    ASSUME Mutated, OfACase, NEW plan \in EngineResults(target), plan # None
    PROVE  plan.scenario = target.id
<1>1. target \in Solvable
    BY CaseFacts DEF Mutated, OfACase, Solvable
<1>2. CASE plan \in PyomoPlans[target]
  <2>1. PyomoPlans[target] = SolverPlans(target)
    BY <1>1 DEF PyomoPlans
  <2>2. PICK x \in Solutions(target) : plan = Extract(target, x)
    BY <1>2, <2>1 DEF SolverPlans
  <2> QED
    BY <2>2 DEF Extract
<1>3. CASE plan \in {[scenario |-> target.id, routes |-> r] : r \in OtherRoutes}
    BY <1>3
<1> QED
    BY <1>2, <1>3 DEF EngineResults

LEMMA VerdictMeans ==
    ASSUME NEW s, NEW p
    PROVE  /\ Verdict(s, p) = "passed" <=> p # None /\ Passed(s, p)
           /\ Verdict(s, p) = "none" <=> p = None
           /\ Verdict(s, p) = "failed" <=> p # None /\ ~Passed(s, p)
    BY DEF Verdict

LEMMA InitControl == WorkflowInit => ControlInv
<1> SUFFICES ASSUME WorkflowInit PROVE ControlInv
    OBVIOUS
<1>1. node = "idle" /\ attempt = 0 /\ event = None /\ answer = None /\ NoFinal
    BY DEF WorkflowInit, NoFinal
<1> QED
    BY <1>1 DEF ControlInv

USE DEF input, basis, loop, proposal, mended, final

LEMMA InvokeControl ==
    ASSUME ControlInv, NEW case \in Cases, Invoke(case)
    PROVE  ControlInv'
    BY DEF ControlInv, Invoke, OfACase, NoFinal, GraphNodes

LEMMA ReturnControl ==
    ASSUME ControlInv, Return
    PROVE  ControlInv'
    BY DEF ControlInv, Return, Cleared, NoFinal

LEMMA ExtractControl ==
    ASSUME ControlInv, ExtractEvent
    PROVE  ControlInv'
<1>1. OfACase /\ NoFinal /\ answer = None /\ attempt \in Nat
    BY DEF ControlInv, ExtractEvent
<1>2. event' \in Events \cup {None}
    BY <1>1, ExtractionsAreEvents DEF OfACase, ExtractEvent
<1>3. CASE event' = None
    BY <1>1, <1>3 DEF ExtractEvent, ControlInv, NotUnderstood, NoFinal, OfACase, GraphNodes
<1>4. CASE event' # None
    BY <1>1, <1>2, <1>4 DEF ExtractEvent, ControlInv, NoFinal, OfACase, GraphNodes
<1> QED
    BY <1>3, <1>4

LEMMA SolveBaseControl ==
    ASSUME ControlInv, SolveBase
    PROVE  ControlInv'
<1>1. OfACase /\ NoFinal /\ answer = None /\ attempt \in Nat /\ event \in Events
    BY DEF ControlInv, SolveBase
<1>2. CASE baseVerdict' = "passed"
    BY <1>1, <1>2 DEF SolveBase, ControlInv, NoFinal, OfACase, GraphNodes
<1>3. CASE baseVerdict' # "passed"
    BY <1>1, <1>3 DEF SolveBase, ControlInv, NoBase, NoFinal, OfACase, GraphNodes
<1> QED
    BY <1>2, <1>3

LEMMA ApplyControl ==
    ASSUME ControlInv, ApplyEventNode
    PROVE  ControlInv'
    BY DEF ControlInv, ApplyEventNode, Mutated, NoFinal, OfACase, GraphNodes

\* The steps of generate_candidate, which leave alone all but the loop, the
\* candidate and the errors.
LEMMA GenerateControl ==
    ASSUME ControlInv,
           \/ GenerateBySolver \/ ReuseBasePlan \/ PolicyFails
           \/ \E a \in PolicyTexts : PolicyAnswers(a)
    PROVE  ControlInv'
<1>1. /\ OfACase /\ NoFinal /\ answer = None /\ attempt \in Nat /\ Mutated
      /\ node = "generate_candidate"
    BY DEF ControlInv, GenerateBySolver, ReuseBasePlan, PolicyFails, PolicyAnswers, Asking
<1>2. /\ UNCHANGED <<input, basis, target, final, answer>>
      /\ node' \in {"generate_candidate", "validate_candidate"}
      /\ attempt' \in {attempt, attempt + 1}
    BY <1>1 DEF GenerateBySolver, ReuseBasePlan, PolicyFails, PolicyAnswers, Propose
<1>3. attempt' \in Nat
    BY <1>1, <1>2
<1> QED
    BY <1>1, <1>2, <1>3 DEF ControlInv, Mutated, NoFinal, OfACase, GraphNodes

LEMMA ValidateControl ==
    ASSUME ControlInv, ValidateCandidate
    PROVE  ControlInv'
<1>1. /\ OfACase /\ NoFinal /\ answer = None /\ attempt \in Nat /\ Mutated
      /\ UNCHANGED <<input, basis, target, answer, candidate, attempt>>
    BY DEF ControlInv, ValidateCandidate
<1>2. OfACase' /\ Mutated' /\ answer' = None /\ attempt' \in Nat
    BY <1>1 DEF OfACase, Mutated
<1>3. CASE candidateVerdict' = "passed"
  <2>1. candidate # None /\ Passed(target, candidate)
    BY <1>3, VerdictMeans DEF ValidateCandidate
  <2>2. Chosen' /\ node' = "compose_response"
    BY <1>1, <1>2, <1>3, <2>1 DEF ValidateCandidate, Chosen, Settle
  <2> QED
    BY <1>2, <2>2 DEF ControlInv, GraphNodes
<1>4. CASE candidateVerdict' # "passed"
    BY <1>1, <1>2, <1>4 DEF ValidateCandidate, ControlInv, NoFinal, GraphNodes
<1> QED
    BY <1>3, <1>4

LEMMA RepairControl ==
    ASSUME ControlInv, RepairCandidate
    PROVE  ControlInv'
<1>1. /\ OfACase /\ NoFinal /\ answer = None /\ attempt \in Nat /\ Mutated
      /\ candidateVerdict # "passed"
      /\ UNCHANGED <<input, basis, target, answer, candidate, candidateVerdict, attempt>>
    BY DEF ControlInv, RepairCandidate
<1>2. OfACase' /\ Mutated' /\ answer' = None /\ attempt' \in Nat /\ candidateVerdict' # "passed"
    BY <1>1 DEF OfACase, Mutated
<1>3. CASE repairedVerdict' = "passed"
  <2>1. repaired' # None /\ Passed(target, repaired')
    BY <1>3, VerdictMeans DEF RepairCandidate
  <2>2. Chosen' /\ node' = "compose_response"
    BY <1>1, <1>2, <1>3, <2>1 DEF RepairCandidate, Chosen, Settle
  <2> QED
    BY <1>2, <2>2 DEF ControlInv, GraphNodes
<1>4. CASE repairedVerdict' # "passed"
    BY <1>1, <1>2, <1>4 DEF RepairCandidate, ControlInv, NoFinal, GraphNodes
<1> QED
    BY <1>3, <1>4

LEMMA FallbackControl ==
    ASSUME ControlInv, SolverFallback
    PROVE  ControlInv'
<1>1. /\ OfACase /\ NoFinal /\ answer = None /\ attempt \in Nat /\ Mutated
      /\ candidateVerdict # "passed" /\ repairedVerdict # "passed"
      /\ UNCHANGED <<input, basis, target, answer, proposal, mended, attempt>>
      /\ node' = "compose_response"
    BY DEF ControlInv, SolverFallback
<1>2. /\ OfACase' /\ Mutated' /\ answer' = None /\ attempt' \in Nat
      /\ candidateVerdict' # "passed" /\ repairedVerdict' # "passed"
    BY <1>1 DEF OfACase, Mutated
<1>3. PICK plan \in EngineResults(target) :
         /\ fallbackVerdict' = Verdict(target, plan)
         /\ IF plan = None THEN UNCHANGED final
              ELSE Settle(plan, Verdict(target, plan), "solver_fallback")
    BY DEF SolverFallback
<1>4. errors' = (errors \/ fallbackVerdict' # "passed")
    BY DEF SolverFallback
<1>5. CASE plan = None
  <2>1. Exhausted'
    BY <1>1, <1>2, <1>3, <1>4, <1>5, VerdictMeans DEF Exhausted, NoFinal
  <2> QED
    BY <1>1, <1>2, <2>1 DEF ControlInv, GraphNodes
<1>6. CASE plan # None
  <2>1. plan.scenario = target.id
    BY <1>1, <1>6, EnginesNameScenario
  <2>2. CASE Passed(target, plan)
    <3>1. Chosen'
      BY <1>1, <1>2, <1>3, <1>6, <2>2, VerdictMeans DEF Chosen, Settle
    <3> QED
      BY <1>1, <1>2, <3>1 DEF ControlInv, GraphNodes
  <2>3. CASE ~Passed(target, plan)
    <3>1. Exhausted'
      BY <1>1, <1>2, <1>3, <1>4, <1>6, <2>1, <2>3, VerdictMeans DEF Exhausted, Settle
    <3> QED
      BY <1>1, <1>2, <3>1 DEF ControlInv, GraphNodes
  <2> QED
    BY <2>2, <2>3
<1> QED
    BY <1>5, <1>6

LEMMA ComposeControl ==
    ASSUME ControlInv, ComposeResponse
    PROVE  ControlInv'
<1>1. /\ OfACase /\ attempt \in Nat /\ node' = "end"
      /\ UNCHANGED <<input, basis, target, loop, proposal, mended, fallbackVerdict, final, errors>>
      /\ NotUnderstood \/ NoBase \/ Chosen \/ Exhausted
    BY DEF ControlInv, ComposeResponse
<1>2. OfACase' /\ (NotUnderstood' \/ NoBase' \/ Chosen' \/ Exhausted')
    BY <1>1 DEF OfACase, NotUnderstood, NoBase, Chosen, Exhausted, Mutated, NoFinal
<1>3. Composed'
    BY DEF ComposeResponse, Composed
<1> QED
    BY <1>1, <1>2, <1>3 DEF ControlInv

LEMMA NextControl == ControlInv /\ [WorkflowNext]_workflowVars => ControlInv'
<1> SUFFICES ASSUME ControlInv, [WorkflowNext]_workflowVars PROVE ControlInv'
    OBVIOUS
<1>1. CASE WorkflowStep
    BY <1>1, ExtractControl, SolveBaseControl, ApplyControl, GenerateControl, ValidateControl,
       RepairControl, FallbackControl, ComposeControl DEF WorkflowStep
<1>2. CASE Return
    BY <1>2, ReturnControl
<1>3. CASE \E case \in Cases : Invoke(case)
    BY <1>3, InvokeControl
<1>4. CASE UNCHANGED workflowVars
    BY <1>4 DEF workflowVars, ControlInv, OfACase, NotUnderstood, NoBase, Chosen, Exhausted, Mutated,
                NoFinal, Composed
<1> QED
    BY <1>1, <1>2, <1>3, <1>4 DEF WorkflowNext

LEMMA Control == WorkflowSpec => []ControlInv
    BY InitControl, NextControl, PTL DEF WorkflowSpec

-----------------------------------------------------------------------------
Understood == event \in Events \cup {None} /\ node \in GraphNodes \cup {"idle", "end"}

\* The verdicts are those of validate_plan, and the loop counts from 0 up to
\* MaxRetries.
CountInv ==
    /\ WorkflowTypeOK
    /\ node \in {"idle", "extract_event", "solve_base", "apply_event"} => attempt = 0
    /\ node = "generate_candidate" => attempt <= MaxRetries

LEMMA VerdictsAre == \A s, p : Verdict(s, p) \in Verdicts
  BY DEF Verdict, Verdicts

LEMMA UnderstoodByControl == ControlInv => Understood
<1> SUFFICES ASSUME ControlInv PROVE Understood
  OBVIOUS
<1>1. node \in GraphNodes \cup {"idle", "end"}
  BY DEF ControlInv
<1>2. CASE node \in {"idle", "extract_event", "solve_base", "apply_event"}
  BY <1>1, <1>2 DEF ControlInv, Understood
<1>3. CASE node \in {"generate_candidate", "validate_candidate", "repair_candidate", "solver_fallback"}
  BY <1>1, <1>3 DEF ControlInv, Understood, Mutated
<1>4. CASE node \in {"compose_response", "end"}
  <2>1. NotUnderstood \/ NoBase \/ Chosen \/ Exhausted
    BY <1>4 DEF ControlInv
  <2> QED
    BY <1>1, <2>1 DEF Understood, NotUnderstood, NoBase, Chosen, Exhausted, Mutated
<1> QED
  BY <1>1, <1>2, <1>3, <1>4 DEF GraphNodes

LEMMA InitCount == WorkflowInit => CountInv
<1>1. None \in Sources \ {"context_window"} /\ MaxRetries \in Nat
  BY RetriesAssumption, NoneAssumption DEF Sources
<1>2. WorkflowInit => attempt = 0 /\ node = "idle" /\ source = None
  BY DEF WorkflowInit
<1>3. ASSUME WorkflowInit PROVE WorkflowTypeOK
  <2>1. /\ attempt \in 0..(MaxRetries + 1)
        /\ source \in Sources \ {"context_window"}
    BY <1>1, <1>2, <1>3
  <2>2. /\ node = "idle" /\ scenario = None /\ text = None /\ context = FALSE /\ event = None
        /\ baseVerdict = "none" /\ candidateVerdict = "none" /\ repairedVerdict = "none"
        /\ finalVerdict = "none" /\ fallbackVerdict = "not run" /\ errors = FALSE /\ answer = None
    BY <1>3 DEF WorkflowInit
  <2> QED
    BY <2>1, <2>2 DEF WorkflowTypeOK, Verdicts
<1> QED
  BY <1>1, <1>2, <1>3 DEF CountInv

LEMMA NextCount == Understood' /\ CountInv /\ [WorkflowNext]_workflowVars => CountInv'
<1> SUFFICES ASSUME Understood', CountInv, [WorkflowNext]_workflowVars PROVE CountInv'
  OBVIOUS
<1> DEFINE
      Input == scenario \in Scenarios \cup {None} /\ text \in Texts \cup {None} /\ context \in BOOLEAN
      Judged == /\ baseVerdict \in Verdicts /\ candidateVerdict \in Verdicts
                /\ repairedVerdict \in Verdicts /\ finalVerdict \in Verdicts
                /\ fallbackVerdict \in Verdicts \cup {"not run"}
      Noted == source \in Sources \ {"context_window"} /\ errors \in BOOLEAN
      Counted == /\ attempt \in 0..(MaxRetries + 1)
                 /\ node \in {"idle", "extract_event", "solve_base", "apply_event"} => attempt = 0
                 /\ node = "generate_candidate" => attempt <= MaxRetries
      Told == answer \in {None} \cup [succeeded : BOOLEAN, source : Sources]
<1>1. node' \in GraphNodes \cup {"idle", "end"} /\ (event \in Events \cup {None})'
  BY DEF Understood
<1>2. (Input /\ Judged /\ Noted /\ Counted /\ Told)' => CountInv'
  BY <1>1 DEF CountInv, WorkflowTypeOK
<1>3. Input /\ Judged /\ Noted /\ Counted /\ Told
  BY DEF CountInv, WorkflowTypeOK
<1>4. MaxRetries \in Nat
  BY RetriesAssumption
<1>5. {"none", "passed", "failed"} = Verdicts
  BY DEF Verdicts
<1>6. {"candidate", "candidate_repaired", "solver_fallback", None} \subseteq Sources \ {"context_window"}
  BY NoneAssumption DEF Sources
<1> HIDE DEF Input, Judged, Noted, Counted, Told
<1>7. CASE ExtractEvent \/ SolveBase \/ ApplyEventNode
  <2>1. Input' /\ Told' /\ Noted'
    BY <1>3, <1>7 DEF ExtractEvent, SolveBase, ApplyEventNode, Input, Told, Noted
  <2>2. Judged'
    BY <1>3, <1>7, VerdictsAre DEF ExtractEvent, SolveBase, ApplyEventNode, Judged
  <2>3. Counted'
    BY <1>3, <1>4, <1>7 DEF ExtractEvent, SolveBase, ApplyEventNode, Counted
  <2> QED
    BY <1>2, <2>1, <2>2, <2>3
<1>8. CASE GenerateBySolver \/ ReuseBasePlan \/ PolicyFails \/ \E a \in PolicyTexts : PolicyAnswers(a)
  <2>1. Input' /\ Told' /\ Judged'
    BY <1>3, <1>8 DEF GenerateBySolver, ReuseBasePlan, PolicyFails, PolicyAnswers, Input, Told, Judged
  <2>2. Noted'
    BY <1>3, <1>8 DEF GenerateBySolver, ReuseBasePlan, PolicyFails, PolicyAnswers, Propose, Noted
  <2>3. Counted'
    <3>1. CASE GenerateBySolver \/ ReuseBasePlan \/ PolicyFails
      BY <1>3, <1>4, <3>1 DEF GenerateBySolver, ReuseBasePlan, PolicyFails, Asking, Propose, Counted
    <3>2. ASSUME NEW a \in PolicyTexts, PolicyAnswers(a)
          PROVE  Counted'
      <4>1. /\ node = "generate_candidate" /\ attempt' = attempt + 1
            /\ node' = "validate_candidate" \/ (node' = node /\ ~(attempt' > MaxRetries))
        BY <3>2 DEF PolicyAnswers, Asking, Propose
      <4> QED
        BY <1>3, <1>4, <4>1 DEF Counted
    <3> QED
      BY <1>8, <3>1, <3>2
  <2> QED
    BY <1>2, <2>1, <2>2, <2>3
<1>9. CASE ValidateCandidate \/ RepairCandidate \/ SolverFallback
  <2>1. Input' /\ Told'
    BY <1>3, <1>9 DEF ValidateCandidate, RepairCandidate, SolverFallback, Input, Told
  <2>2. Noted'
    <3>1. errors' \in BOOLEAN
      BY <1>3, <1>9 DEF ValidateCandidate, RepairCandidate, SolverFallback, Noted
    <3>2. source' \in {source, "candidate", "candidate_repaired", "solver_fallback"}
      BY <1>9 DEF ValidateCandidate, RepairCandidate, SolverFallback, Settle
    <3> QED
      BY <1>3, <1>6, <3>1, <3>2 DEF Noted
  <2>3. Judged'
    <3>1. CASE ValidateCandidate
      BY <1>3, <1>5, <3>1, VerdictsAre DEF ValidateCandidate, Settle, Judged
    <3>2. CASE RepairCandidate
      BY <1>3, <1>5, <3>2, VerdictsAre DEF RepairCandidate, Settle, Judged
    <3>3. CASE SolverFallback
      BY <1>3, <1>5, <3>3, VerdictsAre DEF SolverFallback, Settle, Judged
    <3> QED
      BY <1>9, <3>1, <3>2, <3>3
  <2>4. Counted'
    BY <1>3, <1>4, <1>9 DEF ValidateCandidate, RepairCandidate, SolverFallback, Settle, Counted
  <2> QED
    BY <1>2, <2>1, <2>2, <2>3, <2>4
<1>10. CASE ComposeResponse
  <2>1. Input' /\ Judged' /\ Noted'
    BY <1>3, <1>10 DEF ComposeResponse, Input, Judged, Noted
  <2>2. Counted'
    BY <1>3, <1>4, <1>10 DEF ComposeResponse, Counted
  <2>3. Told'
    <3>1. source \in Sources /\ "context_window" \in Sources
      BY <1>3 DEF Noted, Sources
    <3>2. \A succeeded \in BOOLEAN, from \in Sources :
            Response(succeeded, from) \in [succeeded : BOOLEAN, source : Sources]
      BY DEF Response
    <3>3. (finalPlan # None /\ finalVerdict = "passed") \in BOOLEAN
      OBVIOUS
    <3> QED
      BY <1>10, <3>1, <3>2, <3>3 DEF ComposeResponse, Told
  <2> QED
    BY <1>2, <2>1, <2>2, <2>3
<1>11. CASE Return
  <2>1. Input' /\ Judged' /\ Noted' /\ Told'
    BY <1>5, <1>6, <1>11 DEF Return, Cleared, Input, Judged, Noted, Told
  <2>2. Counted'
    <3>1. attempt' = 0 /\ node' = "idle"
      BY <1>11 DEF Return, Cleared
    <3> QED
      BY <1>4, <3>1 DEF Counted
  <2> QED
    BY <1>2, <2>1, <2>2
<1>12. ASSUME NEW case \in Cases, Invoke(case)
       PROVE  CountInv'
  <2>1. Judged' /\ Noted' /\ Told' /\ Counted'
    BY <1>3, <1>4, <1>12 DEF Invoke, Judged, Noted, Told, Counted
  <2>2. Input'
    BY <1>12, CasesAssumption DEF Invoke, Input, Scenarios, Texts
  <2> QED
    BY <1>2, <2>1, <2>2
<1>13. CASE UNCHANGED workflowVars
  BY <1>2, <1>3, <1>13 DEF workflowVars, Input, Judged, Noted, Counted, Told
<1> QED
  BY <1>7, <1>8, <1>9, <1>10, <1>11, <1>12, <1>13 DEF WorkflowNext, WorkflowStep

\* What the workflow's variables hold; in particular the policy is asked once more
\* than there are retries, at most.
THEOREM WorkflowTypes == WorkflowSpec => []WorkflowTypeOK
<1>1. CountInv => WorkflowTypeOK
  BY DEF CountInv
<1> QED
  BY <1>1, Control, UnderstoodByControl, InitCount, NextCount, PTL DEF WorkflowSpec

-----------------------------------------------------------------------------
\* A failure has an error to report, and a run that understood the event and had a
\* base plan reports it only after candidate, repair and solver have failed.
THEOREM FailureExplained == WorkflowSpec => []FailureIsExplicit
<1>1. ControlInv => FailureIsExplicit
  <2>1. SUFFICES ASSUME ControlInv, answer # None, ~answer.succeeded
                 PROVE  /\ errors
                        /\ \/ event = None
                           \/ baseVerdict # "passed"
                           \/ /\ candidateVerdict # "passed" /\ repairedVerdict # "passed"
                              /\ fallbackVerdict \in {"none", "failed"}
    BY DEF FailureIsExplicit
  <2>2. Composed /\ (NotUnderstood \/ NoBase \/ Chosen \/ Exhausted)
    BY <2>1 DEF ControlInv
  <2>3. ~Chosen
    <3>1. ASSUME Chosen PROVE answer.succeeded
      <4>1. event # None
        BY <3>1, NoEventAssumption DEF Chosen, Mutated
      <4> QED
        BY <2>2, <3>1, <4>1 DEF Composed, Response, Chosen
    <3> QED
      BY <2>1, <3>1
  <2> QED
    BY <2>2, <2>3 DEF NotUnderstood, NoBase, Exhausted
<1> QED
  BY <1>1, Control, PTL

LEMMA StepsOnward ==
    ASSUME ControlInv, WorkflowNext, node \in GraphNodes
    PROVE  Onward
<1>1. attempt \in Nat /\ MaxRetries \in Nat
  BY RetriesAssumption DEF ControlInv
<1>2. WorkflowStep
  BY DEF WorkflowNext, Return, Invoke, GraphNodes
<1>3. CASE ExtractEvent \/ SolveBase \/ ApplyEventNode
  BY <1>3 DEF ExtractEvent, SolveBase, ApplyEventNode, Onward, ToGo
<1>4. CASE GenerateBySolver \/ ReuseBasePlan \/ PolicyFails
  BY <1>4 DEF GenerateBySolver, ReuseBasePlan, PolicyFails, Asking, Propose, Onward, ToGo
<1>5. ASSUME NEW a \in PolicyTexts, PolicyAnswers(a)
      PROVE  Onward
  <2>1. node = "generate_candidate" /\ attempt' = attempt + 1
    BY <1>5 DEF PolicyAnswers, Asking
  <2>2. CASE node' = "validate_candidate"
    BY <2>1, <2>2 DEF Onward, ToGo
  <2>3. CASE node' # "validate_candidate"
    <3>1. node' = node /\ ~(attempt' > MaxRetries)
      BY <1>5, <2>3 DEF PolicyAnswers, Propose
    <3> QED
      BY <1>1, <2>1, <3>1 DEF Onward
  <2> QED
    BY <2>2, <2>3
<1>6. CASE ValidateCandidate
  BY <1>6 DEF ValidateCandidate, Onward, ToGo
<1>7. CASE RepairCandidate
  BY <1>7 DEF RepairCandidate, Onward, ToGo
<1>8. CASE SolverFallback
  BY <1>8 DEF SolverFallback, Onward, ToGo
<1>9. CASE ComposeResponse
  BY <1>9 DEF ComposeResponse, Onward, ToGo
<1> QED
  BY <1>2, <1>3, <1>4, <1>5, <1>6, <1>7, <1>8, <1>9 DEF WorkflowStep

\* A run that has begun goes from node to node towards its end: no node comes twice,
\* but for a policy asked again, which happens MaxRetries times at most.
THEOREM RunsWindDown == WorkflowSpec => RunWindsDown
<1>1. ControlInv /\ [WorkflowNext]_workflowVars => [(node \in GraphNodes) => Onward]_workflowVars
  BY StepsOnward
<1> QED
  BY <1>1, Control, PTL DEF WorkflowSpec, RunWindsDown

-----------------------------------------------------------------------------
\* The scenario after an event has the id that spells the event out.
LEMMA TargetNamesEvent ==
    ASSUME OfACase, Mutated
    PROVE  target.id = Append(scenario.id, Tag(event)) /\ Tag(event) \in EventTags
<1>1. "id" \in DOMAIN scenario
  BY CaseFacts DEF OfACase, ScenarioFields
<1>2. target.id = Append(scenario.id, Tag(event))
  BY <1>1 DEF Mutated, ApplyEvent
<1> QED
  BY <1>2 DEF Mutated, EventTags

\* A plan that passes is one for the scenario it passes in.
LEMMA PassedIsForScenario ==
    ASSUME NEW s, NEW p, Passed(s, p)
    PROVE  p.scenario = s.id
<1>1. "scenario_mismatch" \in Codes
  BY DEF Codes
<1>2. Found(s, p)["scenario_mismatch"] = (p.scenario # s.id)
  BY DEF Found
<1> QED
  BY <1>1, <1>2 DEF Passed, Violations

\* At its end a run has one of the outcomes of the contract.
LEMMA EndsWithOutcome ==
    ASSUME OfACase, Composed, NotUnderstood \/ NoBase \/ Chosen \/ Exhausted
    PROVE  Replied \in Contract!Outcomes(scenario.id, context)
<1>1. OwnPlan = IF finalPlan = None THEN None
                ELSE [scenario |-> finalPlan.scenario, valid |-> Passed(target, finalPlan)]
  BY DEF OwnPlan
<1>2. context \in BOOLEAN
  BY CasesAssumption DEF OfACase
<1>3. ASSUME NEW succeeded \in BOOLEAN, NEW from \in Sources
      PROVE  /\ Response(succeeded, from) # None
             /\ Response(succeeded, from).succeeded = succeeded
             /\ Response(succeeded, from).source = from
  BY NoneAssumption DEF Response
<1>4. None # "context_window"
  BY NoneAssumption
<1>5. CASE NotUnderstood
  <2>1. CASE context
    <3>1. Replied = Contract!FollowedUp
      BY <1>3, <1>5, <2>1 DEF Composed, NotUnderstood, Replied, Contract!FollowedUp, Sources
    <3> QED
      BY <2>1, <3>1 DEF Contract!Outcomes
  <2>2. CASE ~context
    <3>1. answer = Response(FALSE, None)
      BY <1>5, <2>2 DEF Composed, NotUnderstood, NoFinal
    <3>2. Replied = Contract!Failed(None, None)
      BY <1>1, <1>3, <1>4, <1>5, <3>1 DEF NotUnderstood, NoFinal, Replied, Contract!Failed, Sources
    <3> QED
      BY <2>2, <3>2 DEF Contract!Outcomes
  <2> QED
    BY <1>2, <2>1, <2>2
<1>6. ASSUME event \in Events, NEW from \in Sources \ {"context_window"}, source = from
      PROVE  /\ event # None /\ Tag(event) \in EventTags
             /\ Replied = [succeeded |-> (finalPlan # None /\ finalVerdict = "passed"),
                           source |-> "workflow", event |-> Tag(event), plan |-> OwnPlan]
  <2>1. event # None /\ Tag(event) \in EventTags
    BY <1>6, NoEventAssumption DEF EventTags
  <2>2. answer = Response(finalPlan # None /\ finalVerdict = "passed", from)
    BY <1>6, <2>1 DEF Composed
  <2>3. /\ answer # None /\ answer.source = from /\ from # "context_window"
        /\ answer.succeeded = (finalPlan # None /\ finalVerdict = "passed")
    BY <1>3, <1>6, <2>2
  <2> QED
    BY <2>1, <2>3 DEF Replied
<1>7. CASE NoBase
  <2>1. /\ Tag(event) \in EventTags
        /\ Replied = [succeeded |-> FALSE, source |-> "workflow", event |-> Tag(event), plan |-> None]
    BY <1>1, <1>4, <1>6, <1>7 DEF NoBase, NoFinal, Sources
  <2>2. Replied = Contract!Failed(Tag(event), None)
    BY <2>1 DEF Contract!Failed
  <2> QED
    BY <2>1, <2>2 DEF Contract!Outcomes
<1>8. CASE Chosen
  <2>1. Tag(event) \in EventTags /\ target.id = Append(scenario.id, Tag(event))
    BY <1>8, TargetNamesEvent DEF Chosen
  <2>2. OwnPlan = Contract!PlanFor(Append(scenario.id, Tag(event)), TRUE)
    BY <1>1, <1>8, <2>1, PassedIsForScenario DEF Chosen, Contract!PlanFor
  <2>3. Replied = [succeeded |-> TRUE, source |-> "workflow", event |-> Tag(event), plan |-> OwnPlan]
    BY <1>4, <1>6, <1>8 DEF Chosen, Mutated, Sources
  <2>4. Replied = Contract!Replanned(scenario.id, Tag(event))
    BY <2>2, <2>3 DEF Contract!Replanned
  <2> QED
    BY <2>1, <2>4 DEF Contract!Outcomes
<1>9. CASE Exhausted
  <2>1. Tag(event) \in EventTags /\ target.id = Append(scenario.id, Tag(event))
    BY <1>9, TargetNamesEvent DEF Exhausted
  <2>2. Replied = [succeeded |-> FALSE, source |-> "workflow", event |-> Tag(event), plan |-> OwnPlan]
    BY <1>4, <1>6, <1>9 DEF Exhausted, Mutated, NoFinal, Sources
  <2>3. \/ OwnPlan = None
        \/ OwnPlan = Contract!PlanFor(Append(scenario.id, Tag(event)), FALSE)
    <3>1. CASE NoFinal
      BY <1>1, <3>1 DEF NoFinal
    <3>2. CASE ~NoFinal
      <4>1. /\ finalPlan # None /\ finalPlan.scenario = target.id
            /\ Passed(target, finalPlan) = FALSE
        BY <1>9, <3>2 DEF Exhausted, Passed
      <4> QED
        BY <1>1, <2>1, <4>1 DEF Contract!PlanFor
    <3> QED
      BY <3>1, <3>2
  <2>4. \/ Replied = Contract!Failed(Tag(event), None)
        \/ Replied = Contract!Failed(Tag(event),
                        Contract!PlanFor(Append(scenario.id, Tag(event)), FALSE))
    BY <2>2, <2>3 DEF Contract!Failed
  <2> QED
    BY <2>1, <2>4 DEF Contract!Outcomes
<1> QED
  BY <1>5, <1>7, <1>8, <1>9

\* What the caller of a run that has ended is given.
AnsweredInv == node = "end" => Replied \in Contract!Outcomes(scenario.id, context)

LEMMA AnsweredByControl == ControlInv => AnsweredInv
  BY EndsWithOutcome DEF ControlInv, AnsweredInv

\* An outcome is an answer.
LEMMA OutcomesAnswer ==
    ASSUME OfACase, NEW reply \in Contract!Outcomes(scenario.id, context)
    PROVE  reply # None
<1>1. scenario.id \in FirstIds
  BY CaseFacts DEF OfACase
<1>2. \A tag \in EventTags, valid \in BOOLEAN :
        Contract!PlanFor(Append(scenario.id, tag), valid) \in
            [scenario : {Append(id, t) : id \in FirstIds, t \in EventTags}, valid : BOOLEAN]
  BY <1>1 DEF Contract!PlanFor
<1>3. reply \in [succeeded : BOOLEAN, source : {"workflow", "context_window"},
                 event : EventTags \cup {None},
                 plan : {None} \cup [scenario : {Append(id, tag) : id \in FirstIds, tag \in EventTags},
                                     valid : BOOLEAN]]
  <2> DEFINE Plans == {None} \cup [scenario : {Append(id, tag) : id \in FirstIds, tag \in EventTags},
                                   valid : BOOLEAN]
  <2>1. \A s \in BOOLEAN, o \in {"workflow", "context_window"}, e \in EventTags \cup {None}, p \in Plans :
          [succeeded |-> s, source |-> o, event |-> e, plan |-> p] \in
            [succeeded : BOOLEAN, source : {"workflow", "context_window"},
             event : EventTags \cup {None}, plan : Plans]
    OBVIOUS
  <2>2. \A tag \in EventTags, valid \in BOOLEAN :
          Contract!PlanFor(Append(scenario.id, tag), valid) \in Plans
    BY <1>2
  <2> HIDE DEF Plans
  <2>3. None \in Plans
    BY DEF Plans
  <2>4. PICK s \in BOOLEAN, o \in {"workflow", "context_window"}, e \in EventTags \cup {None}, p \in Plans :
          reply = [succeeded |-> s, source |-> o, event |-> e, plan |-> p]
    <3>1. CASE reply \in {Contract!Replanned(scenario.id, tag) : tag \in EventTags}
      BY <2>2, <3>1 DEF Contract!Replanned
    <3>2. CASE reply \in {Contract!Failed(tag, None) : tag \in EventTags}
      BY <2>3, <3>2 DEF Contract!Failed
    <3>3. CASE reply \in {Contract!Failed(tag, Contract!PlanFor(Append(scenario.id, tag), FALSE)) : tag \in EventTags}
      BY <2>2, <3>3 DEF Contract!Failed
    <3>4. CASE reply = Contract!FollowedUp \/ reply = Contract!Failed(None, None)
      BY <2>3, <3>4 DEF Contract!FollowedUp, Contract!Failed
    <3> QED
      BY <3>1, <3>2, <3>3, <3>4 DEF Contract!Outcomes
  <2> QED
    BY <2>1, <2>4 DEF Plans
<1> QED
  BY <1>3, NoneAssumption

LEMMA InitAsks == WorkflowInit => Contract!ContractInit
  BY DEF WorkflowInit, Contract!ContractInit, Asked, Replied

LEMMA StepKeepsContract ==
    ASSUME ControlInv, AnsweredInv', [WorkflowNext]_workflowVars
    PROVE  [Contract!ContractNext]_(Contract!contractVars)
<1>1. ASSUME node # "idle", node' # "idle", UNCHANGED input, answer = None, answer' = None
      PROVE  UNCHANGED Contract!contractVars
  BY <1>1 DEF Contract!contractVars, Asked, Replied
<1>2. CASE ExtractEvent \/ SolveBase \/ ApplyEventNode \/ GenerateBySolver \/ ReuseBasePlan
           \/ (\E a \in PolicyTexts : PolicyAnswers(a)) \/ PolicyFails
           \/ ValidateCandidate \/ RepairCandidate \/ SolverFallback
  <2>1. node \in GraphNodes /\ node' \in GraphNodes /\ UNCHANGED <<input, answer>>
    BY <1>2 DEF ExtractEvent, SolveBase, ApplyEventNode, GenerateBySolver, ReuseBasePlan, PolicyAnswers,
                PolicyFails, ValidateCandidate, RepairCandidate, SolverFallback, Asking, Propose, GraphNodes
  <2>2. answer = None
    BY <2>1 DEF ControlInv, GraphNodes
  <2> QED
    BY <1>1, <2>1, <2>2 DEF GraphNodes
<1>3. CASE ComposeResponse
  <2>1. /\ node = "compose_response" /\ node' = "end" /\ UNCHANGED input /\ answer = None
    BY <1>3 DEF ComposeResponse, ControlInv
  <2>2. Replied' \in Contract!Outcomes(scenario.id, context)
    BY <2>1 DEF AnsweredInv, Contract!Outcomes
  <2>3. /\ Asked = [id |-> scenario.id, context |-> context] /\ Asked' = Asked
        /\ Replied = None
    BY <2>1 DEF Asked, Replied
  <2>4. OfACase
    BY <1>3 DEF ComposeResponse, ControlInv
  <2>5. Asked # None /\ Asked.id = scenario.id /\ Asked.context = context
    <3>1. scenario.id \in FirstIds /\ context \in BOOLEAN
      BY <2>4, CaseFacts, CasesAssumption DEF OfACase
    <3> QED
      BY <2>3, <3>1, NoneAssumption
  <2>6. Contract!Reply
    BY <2>2, <2>3, <2>5 DEF Contract!Reply
  <2> QED
    BY <2>6 DEF Contract!ContractNext
<1>4. CASE Return
  <2>1. /\ node = "end" /\ node' = "idle" /\ answer' = None /\ OfACase /\ Composed
        /\ NotUnderstood \/ NoBase \/ Chosen \/ Exhausted
    BY <1>4 DEF Return, Cleared, ControlInv
  <2>2. Replied # None
    BY <2>1, EndsWithOutcome, OutcomesAnswer
  <2>3. Asked' = None /\ Replied' = None
    BY <2>1 DEF Asked, Replied
  <2>4. Contract!Close
    BY <2>2, <2>3 DEF Contract!Close
  <2> QED
    BY <2>4 DEF Contract!ContractNext
<1>5. ASSUME NEW case \in Cases, Invoke(case)
      PROVE  Contract!ContractNext
  <2>1. /\ node = "idle" /\ node' = "extract_event" /\ answer = None /\ answer' = None
        /\ scenario' = case.scenario /\ context' = case.context
    BY <1>5 DEF Invoke, ControlInv
  <2>2. Asked = None /\ Asked' = [id |-> case.scenario.id, context |-> case.context]
    BY <2>1 DEF Asked
  <2>3. Asked' # None
    <3>1. case.scenario.id \in FirstIds /\ case.context \in BOOLEAN
      BY CaseFacts, CasesAssumption
    <3> QED
      BY <2>2, <3>1, NoneAssumption
  <2>4. Replied = None /\ Replied' = None
    BY <2>1 DEF Replied
  <2>5. Contract!Ask
    BY <2>2, <2>3, <2>4 DEF Contract!Ask
  <2> QED
    BY <2>5 DEF Contract!ContractNext
<1>6. CASE UNCHANGED workflowVars
  BY <1>6 DEF workflowVars, Contract!contractVars, Asked, Replied, OwnPlan
<1> QED
  BY <1>2, <1>3, <1>4, <1>5, <1>6 DEF WorkflowNext, WorkflowStep

\* The workflow implements its contract: a caller is answered once, with a plan that
\* passes validation in the scenario after the event, or with an explicit failure, or
\* out of the context window if there is one.
THEOREM RefinesContract == WorkflowSpec => KeepsContract
<1>1. ControlInv /\ AnsweredInv' /\ [WorkflowNext]_workflowVars
        => [Contract!ContractNext]_(Contract!contractVars)
  BY StepKeepsContract
<1> QED
  BY <1>1, InitAsks, Control, AnsweredByControl, PTL DEF WorkflowSpec, KeepsContract, Contract!ContractSpec

-----------------------------------------------------------------------------
(* The plans of a run.                                                     *)

\* No plan, or one.
PlanOrNone(p) == p = None \/ (IsPlan(p) /\ DOMAIN p = {"scenario", "routes"})

\* Every plan a run holds is one validate_plan was made for; the verdict on the base
\* plan is on the base plan of this run, and the repaired plan is the candidate's repair;
\* the event is about nodes of the scenario.
PlansInv ==
    /\ baseVerdict = Verdict(scenario, basePlan)
    /\ \A p \in {basePlan, lastPlan, candidate, repaired, finalPlan} : PlanOrNone(p)
    /\ node \in {"idle", "extract_event", "solve_base"} => basePlan = None
    /\ node \notin {"solver_fallback", "compose_response", "end"} => repaired = None
    /\ repaired # None => candidate # None /\ repaired = Repair(target, candidate)
    /\ event # None => About(scenario, event)

LEMMA ScenariosAre ==
    ASSUME OfACase
    PROVE  /\ scenario \in Solvable /\ IsScenario(scenario) /\ DOMAIN scenario = ScenarioFields
           /\ Mutated => target \in Solvable /\ IsScenario(target)
<1>1. scenario \in Scenarios /\ IsScenario(scenario) /\ DOMAIN scenario = ScenarioFields
  BY CaseFacts DEF OfACase
<1>2. ASSUME Mutated PROVE target \in Solvable /\ IsScenario(target)
  BY <1>1, <1>2, EventKeepsScenario DEF Mutated, Solvable
<1> QED
  BY <1>1, <1>2 DEF Solvable

\* What an engine returns for a scenario it is given is a plan, or none.
LEMMA EnginesPlan ==
    ASSUME NEW s \in Solvable, IsScenario(s), NEW plan \in EngineResults(s)
    PROVE  PlanOrNone(plan)
<1>1. CASE plan \in PyomoPlans[s]
  <2>1. PICK x \in Solutions(s) : plan = Extract(s, x)
    BY <1>1 DEF PyomoPlans, SolverPlans
  <2>2. DOMAIN plan = {"scenario", "routes"}
    BY <2>1 DEF Extract
  <2> QED
    BY <2>1, <2>2, ExtractIsPlan DEF PlanOrNone
<1>2. CASE plan \in {[scenario |-> s.id, routes |-> r] : r \in OtherRoutes}
  <2>1. PICK r \in OtherRoutes : plan = [scenario |-> s.id, routes |-> r]
    BY <1>2
  <2>2. plan.routes = r /\ DOMAIN plan = {"scenario", "routes"}
    BY <2>1
  <2> QED
    BY <2>2, RoutesAssumption DEF IsPlan, PlanOrNone
<1> QED
  BY <1>1, <1>2 DEF EngineResults, PlanOrNone

LEMMA InitPlans == WorkflowInit => PlansInv
<1> SUFFICES ASSUME WorkflowInit PROVE PlansInv
  OBVIOUS
<1> QED
  BY DEF WorkflowInit, PlansInv, PlanOrNone, Verdict

\* A draft is the plan of an answer, or the one drafted before.
LEMMA DraftsPlan ==
    ASSUME PlanOrNone(lastPlan), NEW a \in PolicyTexts
    PROVE  PlanOrNone(Drafted(a))
<1>1. CASE a # None
  <2>1. a \in Answers
    BY <1>1 DEF PolicyTexts
  <2>2. IsPlan(Built(target, a))
    BY <2>1, RoutesAssumption, BuiltIsPlan
  <2>3. DOMAIN Built(target, a) = {"scenario", "routes"}
    BY DEF Built
  <2> QED
    BY <2>2, <2>3 DEF Drafted, PlanOrNone
<1> QED
  BY <1>1 DEF Drafted

LEMMA NextPlans == ControlInv /\ PlansInv /\ [WorkflowNext]_workflowVars => PlansInv'
<1> SUFFICES ASSUME ControlInv, PlansInv, [WorkflowNext]_workflowVars PROVE PlansInv'
  OBVIOUS
<1> DEFINE Judged == baseVerdict = Verdict(scenario, basePlan) /\ (event # None => About(scenario, event))
           Plans == /\ PlanOrNone(basePlan) /\ PlanOrNone(lastPlan) /\ PlanOrNone(candidate)
                    /\ PlanOrNone(repaired) /\ PlanOrNone(finalPlan)
           Begun == /\ node \in {"idle", "extract_event", "solve_base"} => basePlan = None
                    /\ node \notin {"solver_fallback", "compose_response", "end"} => repaired = None
           Mended == repaired # None => candidate # None /\ repaired = Repair(target, candidate)
<1>1. Judged /\ Plans /\ Begun /\ Mended
  BY DEF PlansInv
<1>2. (Judged /\ Plans /\ Begun /\ Mended)' => PlansInv'
  BY DEF PlansInv
<1>3. PlanOrNone(None)
  BY DEF PlanOrNone
<1> HIDE DEF Judged, Plans, Begun, Mended
<1>4. CASE ExtractEvent
  <2>1. OfACase /\ basePlan = None
    BY <1>1, <1>4 DEF ControlInv, ExtractEvent, Begun
  <2>2. event' # None => About(scenario, event')
    BY <1>4, <2>1, ExtractionsAreEvents DEF OfACase, ExtractEvent
  <2> QED
    BY <1>1, <1>2, <1>4, <2>1, <2>2 DEF ExtractEvent, Judged, Plans, Begun, Mended
<1>5. CASE SolveBase
  <2>1. OfACase /\ repaired = None
    BY <1>1, <1>5 DEF ControlInv, SolveBase, Begun
  <2>2. PlanOrNone(basePlan')
    BY <1>5, <2>1, ScenariosAre, EnginesPlan DEF SolveBase
  <2> QED
    BY <1>1, <1>2, <1>5, <2>1, <2>2 DEF SolveBase, Judged, Plans, Begun, Mended
<1>6. CASE ApplyEventNode
  BY <1>1, <1>2, <1>6 DEF ApplyEventNode, Judged, Plans, Begun, Mended
<1>7. CASE GenerateBySolver \/ ReuseBasePlan \/ PolicyFails \/ \E a \in PolicyTexts : PolicyAnswers(a)
  <2>1. OfACase /\ Mutated /\ node = "generate_candidate" /\ repaired = None /\ PlanOrNone(lastPlan)
    BY <1>1, <1>7 DEF ControlInv, GenerateBySolver, ReuseBasePlan, PolicyFails, PolicyAnswers, Asking, Begun,
                      Plans
  <2>2. /\ UNCHANGED <<input, basis, target, mended, final>>
        /\ node' \in {"generate_candidate", "validate_candidate"}
    BY <1>7, <2>1 DEF GenerateBySolver, ReuseBasePlan, PolicyFails, PolicyAnswers, Propose
  <2>3. PlanOrNone(lastPlan') /\ PlanOrNone(candidate')
    <3>1. CASE GenerateBySolver
      BY <1>1, <2>1, <3>1, ScenariosAre, EnginesPlan DEF GenerateBySolver, Propose, Plans
    <3>2. CASE ReuseBasePlan
      <4>1. basePlan # None /\ PlanOrNone(basePlan)
        BY <1>1, <2>1, VerdictMeans DEF Judged, Mutated, Plans
      <4>2. IsPlan(Relabelled(target, basePlan))
        BY <4>1, RelabelledIsPlan DEF PlanOrNone
      <4>3. DOMAIN Relabelled(target, basePlan) = {"scenario", "routes"}
        BY <4>1 DEF Relabelled, PlanOrNone
      <4> QED
        BY <2>1, <3>2, <4>2, <4>3 DEF ReuseBasePlan, Propose, PlanOrNone
    <3>3. CASE PolicyFails
      BY <1>3, <2>1, <3>3 DEF PolicyFails, Propose
    <3>4. ASSUME NEW a \in PolicyTexts, PolicyAnswers(a)
          PROVE  PlanOrNone(lastPlan') /\ PlanOrNone(candidate')
      BY <1>1, <2>1, <3>4, DraftsPlan DEF PolicyAnswers, Propose, Plans
    <3> QED
      BY <1>7, <3>1, <3>2, <3>3, <3>4
  <2> QED
    BY <1>1, <1>2, <2>1, <2>2, <2>3 DEF Judged, Plans, Begun, Mended
<1>8. CASE ValidateCandidate
  BY <1>1, <1>2, <1>8 DEF ValidateCandidate, Settle, Judged, Plans, Begun, Mended
<1>9. CASE RepairCandidate
  <2>1. PlanOrNone(repaired')
    <3>1. CASE candidate = None
      BY <1>3, <1>9, <3>1 DEF RepairCandidate
    <3>2. CASE candidate # None
      <4>1. IsPlan(Repair(target, candidate))
        BY <1>1, <3>2, RepairIsPlan DEF Plans, PlanOrNone
      <4>2. DOMAIN Repair(target, candidate) = {"scenario", "routes"}
        BY DEF Repair
      <4> QED
        BY <1>9, <3>2, <4>1, <4>2 DEF RepairCandidate, PlanOrNone
    <3> QED
      BY <3>1, <3>2
  <2> QED
    BY <1>1, <1>2, <1>9, <2>1 DEF RepairCandidate, Settle, Judged, Plans, Begun, Mended
<1>10. CASE SolverFallback
  <2>1. OfACase /\ Mutated
    BY <1>10 DEF ControlInv, SolverFallback
  <2>2. PICK plan \in EngineResults(target) :
           IF plan = None THEN UNCHANGED final
             ELSE Settle(plan, Verdict(target, plan), "solver_fallback")
    BY <1>10 DEF SolverFallback
  <2>3. PlanOrNone(finalPlan')
    BY <1>1, <2>1, <2>2, ScenariosAre, EnginesPlan DEF Settle, Plans
  <2> QED
    BY <1>1, <1>2, <1>10, <2>3 DEF SolverFallback, Judged, Plans, Begun, Mended
<1>11. CASE ComposeResponse
  BY <1>1, <1>2, <1>11 DEF ComposeResponse, Judged, Plans, Begun, Mended
<1>12. CASE Return
  BY <1>2, <1>3, <1>12, VerdictMeans DEF Return, Cleared, Judged, Plans, Begun, Mended
<1>13. ASSUME NEW case \in Cases, Invoke(case)
       PROVE  PlansInv'
  <2>1. basePlan = None /\ event = None /\ baseVerdict = "none"
    BY <1>1, <1>13, VerdictMeans DEF Invoke, ControlInv, Begun, Judged
  <2>2. Judged'
    BY <1>13, <2>1, VerdictMeans DEF Invoke, Judged
  <2>3. Plans' /\ Begun' /\ Mended'
    BY <1>1, <1>13 DEF Invoke, Plans, Begun, Mended
  <2> QED
    BY <1>2, <2>2, <2>3
<1>14. CASE UNCHANGED workflowVars
  BY <1>1, <1>2, <1>14 DEF workflowVars, Judged, Plans, Begun, Mended
<1> QED
  BY <1>4, <1>5, <1>6, <1>7, <1>8, <1>9, <1>10, <1>11, <1>12, <1>13, <1>14 DEF WorkflowNext, WorkflowStep

LEMMA PlansHold == WorkflowSpec => []PlansInv
  BY Control, InitPlans, NextPlans, PTL DEF WorkflowSpec

-----------------------------------------------------------------------------
\* What it takes for a run to deliver a plan.
LEMMA DeliveredMeans ==
    ASSUME ControlInv, PlansInv, Delivered
    PROVE  /\ OfACase /\ Chosen
           /\ IsScenario(scenario) /\ DOMAIN scenario = ScenarioFields
           /\ event \in Events /\ About(scenario, event)
           /\ target = ApplyEvent(scenario, event) /\ IsScenario(target)
           /\ basePlan # None /\ IsPlan(basePlan) /\ DOMAIN basePlan = {"scenario", "routes"}
           /\ Passed(scenario, basePlan) /\ Feasible(scenario, basePlan)
           /\ finalPlan # None /\ Feasible(target, finalPlan)
<1>1. node = "end"
  BY DEF ControlInv, Delivered
<1>2. OfACase /\ Composed /\ (NotUnderstood \/ NoBase \/ Chosen \/ Exhausted)
  BY <1>1 DEF ControlInv
<1>3. answer # None /\ answer.succeeded /\ answer.source # "context_window"
  BY DEF Delivered
<1>4. answer = Response(finalPlan # None /\ finalVerdict = "passed", source)
  BY <1>2, <1>3 DEF Composed, Response
<1>5. finalPlan # None /\ finalVerdict = "passed"
  BY <1>3, <1>4 DEF Response
<1>6. Chosen
  BY <1>2, <1>5 DEF NotUnderstood, NoBase, Exhausted, NoFinal
<1>7. /\ Mutated /\ event \in Events /\ event # None /\ target = ApplyEvent(scenario, event)
      /\ Passed(target, finalPlan)
  BY <1>6, NoEventAssumption DEF Chosen, Mutated
<1>8. IsScenario(scenario) /\ DOMAIN scenario = ScenarioFields /\ IsScenario(target)
  BY <1>2, <1>7, ScenariosAre
<1>9. PlanOrNone(basePlan) /\ PlanOrNone(finalPlan) /\ About(scenario, event)
      /\ baseVerdict = Verdict(scenario, basePlan)
  BY <1>7 DEF PlansInv
<1>10. basePlan # None /\ Passed(scenario, basePlan)
  BY <1>7, <1>9, VerdictMeans DEF Mutated
<1>11. /\ IsPlan(basePlan) /\ DOMAIN basePlan = {"scenario", "routes"}
       /\ Feasible(scenario, basePlan) /\ Feasible(target, finalPlan)
  BY <1>5, <1>7, <1>8, <1>9, <1>10, PassedIsFeasible DEF PlanOrNone
<1> QED
  BY <1>2, <1>5, <1>6, <1>7, <1>8, <1>9, <1>10, <1>11

\* A plan delivered is what a plan has to be, in the scenario after the event; and a run
\* about an event succeeds exactly when replanning without agents would.
THEOREM DeliversFeasible == WorkflowSpec => []DeliveredIsFeasible
<1>1. ControlInv /\ PlansInv => DeliveredIsFeasible
  <2> SUFFICES ASSUME ControlInv, PlansInv PROVE DeliveredIsFeasible
    OBVIOUS
  <2>1. Delivered => target = ApplyEvent(scenario, event) /\ Feasible(target, finalPlan)
    BY DeliveredMeans
  <2>2. ASSUME answer # None, event # None
        PROVE  answer.succeeded <=> DirectReplan(scenario, event, basePlan, finalPlan)
    <3>1. Composed /\ (NotUnderstood \/ NoBase \/ Chosen \/ Exhausted)
      BY <2>2 DEF ControlInv
    <3>2. answer.succeeded <=> finalPlan # None /\ finalVerdict = "passed"
      BY <2>2, <3>1 DEF Composed, Response
    <3>3. baseVerdict = Verdict(scenario, basePlan)
      BY DEF PlansInv
    <3>4. CASE NoBase
      BY <3>2, <3>3, <3>4 DEF NoBase, NoFinal, DirectReplan
    <3>5. CASE Chosen
      BY <3>2, <3>3, <3>5, VerdictMeans DEF Chosen, Mutated, DirectReplan
    <3>6. CASE Exhausted
      BY <3>2, <3>3, <3>6, VerdictMeans DEF Exhausted, NoFinal, Mutated, DirectReplan
    <3> QED
      BY <2>2, <3>1, <3>4, <3>5, <3>6 DEF NotUnderstood
  <2> QED
    BY <2>1, <2>2 DEF DeliveredIsFeasible
<1> QED
  BY <1>1, Control, PlansHold, PTL

\* From the message to the plan: everyone who was to be served is, but for the customer
\* who cannot receive, and no road that was blocked is taken.
THEOREM HonoursEvent == WorkflowSpec => []EventHonoured
<1>1. ControlInv /\ PlansInv => EventHonoured
  <2>1. SUFFICES ASSUME ControlInv, PlansInv, Delivered
                 PROVE  LET gone == IF event.type = "unavailable" THEN {event.customer} ELSE {} IN
                        /\ Served(finalPlan) = scenario.open \ gone
                        /\ event.type = "block" => <<event.from, event.to>> \notin Edges(finalPlan)
                        /\ event.type = "block" /\ event.both =>
                               <<event.to, event.from>> \notin Edges(finalPlan)
    BY DEF EventHonoured
  <2>2. /\ event \in Events /\ DOMAIN scenario = ScenarioFields /\ IsScenario(target)
        /\ target = ApplyEvent(scenario, event) /\ Feasible(target, finalPlan)
    BY <2>1, DeliveredMeans
  <2>3. Served(finalPlan) = target.open
    BY <2>2, FeasibleServes DEF Active
  <2>4. /\ target.open = scenario.open \ (IF event.type = "unavailable" THEN {event.customer} ELSE {})
        /\ event.type = "block" => Ways(event) \subseteq target.blocked
    BY <2>2, AfterEvent
  <2>5. Edges(finalPlan) \cap target.blocked = {}
    BY <2>2, FeasibleAvoids
  <2> QED
    BY <2>3, <2>4, <2>5 DEF Ways
<1> QED
  BY <1>1, Control, PlansHold, PTL

\* What the sentences about the event amount to, for every scenario, event and plan.
THEOREM AnswersMean == WorkflowSpec => []AnswerMeans
<1>1. ControlInv /\ PlansInv => AnswerMeans
  <2> DEFINE claim == Claim(event, basePlan, finalPlan)
             noted == NotedDeferred(event, target)
             segment == {<<event.from, event.to>>, <<event.to, event.from>>}
             block == event.type = "block"
             gone == event.type = "unavailable"
             before == UsesSegment(event, basePlan)
             after == UsesSegment(event, finalPlan)
             removed == event.customer \in Removed(basePlan, finalPlan)
  <2>1. SUFFICES ASSUME ControlInv, PlansInv, Delivered
                 PROVE  /\ claim = "not affected" => Passed(target, Relabelled(target, basePlan))
                        /\ claim = "still used" => ~event.both
                        /\ gone =>
                             /\ claim = IF event.customer \in scenario.open THEN "deferred" ELSE "remains served"
                             /\ event.customer \in noted
                        /\ noted \cap Served(finalPlan) = {}
    BY DEF AnswerMeans
  <2>2. /\ IsScenario(scenario) /\ DOMAIN scenario = ScenarioFields
        /\ event \in Events /\ About(scenario, event)
        /\ target = ApplyEvent(scenario, event) /\ IsScenario(target)
        /\ basePlan # None /\ DOMAIN basePlan = {"scenario", "routes"}
        /\ Passed(scenario, basePlan) /\ Feasible(scenario, basePlan)
        /\ finalPlan # None /\ Feasible(target, finalPlan)
    BY <2>1, DeliveredMeans
  <2>3. Served(finalPlan) = target.open /\ Served(basePlan) = scenario.open
    BY <2>2, FeasibleServes DEF Active
  <2>4. /\ target.open = scenario.open \ (IF gone THEN {event.customer} ELSE {})
        /\ target.known = scenario.known
        /\ block => Ways(event) \subseteq target.blocked
    BY <2>2, AfterEvent
  <2>5. Edges(finalPlan) \cap target.blocked = {}
    BY <2>2, FeasibleAvoids
  <2>6. /\ before <=> segment \cap Edges(basePlan) # {}
        /\ after <=> segment \cap Edges(finalPlan) # {}
    BY <2>2 DEF UsesSegment
  <2>7. /\ claim = "not affected" => block /\ ~before
        /\ claim = "still used" => block /\ after
        /\ gone => claim = IF removed THEN "deferred" ELSE "remains served"
    <3>1. claim = CASE block /\ ~before /\ ~after -> "not affected"
                    [] block /\ before /\ ~after -> "avoided"
                    [] block /\ after -> "still used"
                    [] gone /\ removed -> "deferred"
                    [] gone /\ ~removed -> "remains served"
                    [] OTHER -> "interpreted"
      BY DEF Claim
    <3>2. block => ~gone
      OBVIOUS
    <3> HIDE DEF claim, block, gone, before, after, removed
    <3> QED
      BY <3>1, <3>2
  <2>8. ASSUME claim = "not affected" PROVE Passed(target, Relabelled(target, basePlan))
    <3>1. block /\ Edges(basePlan) \cap segment = {}
      BY <2>6, <2>7, <2>8
    <3> QED
      BY <2>2, <3>1, StillPasses
  <2>9. ASSUME claim = "still used", event.both PROVE FALSE
    <3>1. block /\ segment \cap Edges(finalPlan) # {}
      BY <2>6, <2>7, <2>9
    <3>2. segment \subseteq target.blocked
      BY <2>4, <2>9, <3>1 DEF Ways
    <3> QED
      BY <2>5, <3>1, <3>2
  <2>10. gone => (removed <=> event.customer \in scenario.open)
    BY <2>3, <2>4 DEF Removed
  <2>11. ASSUME gone PROVE event.customer \in noted
    <3>1. event.customer \in target.known \ target.open
      BY <2>2, <2>4, <2>11 DEF About
    <3> QED
      BY <2>11, <3>1 DEF NotedDeferred, Active
  <2>12. noted \cap Served(finalPlan) = {}
    BY <2>3 DEF NotedDeferred, Active
  <2> HIDE DEF claim, noted, gone, removed
  <2> QED
    BY <2>7, <2>8, <2>9, <2>10, <2>11, <2>12 DEF claim, noted, gone, removed
<1> QED
  BY <1>1, Control, PlansHold, PTL

\* The visits of a repaired plan are visits of the plan that was repaired.
LEMMA RepairKeepsDuties ==
    ASSUME NEW s, NEW p, IsPlan(p), NEW duty \in Duties(Repair(s, p)), duty[2] # Depot
    PROVE  duty \in Duties(p)
<1> DEFINE r == Repair(s, p)
<1>1. PICK n \in DOMAIN r.routes : \E i \in DOMAIN r.routes[n].stops :
          duty = <<r.routes[n].vehicle, r.routes[n].stops[i]>>
  BY DEF Duties
<1>2. PICK i \in DOMAIN r.routes[n].stops : duty = <<r.routes[n].vehicle, r.routes[n].stops[i]>>
  BY <1>1
<1>3. IsPlan(r)
  BY RepairIsPlan
<1>4. /\ ~BoundaryBroken(r.routes[n])
      /\ \A j \in Interior(r.routes[n]) : \E k, a : StopFrom(s, p, n, j, k, a)
  BY RepairedRoutes
<1> HIDE DEF r
<1>5. DOMAIN r.routes[n].stops = 1..Len(r.routes[n].stops) /\ Len(r.routes[n].stops) \in Nat
  BY <1>3, RouteOfPlan
<1>6. i # 1 /\ i # Len(r.routes[n].stops)
  BY <1>2, <1>4 DEF BoundaryBroken
<1>7. i \in Interior(r.routes[n])
  BY <1>5, <1>6 DEF Interior
<1>8. PICK k, a : StopFrom(s, p, n, i, k, a)
  BY <1>4, <1>7
<1>9. /\ k \in DOMAIN p.routes /\ a \in 1..Len(p.routes[k].stops)
      /\ duty = <<p.routes[k].vehicle, p.routes[k].stops[a]>>
  BY <1>2, <1>8 DEF StopFrom, KnownRoutes, r
<1>10. a \in DOMAIN p.routes[k].stops
  BY <1>9, RouteOfPlan
<1> QED
  BY <1>9, <1>10 DEF Duties

\* A repair serves nobody who was not served, and leaves to the solver only capacity,
\* customers missing and roads blocked.
THEOREM RepairsConserve == WorkflowSpec => []RepairIsConservative
<1>1. PlansInv => RepairIsConservative
  <2>1. SUFFICES ASSUME PlansInv, repaired # None
                 PROVE  /\ \A duty \in Duties(repaired) : duty[2] # Depot => duty \in Duties(candidate)
                        /\ Violations(target, repaired) \subseteq
                               {"capacity_violation", "missing_customer", "blocked_arc_used"}
    BY DEF RepairIsConservative
  <2>2. repaired = Repair(target, candidate) /\ IsPlan(candidate)
    BY <2>1 DEF PlansInv, PlanOrNone
  <2> QED
    BY <2>2, RepairKeepsDuties, RepairMends
<1> QED
  BY <1>1, PlansHold, PTL

\* Wherever the engine is called, the solutions of its integer program, read by the walk,
\* are the feasible plans of that scenario: no plan is missed and none breaks a rule.
THEOREM SolverExact == WorkflowSpec => []SolverIsExact
<1>1. ControlInv => SolverIsExact
  <2>1. ASSUME NEW s \in Solvable, IsScenario(s) PROVE ExactFor[s]
    <3>1. ExactFor[s] = SolverIsExactFor(s)
      BY DEF ExactFor
    <3> QED
      BY <2>1, <3>1, SolverExactFor
  <2>2. ASSUME ControlInv, node = "solve_base" PROVE ExactFor[scenario]
    <3>1. OfACase
      BY <2>2 DEF ControlInv
    <3> QED
      BY <2>1, <3>1, ScenariosAre
  <2>3. ASSUME ControlInv, node \in {"generate_candidate", "solver_fallback"}
        PROVE  ExactFor[target]
    <3>1. OfACase /\ Mutated
      BY <2>3 DEF ControlInv
    <3> QED
      BY <2>1, <3>1, ScenariosAre
  <2> QED
    BY <2>2, <2>3 DEF SolverIsExact
<1> QED
  BY <1>1, Control, PTL

=============================================================================
