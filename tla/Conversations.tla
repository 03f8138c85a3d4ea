--------------------------- MODULE Conversations ---------------------------
(***************************************************************************)
(* The conversation service (memory/service.py, context.py, repository.py) *)
(* with the operational routes a replan may change (operations/service.py, *)
(* repository.py). Requests are served at the same time by the threads of  *)
(* the API; one action is one call of a repository, with the computation   *)
(* that follows it. A document is identified by the request that made its  *)
(* id. The workflow answers by its contract (ReplanOutcomes).              *)
(*                                                                         *)
(* Left out: titles, texts, times, summaries, traces, the composed answer, *)
(* facts, which are never written, and which vehicles' parts of a plan a   *)
(* route keeps (_filter_plan_for_operational_route).                       *)
(***************************************************************************)
EXTENDS ReplanOutcomes, Integers, FiniteSets, Picking

CONSTANTS
    Requests,        \* requests of this service, and publications, each made once
    Menu,            \* Menu[q]: what request q may be
    After,           \* After[q]: the requests that end before q begins (a bound)
    Routes,
    Home,            \* the scenario a conversation without a route is about
    FirstScenario,   \* FirstScenario[r]: the scenario of route r at first
    FirstStored,     \* the scenarios in the store at first
    RecentLimit,     \* recent_message_limit
    ConstraintLimit, \* 20, in context.py
    SolverSound,     \* whether a plan of the solver always passes validation
    Mortal           \* the requests that may die halfway (a bound)

ASSUME LimitsAssumption ==
    /\ RecentLimit \in Nat \ {0} /\ ConstraintLimit \in Nat \ {0}
    /\ Home \in FirstStored

\* A request is one of these, and names a route that there is.
ASSUME MenuAssumption ==
    None \notin Requests /\ \A q \in Requests : \A t \in Menu[q] :
        /\ t.op \in {"replan", "create", "append", "delete", "publish"}
        /\ t.op = "replan" => t.route \in Routes \cup {None}
        /\ t.op \in {"append", "delete"} => t.conversation \in Requests
        /\ t.op = "publish" => t.route \in Routes

\* The id of a scenario is a text, to which an event appends one.
ASSUME TextsAssumption ==
    /\ Tags \subseteq STRING /\ Home \in Seq(STRING)
    /\ \A r \in Routes : FirstScenario[r] \in Seq(STRING)

VARIABLES
    conversations,   \* the documents, by id: the route in their metadata or None
    messages,        \* all messages, by created_at
    runs,            \* agent runs, by created_at
    windows,         \* context windows, by conversation id
    stored,          \* ids of the scenarios in the store
    routes,          \* operational routes
    task, pc, work,  \* of each request: what it is, where it is, its locals
    met,             \* history: the pairs of requests that were in progress together
    died             \* history: the requests that died halfway

documents == <<conversations, messages, runs, windows>>
operations == <<stored, routes>>
serving == <<task, pc, work>>
encounters == <<met, died>>
conversationVars == <<documents, operations, serving, encounters>>

NoWork == [conversation |-> None, route |-> None, scenario |-> None, plan |-> None,
           before |-> None, outcome |-> None, recent |-> <<>>, previous |-> None]

\* What a request may be.
Replan(c, r, asks) == [op |-> "replan", conversation |-> c, route |-> r, asks |-> asks]
CreateEmpty == [op |-> "create"]
AppendTo(c) == [op |-> "append", conversation |-> c]
Delete(c) == [op |-> "delete", conversation |-> c]
Publication(r) == [op |-> "publish", route |-> r]

\* A route with a plan of the scenario it is about.
OnRoute(s) == [scenario |-> s, plan |-> PlanFor(s, TRUE)]

ConversationsInit ==
    /\ conversations = [c \in {} |-> None] /\ messages = <<>> /\ runs = <<>>
    /\ windows = [c \in {} |-> None]
    /\ stored = FirstStored
    /\ routes = [r \in Routes |-> OnRoute(FirstScenario[r])]
    /\ task = [q \in Requests |-> None] /\ pc = [q \in Requests |-> "new"]
    /\ work = [q \in Requests |-> NoWork]
    /\ met = {} /\ died = {}

Ended(q) == pc[q] = "end"
Busy == {q \in Requests : pc[q] \notin {"new", "end"}}

\* So far each request began after the one before had ended.
inTurn == met = {} /\ died = {}

-----------------------------------------------------------------------------
Goto(q, l) == pc' = [pc EXCEPT ![q] = l]
Keep(q, w) == work' = [work EXCEPT ![q] = w]
End(q) == Goto(q, "end") /\ Keep(q, NoWork)

\* The ids that a request may name: uuid4 makes one when a conversation is created, and
\* nobody knows it before.
Minted == {c \in Requests : pc[c] \notin {"new", "require", "resolve", "create"}}

Receive(q) ==
    /\ pc[q] = "new" /\ \A p \in After[q] : Ended(p)
    /\ \E t \in Menu[q] :
         /\ t.op \in {"replan", "append", "delete"} => t.conversation \in Minted \cup {None}
         /\ task' = [task EXCEPT ![q] = t]
         /\ Goto(q, CASE t.op = "replan" /\ t.conversation = None /\ t.route = None -> "create"
                      [] t.op = "replan" /\ t.conversation = None /\ t.route # None -> "resolve"
                      [] t.op \in {"create", "delete", "publish"} -> t.op
                      [] OTHER -> "require")
         /\ Keep(q, IF t.op \in {"create", "publish"} THEN NoWork
                      ELSE [NoWork EXCEPT !.conversation = t.conversation, !.scenario = Home,
                                          !.route = IF t.op = "replan" THEN t.route ELSE None])
    /\ met' = met \cup {{p, q} : p \in Busy}
    /\ UNCHANGED <<documents, operations, died>>

\* _require_conversation: the route is the one named, or that of the conversation.
Require(q) ==
    /\ pc[q] = "require"
    /\ IF work[q].conversation \notin DOMAIN conversations THEN End(q)
         ELSE IF task[q].op = "append" THEN Goto(q, "append") /\ UNCHANGED work
         ELSE LET named == work[q].route
                  route == IF named = None THEN conversations[work[q].conversation] ELSE named
              IN  /\ Keep(q, [work[q] EXCEPT !.route = route])
                  /\ Goto(q, IF route = None THEN "scenario" ELSE "resolve")
    /\ UNCHANGED <<documents, operations, task, encounters>>

\* Mutant: the scenario of the request is kept.
MutResolveRoute(q) ==
    /\ pc[q] = "resolve"
    /\ Keep(q, [work[q] EXCEPT !.scenario = Home, !.plan = routes[work[q].route].plan])
    /\ Goto(q, IF work[q].conversation = None THEN "create" ELSE "scenario")
    /\ UNCHANGED <<documents, operations, task, encounters>>

\* _resolve_operational_route: the request goes on with the route as it is now.
ResolveRoute(q) ==
    /\ pc[q] = "resolve"
    /\ Keep(q, [work[q] EXCEPT !.scenario = routes[work[q].route].scenario,
                               !.plan = routes[work[q].route].plan])
    /\ Goto(q, IF work[q].conversation = None THEN "create" ELSE "scenario")
    /\ UNCHANGED <<documents, operations, task, encounters>>

\* POST /v1/conversations, and the first message of a replan.
CreateConversation(q) ==
    /\ pc[q] = "create"
    /\ conversations' = [c \in DOMAIN conversations \cup {q} |->
                            IF c = q THEN work[q].route ELSE conversations[c]]
    /\ IF task[q].op = "create" THEN End(q)
         ELSE Keep(q, [work[q] EXCEPT !.conversation = q]) /\ Goto(q, "scenario")
    /\ UNCHANGED <<messages, runs, windows, operations, task, encounters>>

\* _scenario_resolver: a conversation just created stays behind without a message.
ResolveScenario(q) ==
    /\ pc[q] = "scenario"
    /\ IF work[q].scenario \in stored THEN Goto(q, "user") /\ UNCHANGED work ELSE End(q)
    /\ UNCHANGED <<documents, operations, task, encounters>>

Message(q, role) == [conversation |-> work[q].conversation, request |-> q, role |-> role]

SaveUserMessage(q) ==
    /\ pc[q] = "user"
    /\ messages' = Append(messages, Message(q, "user"))
    /\ Goto(q, "context")
    /\ UNCHANGED <<conversations, runs, windows, operations, task, work, encounters>>

\* compose_response: a follow-up answers with the plan of the window.
FollowedUpFrom(window) == [FollowedUp EXCEPT !.plan = window.plan]

\* _answer_route_question: it fails when a language model is required and fails.
RouteAnswered(succeeded, plan) ==
    [succeeded |-> succeeded, source |-> "route_qa", event |-> None, plan |-> plan]

AnswersTo(q, window) ==
    IF work[q].route # None /\ task[q].asks
      THEN {RouteAnswered(succeeded, work[q].plan) : succeeded \in BOOLEAN}
      ELSE {IF o = FollowedUp THEN FollowedUpFrom(window) ELSE o :
              o \in {x \in Outcomes(work[q].scenario, window # None) :
                       SolverSound => x.plan = None \/ x.plan.valid}}

Existing(f, c) == IF c \in DOMAIN f THEN f[c] ELSE None

\* Mutant: whether it succeeded is not asked.
MutMoves(q, answer) ==
    work[q].route # None /\ answer.source # "route_qa" /\ answer.plan # None

\* The plan of the answer becomes that of the route, whoever made it.
Moves(q, answer) ==
    /\ work[q].route # None
    /\ answer.source # "route_qa"
    /\ answer.succeeded
    /\ answer.plan # None

\* get_context_window, and the answer: of the workflow, or about the route.
ReadContext(q) ==
    /\ pc[q] = "context"
    /\ LET window == Existing(windows, work[q].conversation) IN
       \E answer \in AnswersTo(q, window) :
         /\ Keep(q, [work[q] EXCEPT !.before = window, !.outcome = answer])
         /\ Goto(q, IF ~Moves(q, answer) THEN "run"
                      ELSE IF answer.source = "workflow" THEN "store" ELSE "update")
    /\ UNCHANGED <<documents, operations, task, encounters>>

\* _save_replanning_scenario
StoreScenario(q) ==
    /\ pc[q] = "store"
    /\ stored' = stored \cup {work[q].outcome.plan.scenario}
    /\ Goto(q, "update")
    /\ UNCHANGED <<documents, routes, task, work, encounters>>

\* update_current_plan: the plan is written, with the scenario of a replan. (The route
\* is read before, for the vehicles whose parts it keeps.)
UpdateRoute(q) ==
    /\ pc[q] = "update"
    /\ LET answer == work[q].outcome IN
       routes' = [routes EXCEPT ![work[q].route].plan = answer.plan,
                    ![work[q].route].scenario =
                        IF answer.source = "workflow" THEN answer.plan.scenario ELSE @]
    /\ Goto(q, "run")
    /\ UNCHANGED <<documents, stored, task, work, encounters>>

\* Mutant: a run that failed is not saved.
MutSaveRun(q) ==
    /\ pc[q] = "run"
    /\ IF work[q].outcome.succeeded
         THEN runs' = Append(runs, [conversation |-> work[q].conversation, request |-> q,
                                    result |-> work[q].outcome])
         ELSE UNCHANGED runs
    /\ Goto(q, "assistant")
    /\ UNCHANGED <<conversations, messages, windows, operations, task, work, encounters>>

SaveRun(q) ==
    /\ pc[q] = "run"
    /\ runs' = Append(runs, [conversation |-> work[q].conversation, request |-> q,
                              result |-> work[q].outcome])
    /\ Goto(q, "assistant")
    /\ UNCHANGED <<conversations, messages, windows, operations, task, work, encounters>>

SaveAssistantMessage(q) ==
    /\ pc[q] = "assistant"
    /\ messages' = Append(messages, Message(q, "assistant"))
    /\ Goto(q, "list")
    /\ UNCHANGED <<conversations, runs, windows, operations, task, work, encounters>>

\* What is of conversation c in a list.
OfConversation(s, c) == {i \in DOMAIN s : s[i].conversation = c}

MessagesOf(c) == Pick(messages, OfConversation(messages, c))

\* Mutant: one too many.
MutLastOf(s, n) == SubSeq(s, IF Len(s) > n THEN Len(s) - n ELSE 1, Len(s))
LastOf(s, n) == SubSeq(s, IF Len(s) > n THEN Len(s) - n + 1 ELSE 1, Len(s))
Id(m) == <<m.request, m.role>>
Ids(s) == [i \in DOMAIN s |-> Id(s[i])]

ListMessages(q) ==
    /\ pc[q] = "list"
    /\ Keep(q, [work[q] EXCEPT
                   !.recent = Ids(LastOf(MessagesOf(work[q].conversation), RecentLimit))])
    /\ Goto(q, "previous")
    /\ UNCHANGED <<documents, operations, task, encounters>>

ReadPrevious(q) ==
    /\ pc[q] = "previous"
    /\ Keep(q, [work[q] EXCEPT !.previous = Existing(windows, work[q].conversation)])
    /\ Goto(q, "window")
    /\ UNCHANGED <<documents, operations, task, encounters>>

-----------------------------------------------------------------------------
(* build_updated_context_window.                                           *)

Or(new, old) == IF new # None THEN new ELSE old

Among(x, s) == \E i \in DOMAIN s : s[i] = x

\* Mutant: an answer without an event clears the last one.
MutRebuilt(previous, outcome, recent, id) ==
    LET constraints == IF previous = None THEN <<>> ELSE previous.constraints
    IN  [ id |-> IF previous = None THEN id ELSE previous.id,
          recent |-> recent,
          event |-> outcome.event,
          plan |-> Or(outcome.plan, IF previous = None THEN None ELSE previous.plan),
          constraints |-> IF outcome.event = None THEN constraints
                            ELSE LastOf(Append(constraints, outcome.event), ConstraintLimit) ]

\* The event of a follow-up is that of the window, so it is not a new one: its
\* outcome carries none here.
Rebuilt(previous, outcome, recent, id) ==
    LET event == Or(outcome.event, IF previous = None THEN None ELSE previous.event)
        constraints == IF previous = None THEN <<>> ELSE previous.constraints
    IN  [ id |-> IF previous = None THEN id ELSE previous.id,
          recent |-> recent,
          event |-> event,
          plan |-> Or(outcome.plan, IF previous = None THEN None ELSE previous.plan),
          constraints |-> IF event = None \/ Among(event, constraints) THEN constraints
                            ELSE LastOf(Append(constraints, event), ConstraintLimit) ]

\* replace_one: with an id of its own a window cannot replace the one that another
\* request made meanwhile; the request then fails with everything else done.
SaveWindow(q) ==
    /\ pc[q] = "window"
    /\ LET c == work[q].conversation
           w == Rebuilt(work[q].previous, work[q].outcome, work[q].recent, q)
       IN  IF c \in DOMAIN windows /\ windows[c].id # w.id THEN UNCHANGED windows
             ELSE windows' = [d \in DOMAIN windows \cup {c} |-> IF d = c THEN w ELSE windows[d]]
    /\ End(q)
    /\ UNCHANGED <<conversations, messages, runs, operations, task, encounters>>

AppendMessage(q) ==
    /\ pc[q] = "append"
    /\ messages' = Append(messages, Message(q, "appended"))
    /\ End(q)
    /\ UNCHANGED <<conversations, runs, windows, operations, task, encounters>>

-----------------------------------------------------------------------------
(* delete_conversation: four calls.                                        *)

Without(f, c) == [d \in DOMAIN f \ {c} |-> f[d]]

DeleteConversation(q) ==
    /\ pc[q] = "delete"
    /\ conversations' = Without(conversations, work[q].conversation)
    /\ Goto(q, "delete messages")
    /\ UNCHANGED <<messages, runs, windows, operations, task, work, encounters>>

DeleteMessages(q) ==
    /\ pc[q] = "delete messages"
    /\ messages' = Pick(messages, DOMAIN messages \ OfConversation(messages, work[q].conversation))
    /\ Goto(q, "delete windows")
    /\ UNCHANGED <<conversations, runs, windows, operations, task, work, encounters>>

\* Mutant: the window is forgotten.
MutDeleteWindows(q) ==
    /\ pc[q] = "delete windows"
    /\ Goto(q, "delete runs")
    /\ UNCHANGED <<documents, operations, task, work, encounters>>

DeleteWindows(q) ==
    /\ pc[q] = "delete windows"
    /\ windows' = Without(windows, work[q].conversation)
    /\ Goto(q, "delete runs")
    /\ UNCHANGED <<conversations, messages, runs, operations, task, work, encounters>>

DeleteRuns(q) ==
    /\ pc[q] = "delete runs"
    /\ runs' = Pick(runs, DOMAIN runs \ OfConversation(runs, work[q].conversation))
    /\ End(q)
    /\ UNCHANGED <<conversations, messages, windows, operations, task, encounters>>

-----------------------------------------------------------------------------
\* A call raises, or the process stops.
Crash(q) ==
    /\ q \in Mortal \cap Busy
    /\ End(q)
    /\ died' = died \cup {q}
    /\ UNCHANGED <<documents, operations, task, met>>

\* create_route_from_plan: the daily planning puts a plan of the scenario it was
\* made for into a route that exists already.
Publish(q) ==
    /\ pc[q] = "publish"
    /\ LET r == task[q].route IN routes' = [routes EXCEPT ![r] = OnRoute(FirstScenario[r])]
    /\ End(q)
    /\ UNCHANGED <<documents, stored, task, encounters>>

Rest ==
    /\ \A q \in Requests : Ended(q)
    /\ UNCHANGED conversationVars

Call(q) ==
    \/ Receive(q) \/ Require(q) \/ ResolveRoute(q) \/ CreateConversation(q) \/ ResolveScenario(q)
    \/ SaveUserMessage(q) \/ ReadContext(q) \/ StoreScenario(q) \/ UpdateRoute(q)
    \/ SaveRun(q) \/ SaveAssistantMessage(q) \/ ListMessages(q) \/ ReadPrevious(q) \/ SaveWindow(q)
    \/ AppendMessage(q) \/ DeleteConversation(q) \/ DeleteMessages(q) \/ DeleteWindows(q)
    \/ DeleteRuns(q) \/ Publish(q)

ConversationsNext ==
    \/ \E q \in Requests : Call(q) \/ Crash(q)
    \/ Rest

ConversationsSpec == ConversationsInit /\ [][ConversationsNext]_conversationVars

-----------------------------------------------------------------------------
MessageIds == Requests \X {"user", "assistant", "appended"}
StoredPlans == [scenario : Seq(STRING), valid : BOOLEAN]
ContextWindows == [id : Requests, recent : Seq(MessageIds), event : Tags \cup {None},
                   plan : StoredPlans \cup {None}, constraints : Seq(Tags)]

ASSUME NoWindowAssumption == None \notin ContextWindows

Steps == {"new", "require", "resolve", "create", "scenario", "user", "context", "store",
          "update", "run", "assistant", "list", "previous", "window", "append",
          "publish", "delete", "delete messages", "delete windows", "delete runs", "end"}

ConversationsTypeOK ==
    /\ DOMAIN conversations \subseteq Requests /\ DOMAIN windows \subseteq Requests
    /\ \A c \in DOMAIN conversations : conversations[c] \in Routes \cup {None}
    /\ \A c \in DOMAIN windows :
         /\ windows[c] \in ContextWindows
         /\ Len(windows[c].constraints) <= ConstraintLimit /\ Len(windows[c].recent) <= RecentLimit
    /\ \A i \in DOMAIN messages : Id(messages[i]) \in MessageIds
    /\ \A i \in DOMAIN runs : runs[i].request \in Requests
    /\ FirstStored \subseteq stored
    /\ routes \in [Routes -> [scenario : Seq(STRING), plan : StoredPlans]]
    /\ pc \in [Requests -> Steps]
    /\ \A pair \in met : pair \subseteq Requests
    /\ died \subseteq Requests

\* In progress on conversation c.
BusyOn(c) == {q \in Busy : work[q].conversation = c}

LastKnown(s, f) ==
    LET known == {i \in DOMAIN s : s[i].result[f] # None}
    IN  IF known = {} THEN None ELSE s[CHOOSE i \in known : \A j \in known : j <= i].result[f]

\* All messages up to the last answer, which the last window was built from.
UpToAnswer(all) ==
    LET n == CHOOSE i \in DOMAIN all : /\ all[i].role = "assistant"
                                       /\ \A j \in (i + 1)..Len(all) : all[j].role # "assistant"
    IN  SubSeq(all, 1, n)

\* AGENTIC_API_MEMORY_DOCKER_PLAN.md:291 "keep last validation status": a window is
\* what the runs of its conversation amount to, the last event and the last plan
\* there was, and the messages it names are the last ones; provided the requests
\* came one at a time. (Two replans of a conversation at once: the later window
\* drops the other's event, or is refused.)
WindowIsCurrent ==
    inTurn => \A c \in DOMAIN conversations : BusyOn(c) = {} =>
        LET mine == Pick(runs, OfConversation(runs, c)) IN
        /\ c \in DOMAIN windows <=> mine # <<>>
        /\ mine # <<>> =>
             /\ windows[c].event = LastKnown(mine, "event")
             /\ windows[c].plan = LastKnown(mine, "plan")
             /\ windows[c].recent = Ids(LastOf(UpToAnswer(MessagesOf(c)), RecentLimit))
             /\ windows[c].event # None => Among(windows[c].event, windows[c].constraints)

\* AGENTIC_API_MEMORY_DOCKER_PLAN.md:12 "stores agent runs, traces, route plans,
\* validations, and errors for auditability": wherever a request dies, and whatever
\* is served at the same time, an answer that is shown has its run and its
\* question, and a window names messages that are there and has a run.
AuditTrail ==
    \A c \in DOMAIN conversations :
        /\ \A i \in DOMAIN messages :
             messages[i].conversation = c /\ messages[i].role = "assistant" =>
                 /\ \E j \in DOMAIN runs : runs[j].conversation = c /\ runs[j].request = messages[i].request
                 /\ \E j \in 1..(i - 1) : messages[j].conversation = c /\ messages[j].role = "user"
                                            /\ messages[j].request = messages[i].request
        /\ c \in DOMAIN windows =>
             /\ \A i \in DOMAIN windows[c].recent :
                  \E j \in DOMAIN messages : messages[j].conversation = c /\ Id(messages[j]) = windows[c].recent[i]
             /\ \E j \in DOMAIN runs : runs[j].conversation = c

\* A deletion went through all its steps.
Deleted(d) == Ended(d) /\ d \notin died /\ task[d].op = "delete"

\* API_REFERENCE.md:53 "Delete a conversation and associated records.": once nobody is
\* at work, nothing is left of a conversation that was deleted.
DeleteLeavesNothing ==
    Busy = {} => \A d \in Requests : Deleted(d) =>
        LET c == task[d].conversation IN
        /\ c \notin DOMAIN conversations \cup DOMAIN windows
        /\ OfConversation(messages, c) = {} /\ OfConversation(runs, c) = {}

\* What a deletion does promise, whatever is served at the same time and wherever a
\* request dies: the conversation stays away, and each record that is left of it was
\* written by a request that was in progress together with the deletion.
LeftoversExplained ==
    \A d \in Requests : Deleted(d) =>
        LET c == task[d].conversation IN
        /\ c \notin DOMAIN conversations
        /\ \A i \in OfConversation(messages, c) : {messages[i].request, d} \in met
        /\ \A i \in OfConversation(runs, c) : {runs[i].request, d} \in met
        /\ c \in DOMAIN windows =>
             \E p \in Requests : {p, d} \in met /\ task[p].op = "replan"

\* Request q writes to its route what it has answered with.
Updates(q, source) == /\ pc[q] = "update" /\ pc'[q] = "run"
                      /\ work[q].outcome.source = source

\* README.md:352 "final plans still pass deterministic validation before being
\* returned": the plan a replan puts into a route, in whatever order requests are
\* served, is a valid plan of the scenario it puts there with it, and that scenario
\* can be read back.
ReplansArriveValidated ==
    [][\A q \in Requests : Updates(q, "workflow") =>
          LET route == routes'[work[q].route] IN
          /\ route.plan.scenario = route.scenario
          /\ route.plan.valid
          /\ route.scenario \in stored]_conversationVars

\* Events add up: a replan appends its event to the scenario the route is in when it
\* writes, or another request that may change routes was in progress together with it.
\* (Then it may take the other's event back.)
EventsAddUp ==
    [][\A q \in Requests : Updates(q, "workflow") =>
          LET r == work[q].route IN
          \/ \E tag \in Tags : routes'[r].scenario = Append(routes[r].scenario, tag)
          \/ \E p \in Requests : p # q /\ {p, q} \in met /\ task[p].op \in {"replan", "publish"}
      ]_conversationVars

\* AGENTIC_WORKFLOW.md:38 "the workflow can answer as a context follow-up instead of
\* forcing a replanning action": a follow-up does not replace the plan of a route by
\* that of another scenario.
FollowUpOnlyAnswers ==
    [][\A q \in Requests : Updates(q, "context_window") =>
          routes'[work[q].route].plan.scenario = routes[work[q].route].plan.scenario]_conversationVars

=============================================================================
