------------------------ MODULE ConversationsProofs ------------------------
(***************************************************************************)
(* For every set of requests, served in any order and dying anywhere: what *)
(* a replan puts into an operational route is a valid plan of the scenario *)
(* it puts there with it, and that scenario is in the store; an answer     *)
(* that is shown has its question and its run; a conversation that was     *)
(* deleted stays away, and what is left of its records was written by      *)
(* requests in progress together with the deletion; replans add up, unless *)
(* they were in progress together. For requests one at a time: the context *)
(* window is what the runs amount to.                                      *)
(***************************************************************************)
EXTENDS Conversations, DataLemmas, SequenceTheorems

Fields == {"conversation", "route", "scenario", "plan", "before", "outcome", "recent", "previous"}

\* Between the answer and the write to the route.
Moving == {"store", "update"}

\* The calls that neither lead to a write to a route nor are one.
Aside == {"require", "resolve", "create", "scenario", "user", "context", "run", "assistant", "list",
          "previous", "window", "append", "delete", "delete messages", "delete windows",
          "delete runs", "end"}

Tables ==
    /\ DOMAIN pc = Requests /\ DOMAIN work = Requests /\ DOMAIN task = Requests
    /\ DOMAIN routes = Routes
    /\ \A r \in Routes : DOMAIN routes[r] = {"scenario", "plan"}
    /\ \A c \in DOMAIN conversations : conversations[c] \in Routes \cup {None}

\* What is on its way into a route comes from the workflow as a valid plan, and its
\* scenario is stored before the route is touched.
Locals(q) ==
    /\ DOMAIN work[q] = Fields /\ work[q].route \in Routes \cup {None}
    /\ pc[q] = "publish" => task[q].route \in Routes
    /\ pc[q] \in Moving => work[q].route \in Routes
    /\ pc[q] \in Moving /\ work[q].outcome.source = "workflow" => work[q].outcome.plan.valid = TRUE
    /\ pc[q] = "update" /\ work[q].outcome.source = "workflow" =>
         work[q].outcome.plan.scenario \in stored

ValidatedInv == Tables /\ \A q \in Requests : Locals(q)

LEMMA NoWorkIs == DOMAIN NoWork = Fields /\ NoWork.route = None
    BY DEF NoWork, Fields

LEMMA InitValidated == ConversationsInit => ValidatedInv
<1> SUFFICES ASSUME ConversationsInit PROVE ValidatedInv
    OBVIOUS
<1>1. Tables
    BY DEF ConversationsInit, Tables, OnRoute
<1>2. ASSUME NEW q \in Requests PROVE Locals(q)
    BY <1>2, NoWorkIs DEF ConversationsInit, Locals, Moving
<1> QED
    BY <1>1, <1>2 DEF ValidatedInv

\* A request moves to l; the locals of the others are left alone.
Moved(q, l) ==
    /\ pc' = [pc EXCEPT ![q] = l]
    /\ work' = work \/ \E w : work' = [work EXCEPT ![q] = w]
    /\ task' = task \/ \E t : task' = [task EXCEPT ![q] = t]
    /\ stored \subseteq stored'

LEMMA OthersKeep ==
    ASSUME ValidatedInv, NEW q \in Requests, NEW l, Moved(q, l), Locals(q)',
           DOMAIN routes' = Routes,
           \A r \in Routes : DOMAIN routes'[r] = {"scenario", "plan"},
           \A c \in DOMAIN conversations' : conversations'[c] \in Routes \cup {None}
    PROVE  ValidatedInv'
<1>1. Tables'
    BY DEF ValidatedInv, Tables, Moved
<1>2. ASSUME NEW p \in Requests, p # q
      PROVE  Locals(p)'
  <2>1. pc'[p] = pc[p] /\ work'[p] = work[p] /\ task'[p] = task[p] /\ stored \subseteq stored'
    BY <1>2 DEF ValidatedInv, Tables, Moved
  <2>2. Locals(p)
    BY DEF ValidatedInv
  <2> QED
    BY <2>1, <2>2 DEF Locals
<1> QED
    BY <1>1, <1>2 DEF ValidatedInv

\* A step that leads to a call aside.
LEMMA AsideKeeps ==
    ASSUME ValidatedInv, NEW q \in Requests, NEW l \in Aside, Moved(q, l),
           DOMAIN work'[q] = Fields, work'[q].route \in Routes \cup {None},
           UNCHANGED routes,
           \A c \in DOMAIN conversations' : conversations'[c] \in Routes \cup {None}
    PROVE  ValidatedInv'
<1>1. pc'[q] = l
    BY DEF ValidatedInv, Tables, Moved
<1>2. l \notin Moving /\ l # "publish"
    BY DEF Aside, Moving
<1>3. Locals(q)'
    BY <1>1, <1>2 DEF Locals, Moving
<1> QED
    BY <1>3, OthersKeep DEF ValidatedInv, Tables

LEMMA ReceiveValidated ==
    ASSUME ValidatedInv, NEW q \in Requests, Receive(q)
    PROVE  ValidatedInv'
<1>1. PICK t \in Menu[q] :
        /\ task' = [task EXCEPT ![q] = t]
        /\ Goto(q, CASE t.op = "replan" /\ t.conversation = None /\ t.route = None -> "create"
                      [] t.op = "replan" /\ t.conversation = None /\ t.route # None -> "resolve"
                      [] t.op \in {"create", "delete", "publish"} -> t.op
                      [] OTHER -> "require")
        /\ Keep(q, IF t.op \in {"create", "publish"} THEN NoWork
                     ELSE [NoWork EXCEPT !.conversation = t.conversation, !.scenario = Home,
                                         !.route = IF t.op = "replan" THEN t.route ELSE None])
    BY DEF Receive
<1>2. UNCHANGED <<documents, operations>>
    BY DEF Receive
<1> DEFINE l == CASE t.op = "replan" /\ t.conversation = None /\ t.route = None -> "create"
                  [] t.op = "replan" /\ t.conversation = None /\ t.route # None -> "resolve"
                  [] t.op \in {"create", "delete", "publish"} -> t.op
                  [] OTHER -> "require"
           w == IF t.op \in {"create", "publish"} THEN NoWork
                  ELSE [NoWork EXCEPT !.conversation = t.conversation, !.scenario = Home,
                                      !.route = IF t.op = "replan" THEN t.route ELSE None]
<1>3. l \in Aside \/ (l = "publish" /\ t.op = "publish")
    BY DEF Aside
<1>4. DOMAIN w = Fields /\ w.route \in Routes \cup {None}
    BY MenuAssumption, NoWorkIs DEF Fields
<1>5. pc' = [pc EXCEPT ![q] = l] /\ work' = [work EXCEPT ![q] = w]
    BY <1>1 DEF Goto, Keep
<1> HIDE DEF l, w
<1>6. Moved(q, l) /\ work'[q] = w /\ pc'[q] = l /\ task'[q] = t
    BY <1>1, <1>2, <1>5 DEF Moved, operations, ValidatedInv, Tables
<1>7. CASE l \in Aside
    BY <1>2, <1>4, <1>6, <1>7, AsideKeeps DEF ValidatedInv, Tables, documents, operations
<1>8. CASE l = "publish" /\ t.op = "publish"
  <2>1. t.route \in Routes
    BY <1>8, MenuAssumption
  <2>2. Locals(q)'
    BY <1>4, <1>6, <1>8, <2>1 DEF Locals, Moving
  <2> QED
    BY <1>2, <1>6, <2>2, OthersKeep DEF ValidatedInv, Tables, documents, operations
<1> QED
    BY <1>3, <1>7, <1>8

-----------------------------------------------------------------------------
\* The locals of q keep their route.
SameRoute(q) == DOMAIN work'[q] = Fields /\ work'[q].route = work[q].route

LEMMA RequireValidated ==
    ASSUME ValidatedInv, NEW q \in Requests, Require(q)
    PROVE  ValidatedInv'
<1>1. UNCHANGED <<conversations, stored, routes, task>>
    BY DEF Require, documents, operations
<1>2. DOMAIN pc = Requests /\ DOMAIN work = Requests /\ Locals(q)
    BY DEF ValidatedInv, Tables
<1>3. CASE work[q].conversation \notin DOMAIN conversations
    BY <1>1, <1>2, <1>3, NoWorkIs, AsideKeeps
       DEF Require, End, Goto, Keep, Moved, Aside, ValidatedInv, Tables
<1>4. CASE work[q].conversation \in DOMAIN conversations /\ task[q].op = "append"
    BY <1>1, <1>2, <1>4, AsideKeeps DEF Require, Goto, Moved, Aside, ValidatedInv, Tables, Locals
<1>5. CASE work[q].conversation \in DOMAIN conversations /\ task[q].op # "append"
  <2> DEFINE route == IF work[q].route = None THEN conversations[work[q].conversation] ELSE work[q].route
  <2>1. /\ Keep(q, [work[q] EXCEPT !.route = route])
        /\ Goto(q, IF route = None THEN "scenario" ELSE "resolve")
    BY <1>5 DEF Require
  <2>2. route \in Routes \cup {None}
    BY <1>2, <1>5 DEF ValidatedInv, Tables, Locals
  <2> HIDE DEF route
  <2>3. DOMAIN work'[q] = Fields /\ work'[q].route = route
    BY <1>2, <2>1 DEF Keep, Locals, Fields
  <2>4. \E l \in Aside : Moved(q, l)
    BY <1>1, <2>1 DEF Keep, Goto, Moved, Aside
  <2> QED
    BY <1>1, <2>2, <2>3, <2>4, AsideKeeps DEF ValidatedInv, Tables
<1> QED
    BY <1>3, <1>4, <1>5

-----------------------------------------------------------------------------
\* The calls that write a document of a conversation, or nothing, and go on.
LEMMA DocumentsValidated ==
    ASSUME ValidatedInv, NEW q \in Requests,
           \/ SaveUserMessage(q) \/ SaveRun(q) \/ SaveAssistantMessage(q) \/ DeleteConversation(q)
           \/ DeleteMessages(q) \/ DeleteWindows(q)
    PROVE  ValidatedInv'
<1>1. UNCHANGED <<stored, routes, task, work>>
    BY DEF SaveUserMessage, SaveRun, SaveAssistantMessage, DeleteConversation, DeleteMessages,
           DeleteWindows, operations
<1>2. \E l \in Aside : pc' = [pc EXCEPT ![q] = l]
    BY DEF SaveUserMessage, SaveRun, SaveAssistantMessage, DeleteConversation, DeleteMessages,
           DeleteWindows, Goto, Aside
<1>3. \E l \in Aside : Moved(q, l)
    BY <1>1, <1>2 DEF Moved
<1>4. \A c \in DOMAIN conversations' : conversations'[c] \in Routes \cup {None}
  <2>1. CASE DeleteConversation(q)
    BY <2>1 DEF DeleteConversation, Without, ValidatedInv, Tables
  <2>2. CASE ~DeleteConversation(q)
    <3>1. UNCHANGED conversations
      BY <2>2 DEF SaveUserMessage, SaveRun, SaveAssistantMessage, DeleteMessages, DeleteWindows
    <3> QED
      BY <3>1 DEF ValidatedInv, Tables
  <2> QED
    BY <2>1, <2>2
<1> QED
    BY <1>1, <1>3, <1>4, AsideKeeps DEF ValidatedInv, Locals

\* The calls after which a request has ended, and its death.
LEMMA EndsValidated ==
    ASSUME ValidatedInv, NEW q \in Requests,
           SaveWindow(q) \/ AppendMessage(q) \/ DeleteRuns(q) \/ Crash(q)
    PROVE  ValidatedInv'
<1>1. End(q) /\ UNCHANGED <<conversations, stored, routes, task>>
    BY DEF SaveWindow, AppendMessage, DeleteRuns, Crash, operations, documents
<1>2. Moved(q, "end") /\ work'[q] = NoWork
    BY <1>1 DEF End, Goto, Keep, Moved, ValidatedInv, Tables
<1> QED
    BY <1>1, <1>2, NoWorkIs, AsideKeeps DEF Aside, ValidatedInv, Tables

\* The calls that read something into the locals.
LEMMA ReadsValidated ==
    ASSUME ValidatedInv, NEW q \in Requests,
           ResolveRoute(q) \/ ListMessages(q) \/ ReadPrevious(q)
    PROVE  ValidatedInv'
<1>1. UNCHANGED <<conversations, stored, routes, task>>
    BY DEF ResolveRoute, ListMessages, ReadPrevious, operations, documents
<1>2. DOMAIN work[q] = Fields /\ work[q].route \in Routes \cup {None}
    BY DEF ValidatedInv, Locals
<1>3. PICK w : work' = [work EXCEPT ![q] = w] /\ DOMAIN w = Fields /\ w.route = work[q].route
  <2>1. CASE ResolveRoute(q)
    <3> DEFINE w == [work[q] EXCEPT !.scenario = routes[work[q].route].scenario,
                                    !.plan = routes[work[q].route].plan]
    <3>1. DOMAIN w = Fields /\ w.route = work[q].route
      BY <1>2 DEF Fields
    <3> QED
      BY <2>1, <3>1 DEF ResolveRoute, Keep
  <2>2. CASE ListMessages(q)
    <3> DEFINE w == [work[q] EXCEPT
                       !.recent = Ids(LastOf(MessagesOf(work[q].conversation), RecentLimit))]
    <3>1. DOMAIN w = Fields /\ w.route = work[q].route
      BY <1>2 DEF Fields
    <3> QED
      BY <2>2, <3>1 DEF ListMessages, Keep
  <2>3. CASE ReadPrevious(q)
    <3> DEFINE w == [work[q] EXCEPT !.previous = Existing(windows, work[q].conversation)]
    <3>1. DOMAIN w = Fields /\ w.route = work[q].route
      BY <1>2 DEF Fields
    <3> QED
      BY <2>3, <3>1 DEF ReadPrevious, Keep
  <2> QED
    BY <2>1, <2>2, <2>3
<1>4. \E l \in Aside : pc' = [pc EXCEPT ![q] = l]
    BY DEF ResolveRoute, ListMessages, ReadPrevious, Goto, Aside
<1>5. \E l \in Aside : Moved(q, l)
    BY <1>1, <1>3, <1>4 DEF Moved
<1>6. work'[q] = w
    BY <1>3 DEF ValidatedInv, Tables
<1> QED
    BY <1>1, <1>2, <1>3, <1>5, <1>6, AsideKeeps DEF ValidatedInv, Tables

LEMMA CreateValidated ==
    ASSUME ValidatedInv, NEW q \in Requests, CreateConversation(q)
    PROVE  ValidatedInv'
<1>1. UNCHANGED <<stored, routes, task>>
    BY DEF CreateConversation, operations
<1>2. DOMAIN work[q] = Fields /\ work[q].route \in Routes \cup {None}
    BY DEF ValidatedInv, Locals
<1>3. \A c \in DOMAIN conversations' : conversations'[c] \in Routes \cup {None}
    BY <1>2 DEF CreateConversation, ValidatedInv, Tables
<1>4. CASE task[q].op = "create"
  <2>1. Moved(q, "end") /\ work'[q] = NoWork
    BY <1>1, <1>4 DEF CreateConversation, End, Goto, Keep, Moved, ValidatedInv, Tables
  <2> QED
    BY <1>1, <1>3, <2>1, NoWorkIs, AsideKeeps DEF Aside
<1>5. CASE task[q].op # "create"
  <2> DEFINE w == [work[q] EXCEPT !.conversation = q]
  <2>1. DOMAIN w = Fields /\ w.route = work[q].route
    BY <1>2 DEF Fields
  <2>2. Keep(q, w) /\ Goto(q, "scenario")
    BY <1>5 DEF CreateConversation
  <2> HIDE DEF w
  <2>3. Moved(q, "scenario") /\ work'[q] = w
    BY <1>1, <2>2 DEF Goto, Keep, Moved, ValidatedInv, Tables
  <2> QED
    BY <1>1, <1>2, <1>3, <2>1, <2>3, AsideKeeps DEF Aside
<1> QED
    BY <1>4, <1>5

LEMMA ScenarioValidated ==
    ASSUME ValidatedInv, NEW q \in Requests, ResolveScenario(q)
    PROVE  ValidatedInv'
<1>1. UNCHANGED <<conversations, stored, routes, task>>
    BY DEF ResolveScenario, operations, documents
<1>2. CASE work[q].scenario \in stored
    BY <1>1, <1>2, AsideKeeps DEF ResolveScenario, Goto, Moved, Aside, ValidatedInv, Tables, Locals
<1>3. CASE work[q].scenario \notin stored
  <2>1. Moved(q, "end") /\ work'[q] = NoWork
    BY <1>1, <1>3 DEF ResolveScenario, End, Goto, Keep, Moved, ValidatedInv, Tables
  <2> QED
    BY <1>1, <2>1, NoWorkIs, AsideKeeps DEF Aside, ValidatedInv, Tables
<1> QED
    BY <1>2, <1>3

-----------------------------------------------------------------------------
(* The way into the route.                                                 *)

\* A plan of the workflow that moves on is a valid one.
LEMMA WorkflowPlansAreValid ==
    ASSUME NEW q, NEW window, NEW answer \in AnswersTo(q, window),
           Moves(q, answer), answer.source = "workflow"
    PROVE  answer.plan.valid = TRUE
<1>1. answer.source # "route_qa" /\ answer.succeeded /\ answer.plan # None
    BY DEF Moves
<1>2. PICK o \in Outcomes(work[q].scenario, window # None) :
        answer = IF o = FollowedUp THEN FollowedUpFrom(window) ELSE o
    BY <1>1 DEF AnswersTo, RouteAnswered
<1>3. o # FollowedUp
    BY <1>2 DEF FollowedUpFrom, FollowedUp
<1>4. answer = o
    BY <1>2, <1>3
<1>5. o.succeeded
    BY <1>1, <1>4
<1>6. PICK tag \in Tags : o = Replanned(work[q].scenario, tag)
  <2>1. \A tag, plan : ~Failed(tag, plan).succeeded
    BY DEF Failed
  <2>2. \A tag, plan : o # Failed(tag, plan)
    BY <1>5, <2>1
  <2> QED
    BY <1>3, <2>2 DEF Outcomes
<1>7. o.plan = PlanFor(Append(work[q].scenario, tag), TRUE)
    BY <1>6 DEF Replanned
<1> QED
    BY <1>4, <1>7 DEF PlanFor

LEMMA ReadContextValidated ==
    ASSUME ValidatedInv, NEW q \in Requests, ReadContext(q)
    PROVE  ValidatedInv'
<1> DEFINE window == Existing(windows, work[q].conversation)
<1>1. PICK answer \in AnswersTo(q, window) :
        /\ Keep(q, [work[q] EXCEPT !.before = window, !.outcome = answer])
        /\ Goto(q, IF ~Moves(q, answer) THEN "run"
                     ELSE IF answer.source = "workflow" THEN "store" ELSE "update")
    BY DEF ReadContext
<1>2. UNCHANGED <<conversations, stored, routes, task>>
    BY DEF ReadContext, operations, documents
<1>3. DOMAIN work[q] = Fields /\ work[q].route \in Routes \cup {None}
    BY DEF ValidatedInv, Locals
<1> DEFINE w == [work[q] EXCEPT !.before = window, !.outcome = answer]
<1>4. DOMAIN w = Fields /\ w.route = work[q].route /\ w.outcome = answer
    BY <1>3 DEF Fields
<1>5. work' = [work EXCEPT ![q] = w]
    BY <1>1 DEF Keep
<1> HIDE DEF w
<1>6. work'[q] = w
    BY <1>5 DEF ValidatedInv, Tables
<1>7. CASE ~Moves(q, answer)
  <2>1. Moved(q, "run")
    BY <1>1, <1>2, <1>5, <1>7 DEF Goto, Moved
  <2> QED
    BY <1>2, <1>3, <1>4, <1>6, <2>1, AsideKeeps DEF Aside, ValidatedInv, Tables
<1>8. CASE Moves(q, answer)
  <2> DEFINE l == IF answer.source = "workflow" THEN "store" ELSE "update"
  <2>1. Moved(q, l) /\ pc'[q] = l
    BY <1>1, <1>2, <1>5, <1>8 DEF Goto, Moved, ValidatedInv, Tables
  <2>2. answer.source = "workflow" => answer.plan.valid = TRUE
    BY <1>8, WorkflowPlansAreValid
  <2>3. work[q].route \in Routes
    BY <1>3, <1>8 DEF Moves
  <2>4. Locals(q)'
    BY <1>3, <1>4, <1>6, <2>1, <2>2, <2>3 DEF Locals
  <2> QED
    BY <1>2, <2>1, <2>4, OthersKeep DEF ValidatedInv, Tables
<1> QED
    BY <1>7, <1>8

LEMMA StoreValidated ==
    ASSUME ValidatedInv, NEW q \in Requests, StoreScenario(q)
    PROVE  ValidatedInv'
<1>1. /\ pc[q] = "store" /\ Goto(q, "update")
      /\ stored' = stored \cup {work[q].outcome.plan.scenario}
      /\ UNCHANGED <<conversations, routes, task, work>>
    BY DEF StoreScenario, documents
<1>2. Moved(q, "update") /\ pc'[q] = "update"
    BY <1>1 DEF Goto, Moved, ValidatedInv, Tables
<1>3. Locals(q)'
    BY <1>1, <1>2 DEF ValidatedInv, Locals, Moving
<1> QED
    BY <1>1, <1>2, <1>3, OthersKeep DEF ValidatedInv, Tables

\* The write itself, and what it writes.
LEMMA UpdateWrites ==
    ASSUME ValidatedInv, NEW q \in Requests, UpdateRoute(q)
    PROVE  /\ DOMAIN routes' = Routes
           /\ \A r \in Routes : DOMAIN routes'[r] = {"scenario", "plan"}
           /\ work[q].outcome.source = "workflow" =>
                LET route == routes'[work[q].route] IN
                /\ route.plan.scenario = route.scenario
                /\ route.plan.valid = TRUE
                /\ route.scenario = work[q].outcome.plan.scenario
<1> DEFINE plan == work[q].outcome.plan
<1>1. routes' = [routes EXCEPT ![work[q].route].plan = plan,
                   ![work[q].route].scenario =
                       IF work[q].outcome.source = "workflow" THEN plan.scenario ELSE @]
    BY DEF UpdateRoute
<1>2. work[q].route \in Routes /\ DOMAIN routes = Routes
      /\ \A r \in Routes : DOMAIN routes[r] = {"scenario", "plan"}
    BY DEF UpdateRoute, ValidatedInv, Tables, Locals, Moving
<1>4. work[q].outcome.source = "workflow" => work[q].outcome.plan.valid = TRUE
    BY DEF UpdateRoute, ValidatedInv, Locals, Moving
<1>5. work[q].outcome.source = "workflow" =>
        routes'[work[q].route].plan = plan /\ routes'[work[q].route].scenario = plan.scenario
    BY <1>1, <1>2
<1>6. DOMAIN routes' = Routes
      /\ \A r \in Routes : DOMAIN routes'[r] = {"scenario", "plan"}
    BY <1>1, <1>2
<1> QED
    BY <1>4, <1>5, <1>6

LEMMA UpdateValidated ==
    ASSUME ValidatedInv, NEW q \in Requests, UpdateRoute(q)
    PROVE  ValidatedInv'
<1>1. Goto(q, "run") /\ UNCHANGED <<conversations, stored, task, work>>
    BY DEF UpdateRoute, documents
<1>2. Moved(q, "run") /\ pc'[q] = "run"
    BY <1>1 DEF Goto, Moved, ValidatedInv, Tables
<1>3. Locals(q)'
    BY <1>1, <1>2 DEF ValidatedInv, Locals, Moving
<1> QED
    BY <1>1, <1>2, <1>3, UpdateWrites, OthersKeep DEF ValidatedInv, Tables

LEMMA PublishValidated ==
    ASSUME ValidatedInv, NEW q \in Requests, Publish(q)
    PROVE  ValidatedInv'
<1>1. /\ pc[q] = "publish" /\ End(q) /\ UNCHANGED <<conversations, stored, task>>
      /\ routes' = [routes EXCEPT ![task[q].route] = OnRoute(FirstScenario[task[q].route])]
    BY DEF Publish, documents
<1>2. Moved(q, "end") /\ pc'[q] = "end" /\ work'[q] = NoWork
    BY <1>1 DEF End, Goto, Keep, Moved, ValidatedInv, Tables
<1>3. Locals(q)'
    BY <1>2, NoWorkIs DEF Locals, Moving
<1>4. DOMAIN routes' = Routes /\ \A r \in Routes : DOMAIN routes'[r] = {"scenario", "plan"}
    BY <1>1 DEF OnRoute, ValidatedInv, Tables
<1> QED
    BY <1>1, <1>2, <1>3, <1>4, OthersKeep DEF ValidatedInv, Tables

-----------------------------------------------------------------------------
LEMMA NextValidated == ValidatedInv /\ [ConversationsNext]_conversationVars => ValidatedInv'
<1> SUFFICES ASSUME ValidatedInv, [ConversationsNext]_conversationVars PROVE ValidatedInv'
    OBVIOUS
<1>1. ASSUME NEW q \in Requests, Call(q)
      PROVE  ValidatedInv'
    BY <1>1, ReceiveValidated, RequireValidated, DocumentsValidated, EndsValidated, ReadsValidated,
       CreateValidated, ScenarioValidated, ReadContextValidated, StoreValidated,
       UpdateValidated, PublishValidated DEF Call
<1>2. ASSUME NEW q \in Requests, Crash(q)
      PROVE  ValidatedInv'
    BY <1>2, EndsValidated
<1>3. CASE UNCHANGED conversationVars
    BY <1>3 DEF conversationVars, documents, operations, serving, ValidatedInv, Tables, Locals
<1> QED
    BY <1>1, <1>2, <1>3 DEF ConversationsNext, Rest

\* Who goes from the write to the next call has written.
LEMMA OnlyUpdateUpdates ==
    ASSUME ValidatedInv, ConversationsNext, NEW q \in Requests, NEW source, Updates(q, source)
    PROVE  UpdateRoute(q)
<1>1. pc[q] = "update" /\ pc'[q] = "run" /\ DOMAIN pc = Requests
    BY DEF Updates, ValidatedInv, Tables
<1>2. PICK p \in Requests : Call(p) \/ Crash(p)
  <2>1. ~Rest
    BY <1>1 DEF Rest, Ended
  <2> QED
    BY <2>1 DEF ConversationsNext
<1>3. \E l : pc' = [pc EXCEPT ![p] = l]
  <2>1. CASE Receive(p) \/ Require(p) \/ ResolveRoute(p) \/ CreateConversation(p) \/ ResolveScenario(p)
             \/ SaveUserMessage(p) \/ ReadContext(p)
    BY <2>1 DEF Receive, Require, ResolveRoute, CreateConversation, ResolveScenario, SaveUserMessage,
                ReadContext, Goto, End
  <2>2. CASE StoreScenario(p) \/ UpdateRoute(p) \/ SaveRun(p)
             \/ SaveAssistantMessage(p) \/ ListMessages(p) \/ ReadPrevious(p) \/ SaveWindow(p)
    BY <2>2 DEF StoreScenario, UpdateRoute, SaveRun, SaveAssistantMessage, ListMessages,
                ReadPrevious, SaveWindow, Goto, End
  <2>3. CASE AppendMessage(p) \/ DeleteConversation(p) \/ DeleteMessages(p) \/ DeleteWindows(p)
             \/ DeleteRuns(p) \/ Publish(p) \/ Crash(p)
    BY <2>3 DEF AppendMessage, DeleteConversation, DeleteMessages, DeleteWindows, DeleteRuns, Publish,
                Crash, Goto, End
  <2> QED
    BY <1>2, <2>1, <2>2, <2>3 DEF Call
<1>4. p = q
    BY <1>1, <1>3
<1>5. ~Crash(q)
    BY <1>1 DEF Crash, End, Goto
<1>6. Call(q)
    BY <1>2, <1>4, <1>5
<1>7. ~(Receive(q) \/ Require(q) \/ ResolveRoute(q) \/ CreateConversation(q) \/ ResolveScenario(q)
        \/ SaveUserMessage(q) \/ ReadContext(q) \/ StoreScenario(q) \/ SaveRun(q)
        \/ SaveAssistantMessage(q) \/ ListMessages(q) \/ ReadPrevious(q) \/ SaveWindow(q)
        \/ AppendMessage(q) \/ DeleteConversation(q) \/ DeleteMessages(q) \/ DeleteWindows(q)
        \/ DeleteRuns(q) \/ Publish(q))
    BY <1>1 DEF Receive, Require, ResolveRoute, CreateConversation, ResolveScenario, SaveUserMessage,
                ReadContext, StoreScenario, SaveRun, SaveAssistantMessage, ListMessages,
                ReadPrevious, SaveWindow, AppendMessage, DeleteConversation, DeleteMessages,
                DeleteWindows, DeleteRuns, Publish
<1> QED
    BY <1>6, <1>7 DEF Call

LEMMA StepArrivesValidated ==
    ASSUME ValidatedInv, ConversationsNext, NEW q \in Requests, Updates(q, "workflow")
    PROVE  LET route == routes'[work[q].route] IN
           /\ route.plan.scenario = route.scenario
           /\ route.plan.valid
           /\ route.scenario \in stored
<1>1. UpdateRoute(q)
    BY OnlyUpdateUpdates
<1>2. work[q].outcome.source = "workflow" /\ pc[q] = "update"
    BY DEF Updates
<1>3. work[q].outcome.plan.scenario \in stored
    BY <1>2 DEF ValidatedInv, Locals, Moving
<1> QED
    BY <1>1, <1>2, <1>3, UpdateWrites

\* Whatever is served at the same time and wherever requests die: the plan a replan
\* puts into a route is a valid one of the scenario it puts there, which is stored.
THEOREM ReplansValidated == ConversationsSpec => ReplansArriveValidated
<1> DEFINE Arrives == \A q \in Requests : Updates(q, "workflow") =>
                        LET route == routes'[work[q].route] IN
                        /\ route.plan.scenario = route.scenario
                        /\ route.plan.valid
                        /\ route.scenario \in stored
<1>1. ValidatedInv /\ [ConversationsNext]_conversationVars => [Arrives]_conversationVars
    BY StepArrivesValidated
<1> QED
    BY <1>1, InitValidated, NextValidated, PTL DEF ConversationsSpec, ReplansArriveValidated

-----------------------------------------------------------------------------
(* The audit trail.                                                        *)

HasMessage(ms, c, x) == \E j \in DOMAIN ms : ms[j].conversation = c /\ Id(ms[j]) = x
HasRun(rs, c, m) == \E j \in DOMAIN rs : rs[j].conversation = c /\ rs[j].request = m

\* Where a request's question, its run, and what it lists are there.
AskedAt == {"context", "store", "update", "run", "assistant", "list", "previous", "window"}
RanAt == {"assistant", "list", "previous", "window"}
ListedAt == {"previous", "window"}
DeletingAt == {"delete messages", "delete windows", "delete runs"}

\* What a request has done so far is there, unless its conversation is deleted.
Progress(q) ==
    LET c == work[q].conversation IN
    /\ pc[q] \in DeletingAt => c \notin DOMAIN conversations
    /\ c \in DOMAIN conversations =>
         /\ pc[q] \in AskedAt => HasMessage(messages, c, <<q, "user">>)
         /\ pc[q] \in RanAt => HasRun(runs, c, q)
         /\ pc[q] \in ListedAt => \A i \in DOMAIN work[q].recent : HasMessage(messages, c, work[q].recent[i])

\* Nothing is of a conversation whose id has not been made yet.
Known == Minted \cup {None}
Named ==
    /\ \A q \in Requests : work[q].conversation \in Known
    /\ DOMAIN conversations \subseteq Known /\ DOMAIN windows \subseteq Known
    /\ \A i \in DOMAIN messages : messages[i].conversation \in Known
    /\ \A i \in DOMAIN runs : runs[i].conversation \in Known

AnswersStand(c) ==
    \A i \in DOMAIN messages :
        messages[i].conversation = c /\ messages[i].role = "assistant" =>
            /\ HasRun(runs, c, messages[i].request)
            /\ \E j \in 1..(i - 1) : messages[j].conversation = c /\ messages[j].role = "user"
                                       /\ messages[j].request = messages[i].request
WindowStands(c) ==
    c \in DOMAIN windows =>
        /\ \A i \in DOMAIN windows[c].recent : HasMessage(messages, c, windows[c].recent[i])
        /\ \E j \in DOMAIN runs : runs[j].conversation = c

Lists == IsList(messages) /\ IsList(runs)

AuditInv ==
    /\ Lists /\ Named
    /\ \A q \in Requests : Progress(q)
    /\ \A c \in DOMAIN conversations : AnswersStand(c) /\ WindowStands(c)

LEMMA AuditMeans == AuditInv => AuditTrail
    BY DEF AuditInv, AuditTrail, AnswersStand, WindowStands, HasRun, HasMessage

LEMMA InitAudit == ConversationsInit => AuditInv
<1> SUFFICES ASSUME ConversationsInit PROVE AuditInv
    OBVIOUS
<1>1. Lists /\ DOMAIN messages = {} /\ DOMAIN runs = {}
    BY EmptyIsList, ListFacts DEF ConversationsInit, Lists
<1>2. \A q \in Requests : pc[q] = "new" /\ work[q].conversation = None
    BY DEF ConversationsInit, NoWork
<1>3. DOMAIN conversations = {} /\ DOMAIN windows = {}
    BY DEF ConversationsInit
<1> QED
    BY <1>1, <1>2, <1>3 DEF AuditInv, Named, Known, Progress, DeletingAt

\* Before a conversation of a request's own is made, if it is.
Early == {"new", "require", "resolve", "create"}

\* A call is one of its request's; and no id is unmade.
LEMMA CallMoves ==
    ASSUME ValidatedInv, NEW q \in Requests, Call(q) \/ Crash(q)
    PROVE  /\ \E l : pc' = [pc EXCEPT ![q] = l] /\ (l \in Early => pc[q] \in Early) /\ l # "new"
           /\ work' = work \/ \E w : work' = [work EXCEPT ![q] = w]
           /\ Minted \subseteq Minted' /\ Known \subseteq Known'
<1>1. /\ \E l : pc' = [pc EXCEPT ![q] = l] /\ (l \in Early => pc[q] \in Early) /\ l # "new"
      /\ work' = work \/ \E w : work' = [work EXCEPT ![q] = w]
  <2>1. CASE Receive(q)
    <3>1. PICK t \in Menu[q] :
            Goto(q, CASE t.op = "replan" /\ t.conversation = None /\ t.route = None -> "create"
                      [] t.op = "replan" /\ t.conversation = None /\ t.route # None -> "resolve"
                      [] t.op \in {"create", "delete", "publish"} -> t.op
                      [] OTHER -> "require")
      BY <2>1 DEF Receive
    <3> DEFINE l == CASE t.op = "replan" /\ t.conversation = None /\ t.route = None -> "create"
                      [] t.op = "replan" /\ t.conversation = None /\ t.route # None -> "resolve"
                      [] t.op \in {"create", "delete", "publish"} -> t.op
                      [] OTHER -> "require"
    <3>2. pc' = [pc EXCEPT ![q] = l] /\ l # "new"
      BY <3>1 DEF Goto
    <3> HIDE DEF l
    <3>3. pc[q] \in Early /\ \E w : work' = [work EXCEPT ![q] = w]
      BY <2>1 DEF Receive, Keep, Early
    <3> QED
      BY <3>2, <3>3
  <2>2. CASE Require(q) \/ ResolveRoute(q)
    BY <2>2 DEF Require, ResolveRoute, Goto, Keep, End, Early
  <2>3. CASE CreateConversation(q) \/ ResolveScenario(q) \/ SaveUserMessage(q)
    BY <2>3 DEF CreateConversation, ResolveScenario, SaveUserMessage, Goto, Keep, End, Early
  <2>6. CASE ReadContext(q)
    <3> DEFINE window == Existing(windows, work[q].conversation)
    <3>1. PICK answer \in AnswersTo(q, window) :
            /\ Keep(q, [work[q] EXCEPT !.before = window, !.outcome = answer])
            /\ Goto(q, IF ~Moves(q, answer) THEN "run"
                         ELSE IF answer.source = "workflow" THEN "store" ELSE "update")
      BY <2>6 DEF ReadContext
    <3> DEFINE l == IF ~Moves(q, answer) THEN "run" ELSE IF answer.source = "workflow" THEN "store" ELSE "update"
               w == [work[q] EXCEPT !.before = window, !.outcome = answer]
    <3>2. l \notin Early /\ l # "new"
      BY DEF Early
    <3>3. pc' = [pc EXCEPT ![q] = l] /\ work' = [work EXCEPT ![q] = w]
      BY <3>1 DEF Goto, Keep
    <3> HIDE DEF window, l, w
    <3> QED
      BY <3>2, <3>3
  <2>4. CASE StoreScenario(q) \/ UpdateRoute(q) \/ SaveRun(q)
             \/ SaveAssistantMessage(q) \/ ListMessages(q) \/ ReadPrevious(q) \/ SaveWindow(q)
    BY <2>4 DEF StoreScenario, UpdateRoute, SaveRun, SaveAssistantMessage, ListMessages,
                ReadPrevious, SaveWindow, Goto, Keep, End, Early
  <2>5. CASE AppendMessage(q) \/ DeleteConversation(q) \/ DeleteMessages(q) \/ DeleteWindows(q)
             \/ DeleteRuns(q) \/ Publish(q) \/ Crash(q)
    BY <2>5 DEF AppendMessage, DeleteConversation, DeleteMessages, DeleteWindows, DeleteRuns, Publish,
                Crash, Goto, Keep, End, Early
  <2> QED
    BY <2>1, <2>2, <2>3, <2>4, <2>5, <2>6 DEF Call
<1>2. PICK l : pc' = [pc EXCEPT ![q] = l] /\ (l \in Early => pc[q] \in Early) /\ l # "new"
    BY <1>1
<1>3. DOMAIN pc = Requests
    BY DEF ValidatedInv, Tables
<1>4. \A c \in Requests : pc[c] \notin Early => pc'[c] \notin Early
    BY <1>2, <1>3
<1>5. Minted \subseteq Minted'
    BY <1>4 DEF Minted, Early
<1> QED
    BY <1>1, <1>5 DEF Known

\* What is there of a conversation that is not deleted stays.
Persists ==
    \A c \in DOMAIN conversations' :
        /\ \A x : HasMessage(messages, c, x) => HasMessage(messages', c, x)
        /\ \A m : HasRun(runs, c, m) => HasRun(runs', c, m)

LEMMA OthersProgress ==
    ASSUME ValidatedInv, AuditInv, NEW q \in Requests, Call(q) \/ Crash(q), Persists,
           NEW p \in Requests, p # q,
           work[p].conversation \in DOMAIN conversations' => work[p].conversation \in DOMAIN conversations
    PROVE  Progress(p)' /\ work'[p] = work[p]
<1>1. pc'[p] = pc[p] /\ work'[p] = work[p]
    BY CallMoves DEF ValidatedInv, Tables
<1>2. Progress(p)
    BY DEF AuditInv
<1> QED
    BY <1>1, <1>2 DEF Progress, Persists

\* A call after which all that it has to do with is there.
LEMMA AuditKept ==
    ASSUME ValidatedInv, AuditInv, NEW q \in Requests, Call(q) \/ Crash(q), Persists,
           DOMAIN conversations' \subseteq DOMAIN conversations,
           work'[q].conversation \in Known', Progress(q)',
           Lists', DOMAIN windows' \subseteq Known',
           \A i \in DOMAIN messages' : messages'[i].conversation \in Known',
           \A i \in DOMAIN runs' : runs'[i].conversation \in Known',
           \A c \in DOMAIN conversations' : AnswersStand(c)' /\ WindowStands(c)'
    PROVE  AuditInv'
<1>1. Known \subseteq Known'
    BY CallMoves
<1>2. \A p \in Requests : p # q => Progress(p)' /\ work'[p] = work[p]
    BY OthersProgress
<1>3. Named'
    BY <1>1, <1>2 DEF AuditInv, Named
<1> QED
    BY <1>2, <1>3 DEF AuditInv

\* The calls that leave the documents alone.
LEMMA ReadsAudit ==
    ASSUME ValidatedInv, AuditInv, NEW q \in Requests, Call(q) \/ Crash(q), UNCHANGED documents,
           work'[q].conversation \in Known', Progress(q)'
    PROVE  AuditInv'
<1>1. UNCHANGED <<conversations, messages, runs, windows>> /\ Known \subseteq Known'
    BY CallMoves DEF documents
<1>2. Persists
    BY <1>1 DEF Persists, HasMessage, HasRun
<1>3. /\ Lists' /\ DOMAIN windows' \subseteq Known'
      /\ \A i \in DOMAIN messages' : messages'[i].conversation \in Known'
      /\ \A i \in DOMAIN runs' : runs'[i].conversation \in Known'
    BY <1>1 DEF AuditInv, Lists, Named
<1>4. \A c \in DOMAIN conversations' : AnswersStand(c)' /\ WindowStands(c)'
    BY <1>1 DEF AuditInv, AnswersStand, WindowStands, HasMessage, HasRun
<1> QED
    BY <1>1, <1>2, <1>3, <1>4, AuditKept

LEMMA ReceiveAudit ==
    ASSUME ValidatedInv, AuditInv, NEW q \in Requests, Receive(q)
    PROVE  AuditInv'
<1>1. PICK t \in Menu[q] :
        /\ t.op \in {"replan", "append", "delete"} => t.conversation \in Minted \cup {None}
        /\ Goto(q, CASE t.op = "replan" /\ t.conversation = None /\ t.route = None -> "create"
                      [] t.op = "replan" /\ t.conversation = None /\ t.route # None -> "resolve"
                      [] t.op \in {"create", "delete", "publish"} -> t.op
                      [] OTHER -> "require")
        /\ Keep(q, IF t.op \in {"create", "publish"} THEN NoWork
                     ELSE [NoWork EXCEPT !.conversation = t.conversation, !.scenario = Home,
                                         !.route = IF t.op = "replan" THEN t.route ELSE None])
    BY DEF Receive
<1> DEFINE l == CASE t.op = "replan" /\ t.conversation = None /\ t.route = None -> "create"
                  [] t.op = "replan" /\ t.conversation = None /\ t.route # None -> "resolve"
                  [] t.op \in {"create", "delete", "publish"} -> t.op
                  [] OTHER -> "require"
           w == IF t.op \in {"create", "publish"} THEN NoWork
                  ELSE [NoWork EXCEPT !.conversation = t.conversation, !.scenario = Home,
                                      !.route = IF t.op = "replan" THEN t.route ELSE None]
<1>2. t.op \in {"replan", "create", "append", "delete", "publish"}
    BY MenuAssumption
<1>3. w.conversation \in Known
    BY <1>1, <1>2 DEF NoWork, Known
<1>4. pc'[q] = l /\ work'[q] = w
    BY <1>1 DEF Goto, Keep, ValidatedInv, Tables
<1>5. l \notin AskedAt \cup RanAt \cup ListedAt \cup DeletingAt
    BY DEF AskedAt, RanAt, ListedAt, DeletingAt
<1> HIDE DEF l, w
<1>6. Progress(q)'
    BY <1>4, <1>5 DEF Progress
<1>7. Known \subseteq Known' /\ UNCHANGED documents
    BY CallMoves DEF Call, Receive
<1> QED
    BY <1>3, <1>4, <1>6, <1>7, ReadsAudit DEF Call

\* The end of a request.
LEMMA EndIs ==
    ASSUME ValidatedInv, NEW q \in Requests, End(q)
    PROVE  pc'[q] = "end" /\ work'[q].conversation = None /\ work'[q].conversation \in Known' /\ Progress(q)'
<1>1. pc'[q] = "end" /\ work'[q] = NoWork /\ NoWork.conversation = None
    BY DEF End, Goto, Keep, NoWork, ValidatedInv, Tables
<1> QED
    BY <1>1 DEF Known, Progress, AskedAt, RanAt, ListedAt, DeletingAt

\* A call that reads and goes on keeps the conversation.
LEMMA LookupsAudit ==
    ASSUME ValidatedInv, AuditInv, NEW q \in Requests,
           \/ Require(q) \/ ResolveRoute(q) \/ ResolveScenario(q) \/ ReadContext(q) \/ StoreScenario(q)
           \/ UpdateRoute(q) \/ ReadPrevious(q) \/ Publish(q) \/ Crash(q)
    PROVE  AuditInv'
<1>1. UNCHANGED documents /\ (Call(q) \/ Crash(q)) /\ Known \subseteq Known'
  <2>1. Call(q) \/ Crash(q)
    BY DEF Call
  <2> QED
    BY <2>1, CallMoves DEF Require, ResolveRoute, ResolveScenario, ReadContext, StoreScenario, 
           UpdateRoute, ReadPrevious, Publish, Crash
<1>2. DOMAIN pc = Requests /\ DOMAIN work = Requests /\ DOMAIN work[q] = Fields
    BY DEF ValidatedInv, Tables, Locals
<1>3. Progress(q) /\ work[q].conversation \in Known
    BY DEF AuditInv, Named
<1>4. CASE End(q)
    BY <1>1, <1>4, EndIs, ReadsAudit
<1>5. CASE ~End(q)
  <2>1. work'[q].conversation = work[q].conversation /\ work'[q].recent = work[q].recent
    BY <1>2, <1>5 DEF Require, ResolveRoute, ResolveScenario, ReadContext, StoreScenario, 
           UpdateRoute, ReadPrevious, Publish, Crash, Keep, Fields
  <2>2. /\ pc'[q] \notin DeletingAt
        /\ pc'[q] \in AskedAt => pc[q] \in AskedAt
        /\ pc'[q] \in RanAt => pc[q] \in RanAt
        /\ pc'[q] \in ListedAt => pc[q] \in ListedAt
    BY <1>2, <1>5 DEF Require, ResolveRoute, ResolveScenario, ReadContext, StoreScenario, 
           UpdateRoute, ReadPrevious, Publish, Crash, Goto, AskedAt, RanAt, ListedAt, DeletingAt
  <2>3. Progress(q)'
    BY <1>1, <1>3, <2>1, <2>2 DEF Progress, documents, HasMessage, HasRun
  <2> QED
    BY <1>1, <1>3, <2>1, <2>3, ReadsAudit
<1> QED
    BY <1>4, <1>5

-----------------------------------------------------------------------------
\* A message more, at the end: what it is an answer to is there.
LEMMA MessageAudit ==
    ASSUME ValidatedInv, AuditInv, NEW q \in Requests, Call(q), NEW m,
           messages' = Append(messages, m), UNCHANGED <<conversations, runs, windows>>,
           m.conversation = work[q].conversation,
           m.role = "assistant" /\ m.conversation \in DOMAIN conversations =>
               HasRun(runs, m.conversation, m.request) /\ HasMessage(messages, m.conversation, <<m.request, "user">>)
    PROVE  /\ Persists /\ HasMessage(messages', m.conversation, Id(m))
           /\ work'[q].conversation \in Known' /\ Progress(q)' => AuditInv'
<1>1. /\ IsList(messages') /\ DOMAIN messages' = 1..(Len(messages) + 1) /\ Len(messages) \in Nat
      /\ DOMAIN messages = 1..Len(messages)
      /\ messages'[Len(messages) + 1] = m
      /\ \A i \in DOMAIN messages : messages'[i] = messages[i]
    BY ListAppend, ListFacts DEF AuditInv, Lists
<1>2. \A c, x : HasMessage(messages, c, x) => HasMessage(messages', c, x)
    BY <1>1 DEF HasMessage
<1>3. \A c, x : HasRun(runs, c, x) <=> HasRun(runs', c, x)
    BY DEF HasRun
<1>4. Persists
    BY <1>2, <1>3 DEF Persists
<1>5. HasMessage(messages', m.conversation, Id(m))
    BY <1>1 DEF HasMessage, Id
<1>6. ASSUME NEW c \in DOMAIN conversations'
      PROVE  AnswersStand(c)' /\ WindowStands(c)'
  <2>1. AnswersStand(c) /\ WindowStands(c)
    BY <1>6 DEF AuditInv
  <2>2. WindowStands(c)'
    BY <2>1, <1>2 DEF WindowStands
  <2>3. ASSUME NEW i \in DOMAIN messages', messages'[i].conversation = c, messages'[i].role = "assistant"
        PROVE  /\ HasRun(runs', c, messages'[i].request)
               /\ \E j \in 1..(i - 1) : messages'[j].conversation = c /\ messages'[j].role = "user"
                                          /\ messages'[j].request = messages'[i].request
    <3>1. CASE i \in DOMAIN messages
      <4>1. PICK j \in 1..(i - 1) : messages[j].conversation = c /\ messages[j].role = "user"
                                          /\ messages[j].request = messages[i].request
        BY <1>1, <2>1, <2>3, <3>1 DEF AnswersStand
      <4>2. j \in DOMAIN messages
        BY <1>1, <3>1
      <4> QED
        BY <1>1, <1>3, <2>1, <2>3, <3>1, <4>1, <4>2 DEF AnswersStand
    <3>2. CASE i \notin DOMAIN messages
      <4>1. i = Len(messages) + 1 /\ messages'[i] = m
        BY <1>1, <3>2
      <4>2. HasRun(runs, c, m.request) /\ HasMessage(messages, c, <<m.request, "user">>)
        BY <1>6, <2>3, <4>1
      <4>3. PICK j \in DOMAIN messages : messages[j].conversation = c /\ Id(messages[j]) = <<m.request, "user">>
        BY <4>2 DEF HasMessage
      <4>4. j \in 1..(i - 1) /\ messages'[j] = messages[j]
            /\ messages[j].role = "user" /\ messages[j].request = m.request
        BY <1>1, <4>1, <4>3 DEF Id
      <4> QED
        BY <1>3, <4>1, <4>2, <4>3, <4>4
    <3> QED
      BY <3>1, <3>2
  <2> QED
    BY <2>2, <2>3 DEF AnswersStand
<1>7. ASSUME work'[q].conversation \in Known', Progress(q)'
      PROVE  AuditInv'
  <2>1. Known \subseteq Known' /\ m.conversation \in Known
    BY CallMoves DEF AuditInv, Named
  <2>2. \A i \in DOMAIN messages' : messages'[i].conversation \in Known'
    BY <1>1, <2>1 DEF AuditInv, Named
  <2>3. Lists' /\ DOMAIN windows' \subseteq Known' /\ \A i \in DOMAIN runs' : runs'[i].conversation \in Known'
    BY <1>1, <2>1 DEF AuditInv, Lists, Named
  <2> QED
    BY <1>4, <1>6, <1>7, <2>2, <2>3, AuditKept
<1> QED
    BY <1>4, <1>5, <1>7

LEMMA UserMessageAudit ==
    ASSUME ValidatedInv, AuditInv, NEW q \in Requests, SaveUserMessage(q)
    PROVE  AuditInv'
<1> DEFINE m == Message(q, "user")
<1>1. /\ messages' = Append(messages, m) /\ Call(q) /\ UNCHANGED <<conversations, runs, windows, work>>
      /\ pc'[q] = "context"
    BY DEF SaveUserMessage, Call, Goto, ValidatedInv, Tables
<1>2. m.conversation = work[q].conversation /\ m.role # "assistant" /\ Id(m) = <<q, "user">>
    BY DEF Message, Id
<1> HIDE DEF m
<1>3. HasMessage(messages', work[q].conversation, <<q, "user">>)
    BY <1>1, <1>2, MessageAudit
<1>4. Progress(q)'
    BY <1>1, <1>3 DEF Progress, RanAt, ListedAt, DeletingAt
<1>5. work'[q].conversation \in Known'
    BY <1>1, CallMoves DEF AuditInv, Named
<1> QED
    BY <1>1, <1>2, <1>4, <1>5, MessageAudit

LEMMA AssistantMessageAudit ==
    ASSUME ValidatedInv, AuditInv, NEW q \in Requests, SaveAssistantMessage(q)
    PROVE  AuditInv'
<1> DEFINE m == Message(q, "assistant")
<1>1. /\ messages' = Append(messages, m) /\ Call(q) /\ UNCHANGED <<conversations, runs, windows, work>>
      /\ pc[q] = "assistant" /\ pc'[q] = "list"
    BY DEF SaveAssistantMessage, Call, Goto, ValidatedInv, Tables
<1>2. m.conversation = work[q].conversation /\ m.request = q
    BY DEF Message
<1> HIDE DEF m
<1>3. work[q].conversation \in DOMAIN conversations =>
        HasRun(runs, work[q].conversation, q) /\ HasMessage(messages, work[q].conversation, <<q, "user">>)
    BY <1>1 DEF AuditInv, Progress, RanAt, AskedAt
<1>4. Persists
    BY <1>1, <1>2, <1>3, MessageAudit
<1>5. Progress(q)'
    BY <1>1, <1>3, <1>4 DEF Progress, Persists, ListedAt, DeletingAt
<1>6. work'[q].conversation \in Known'
    BY <1>1, CallMoves DEF AuditInv, Named
<1> QED
    BY <1>1, <1>2, <1>3, <1>5, <1>6, MessageAudit

LEMMA AppendMessageAudit ==
    ASSUME ValidatedInv, AuditInv, NEW q \in Requests, AppendMessage(q)
    PROVE  AuditInv'
<1> DEFINE m == Message(q, "appended")
<1>1. /\ messages' = Append(messages, m) /\ Call(q) /\ UNCHANGED <<conversations, runs, windows>>
      /\ End(q)
    BY DEF AppendMessage, Call
<1>2. m.conversation = work[q].conversation /\ m.role # "assistant"
    BY DEF Message
<1> HIDE DEF m
<1> QED
    BY <1>1, <1>2, EndIs, MessageAudit

LEMMA SaveRunAudit ==
    ASSUME ValidatedInv, AuditInv, NEW q \in Requests, SaveRun(q)
    PROVE  AuditInv'
<1> DEFINE r == [conversation |-> work[q].conversation, request |-> q, result |-> work[q].outcome]
<1>1. /\ runs' = Append(runs, r) /\ Call(q) /\ UNCHANGED <<conversations, messages, windows, work>>
      /\ pc[q] = "run" /\ pc'[q] = "assistant"
    BY DEF SaveRun, Call, Goto, ValidatedInv, Tables
<1>2. r.conversation = work[q].conversation /\ r.request = q
    OBVIOUS
<1> HIDE DEF r
<1>3. /\ IsList(runs') /\ DOMAIN runs' = 1..(Len(runs) + 1) /\ Len(runs) \in Nat
      /\ DOMAIN runs = 1..Len(runs) /\ runs'[Len(runs) + 1] = r
      /\ \A i \in DOMAIN runs : runs'[i] = runs[i]
    BY <1>1, ListAppend, ListFacts DEF AuditInv, Lists
<1>4. /\ \A c, x : HasRun(runs, c, x) => HasRun(runs', c, x)
      /\ \A c, x : HasMessage(messages, c, x) <=> HasMessage(messages', c, x)
      /\ HasRun(runs', work[q].conversation, q)
      /\ \A c : (\E j \in DOMAIN runs : runs[j].conversation = c) =>
                  \E j \in DOMAIN runs' : runs'[j].conversation = c
    BY <1>1, <1>2, <1>3 DEF HasRun, HasMessage
<1>5. Persists
    BY <1>4 DEF Persists
<1>6. Progress(q)'
    BY <1>1, <1>4 DEF AuditInv, Progress, AskedAt, RanAt, ListedAt, DeletingAt
<1>7. Known \subseteq Known' /\ work[q].conversation \in Known
    BY <1>1, CallMoves DEF AuditInv, Named
<1>8. /\ Lists' /\ DOMAIN windows' \subseteq Known'
      /\ \A i \in DOMAIN messages' : messages'[i].conversation \in Known'
      /\ \A i \in DOMAIN runs' : runs'[i].conversation \in Known'
    BY <1>1, <1>2, <1>3, <1>7 DEF AuditInv, Lists, Named
<1>9. \A c \in DOMAIN conversations' : AnswersStand(c)' /\ WindowStands(c)'
    BY <1>1, <1>4 DEF AuditInv, AnswersStand, WindowStands
<1> QED
    BY <1>1, <1>5, <1>6, <1>7, <1>8, <1>9, AuditKept

\* The last n of a list are among its members.
LEMMA LastOfFacts ==
    ASSUME NEW s, IsList(s), NEW n \in Nat
    PROVE  /\ IsList(LastOf(s, n)) /\ Len(LastOf(s, n)) <= n
           /\ \A i \in DOMAIN LastOf(s, n) : \E k \in DOMAIN s : LastOf(s, n)[i] = s[k]
           /\ n > 0 /\ Len(s) > 0 => LastOf(s, n)[Len(LastOf(s, n))] = s[Len(s)] /\ Len(LastOf(s, n)) > 0
<1>1. PICK S : s \in Seq(S)
    BY DEF IsList
<1> DEFINE m == IF Len(s) > n THEN Len(s) - n + 1 ELSE 1
<1>2. Len(s) \in Nat /\ m \in 1..(Len(s) + 1) /\ DOMAIN s = 1..Len(s)
    BY <1>1
<1>3. LastOf(s, n) = SubSeq(s, m, Len(s))
    BY DEF LastOf
<1>4. Len(s) - m + 1 <= n /\ (n > 0 /\ Len(s) > 0 => m <= Len(s))
    BY <1>2
<1> HIDE DEF m
<1>5. /\ SubSeq(s, m, Len(s)) \in Seq(S)
      /\ Len(SubSeq(s, m, Len(s))) = IF m <= Len(s) THEN Len(s) - m + 1 ELSE 0
      /\ \A i \in 1..(Len(s) - m + 1) : SubSeq(s, m, Len(s))[i] = s[m + i - 1]
    BY <1>1, <1>2, SubSeqProperties
<1>6. DOMAIN SubSeq(s, m, Len(s)) = 1..(Len(s) - m + 1)
    BY <1>2, <1>5
<1>7. \A i \in 1..(Len(s) - m + 1) : m + i - 1 \in 1..Len(s)
    BY <1>2
<1>8. IsList(LastOf(s, n))
    BY <1>3, <1>5 DEF IsList
<1>9. m <= Len(s) => m + (Len(s) - m + 1) - 1 = Len(s) /\ Len(s) - m + 1 \in 1..(Len(s) - m + 1)
    BY <1>2
<1>10. Len(LastOf(s, n)) <= n
    BY <1>2, <1>3, <1>4, <1>5
<1>11. \A i \in DOMAIN LastOf(s, n) : \E k \in DOMAIN s : LastOf(s, n)[i] = s[k]
    BY <1>2, <1>3, <1>5, <1>6, <1>7
<1>12. n > 0 /\ Len(s) > 0 => LastOf(s, n)[Len(LastOf(s, n))] = s[Len(s)] /\ Len(LastOf(s, n)) > 0
    BY <1>2, <1>3, <1>4, <1>5, <1>9
<1> QED
    BY <1>8, <1>10, <1>11, <1>12

\* What is listed of a conversation's messages is in it.
LEMMA ListedAreThere ==
    ASSUME AuditInv, NEW c
    PROVE  \A i \in DOMAIN Ids(LastOf(MessagesOf(c), RecentLimit)) :
             HasMessage(messages, c, Ids(LastOf(MessagesOf(c), RecentLimit))[i])
<1> DEFINE at == OfConversation(messages, c)
           all == MessagesOf(c)
           last == LastOf(all, RecentLimit)
<1>1. at \in SUBSET (DOMAIN messages) /\ IsList(messages) /\ RecentLimit \in Nat
    BY LimitsAssumption DEF OfConversation, AuditInv, Lists
<1>2. IsList(all)
    BY <1>1, ListPick DEF MessagesOf
<1>3. \A i \in DOMAIN all : \E k \in at : all[i] = messages[k]
    BY <1>1, PickedAt DEF MessagesOf
<1>4. \A i \in DOMAIN last : \E k \in DOMAIN all : last[i] = all[k]
    BY <1>1, <1>2, LastOfFacts
<1>5. \A i \in DOMAIN last : \E k \in at : last[i] = messages[k]
    BY <1>3, <1>4
<1>6. \A i \in DOMAIN last : HasMessage(messages, c, Id(last[i]))
    BY <1>5 DEF HasMessage, OfConversation
<1>7. \A i \in DOMAIN Ids(last) : HasMessage(messages, c, Ids(last)[i])
  <2> HIDE DEF last
  <2> QED
    BY <1>6 DEF Ids
<1> QED
    BY <1>7

LEMMA ListMessagesAudit ==
    ASSUME ValidatedInv, AuditInv, NEW q \in Requests, ListMessages(q)
    PROVE  AuditInv'
<1> DEFINE recent == Ids(LastOf(MessagesOf(work[q].conversation), RecentLimit))
           w == [work[q] EXCEPT !.recent = recent]
<1>1. /\ Call(q) /\ UNCHANGED documents /\ Keep(q, w)
      /\ pc[q] = "list" /\ pc'[q] = "previous"
    BY DEF ListMessages, Call, Goto, ValidatedInv, Tables
<1>2. \A i \in DOMAIN recent : HasMessage(messages, work[q].conversation, recent[i])
    BY ListedAreThere
<1>3. w.conversation = work[q].conversation /\ w.recent = recent
    BY DEF ValidatedInv, Locals, Fields
<1> HIDE DEF recent, w
<1>4. work'[q] = w
    BY <1>1 DEF Keep, ValidatedInv, Tables
<1>5. UNCHANGED <<conversations, messages, runs>>
    BY <1>1 DEF documents
<1>6. Progress(q)'
  <2> DEFINE c == work[q].conversation
  <2>1. c \in DOMAIN conversations => HasMessage(messages, c, <<q, "user">>) /\ HasRun(runs, c, q)
      BY <1>1 DEF AuditInv, Progress, AskedAt, RanAt
  <2>2. work'[q].conversation = c /\ work'[q].recent = recent
      BY <1>3, <1>4
  <2>3. pc'[q] \notin DeletingAt
      BY <1>1 DEF DeletingAt
  <2> QED
      BY <1>2, <1>5, <2>1, <2>2, <2>3 DEF Progress, HasMessage, HasRun
<1>7. work'[q].conversation \in Known'
    BY <1>1, <1>3, <1>4, CallMoves DEF AuditInv, Named
<1> QED
    BY <1>1, <1>6, <1>7, ReadsAudit

LEMMA SaveWindowAudit ==
    ASSUME ValidatedInv, AuditInv, NEW q \in Requests, SaveWindow(q)
    PROVE  AuditInv'
<1> DEFINE c == work[q].conversation
           w == Rebuilt(work[q].previous, work[q].outcome, work[q].recent, q)
<1>1. /\ Call(q) /\ UNCHANGED <<conversations, messages, runs>> /\ End(q) /\ pc[q] = "window"
      /\ \/ UNCHANGED windows
         \/ windows' = [d \in DOMAIN windows \cup {c} |-> IF d = c THEN w ELSE windows[d]]
    BY DEF SaveWindow, Call
<1>2. w.recent = work[q].recent
    BY DEF Rebuilt
<1>3. c \in Known
    BY DEF AuditInv, Named
<1>4. c \in DOMAIN conversations =>
        HasRun(runs, c, q) /\ \A i \in DOMAIN work[q].recent : HasMessage(messages, c, work[q].recent[i])
    BY <1>1 DEF AuditInv, Progress, RanAt, ListedAt
<1> HIDE DEF c, w
<1>5. \A d, x : (HasMessage(messages, d, x) <=> HasMessage(messages', d, x)) /\ (HasRun(runs, d, x) <=> HasRun(runs', d, x))
    BY <1>1 DEF HasMessage, HasRun
<1>6. Persists
    BY <1>5 DEF Persists
<1>7. Known \subseteq Known'
    BY <1>1, CallMoves
<1>8. /\ Lists' /\ DOMAIN windows' \subseteq Known'
      /\ \A i \in DOMAIN messages' : messages'[i].conversation \in Known'
      /\ \A i \in DOMAIN runs' : runs'[i].conversation \in Known'
    BY <1>1, <1>3, <1>7 DEF AuditInv, Lists, Named
<1>9. ASSUME NEW d \in DOMAIN conversations'
      PROVE  AnswersStand(d)' /\ WindowStands(d)'
  <2>1. AnswersStand(d) /\ WindowStands(d) /\ d \in DOMAIN conversations
    BY <1>1, <1>9 DEF AuditInv
  <2>2. AnswersStand(d)'
    BY <1>1, <1>5, <2>1 DEF AnswersStand
  <2>3. CASE windows'[d] = windows[d] /\ (d \in DOMAIN windows' => d \in DOMAIN windows)
    BY <1>1, <1>5, <2>1, <2>2, <2>3 DEF WindowStands
  <2>4. CASE d = c /\ windows'[d] = w
    <3>1. \E j \in DOMAIN runs' : runs'[j].conversation = d
      BY <1>1, <1>4, <2>1, <2>4 DEF HasRun
    <3>2. \A i \in DOMAIN windows'[d].recent : HasMessage(messages', d, windows'[d].recent[i])
      BY <1>2, <1>4, <1>5, <2>1, <2>4
    <3> QED
      BY <2>2, <3>1, <3>2 DEF WindowStands
  <2>5. CASE UNCHANGED windows
    BY <2>3, <2>5
  <2>6. CASE windows' = [e \in DOMAIN windows \cup {c} |-> IF e = c THEN w ELSE windows[e]]
    <3>1. CASE d = c
      BY <2>4, <2>6, <3>1
    <3>2. CASE d # c /\ d \in DOMAIN windows
      BY <2>3, <2>6, <3>2
    <3>3. CASE d # c /\ d \notin DOMAIN windows
      BY <2>2, <2>6, <3>3 DEF WindowStands
    <3> QED
      BY <3>1, <3>2, <3>3
  <2> QED
    BY <1>1, <2>5, <2>6
<1> QED
    BY <1>1, <1>6, <1>8, <1>9, EndIs, AuditKept

\* Nothing is there yet of a conversation that is about to be made.
LEMMA CreateAudit ==
    ASSUME ValidatedInv, AuditInv, NEW q \in Requests, CreateConversation(q)
    PROVE  AuditInv'
<1>1. /\ Call(q) /\ UNCHANGED <<messages, runs, windows>> /\ pc[q] = "create"
      /\ DOMAIN conversations' = DOMAIN conversations \cup {q}
      /\ End(q) \/ (Keep(q, [work[q] EXCEPT !.conversation = q]) /\ Goto(q, "scenario"))
    BY DEF CreateConversation, Call
<1>2. q \notin Known
    BY <1>1, MenuAssumption DEF Known, Minted
<1>3. q \in Known'
  <2>1. pc'[q] \in {"end", "scenario"}
    BY <1>1 DEF End, Goto, ValidatedInv, Tables
  <2> QED
    BY <2>1 DEF Known, Minted
<1>4. /\ q \notin DOMAIN conversations /\ q \notin DOMAIN windows
      /\ \A i \in DOMAIN messages : messages[i].conversation # q
      /\ \A i \in DOMAIN runs : runs[i].conversation # q
      /\ \A p \in Requests : work[p].conversation # q
    BY <1>2 DEF AuditInv, Named
<1>5. Known \subseteq Known'
    BY <1>1, CallMoves
<1>6. \A d, x : (HasMessage(messages, d, x) <=> HasMessage(messages', d, x)) /\ (HasRun(runs, d, x) <=> HasRun(runs', d, x))
    BY <1>1 DEF HasMessage, HasRun
<1>7. Persists
    BY <1>6 DEF Persists
<1>8. \A p \in Requests : p # q => Progress(p)' /\ work'[p] = work[p]
  <2>1. ASSUME NEW p \in Requests, p # q
        PROVE  Progress(p)' /\ work'[p] = work[p]
    <3>1. work[p].conversation \in DOMAIN conversations' => work[p].conversation \in DOMAIN conversations
      BY <1>1, <1>4
    <3> QED
      BY <1>1, <1>7, <2>1, <3>1, OthersProgress
  <2> QED
    BY <2>1
<1>9. work'[q].conversation \in Known' /\ Progress(q)'
  <2>1. CASE End(q)
    BY <2>1, EndIs
  <2>2. CASE Keep(q, [work[q] EXCEPT !.conversation = q]) /\ Goto(q, "scenario")
    <3>1. pc'[q] = "scenario" /\ work'[q].conversation = q
      BY <2>2 DEF Keep, Goto, ValidatedInv, Tables, Locals, Fields
    <3> QED
      BY <1>3, <3>1 DEF Progress, AskedAt, RanAt, ListedAt, DeletingAt
  <2> QED
    BY <1>1, <2>1, <2>2
<1>10. Named'
    BY <1>1, <1>3, <1>5, <1>8, <1>9 DEF AuditInv, Named
<1>11. ASSUME NEW c \in DOMAIN conversations'
       PROVE  AnswersStand(c)' /\ WindowStands(c)'
  <2>1. CASE c = q
    BY <1>1, <1>4, <2>1 DEF AnswersStand, WindowStands
  <2>2. CASE c # q
    <3>1. AnswersStand(c) /\ WindowStands(c)
      BY <1>1, <1>11, <2>2 DEF AuditInv
    <3> QED
      BY <1>1, <1>6, <3>1 DEF AnswersStand, WindowStands
  <2> QED
    BY <2>1, <2>2
<1>12. Lists'
    BY <1>1 DEF AuditInv, Lists
<1> QED
    BY <1>8, <1>9, <1>10, <1>11, <1>12 DEF AuditInv

-----------------------------------------------------------------------------
\* Each call of a deletion takes away what is of a conversation that is gone.
LEMMA DeleteConversationAudit ==
    ASSUME ValidatedInv, AuditInv, NEW q \in Requests, DeleteConversation(q)
    PROVE  AuditInv'
<1>1. /\ Call(q) /\ UNCHANGED <<messages, runs, windows, work>> /\ pc'[q] = "delete messages"
      /\ DOMAIN conversations' = DOMAIN conversations \ {work[q].conversation}
    BY DEF DeleteConversation, Call, Goto, Without, ValidatedInv, Tables
<1>2. \A d, x : (HasMessage(messages, d, x) <=> HasMessage(messages', d, x)) /\ (HasRun(runs, d, x) <=> HasRun(runs', d, x))
    BY <1>1 DEF HasMessage, HasRun
<1>3. Persists
    BY <1>2 DEF Persists
<1>4. Progress(q)'
    BY <1>1 DEF Progress
<1>5. Known \subseteq Known'
    BY <1>1, CallMoves
<1>6. /\ work'[q].conversation \in Known'
      /\ Lists' /\ DOMAIN windows' \subseteq Known'
      /\ \A i \in DOMAIN messages' : messages'[i].conversation \in Known'
      /\ \A i \in DOMAIN runs' : runs'[i].conversation \in Known'
    BY <1>1, <1>5 DEF AuditInv, Lists, Named
<1>7. ASSUME NEW c \in DOMAIN conversations'
      PROVE  AnswersStand(c)' /\ WindowStands(c)'
  <2>1. AnswersStand(c) /\ WindowStands(c)
    BY <1>1, <1>7 DEF AuditInv
  <2>2. AnswersStand(c)'
    BY <1>1, <1>2, <2>1 DEF AnswersStand
  <2>3. WindowStands(c)'
    BY <1>1, <1>2, <2>1 DEF WindowStands
  <2> QED
    BY <2>2, <2>3
<1> QED
    BY <1>1, <1>3, <1>4, <1>6, <1>7, AuditKept

\* What goes on being of a conversation when those of another are taken away.
TakenAway(s, c, t) ==
    /\ IsList(t)
    /\ \A i \in DOMAIN t : \E k \in DOMAIN s : t[i] = s[k] /\ s[k].conversation # c
    /\ \A k \in DOMAIN s : s[k].conversation # c => \E i \in DOMAIN t : t[i] = s[k]
    /\ \A i \in DOMAIN t : \E k \in DOMAIN s : t[i] = s[k] /\
         \A m \in 1..(k - 1) : s[m].conversation # c => \E j \in 1..(i - 1) : t[j] = s[m]

LEMMA OthersPicked ==
    ASSUME NEW s, IsList(s), NEW c
    PROVE  TakenAway(s, c, Pick(s, DOMAIN s \ OfConversation(s, c)))
<1> DEFINE t == Pick(s, DOMAIN s \ OfConversation(s, c))
<1> DEFINE at == DOMAIN s \ OfConversation(s, c)
<1>1. at \in SUBSET (DOMAIN s) /\ \A k \in DOMAIN s : k \in at <=> s[k].conversation # c
    BY DEF OfConversation
<1> HIDE DEF at
<1>2. PICK p : PickedFrom(s, at, p)
    BY <1>1, ListPick
<1>3. IsList(t)
    BY <1>1, ListPick DEF at
<1>4. /\ p \in Seq(Nat) /\ Len(p) = Len(t)
      /\ \A j \in 1..Len(p) : p[j] \in DOMAIN s /\ p[j] \in at /\ t[j] = s[p[j]]
      /\ \A i, j \in 1..Len(p) : i < j => p[i] < p[j]
      /\ \A k \in at : \E j \in 1..Len(p) : p[j] = k
    BY <1>2 DEF PickedFrom, at
<1>5. DOMAIN t = 1..Len(p) /\ Len(p) \in Nat /\ DOMAIN s = 1..Len(s) /\ Len(s) \in Nat
    BY <1>3, <1>4, ListFacts
<1>6. ASSUME NEW i \in DOMAIN t
      PROVE  \E k \in DOMAIN s : t[i] = s[k] /\
                \A m \in 1..(k - 1) : s[m].conversation # c => \E j \in 1..(i - 1) : t[j] = s[m]
  <2>1. p[i] \in DOMAIN s /\ t[i] = s[p[i]] /\ i \in 1..Len(p)
    BY <1>4, <1>5, <1>6
  <2>2. ASSUME NEW m \in 1..(p[i] - 1), s[m].conversation # c
        PROVE  \E j \in 1..(i - 1) : t[j] = s[m]
    <3>1. m \in DOMAIN s /\ m \in at /\ m < p[i] /\ p[i] \in Nat
      BY <1>1, <1>5, <2>1, <2>2
    <3>2. PICK j \in 1..Len(p) : p[j] = m
      BY <1>4, <3>1
    <3>3. ~(i < j) /\ i # j
      <4>1. ASSUME i < j PROVE FALSE
        <5>1. p[i] < p[j]
          BY <1>4, <2>1, <3>2, <4>1
        <5> QED
          BY <3>1, <3>2, <5>1
      <4>2. i # j
        BY <3>1, <3>2
      <4> QED
        BY <4>1, <4>2
    <3>4. j \in 1..(i - 1)
      BY <1>5, <2>1, <3>2, <3>3
    <3> QED
      BY <1>4, <3>2, <3>4
  <2> QED
    BY <2>1, <2>2
<1>7. ASSUME NEW i \in DOMAIN t
      PROVE  \E k \in DOMAIN s : t[i] = s[k] /\ s[k].conversation # c
  <2>1. p[i] \in DOMAIN s /\ p[i] \in at /\ t[i] = s[p[i]]
    BY <1>4, <1>5, <1>7
  <2> QED
    BY <1>1, <2>1
<1>8. \A k \in DOMAIN s : s[k].conversation # c => \E i \in DOMAIN t : t[i] = s[k]
  <2>1. ASSUME NEW k \in DOMAIN s, s[k].conversation # c
        PROVE  \E i \in DOMAIN t : t[i] = s[k]
    <3>1. PICK j \in 1..Len(p) : p[j] = k
      BY <1>1, <1>4, <2>1
    <3> QED
      BY <1>4, <1>5, <3>1
  <2> QED
    BY <2>1
<1> QED
    BY <1>3, <1>6, <1>7, <1>8 DEF TakenAway

LEMMA DeleteMessagesAudit ==
    ASSUME ValidatedInv, AuditInv, NEW q \in Requests, DeleteMessages(q)
    PROVE  AuditInv'
<1> DEFINE c == work[q].conversation
<1>1. /\ Call(q) /\ UNCHANGED <<conversations, runs, windows, work>> /\ pc[q] = "delete messages"
      /\ messages' = Pick(messages, DOMAIN messages \ OfConversation(messages, c))
      /\ pc'[q] = "delete windows"
    BY DEF DeleteMessages, Call, Goto, ValidatedInv, Tables
<1>2. c \notin DOMAIN conversations /\ c \in Known
    BY <1>1 DEF AuditInv, Named, Progress, DeletingAt
<1> HIDE DEF c
<1>3. IsList(messages)
    BY DEF AuditInv, Lists
<1>4. /\ IsList(messages')
      /\ \A i \in DOMAIN messages' : \E k \in DOMAIN messages : messages'[i] = messages[k] /\ messages[k].conversation # c
      /\ \A k \in DOMAIN messages : messages[k].conversation # c => \E i \in DOMAIN messages' : messages'[i] = messages[k]
      /\ \A i \in DOMAIN messages' : \E k \in DOMAIN messages : messages'[i] = messages[k] /\
           \A m \in 1..(k - 1) : messages[m].conversation # c => \E j \in 1..(i - 1) : messages'[j] = messages[m]
  <2>1. TakenAway(messages, c, messages')
    BY <1>1, <1>3, OthersPicked
  <2> QED
    BY <2>1 DEF TakenAway
<1>5. \A d, x : d # c /\ HasMessage(messages, d, x) => HasMessage(messages', d, x)
    BY <1>4 DEF HasMessage
<1>6. \A d, x : HasRun(runs, d, x) <=> HasRun(runs', d, x)
    BY <1>1 DEF HasRun
<1>7. Persists
    BY <1>1, <1>2, <1>5, <1>6 DEF Persists
<1>8. Progress(q)'
    BY <1>1, <1>2 DEF Progress, c
<1>9. Known \subseteq Known'
    BY <1>1, CallMoves
<1>10. /\ work'[q].conversation \in Known'
       /\ Lists' /\ DOMAIN windows' \subseteq Known'
       /\ \A i \in DOMAIN messages' : messages'[i].conversation \in Known'
       /\ \A i \in DOMAIN runs' : runs'[i].conversation \in Known'
    BY <1>1, <1>4, <1>9 DEF AuditInv, Lists, Named
<1>11. ASSUME NEW d \in DOMAIN conversations'
       PROVE  AnswersStand(d)' /\ WindowStands(d)'
  <2>1. AnswersStand(d) /\ WindowStands(d) /\ d # c
    BY <1>1, <1>2, <1>11 DEF AuditInv
  <2>2. WindowStands(d)'
    BY <1>1, <1>5, <2>1 DEF WindowStands
  <2>3. ASSUME NEW i \in DOMAIN messages', messages'[i].conversation = d, messages'[i].role = "assistant"
        PROVE  /\ HasRun(runs', d, messages'[i].request)
               /\ \E j \in 1..(i - 1) : messages'[j].conversation = d /\ messages'[j].role = "user"
                                          /\ messages'[j].request = messages'[i].request
    <3>1. PICK k \in DOMAIN messages : messages'[i] = messages[k] /\
            \A m \in 1..(k - 1) : messages[m].conversation # c => \E j \in 1..(i - 1) : messages'[j] = messages[m]
      BY <1>4, <2>3
    <3>2. PICK m \in 1..(k - 1) : messages[m].conversation = d /\ messages[m].role = "user"
                                    /\ messages[m].request = messages[k].request
      BY <2>1, <2>3, <3>1 DEF AnswersStand
    <3>3. PICK j \in 1..(i - 1) : messages'[j] = messages[m]
      BY <2>1, <3>1, <3>2
    <3>4. HasRun(runs, d, messages[k].request)
      BY <2>1, <2>3, <3>1 DEF AnswersStand
    <3> QED
      BY <1>6, <3>1, <3>2, <3>3, <3>4
  <2> QED
    BY <2>2, <2>3 DEF AnswersStand
<1> QED
    BY <1>1, <1>7, <1>8, <1>10, <1>11, AuditKept

LEMMA DeleteWindowsAudit ==
    ASSUME ValidatedInv, AuditInv, NEW q \in Requests, DeleteWindows(q)
    PROVE  AuditInv'
<1> DEFINE c == work[q].conversation
<1>1. /\ Call(q) /\ UNCHANGED <<conversations, messages, runs, work>> /\ pc[q] = "delete windows"
      /\ windows' = Without(windows, c)
      /\ pc'[q] = "delete runs"
    BY DEF DeleteWindows, Call, Goto, ValidatedInv, Tables
<1>2. c \notin DOMAIN conversations /\ c \in Known
    BY <1>1 DEF AuditInv, Named, Progress, DeletingAt
<1>3. Progress(q)'
    BY <1>1, <1>2 DEF Progress
<1> HIDE DEF c
<1>4. \A d, x : (HasMessage(messages, d, x) <=> HasMessage(messages', d, x)) /\ (HasRun(runs, d, x) <=> HasRun(runs', d, x))
    BY <1>1 DEF HasMessage, HasRun
<1>5. Persists
    BY <1>4 DEF Persists
<1>6. Known \subseteq Known'
    BY <1>1, CallMoves
<1>7. DOMAIN windows' = DOMAIN windows \ {c} /\ \A d \in DOMAIN windows' : windows'[d] = windows[d]
    BY <1>1 DEF Without
<1>8. /\ work'[q].conversation \in Known'
      /\ Lists' /\ DOMAIN windows' \subseteq Known'
      /\ \A i \in DOMAIN messages' : messages'[i].conversation \in Known'
      /\ \A i \in DOMAIN runs' : runs'[i].conversation \in Known'
    BY <1>1, <1>6, <1>7 DEF AuditInv, Lists, Named
<1>9. ASSUME NEW d \in DOMAIN conversations'
      PROVE  AnswersStand(d)' /\ WindowStands(d)'
  <2>1. AnswersStand(d) /\ WindowStands(d)
    BY <1>1, <1>9 DEF AuditInv
  <2>2. AnswersStand(d)'
    BY <1>1, <1>4, <2>1 DEF AnswersStand
  <2>3. WindowStands(d)'
    BY <1>1, <1>4, <1>7, <2>1 DEF WindowStands
  <2> QED
    BY <2>2, <2>3
<1> QED
    BY <1>1, <1>3, <1>5, <1>8, <1>9, AuditKept

LEMMA DeleteRunsAudit ==
    ASSUME ValidatedInv, AuditInv, NEW q \in Requests, DeleteRuns(q)
    PROVE  AuditInv'
<1> DEFINE c == work[q].conversation
<1>1. /\ Call(q) /\ UNCHANGED <<conversations, messages, windows>> /\ pc[q] = "delete runs"
      /\ runs' = Pick(runs, DOMAIN runs \ OfConversation(runs, c)) /\ End(q)
    BY DEF DeleteRuns, Call
<1>2. c \notin DOMAIN conversations
    BY <1>1 DEF AuditInv, Progress, DeletingAt
<1> HIDE DEF c
<1>3. IsList(runs)
    BY DEF AuditInv, Lists
<1>4. /\ IsList(runs')
      /\ \A i \in DOMAIN runs' : \E k \in DOMAIN runs : runs'[i] = runs[k] /\ runs[k].conversation # c
      /\ \A k \in DOMAIN runs : runs[k].conversation # c => \E i \in DOMAIN runs' : runs'[i] = runs[k]
  <2>1. TakenAway(runs, c, runs')
    BY <1>1, <1>3, OthersPicked
  <2> QED
    BY <2>1 DEF TakenAway
<1>5. \A d, x : d # c /\ HasRun(runs, d, x) => HasRun(runs', d, x)
    BY <1>4 DEF HasRun
<1>6. \A d, x : HasMessage(messages, d, x) <=> HasMessage(messages', d, x)
    BY <1>1 DEF HasMessage
<1>7. Persists
    BY <1>1, <1>2, <1>5, <1>6 DEF Persists
<1>8. Known \subseteq Known'
    BY <1>1, CallMoves
<1>9. /\ Lists' /\ DOMAIN windows' \subseteq Known'
      /\ \A i \in DOMAIN messages' : messages'[i].conversation \in Known'
      /\ \A i \in DOMAIN runs' : runs'[i].conversation \in Known'
    BY <1>1, <1>4, <1>8 DEF AuditInv, Lists, Named
<1>10. ASSUME NEW d \in DOMAIN conversations'
       PROVE  AnswersStand(d)' /\ WindowStands(d)'
  <2>1. AnswersStand(d) /\ WindowStands(d) /\ d # c
    BY <1>1, <1>2, <1>10 DEF AuditInv
  <2>2. (\E j \in DOMAIN runs : runs[j].conversation = d) => \E j \in DOMAIN runs' : runs'[j].conversation = d
    BY <1>4, <2>1
  <2> QED
    BY <1>1, <1>5, <1>6, <2>1, <2>2 DEF AnswersStand, WindowStands
<1> QED
    BY <1>1, <1>7, <1>9, <1>10, EndIs, AuditKept

-----------------------------------------------------------------------------
LEMMA NextAudit == ValidatedInv /\ AuditInv /\ [ConversationsNext]_conversationVars => AuditInv'
<1> SUFFICES ASSUME ValidatedInv, AuditInv, [ConversationsNext]_conversationVars PROVE AuditInv'
    OBVIOUS
<1>1. ASSUME NEW q \in Requests, Call(q)
      PROVE  AuditInv'
    BY <1>1, ReceiveAudit, LookupsAudit, CreateAudit, UserMessageAudit, SaveRunAudit,
       AssistantMessageAudit, ListMessagesAudit, SaveWindowAudit, AppendMessageAudit,
       DeleteConversationAudit, DeleteMessagesAudit, DeleteWindowsAudit, DeleteRunsAudit DEF Call
<1>2. ASSUME NEW q \in Requests, Crash(q)
      PROVE  AuditInv'
    BY <1>2, LookupsAudit
<1>3. CASE UNCHANGED conversationVars
    BY <1>3 DEF conversationVars, documents, operations, serving, AuditInv, Lists, Named, Known, Minted,
       Progress, AnswersStand, WindowStands, HasMessage, HasRun
<1> QED
    BY <1>1, <1>2, <1>3 DEF ConversationsNext, Rest

\* Whatever is served at the same time and wherever requests die: an answer that is
\* there has its run and its question, and a window names messages that are there.
THEOREM TrailIsWhole == ConversationsSpec => []AuditTrail
<1>1. ConversationsSpec => [](ValidatedInv /\ AuditInv)
    BY InitValidated, InitAudit, NextValidated, NextAudit, PTL DEF ConversationsSpec
<1> QED
    BY <1>1, AuditMeans, PTL

-----------------------------------------------------------------------------
(* The types.                                                              *)

\* At work on a conversation; with an answer.
Placed == {"scenario", "user", "append"} \cup AskedAt
AnsweredAt == AskedAt \ {"context"}
RanPlans == StoredPlans \cup {None}

WindowOK(w) ==
    w \in ContextWindows /\ Len(w.constraints) <= ConstraintLimit /\ Len(w.recent) <= RecentLimit

\* About a scenario.
About(q) == \/ pc[q] \in {"require", "resolve", "scenario", "user", "context"}
            \/ pc[q] = "create" /\ task[q].op # "create"

LocalsOK(q) ==
    /\ pc[q] \in Steps /\ work[q].plan \in RanPlans
    /\ pc[q] \in Placed => work[q].conversation \in Requests
    /\ pc[q] = "resolve" => work[q].route \in Routes
    /\ About(q) => work[q].scenario \in Seq(STRING)
    /\ pc[q] \in AnsweredAt => work[q].outcome.event \in Tags \cup {None} /\ work[q].outcome.plan \in RanPlans
    /\ pc[q] \in Moving => work[q].outcome.plan # None
    /\ pc[q] \in ListedAt => work[q].recent \in Seq(MessageIds) /\ Len(work[q].recent) <= RecentLimit
    /\ pc[q] = "window" => work[q].previous = None \/ WindowOK(work[q].previous)

RouteOK(x) == x \in [scenario : Seq(STRING), plan : StoredPlans]
DocumentsOK ==
    /\ DOMAIN conversations \subseteq Requests /\ DOMAIN windows \subseteq Requests
    /\ \A c \in DOMAIN windows : WindowOK(windows[c])
    /\ \A i \in DOMAIN messages : Id(messages[i]) \in MessageIds
    /\ \A i \in DOMAIN runs : runs[i].request \in Requests
OperationsOK == FirstStored \subseteq stored /\ routes = [r \in Routes |-> routes[r]] /\ \A r \in Routes : RouteOK(routes[r])

TypeInv ==
    /\ DocumentsOK /\ OperationsOK
    /\ pc = [q \in Requests |-> pc[q]] /\ \A q \in Requests : LocalsOK(q)
    /\ \A pair \in met : pair \subseteq Requests
    /\ died \subseteq Requests

LEMMA TypeMeans == ValidatedInv /\ TypeInv => ConversationsTypeOK
<1> SUFFICES ASSUME ValidatedInv, TypeInv PROVE ConversationsTypeOK
    OBVIOUS
<1>1. pc \in [Requests -> Steps]
    BY DEF TypeInv, LocalsOK, About
<1>2. routes \in [Routes -> [scenario : Seq(STRING), plan : StoredPlans]]
    BY DEF TypeInv, OperationsOK, RouteOK
<1>3. \A c \in DOMAIN conversations : conversations[c] \in Routes \cup {None}
    BY DEF ValidatedInv, Tables
<1> QED
    BY <1>1, <1>2, <1>3 DEF TypeInv, DocumentsOK, OperationsOK, WindowOK, ConversationsTypeOK

LEMMA OnRouteOK ==
    ASSUME NEW s \in Seq(STRING)
    PROVE  RouteOK(OnRoute(s))
    BY DEF OnRoute, RouteOK, PlanFor, StoredPlans

LEMMA InitTypes == ConversationsInit => TypeInv
<1> SUFFICES ASSUME ConversationsInit PROVE TypeInv
    OBVIOUS
<1>1. DocumentsOK
    BY EmptyIsList, ListFacts DEF ConversationsInit, DocumentsOK
<1>2. OperationsOK
    BY OnRouteOK, TextsAssumption DEF ConversationsInit, OperationsOK
<1>3. ASSUME NEW q \in Requests PROVE LocalsOK(q)
  <2>1. pc[q] = "new" /\ work[q].plan = None
    BY <1>3 DEF ConversationsInit, NoWork
  <2> QED
    BY <2>1 DEF LocalsOK, About, Placed, AskedAt, AnsweredAt, Moving, ListedAt, Steps, RanPlans
<1> QED
    BY <1>1, <1>2, <1>3 DEF TypeInv, ConversationsInit

\* A call of q, when what it leaves is of its type.
LEMMA TypeKept ==
    ASSUME ValidatedInv, TypeInv, NEW q \in Requests, Call(q) \/ Crash(q),
           DocumentsOK', OperationsOK', LocalsOK(q)'
    PROVE  TypeInv'
<1>1. PICK l : pc' = [pc EXCEPT ![q] = l]
    BY CallMoves
<1>2. \A p \in Requests : p # q => pc'[p] = pc[p] /\ work'[p] = work[p]
    BY CallMoves DEF ValidatedInv, Tables
<1>3. \A p \in Requests : p # q => task'[p] = task[p]
  <2>1. task' = task \/ \E t : task' = [task EXCEPT ![q] = t]
    <3>1. CASE Receive(q)
      BY <3>1 DEF Receive
    <3>2. CASE ~Receive(q)
      BY <3>2 DEF Call, Crash, Require, ResolveRoute, CreateConversation, ResolveScenario,
             SaveUserMessage, ReadContext, StoreScenario, UpdateRoute, SaveRun,
             SaveAssistantMessage, ListMessages, ReadPrevious, SaveWindow, AppendMessage,
             DeleteConversation, DeleteMessages, DeleteWindows, DeleteRuns, Publish
    <3> QED
      BY <3>1, <3>2
  <2> QED
    BY <2>1 DEF ValidatedInv, Tables
<1>4. \A p \in Requests : p # q => LocalsOK(p)'
    BY <1>2, <1>3 DEF TypeInv, LocalsOK, About
<1>5. (\A pair \in met' : pair \subseteq Requests) /\ died' \subseteq Requests
  <2>1. /\ met' = met \/ met' = met \cup {{p, q} : p \in Busy}
        /\ died' = died \/ died' = died \cup {q}
    BY DEF encounters, Call, Crash, Receive, Require, ResolveRoute, CreateConversation, ResolveScenario,
           SaveUserMessage, ReadContext, StoreScenario, UpdateRoute, SaveRun,
           SaveAssistantMessage, ListMessages, ReadPrevious, SaveWindow, AppendMessage,
           DeleteConversation, DeleteMessages, DeleteWindows, DeleteRuns, Publish
  <2> QED
    BY <2>1 DEF TypeInv, Busy
<1>6. pc' = [p \in Requests |-> pc'[p]]
    BY <1>1 DEF ValidatedInv, Tables
<1> QED
    BY <1>4, <1>5, <1>6 DEF TypeInv

LEMMA EndTypes ==
    ASSUME ValidatedInv, NEW q \in Requests, End(q)
    PROVE  LocalsOK(q)'
<1>1. pc'[q] = "end" /\ work'[q].plan = None
    BY DEF End, Goto, Keep, NoWork, ValidatedInv, Tables
<1> QED
    BY <1>1 DEF LocalsOK, About, Placed, AskedAt, AnsweredAt, Moving, ListedAt, Steps, RanPlans

\* The calls that only read.
LEMMA ReadsTypes ==
    ASSUME ValidatedInv, TypeInv, NEW q \in Requests, Call(q) \/ Crash(q),
           UNCHANGED documents, UNCHANGED operations, LocalsOK(q)'
    PROVE  TypeInv'
<1>1. DocumentsOK' /\ OperationsOK'
    BY DEF TypeInv, DocumentsOK, OperationsOK, documents, operations
<1> QED
    BY <1>1, TypeKept

LEMMA ReceiveTypes ==
    ASSUME ValidatedInv, TypeInv, NEW q \in Requests, Receive(q)
    PROVE  TypeInv'
<1>1. PICK t \in Menu[q] :
        /\ task' = [task EXCEPT ![q] = t]
        /\ Goto(q, CASE t.op = "replan" /\ t.conversation = None /\ t.route = None -> "create"
                      [] t.op = "replan" /\ t.conversation = None /\ t.route # None -> "resolve"
                      [] t.op \in {"create", "delete", "publish"} -> t.op
                      [] OTHER -> "require")
        /\ Keep(q, IF t.op \in {"create", "publish"} THEN NoWork
                     ELSE [NoWork EXCEPT !.conversation = t.conversation, !.scenario = Home,
                                         !.route = IF t.op = "replan" THEN t.route ELSE None])
    BY DEF Receive
<1> DEFINE l == CASE t.op = "replan" /\ t.conversation = None /\ t.route = None -> "create"
                  [] t.op = "replan" /\ t.conversation = None /\ t.route # None -> "resolve"
                  [] t.op \in {"create", "delete", "publish"} -> t.op
                  [] OTHER -> "require"
           w == IF t.op \in {"create", "publish"} THEN NoWork
                  ELSE [NoWork EXCEPT !.conversation = t.conversation, !.scenario = Home,
                                      !.route = IF t.op = "replan" THEN t.route ELSE None]
<1>2. t.op \in {"replan", "create", "append", "delete", "publish"}
    BY MenuAssumption
<1>3. w.plan = None
    BY DEF NoWork
<1>4. t.op \notin {"create", "publish"} => w.scenario \in Seq(STRING)
    BY TextsAssumption DEF NoWork
<1>5. pc'[q] = l /\ work'[q] = w /\ task'[q] = t
    BY <1>1 DEF Goto, Keep, ValidatedInv, Tables
<1>8. l = "resolve" => w.route \in Routes
    BY <1>2, MenuAssumption DEF NoWork
<1>6. /\ l \in {"create", "resolve", "delete", "publish", "require"}
      /\ l \in {"require", "resolve"} \/ (l = "create" /\ t.op # "create") => t.op \notin {"create", "publish"}
      /\ l = "publish" => t.op = "publish"
    BY <1>2
<1> HIDE DEF l, w
<1>7. LocalsOK(q)'
    BY <1>2, <1>3, <1>4, <1>5, <1>6, <1>8
       DEF LocalsOK, About, Placed, AskedAt, AnsweredAt, Moving, ListedAt, Steps, RanPlans
<1> QED
    BY <1>7, ReadsTypes DEF Call, Receive

LEMMA RequireTypes ==
    ASSUME ValidatedInv, TypeInv, NEW q \in Requests, Require(q)
    PROVE  TypeInv'
<1>1. Call(q) /\ UNCHANGED documents /\ UNCHANGED operations /\ UNCHANGED task /\ pc[q] = "require"
    BY DEF Require, Call
<1>2. LocalsOK(q) /\ DOMAIN pc = Requests /\ DOMAIN work = Requests /\ DOMAIN work[q] = Fields
    BY DEF ValidatedInv, Tables, Locals, TypeInv
<1>3. CASE End(q)
    BY <1>1, <1>3, EndTypes, ReadsTypes
<1>4. CASE ~End(q)
  <2>1. work[q].conversation \in Requests
    BY <1>4 DEF Require, TypeInv, DocumentsOK
  <2>2. /\ pc'[q] \in {"append", "scenario", "resolve"}
        /\ work'[q].conversation = work[q].conversation /\ work'[q].plan = work[q].plan
        /\ work'[q].scenario = work[q].scenario
    BY <1>2, <1>4 DEF Require, Goto, Keep, Fields
  <2>4. pc'[q] = "resolve" => work'[q].route \in Routes
    <3>1. pc'[q] = "resolve" => work'[q].route # None
      BY <1>2, <1>4 DEF Require, Goto, Keep, Fields
    <3>2. Locals(q)'
      BY RequireValidated DEF ValidatedInv
    <3> QED
      BY <3>1, <3>2 DEF Locals
  <2>3. LocalsOK(q)'
    BY <1>1, <1>2, <2>1, <2>2, <2>4 DEF LocalsOK, About, Placed, AskedAt, AnsweredAt, Moving, ListedAt, Steps
  <2> QED
    BY <1>1, <2>3, ReadsTypes
<1> QED
    BY <1>3, <1>4

LEMMA ResolveRouteTypes ==
    ASSUME ValidatedInv, AuditInv, TypeInv, NEW q \in Requests, ResolveRoute(q)
    PROVE  TypeInv'
<1> DEFINE r == routes[work[q].route]
           w == [work[q] EXCEPT !.scenario = r.scenario, !.plan = r.plan]
<1>1. /\ Call(q) /\ UNCHANGED documents /\ UNCHANGED operations /\ UNCHANGED task /\ Keep(q, w)
      /\ Goto(q, IF work[q].conversation = None THEN "create" ELSE "scenario")
    BY DEF ResolveRoute, Call
<1>2. r.scenario \in Seq(STRING) /\ r.plan \in StoredPlans
    BY DEF ResolveRoute, TypeInv, LocalsOK, About, OperationsOK, RouteOK
<1>3. w.conversation = work[q].conversation /\ w.scenario = r.scenario /\ w.plan = r.plan
    BY DEF ValidatedInv, Locals, Fields
<1>4. work[q].conversation # None => work[q].conversation \in Requests
    BY DEF AuditInv, Named, Known, Minted
<1> HIDE DEF w, r
<1>5. work'[q] = w /\ pc'[q] = IF work[q].conversation = None THEN "create" ELSE "scenario"
    BY <1>1 DEF Goto, Keep, ValidatedInv, Tables
<1>6. LocalsOK(q)'
    BY <1>2, <1>3, <1>4, <1>5
       DEF LocalsOK, About, Placed, AskedAt, AnsweredAt, Moving, ListedAt, Steps, RanPlans
<1> QED
    BY <1>1, <1>6, ReadsTypes

LEMMA CreateTypes ==
    ASSUME ValidatedInv, TypeInv, NEW q \in Requests, CreateConversation(q)
    PROVE  TypeInv'
<1>1. /\ Call(q) /\ UNCHANGED <<messages, runs, windows, task>> /\ UNCHANGED operations /\ pc[q] = "create"
      /\ DOMAIN conversations' = DOMAIN conversations \cup {q}
    BY DEF CreateConversation, Call
<1>2. DocumentsOK' /\ OperationsOK'
    BY <1>1 DEF TypeInv, DocumentsOK, OperationsOK, operations
<1>3. CASE task[q].op = "create"
    BY <1>1, <1>2, <1>3, EndTypes, TypeKept DEF CreateConversation
<1>4. CASE task[q].op # "create"
  <2>1. pc'[q] = "scenario" /\ work'[q].conversation = q /\ work'[q].plan = work[q].plan
        /\ work'[q].scenario = work[q].scenario
    BY <1>4 DEF CreateConversation, Goto, Keep, ValidatedInv, Tables, Locals, Fields
  <2>2. LocalsOK(q)
    BY DEF TypeInv
  <2>3. LocalsOK(q)'
    BY <1>1, <1>4, <2>1, <2>2 DEF LocalsOK, About, Placed, AskedAt, AnsweredAt, Moving, ListedAt, Steps
  <2> QED
    BY <1>1, <1>2, <2>3, TypeKept
<1> QED
    BY <1>3, <1>4

\* The calls that leave the locals alone, and go on.
LEMMA WorksOn ==
    ASSUME TypeInv, NEW q \in Requests, UNCHANGED work,
           \/ pc[q] = "scenario" /\ pc'[q] = "user"
           \/ pc[q] = "user" /\ pc'[q] = "context"
           \/ pc[q] = "store" /\ pc'[q] = "update"
           \/ pc[q] = "update" /\ pc'[q] = "run"
           \/ pc[q] = "run" /\ pc'[q] = "assistant"
           \/ pc[q] = "assistant" /\ pc'[q] = "list"
           \/ pc'[q] \in DeletingAt
    PROVE  LocalsOK(q)'
<1>1. LocalsOK(q)
    BY DEF TypeInv
<1> QED
    BY <1>1 DEF LocalsOK, About, Placed, AskedAt, AnsweredAt, Moving, ListedAt, DeletingAt, Steps

LEMMA ScenarioTypes ==
    ASSUME ValidatedInv, TypeInv, NEW q \in Requests, ResolveScenario(q)
    PROVE  TypeInv'
<1>1. Call(q) /\ UNCHANGED documents /\ UNCHANGED operations
    BY DEF ResolveScenario, Call
<1>2. CASE End(q)
    BY <1>1, <1>2, EndTypes, ReadsTypes
<1>3. CASE ~End(q)
  <2>1. UNCHANGED work /\ pc[q] = "scenario" /\ pc'[q] = "user"
    BY <1>3 DEF ResolveScenario, Goto, ValidatedInv, Tables
  <2> QED
    BY <1>1, <2>1, WorksOn, ReadsTypes
<1> QED
    BY <1>2, <1>3

\* What a run may come to, one case after the other.
LEMMA OutcomeIs ==
    ASSUME NEW id, NEW context \in BOOLEAN, NEW o \in Outcomes(id, context)
    PROVE  /\ \/ \E tag \in Tags : o.event = tag /\ o.plan \in {None, PlanFor(Append(id, tag), FALSE),
                                                              PlanFor(Append(id, tag), TRUE)}
              \/ o.event = None /\ o.plan = None
           /\ o.source = "workflow" \/ (o = FollowedUp /\ context)
<1>1. ASSUME NEW tag \in Tags, o = Replanned(id, tag)
      PROVE  o.event = tag /\ o.plan = PlanFor(Append(id, tag), TRUE) /\ o.source = "workflow"
    BY <1>1 DEF Replanned
<1>2. ASSUME NEW tag \in Tags, NEW plan, o = Failed(tag, plan)
      PROVE  o.event = tag /\ o.plan = plan /\ o.source = "workflow"
    BY <1>2 DEF Failed
<1>3. CASE o = Failed(None, None)
    BY <1>3 DEF Failed
<1>4. CASE o = FollowedUp /\ context
    BY <1>4 DEF FollowedUp
<1>5. CASE \E tag \in Tags : o = Replanned(id, tag)
    BY <1>1, <1>5
<1>6. CASE \E tag \in Tags : o = Failed(tag, None) \/ o = Failed(tag, PlanFor(Append(id, tag), FALSE))
    BY <1>2, <1>6
<1> QED
    BY <1>3, <1>4, <1>5, <1>6 DEF Outcomes

\* An answer is of its type.
LEMMA AnswersAreTyped ==
    ASSUME TypeInv, NEW q \in Requests, pc[q] = "context",
           NEW answer \in AnswersTo(q, Existing(windows, work[q].conversation))
    PROVE  answer.event \in Tags \cup {None} /\ answer.plan \in RanPlans
<1> DEFINE window == Existing(windows, work[q].conversation)
           s == work[q].scenario
<1>1. s \in Seq(STRING) /\ work[q].plan \in RanPlans
    BY DEF TypeInv, LocalsOK, About
<1>2. window # None => window.plan \in RanPlans
  <2>1. window # None => window \in ContextWindows
    BY DEF Existing, TypeInv, DocumentsOK, WindowOK
  <2>2. \A x \in ContextWindows : x.plan \in StoredPlans \cup {None}
    BY DEF ContextWindows
  <2> QED
    BY <2>1, <2>2 DEF RanPlans
<1> HIDE DEF window, s
<1>3. CASE \E succeeded \in BOOLEAN : answer = RouteAnswered(succeeded, work[q].plan)
    BY <1>1, <1>3 DEF RouteAnswered
<1>4. CASE \E o \in Outcomes(s, window # None) :
             answer = IF o = FollowedUp THEN FollowedUpFrom(window) ELSE o
  <2>1. PICK o \in Outcomes(s, window # None) :
          answer = IF o = FollowedUp THEN FollowedUpFrom(window) ELSE o
    BY <1>4
  <2>2. CASE o = FollowedUp
    <3>1. window # None
      <4>1. o.source = "context_window"
        BY <2>2 DEF FollowedUp
      <4> QED
        BY <2>1, <4>1, OutcomeIs
    <3>2. answer.event = None /\ answer.plan = window.plan
      BY <2>1, <2>2 DEF FollowedUpFrom, FollowedUp
    <3> QED
      BY <1>2, <3>1, <3>2
  <2>3. CASE o # FollowedUp
    <3>1. answer = o
      BY <2>1, <2>3
    <3>2. o.event \in Tags \cup {None}
      BY <2>1, OutcomeIs
    <3>3. o.plan = None \/ \E tag \in Tags, valid \in BOOLEAN : o.plan = PlanFor(Append(s, tag), valid)
      BY <2>1, OutcomeIs
    <3>4. o.plan \in RanPlans
      <4>1. CASE o.plan = None
        BY <4>1 DEF RanPlans
      <4>2. CASE o.plan # None
        <5>1. PICK tag \in Tags, valid \in BOOLEAN : o.plan = PlanFor(Append(s, tag), valid)
          BY <3>3, <4>2
        <5>2. tag \in STRING
          BY TextsAssumption
        <5>3. Append(s, tag) \in Seq(STRING)
          BY <1>1, <5>2
        <5> QED
          BY <5>1, <5>3 DEF PlanFor, StoredPlans, RanPlans
      <4> QED
        BY <4>1, <4>2
    <3> QED
      BY <3>1, <3>2, <3>4
  <2> QED
    BY <2>2, <2>3
<1>5. answer \in AnswersTo(q, window)
    BY DEF window
<1> QED
    BY <1>3, <1>4, <1>5 DEF AnswersTo, s

LEMMA ReadContextTypes ==
    ASSUME ValidatedInv, TypeInv, NEW q \in Requests, ReadContext(q)
    PROVE  TypeInv'
<1> DEFINE window == Existing(windows, work[q].conversation)
<1>1. PICK answer \in AnswersTo(q, window) :
        /\ Keep(q, [work[q] EXCEPT !.before = window, !.outcome = answer])
        /\ Goto(q, IF ~Moves(q, answer) THEN "run"
                     ELSE IF answer.source = "workflow" THEN "store" ELSE "update")
    BY DEF ReadContext
<1> DEFINE l == IF ~Moves(q, answer) THEN "run" ELSE IF answer.source = "workflow" THEN "store" ELSE "update"
           w == [work[q] EXCEPT !.before = window, !.outcome = answer]
<1>2. Call(q) /\ UNCHANGED documents /\ UNCHANGED operations /\ UNCHANGED task /\ pc[q] = "context"
    BY DEF ReadContext, Call
<1>3. answer.event \in Tags \cup {None} /\ answer.plan \in RanPlans
    BY <1>1, <1>2, AnswersAreTyped
<1>4. w.outcome = answer /\ w.conversation = work[q].conversation /\ w.plan = work[q].plan
    BY DEF ValidatedInv, Locals, Fields
<1>5. l \in {"run", "store", "update"} /\ (l # "run" => answer.plan # None)
    BY DEF Moves
<1>6. pc'[q] = l /\ work'[q] = w
    BY <1>1 DEF Goto, Keep, ValidatedInv, Tables
<1> HIDE DEF w, l, window
<1>7. LocalsOK(q)
    BY DEF TypeInv
<1>8. LocalsOK(q)'
    BY <1>2, <1>3, <1>4, <1>5, <1>6, <1>7
       DEF LocalsOK, About, Placed, AskedAt, AnsweredAt, Moving, ListedAt, Steps
<1> QED
    BY <1>2, <1>8, ReadsTypes

LEMMA StoreTypes ==
    ASSUME ValidatedInv, TypeInv, NEW q \in Requests, StoreScenario(q)
    PROVE  TypeInv'
<1>1. /\ Call(q) /\ UNCHANGED <<conversations, messages, runs, windows, routes, work>>
      /\ pc[q] = "store" /\ pc'[q] = "update" /\ stored \subseteq stored'
    BY DEF StoreScenario, Call, documents, Goto, ValidatedInv, Tables
<1>2. DocumentsOK' /\ OperationsOK'
    BY <1>1 DEF TypeInv, DocumentsOK, OperationsOK
<1> QED
    BY <1>1, <1>2, WorksOn, TypeKept

LEMMA UpdateTypes ==
    ASSUME ValidatedInv, TypeInv, NEW q \in Requests, UpdateRoute(q)
    PROVE  TypeInv'
<1> DEFINE r == work[q].route
<1>1. /\ Call(q) /\ UNCHANGED <<conversations, messages, runs, windows, stored, work>>
      /\ pc[q] = "update" /\ pc'[q] = "run"
    BY DEF UpdateRoute, Call, documents, Goto, ValidatedInv, Tables
<1> DEFINE plan == work[q].outcome.plan
<1>2. routes' = [routes EXCEPT ![r].plan = plan,
                   ![r].scenario = IF work[q].outcome.source = "workflow" THEN plan.scenario ELSE @]
    BY DEF UpdateRoute
<1>3. r \in Routes /\ plan \in StoredPlans
    BY <1>1 DEF ValidatedInv, Locals, Moving, TypeInv, LocalsOK, About, AnsweredAt, AskedAt, RanPlans
<1>5. plan.scenario \in Seq(STRING)
    BY <1>3 DEF StoredPlans
<1>6. OperationsOK
    BY DEF TypeInv
<1> HIDE DEF r, plan
<1>7. OperationsOK'
    BY <1>1, <1>2, <1>3, <1>5, <1>6 DEF OperationsOK, RouteOK
<1>8. DocumentsOK'
    BY <1>1 DEF TypeInv, DocumentsOK
<1> QED
    BY <1>1, <1>7, <1>8, WorksOn, TypeKept

LEMMA PublishTypes ==
    ASSUME ValidatedInv, TypeInv, NEW q \in Requests, Publish(q)
    PROVE  TypeInv'
<1>1. /\ Call(q) /\ UNCHANGED <<conversations, messages, runs, windows, stored>> /\ End(q)
      /\ pc[q] = "publish"
      /\ routes' = [routes EXCEPT ![task[q].route] = OnRoute(FirstScenario[task[q].route])]
    BY DEF Publish, Call, documents
<1>2. task[q].route \in Routes
    BY <1>1 DEF ValidatedInv, Locals
<1>3. RouteOK(OnRoute(FirstScenario[task[q].route]))
    BY <1>2, OnRouteOK, TextsAssumption
<1>4. OperationsOK' /\ DocumentsOK'
    BY <1>1, <1>2, <1>3 DEF TypeInv, OperationsOK, DocumentsOK
<1> QED
    BY <1>1, <1>4, EndTypes, TypeKept

\* A call that leaves the operational routes alone.
LEMMA DocumentsTypes ==
    ASSUME ValidatedInv, TypeInv, NEW q \in Requests, Call(q), UNCHANGED operations,
           DocumentsOK', LocalsOK(q)'
    PROVE  TypeInv'
<1>1. OperationsOK'
    BY DEF TypeInv, OperationsOK, operations
<1> QED
    BY <1>1, TypeKept

LEMMA MessageTypes ==
    ASSUME ValidatedInv, AuditInv, TypeInv, NEW q \in Requests,
           SaveUserMessage(q) \/ SaveAssistantMessage(q) \/ AppendMessage(q)
    PROVE  TypeInv'
<1>1. Call(q) /\ UNCHANGED <<conversations, runs, windows>> /\ UNCHANGED operations
    BY DEF SaveUserMessage, SaveAssistantMessage, AppendMessage, Call
<1>2. PICK role \in {"user", "assistant", "appended"} : messages' = Append(messages, Message(q, role))
    BY DEF SaveUserMessage, SaveAssistantMessage, AppendMessage
<1>3. Id(Message(q, role)) \in MessageIds
    BY DEF Id, Message, MessageIds
<1>4. /\ DOMAIN messages' = 1..(Len(messages) + 1) /\ DOMAIN messages = 1..Len(messages) /\ Len(messages) \in Nat
      /\ messages'[Len(messages) + 1] = Message(q, role)
      /\ \A i \in DOMAIN messages : messages'[i] = messages[i]
    BY <1>2, ListAppend, ListFacts DEF AuditInv, Lists
<1>5. \A i \in DOMAIN messages : Id(messages[i]) \in MessageIds
    BY DEF TypeInv, DocumentsOK
<1>6. \A i \in DOMAIN messages' : Id(messages'[i]) \in MessageIds
  <2>1. ASSUME NEW i \in DOMAIN messages'
        PROVE  Id(messages'[i]) \in MessageIds
    <3>1. i \in DOMAIN messages \/ i = Len(messages) + 1
      BY <1>4
    <3> QED
      BY <1>3, <1>4, <1>5, <3>1
  <2> QED
    BY <2>1
<1>7. DocumentsOK'
    BY <1>1, <1>6 DEF TypeInv, DocumentsOK
<1>8. LocalsOK(q)'
  <2>1. CASE SaveUserMessage(q) \/ SaveAssistantMessage(q)
    <3>1. UNCHANGED work /\ \/ pc[q] = "user" /\ pc'[q] = "context"
                            \/ pc[q] = "assistant" /\ pc'[q] = "list"
      BY <2>1 DEF SaveUserMessage, SaveAssistantMessage, Goto, ValidatedInv, Tables
    <3> QED
      BY <3>1, WorksOn
  <2>2. CASE AppendMessage(q)
    BY <2>2, EndTypes DEF AppendMessage
  <2> QED
    BY <2>1, <2>2
<1> QED
    BY <1>1, <1>7, <1>8, DocumentsTypes

LEMMA SaveRunTypes ==
    ASSUME ValidatedInv, AuditInv, TypeInv, NEW q \in Requests, SaveRun(q)
    PROVE  TypeInv'
<1> DEFINE r == [conversation |-> work[q].conversation, request |-> q, result |-> work[q].outcome]
<1>1. /\ Call(q) /\ UNCHANGED <<conversations, messages, windows, work>> /\ UNCHANGED operations
      /\ pc[q] = "run" /\ pc'[q] = "assistant"
      /\ runs' = Append(runs, r)
    BY DEF SaveRun, Call, Goto, ValidatedInv, Tables
<1>2. r.request \in Requests
    OBVIOUS
<1> HIDE DEF r
<1>3. /\ DOMAIN runs' = 1..(Len(runs) + 1) /\ DOMAIN runs = 1..Len(runs) /\ Len(runs) \in Nat
      /\ runs'[Len(runs) + 1] = r
      /\ \A i \in DOMAIN runs : runs'[i] = runs[i]
    BY <1>1, ListAppend, ListFacts DEF AuditInv, Lists
<1>4. \A i \in DOMAIN runs' : i \in DOMAIN runs \/ i = Len(runs) + 1
    BY <1>3
<1>5. DocumentsOK'
    BY <1>1, <1>2, <1>3, <1>4 DEF TypeInv, DocumentsOK
<1> QED
    BY <1>1, <1>5, WorksOn, DocumentsTypes

LEMMA DeleteTypes ==
    ASSUME ValidatedInv, AuditInv, TypeInv, NEW q \in Requests,
           DeleteConversation(q) \/ DeleteMessages(q) \/ DeleteWindows(q) \/ DeleteRuns(q)
    PROVE  TypeInv'
<1>1. Call(q) /\ UNCHANGED operations
    BY DEF DeleteConversation, DeleteMessages, DeleteWindows, DeleteRuns, Call
<1>2. LocalsOK(q)'
  <2>1. CASE DeleteRuns(q)
    BY <2>1, EndTypes DEF DeleteRuns
  <2>2. CASE ~DeleteRuns(q)
    <3>1. UNCHANGED work /\ pc'[q] \in DeletingAt
      BY <2>2 DEF DeleteConversation, DeleteMessages, DeleteWindows, Goto, DeletingAt, ValidatedInv, Tables
    <3> QED
      BY <3>1, WorksOn
  <2> QED
    BY <2>1, <2>2
<1>3. DOMAIN conversations' \subseteq DOMAIN conversations
    BY DEF DeleteConversation, DeleteMessages, DeleteWindows, DeleteRuns, Without
<1>4. DOMAIN windows' \subseteq DOMAIN windows /\ \A c \in DOMAIN windows' : windows'[c] = windows[c]
    BY DEF DeleteConversation, DeleteMessages, DeleteWindows, DeleteRuns, Without
<1>5. \A i \in DOMAIN messages' : \E k \in DOMAIN messages : messages'[i] = messages[k]
  <2>1. CASE DeleteMessages(q)
    <3>1. TakenAway(messages, work[q].conversation, messages')
      BY <2>1, OthersPicked DEF DeleteMessages, AuditInv, Lists
    <3> QED
      BY <3>1 DEF TakenAway
  <2>2. CASE ~DeleteMessages(q)
    BY <2>2 DEF DeleteConversation, DeleteWindows, DeleteRuns
  <2> QED
    BY <2>1, <2>2
<1>6. \A i \in DOMAIN runs' : \E k \in DOMAIN runs : runs'[i] = runs[k]
  <2>1. CASE DeleteRuns(q)
    <3>1. TakenAway(runs, work[q].conversation, runs')
      BY <2>1, OthersPicked DEF DeleteRuns, AuditInv, Lists
    <3> QED
      BY <3>1 DEF TakenAway
  <2>2. CASE ~DeleteRuns(q)
    BY <2>2 DEF DeleteConversation, DeleteMessages, DeleteWindows
  <2> QED
    BY <2>1, <2>2
<1>7. DocumentsOK'
    BY <1>3, <1>4, <1>5, <1>6 DEF TypeInv, DocumentsOK
<1> QED
    BY <1>1, <1>2, <1>7, DocumentsTypes

LEMMA ListMessagesTypes ==
    ASSUME ValidatedInv, AuditInv, TypeInv, NEW q \in Requests, ListMessages(q)
    PROVE  TypeInv'
<1> DEFINE all == MessagesOf(work[q].conversation)
           last == LastOf(all, RecentLimit)
           w == [work[q] EXCEPT !.recent = Ids(last)]
<1>1. /\ Call(q) /\ UNCHANGED documents /\ UNCHANGED operations /\ UNCHANGED task
      /\ pc[q] = "list" /\ pc'[q] = "previous" /\ work'[q] = w
    BY DEF ListMessages, Call, Goto, Keep, ValidatedInv, Tables
<1>2. IsList(messages) /\ RecentLimit \in Nat
    BY LimitsAssumption DEF AuditInv, Lists
<1>3. IsList(all) /\ \A i \in DOMAIN all : \E k \in DOMAIN messages : all[i] = messages[k]
  <2>1. OfConversation(messages, work[q].conversation) \in SUBSET (DOMAIN messages)
    BY DEF OfConversation
  <2> QED
    BY <1>2, <2>1, ListPick, PickedAt DEF MessagesOf
<1>4. /\ IsList(last) /\ Len(last) <= RecentLimit
      /\ \A i \in DOMAIN last : \E k \in DOMAIN all : last[i] = all[k]
    BY <1>2, <1>3, LastOfFacts
<1>5. DOMAIN last = 1..Len(last) /\ Len(last) \in Nat
    BY <1>4, ListFacts
<1>6. \A i \in DOMAIN last : Id(last[i]) \in MessageIds
    BY <1>3, <1>4 DEF TypeInv, DocumentsOK
<1> HIDE DEF all, last
<1>7. Ids(last) \in Seq(MessageIds) /\ Len(Ids(last)) = Len(last)
    BY <1>5, <1>6 DEF Ids
<1>8. w.recent = Ids(last) /\ w.conversation = work[q].conversation /\ w.plan = work[q].plan
      /\ w.outcome = work[q].outcome
    BY DEF ValidatedInv, Locals, Fields
<1> HIDE DEF w
<1>9. LocalsOK(q)
    BY DEF TypeInv
<1>10. LocalsOK(q)'
    BY <1>1, <1>4, <1>7, <1>8, <1>9 DEF LocalsOK, About, Placed, AskedAt, AnsweredAt, Moving, ListedAt, Steps
<1> QED
    BY <1>1, <1>10, ReadsTypes

LEMMA ReadPreviousTypes ==
    ASSUME ValidatedInv, TypeInv, NEW q \in Requests, ReadPrevious(q)
    PROVE  TypeInv'
<1> DEFINE previous == Existing(windows, work[q].conversation)
           w == [work[q] EXCEPT !.previous = previous]
<1>1. /\ Call(q) /\ UNCHANGED documents /\ UNCHANGED operations /\ UNCHANGED task
      /\ pc[q] = "previous" /\ pc'[q] = "window" /\ work'[q] = w
    BY DEF ReadPrevious, Call, Goto, Keep, ValidatedInv, Tables
<1>2. previous = None \/ WindowOK(previous)
    BY DEF Existing, TypeInv, DocumentsOK
<1>3. /\ w.recent = work[q].recent /\ w.conversation = work[q].conversation /\ w.plan = work[q].plan
      /\ w.outcome = work[q].outcome /\ w.previous = previous
    BY DEF ValidatedInv, Locals, Fields
<1> HIDE DEF w, previous
<1>4. LocalsOK(q)
    BY DEF TypeInv
<1>5. LocalsOK(q)'
    BY <1>1, <1>2, <1>3, <1>4 DEF LocalsOK, About, Placed, AskedAt, AnsweredAt, Moving, ListedAt, Steps
<1> QED
    BY <1>1, <1>5, ReadsTypes

\* The window that is built keeps to its limits.
LEMMA RebuiltOK ==
    ASSUME NEW previous, previous = None \/ WindowOK(previous), NEW outcome,
           outcome.event \in Tags \cup {None}, outcome.plan \in RanPlans,
           NEW recent \in Seq(MessageIds), Len(recent) <= RecentLimit, NEW q \in Requests
    PROVE  WindowOK(Rebuilt(previous, outcome, recent, q))
<1> DEFINE oldEvent == IF previous = None THEN None ELSE previous.event
           oldPlan == IF previous = None THEN None ELSE previous.plan
           id == IF previous = None THEN q ELSE previous.id
           constraints == IF previous = None THEN <<>> ELSE previous.constraints
           event == Or(outcome.event, oldEvent)
           plan == Or(outcome.plan, oldPlan)
           kept == IF event = None \/ Among(event, constraints) THEN constraints
                     ELSE LastOf(Append(constraints, event), ConstraintLimit)
<1>1. Rebuilt(previous, outcome, recent, q) =
        [id |-> id, recent |-> recent, event |-> event, plan |-> plan, constraints |-> kept]
    BY DEF Rebuilt
<1>2. ConstraintLimit \in Nat
    BY LimitsAssumption
<1>3. /\ id \in Requests /\ oldEvent \in Tags \cup {None} /\ oldPlan \in RanPlans
      /\ constraints \in Seq(Tags) /\ Len(constraints) <= ConstraintLimit
  <2>1. CASE previous = None
    <3>1. constraints = <<>> /\ id = q /\ oldEvent = None /\ oldPlan = None
      BY <2>1
    <3>2. <<>> \in Seq(Tags) /\ Len(<<>>) = 0
      OBVIOUS
    <3> HIDE DEF constraints, id, oldEvent, oldPlan
    <3> QED
      BY <1>2, <3>1, <3>2 DEF RanPlans
  <2>2. CASE previous # None
    <3>1. previous \in ContextWindows /\ Len(previous.constraints) <= ConstraintLimit
      BY <2>2 DEF WindowOK
    <3> QED
      BY <2>2, <3>1 DEF ContextWindows, RanPlans
  <2> QED
    BY <2>1, <2>2
<1> HIDE DEF constraints, id, oldEvent, oldPlan
<1>4. event \in Tags \cup {None} /\ plan \in RanPlans
    BY <1>3 DEF Or
<1> HIDE DEF event, plan
<1>5. event # None => LastOf(Append(constraints, event), ConstraintLimit) \in Seq(Tags)
        /\ Len(LastOf(Append(constraints, event), ConstraintLimit)) <= ConstraintLimit
  <2>1. SUFFICES ASSUME event # None
                 PROVE  LastOf(Append(constraints, event), ConstraintLimit) \in Seq(Tags)
                        /\ Len(LastOf(Append(constraints, event), ConstraintLimit)) <= ConstraintLimit
    OBVIOUS
  <2> DEFINE s == Append(constraints, event)
             m == IF Len(s) > ConstraintLimit THEN Len(s) - ConstraintLimit + 1 ELSE 1
  <2>2. event \in Tags
    BY <1>4, <2>1
  <2>3. s \in Seq(Tags) /\ Len(s) \in Nat
    BY <1>3, <2>2
  <2>4. m \in 1..(Len(s) + 1)
    BY <1>2, <2>3
  <2>5. IsList(s)
    BY <2>3 DEF IsList
  <2> HIDE DEF s
  <2>6. LastOf(s, ConstraintLimit) = SubSeq(s, m, Len(s))
    BY DEF LastOf
  <2> HIDE DEF m
  <2>7. SubSeq(s, m, Len(s)) \in Seq(Tags)
    BY <2>3, <2>4, SubSeqProperties
  <2>8. Len(LastOf(s, ConstraintLimit)) <= ConstraintLimit
    BY <1>2, <2>5, LastOfFacts
  <2> QED
    BY <2>6, <2>7, <2>8 DEF s
<1>6. kept \in Seq(Tags) /\ Len(kept) <= ConstraintLimit
    BY <1>3, <1>5
<1> HIDE DEF kept
<1>7. plan \in StoredPlans \cup {None}
    BY <1>4 DEF RanPlans
<1> QED
    BY <1>1, <1>3, <1>4, <1>6, <1>7 DEF WindowOK, ContextWindows

LEMMA SaveWindowTypes ==
    ASSUME ValidatedInv, TypeInv, NEW q \in Requests, SaveWindow(q)
    PROVE  TypeInv'
<1> DEFINE c == work[q].conversation
           w == Rebuilt(work[q].previous, work[q].outcome, work[q].recent, q)
<1>1. /\ Call(q) /\ UNCHANGED <<conversations, messages, runs>> /\ UNCHANGED operations /\ End(q)
      /\ pc[q] = "window"
      /\ \/ UNCHANGED windows
         \/ windows' = [d \in DOMAIN windows \cup {c} |-> IF d = c THEN w ELSE windows[d]]
    BY DEF SaveWindow, Call
<1>2. WindowOK(w) /\ c \in Requests
  <2>1. /\ work[q].previous = None \/ WindowOK(work[q].previous)
        /\ work[q].outcome.event \in Tags \cup {None} /\ work[q].outcome.plan \in RanPlans
        /\ work[q].recent \in Seq(MessageIds) /\ Len(work[q].recent) <= RecentLimit
        /\ work[q].conversation \in Requests
    BY <1>1 DEF TypeInv, LocalsOK, About, AnsweredAt, AskedAt, ListedAt, Placed
  <2> QED
    BY <2>1, RebuiltOK
<1> HIDE DEF c, w
<1>3. DOMAIN windows' \subseteq Requests /\ \A d \in DOMAIN windows' : WindowOK(windows'[d])
    BY <1>1, <1>2 DEF TypeInv, DocumentsOK
<1>4. DocumentsOK'
    BY <1>1, <1>3 DEF TypeInv, DocumentsOK
<1> QED
    BY <1>1, <1>4, EndTypes, DocumentsTypes

LEMMA NextTypes ==
    ValidatedInv /\ AuditInv /\ TypeInv /\ [ConversationsNext]_conversationVars => TypeInv'
<1> SUFFICES ASSUME ValidatedInv, AuditInv, TypeInv, [ConversationsNext]_conversationVars PROVE TypeInv'
    OBVIOUS
<1>1. ASSUME NEW q \in Requests, Call(q)
      PROVE  TypeInv'
    BY <1>1, ReceiveTypes, RequireTypes, ResolveRouteTypes, CreateTypes, ScenarioTypes, MessageTypes,
       ReadContextTypes, StoreTypes, UpdateTypes, SaveRunTypes, ListMessagesTypes,
       ReadPreviousTypes, SaveWindowTypes, DeleteTypes, PublishTypes DEF Call
<1>2. ASSUME NEW q \in Requests, Crash(q)
      PROVE  TypeInv'
  <2>1. UNCHANGED documents /\ UNCHANGED operations /\ End(q)
    BY <1>2 DEF Crash
  <2> QED
    BY <1>2, <2>1, EndTypes, ReadsTypes
<1>3. CASE UNCHANGED conversationVars
    BY <1>3 DEF conversationVars, documents, operations, serving, encounters, TypeInv, DocumentsOK, OperationsOK, LocalsOK, About
<1> QED
    BY <1>1, <1>2, <1>3 DEF ConversationsNext, Rest

\* The documents, the routes and the requests stay of their types, and a window keeps
\* to the limits of context.py.
THEOREM ConversationsTyped == ConversationsSpec => []ConversationsTypeOK
<1>1. ConversationsSpec => [](ValidatedInv /\ AuditInv /\ TypeInv)
    BY InitValidated, InitAudit, InitTypes, NextValidated, NextAudit, NextTypes, PTL DEF ConversationsSpec
<1> QED
    BY <1>1, TypeMeans, PTL

-----------------------------------------------------------------------------
(* Lists.                                                                  *)

\* A list up to its nth member is that up to the one before, and the member.
LEMMA UpToNext ==
    ASSUME NEW S, NEW s \in Seq(S), NEW n \in Nat, n + 1 <= Len(s)
    PROVE  SubSeq(s, 1, n + 1) = Append(SubSeq(s, 1, n), s[n + 1])
<1>1. Len(s) \in Nat /\ n + 1 \in 1..Len(s) /\ \A i \in 1..Len(s) : s[i] \in S
    OBVIOUS
<1>2. /\ SubSeq(s, 1, n + 1) \in Seq(S) /\ Len(SubSeq(s, 1, n + 1)) = n + 1
      /\ \A i \in 1..(n + 1) : SubSeq(s, 1, n + 1)[i] = s[i]
  <2>1. \A i \in 1..(n + 1) : s[i] \in S
    BY <1>1
  <2>2. /\ SubSeq(s, 1, n + 1) \in Seq(S)
        /\ Len(SubSeq(s, 1, n + 1)) = IF 1 <= n + 1 THEN n + 1 - 1 + 1 ELSE 0
        /\ \A i \in 1..(n + 1 - 1 + 1) : SubSeq(s, 1, n + 1)[i] = s[1 + i - 1]
    BY <2>1, SubSeqProperties
  <2> QED
    BY <2>2
<1>3. /\ SubSeq(s, 1, n) \in Seq(S) /\ Len(SubSeq(s, 1, n)) = n
      /\ \A i \in 1..n : SubSeq(s, 1, n)[i] = s[i]
  <2>1. \A i \in 1..n : s[i] \in S
    BY <1>1
  <2>2. /\ SubSeq(s, 1, n) \in Seq(S)
        /\ Len(SubSeq(s, 1, n)) = IF 1 <= n THEN n - 1 + 1 ELSE 0
        /\ \A i \in 1..(n - 1 + 1) : SubSeq(s, 1, n)[i] = s[1 + i - 1]
    BY <2>1, SubSeqProperties
  <2> QED
    BY <2>2
<1> DEFINE a == SubSeq(s, 1, n + 1)
           b == SubSeq(s, 1, n)
<1> HIDE DEF a, b
<1>4. a \in Seq(S) /\ Len(a) = n + 1 /\ \A i \in 1..(n + 1) : a[i] = s[i]
    BY <1>2 DEF a
<1>5. b \in Seq(S) /\ Len(b) = n /\ \A i \in 1..n : b[i] = s[i]
    BY <1>3 DEF b
<1>6. a = Append(b, s[n + 1])
    BY <1>1, <1>4, <1>5
<1> QED
    BY <1>6 DEF a, b

\* What is of c in a list that has grown.
LEMMA MoreOf ==
    ASSUME NEW s, IsList(s), NEW e, NEW c
    PROVE  Pick(Append(s, e), OfConversation(Append(s, e), c)) =
             IF e.conversation = c THEN Append(Pick(s, OfConversation(s, c)), e)
               ELSE Pick(s, OfConversation(s, c))
<1>1. /\ DOMAIN Append(s, e) = 1..(Len(s) + 1) /\ Append(s, e)[Len(s) + 1] = e
      /\ \A i \in DOMAIN s : Append(s, e)[i] = s[i]
      /\ DOMAIN s = 1..Len(s) /\ Len(s) \in Nat
    BY ListAppend, ListFacts
<1>2. \A k \in DOMAIN s : k \in OfConversation(s, c) <=> k \in OfConversation(Append(s, e), c)
    BY <1>1 DEF OfConversation
<1>3. Len(s) + 1 \in OfConversation(Append(s, e), c) <=> e.conversation = c
    BY <1>1 DEF OfConversation
<1> QED
    BY <1>2, <1>3, ListPickAppend

LEMMA MoreOfOthers ==
    ASSUME NEW s, IsList(s), NEW e, NEW d
    PROVE  Pick(Append(s, e), DOMAIN Append(s, e) \ OfConversation(Append(s, e), d)) =
             IF e.conversation # d THEN Append(Pick(s, DOMAIN s \ OfConversation(s, d)), e)
               ELSE Pick(s, DOMAIN s \ OfConversation(s, d))
<1> DEFINE at == DOMAIN s \ OfConversation(s, d)
           bt == DOMAIN Append(s, e) \ OfConversation(Append(s, e), d)
<1>1. /\ DOMAIN Append(s, e) = 1..(Len(s) + 1) /\ Append(s, e)[Len(s) + 1] = e
      /\ \A i \in DOMAIN s : Append(s, e)[i] = s[i]
      /\ DOMAIN s = 1..Len(s) /\ Len(s) \in Nat
    BY ListAppend, ListFacts
<1>2. \A k \in DOMAIN s : k \in at <=> k \in bt
    BY <1>1 DEF OfConversation
<1>3. Len(s) + 1 \in bt <=> e.conversation # d
    BY <1>1 DEF OfConversation
<1> HIDE DEF at, bt
<1>4. Pick(Append(s, e), bt) = IF Len(s) + 1 \in bt THEN Append(Pick(s, at), e) ELSE Pick(s, at)
    BY <1>2, ListPickAppend
<1> QED
    BY <1>3, <1>4 DEF at, bt

\* Taking away what is of d leaves what is of c.
LEMMA OthersStay ==
    ASSUME NEW s, IsList(s), NEW c, NEW d, c # d,
           NEW t, t = Pick(s, DOMAIN s \ OfConversation(s, d))
    PROVE  Pick(t, OfConversation(t, c)) = Pick(s, OfConversation(s, c))
<1> DEFINE Of(u) == Pick(u, OfConversation(u, c))
           Others(u) == Pick(u, DOMAIN u \ OfConversation(u, d))
           T == {n \in Nat : n <= Len(s) => Of(Others(SubSeq(s, 1, n))) = Of(SubSeq(s, 1, n))}
<1>1. PICK S : s \in Seq(S)
    BY DEF IsList
<1>2. ASSUME NEW u, IsList(u)
      PROVE  IsList(Others(u))
  <2>1. TakenAway(u, d, Others(u))
    BY <1>2, OthersPicked
  <2> HIDE DEF Others
  <2> QED
    BY <2>1 DEF TakenAway
<1>3. ASSUME NEW u, IsList(u), Of(Others(u)) = Of(u), NEW e
      PROVE  Of(Others(Append(u, e))) = Of(Append(u, e))
  <2>1. Of(Append(u, e)) = IF e.conversation = c THEN Append(Of(u), e) ELSE Of(u)
    BY <1>3, MoreOf
  <2>2. Others(Append(u, e)) = IF e.conversation # d THEN Append(Others(u), e) ELSE Others(u)
    BY <1>3, MoreOfOthers
  <2>3. Of(Append(Others(u), e)) = IF e.conversation = c THEN Append(Of(Others(u)), e) ELSE Of(Others(u))
    BY <1>2, <1>3, MoreOf
  <2> HIDE DEF Of, Others
  <2>4. CASE e.conversation = d
    BY <1>3, <2>1, <2>2, <2>4
  <2>5. CASE e.conversation # d
    BY <1>3, <2>1, <2>2, <2>3, <2>5
  <2> QED
    BY <2>4, <2>5
<1>4. 0 \in T
  <2>1. SubSeq(s, 1, 0) = <<>>
    BY SubSeqEmpty
  <2>2. Others(<<>>) = <<>>
    <3>1. IsList(Others(<<>>)) /\ DOMAIN <<>> = {}
      BY <1>2, EmptyIsList, ListFacts
    <3>2. \A i \in DOMAIN Others(<<>>) : \E k \in DOMAIN <<>> : TRUE
      <4>1. TakenAway(<<>>, d, Others(<<>>))
        BY EmptyIsList, OthersPicked
      <4> HIDE DEF Others
      <4> QED
        BY <4>1 DEF TakenAway
    <3>3. DOMAIN Others(<<>>) = {}
      BY <3>1, <3>2
    <3> HIDE DEF Others
    <3>4. Len(Others(<<>>)) = 0
      BY <3>1, <3>3, ListFacts
    <3>5. PICK R : Others(<<>>) \in Seq(R)
      BY <3>1 DEF IsList
    <3> QED
      BY <3>4, <3>5
  <2> HIDE DEF Of, Others
  <2>3. Of(Others(SubSeq(s, 1, 0))) = Of(SubSeq(s, 1, 0))
    BY <2>1, <2>2
  <2> QED
    BY <2>3
<1>5. \A n \in Nat : n \in T => n + 1 \in T
  <2>1. SUFFICES ASSUME NEW n \in Nat, n \in T, n + 1 <= Len(s)
                 PROVE  Of(Others(SubSeq(s, 1, n + 1))) = Of(SubSeq(s, 1, n + 1))
    OBVIOUS
  <2>2. Len(s) \in Nat /\ n <= Len(s)
    BY <1>1, <2>1
  <2>3. Of(Others(SubSeq(s, 1, n))) = Of(SubSeq(s, 1, n))
    BY <2>1, <2>2
  <2>4. SubSeq(s, 1, n + 1) = Append(SubSeq(s, 1, n), s[n + 1])
    BY <1>1, <2>1, UpToNext
  <2>5. SubSeq(s, 1, n) \in Seq(S)
    <3>1. \A i \in 1..n : s[i] \in S
      BY <1>1, <2>2
    <3> QED
      BY <3>1, SubSeqProperties
  <2>6. IsList(SubSeq(s, 1, n))
    BY <2>5 DEF IsList
  <2> QED
    BY <1>3, <2>3, <2>4, <2>6
<1> HIDE DEF Of, Others
<1>6. Len(s) \in T
  <2>1. Len(s) \in Nat
    BY <1>1
  <2> HIDE DEF T
  <2> QED
    BY <1>4, <1>5, <2>1, InductionOnNat
<1>7. SubSeq(s, 1, Len(s)) = s
    BY <1>1, SubSeqFull
<1>8. Of(Others(s)) = Of(s)
  <2>1. Len(s) <= Len(s)
    BY <1>1
  <2>2. Of(Others(SubSeq(s, 1, Len(s)))) = Of(SubSeq(s, 1, Len(s)))
    BY <1>6, <2>1
  <2> HIDE DEF T
  <2> QED
    BY <1>7, <2>2
<1> QED
    BY <1>8 DEF Of, Others

\* What is last known, with one more.
LEMMA LastKnownNone == \A f : LastKnown(<<>>, f) = None
<1>1. DOMAIN <<>> = {}
    BY EmptyIsList, ListFacts
<1> QED
    BY <1>1 DEF LastKnown

LEMMA LastKnownMore ==
    ASSUME NEW s, IsList(s), NEW r, NEW f
    PROVE  LastKnown(Append(s, r), f) = IF r.result[f] # None THEN r.result[f] ELSE LastKnown(s, f)
<1> DEFINE t == Append(s, r)
           old == {i \in DOMAIN s : s[i].result[f] # None}
           new == {i \in DOMAIN t : t[i].result[f] # None}
<1>1. /\ DOMAIN t = 1..(Len(s) + 1) /\ t[Len(s) + 1] = r /\ \A i \in DOMAIN s : t[i] = s[i]
      /\ DOMAIN s = 1..Len(s) /\ Len(s) \in Nat
    BY ListAppend, ListFacts
<1> HIDE DEF t
<1>2. CASE r.result[f] # None
  <2> DEFINE last == CHOOSE i \in new : \A j \in new : j <= i
  <2>1. Len(s) + 1 \in new /\ \A j \in new : j <= Len(s) + 1 /\ j \in Nat
    BY <1>1, <1>2
  <2>2. last \in new /\ \A j \in new : j <= last
    <3> HIDE DEF new
    <3> QED
      BY <2>1
  <2>3. last = Len(s) + 1
    <3> HIDE DEF new, last
    <3>1. last <= Len(s) + 1 /\ Len(s) + 1 <= last /\ last \in Nat
      BY <2>1, <2>2
    <3> QED
      BY <1>1, <3>1
  <2> HIDE DEF last
  <2>4. LastKnown(t, f) = t[last].result[f]
    BY <2>1 DEF LastKnown, last
  <2> QED
    BY <1>1, <1>2, <2>3, <2>4 DEF t
<1>3. CASE r.result[f] = None
  <2>1. new = old
    BY <1>1, <1>3
  <2>2. \A i \in old : t[i] = s[i]
    BY <1>1
  <2>3. CASE old = {}
    <3>1. LastKnown(t, f) = None /\ LastKnown(s, f) = None
      BY <2>1, <2>3 DEF LastKnown
    <3> QED
      BY <1>3, <3>1 DEF t
  <2>4. CASE old # {}
    <3> DEFINE last == CHOOSE i \in old : \A j \in old : j <= i
    <3>1. old \in SUBSET (1..Len(s))
      BY <1>1
    <3>2. last \in old
      <4>1. 1 \in Int /\ Len(s) \in Int
        BY <1>1
      <4> HIDE DEF old
      <4>2. \E i \in old : \A j \in old : j <= i
        BY <2>4, <3>1, <4>1, LargestExists
      <4> QED
        BY <4>2
    <3>3. LastKnown(t, f) = t[last].result[f] /\ LastKnown(s, f) = s[last].result[f]
      BY <2>1, <2>4 DEF LastKnown
    <3> HIDE DEF last
    <3> QED
      BY <1>3, <2>2, <3>2, <3>3 DEF t
  <2> QED
    BY <2>3, <2>4
<1> QED
    BY <1>2, <1>3

\* The messages up to the last answer.
HasAnswer(all) == \E i \in DOMAIN all : all[i].role = "assistant"
AnsweredLast(all) == Len(all) > 0 /\ all[Len(all)].role = "assistant"

LEMMA UpToIts ==
    ASSUME NEW all, NEW n \in DOMAIN all, DOMAIN all \subseteq Nat, IsList(all), all[n].role = "assistant",
           \A j \in (n + 1)..Len(all) : all[j].role # "assistant"
    PROVE  UpToAnswer(all) = SubSeq(all, 1, n)
<1> DEFINE IsLast(i) == all[i].role = "assistant" /\ \A j \in (i + 1)..Len(all) : all[j].role # "assistant"
           last == CHOOSE i \in DOMAIN all : IsLast(i)
<1>1. DOMAIN all = 1..Len(all) /\ Len(all) \in Nat
    BY ListFacts
<1>2. last \in DOMAIN all /\ IsLast(last)
    OBVIOUS
<1>3. last = n
    BY <1>1, <1>2
<1>4. UpToAnswer(all) = SubSeq(all, 1, last)
    BY DEF UpToAnswer
<1> QED
    BY <1>3, <1>4

LEMMA UpToAll ==
    ASSUME NEW all, IsList(all), AnsweredLast(all)
    PROVE  UpToAnswer(all) = all /\ HasAnswer(all)
<1>1. DOMAIN all = 1..Len(all) /\ Len(all) \in Nat /\ Len(all) > 0 /\ all[Len(all)].role = "assistant"
    BY ListFacts DEF AnsweredLast
<1>2. Len(all) \in DOMAIN all /\ \A j \in (Len(all) + 1)..Len(all) : all[j].role # "assistant"
    BY <1>1
<1>3. UpToAnswer(all) = SubSeq(all, 1, Len(all))
    BY <1>1, <1>2, UpToIts
<1>4. PICK S : all \in Seq(S)
    BY DEF IsList
<1> QED
    BY <1>1, <1>2, <1>3, <1>4, SubSeqFull DEF HasAnswer

LEMMA UpToMore ==
    ASSUME NEW all, IsList(all), HasAnswer(all), NEW m, m.role # "assistant"
    PROVE  UpToAnswer(Append(all, m)) = UpToAnswer(all) /\ HasAnswer(Append(all, m))
<1> DEFINE more == Append(all, m)
           at == {i \in DOMAIN all : all[i].role = "assistant"}
<1>1. /\ IsList(more) /\ Len(more) = Len(all) + 1 /\ DOMAIN more = 1..(Len(all) + 1)
      /\ more[Len(all) + 1] = m /\ \A i \in DOMAIN all : more[i] = all[i]
      /\ DOMAIN all = 1..Len(all) /\ Len(all) \in Nat
    BY ListAppend, ListFacts
<1>2. PICK n \in at : \A j \in at : j <= n
  <2>1. at \in SUBSET (1..Len(all)) /\ at # {} /\ 1 \in Int /\ Len(all) \in Int
    BY <1>1 DEF HasAnswer
  <2> HIDE DEF at
  <2> QED
    BY <2>1, LargestExists
<1>3. UpToAnswer(all) = SubSeq(all, 1, n)
  <2>1. \A j \in (n + 1)..Len(all) : all[j].role # "assistant"
    BY <1>1, <1>2
  <2> QED
    BY <1>1, <1>2, <2>1, UpToIts
<1> HIDE DEF more
<1>4. UpToAnswer(more) = SubSeq(more, 1, n)
  <2>1. \A j \in (n + 1)..Len(more) : more[j].role # "assistant"
    <3>1. \A j \in (n + 1)..Len(more) : j = Len(all) + 1 \/ j \in (n + 1)..Len(all)
      BY <1>1, <1>2
    <3> QED
      BY <1>1, <1>2, <3>1
  <2>2. n \in DOMAIN more /\ more[n].role = "assistant" /\ DOMAIN more \subseteq Nat
    BY <1>1, <1>2
  <2> QED
    BY <1>1, <2>1, <2>2, UpToIts
<1>5. SubSeq(more, 1, n) = SubSeq(all, 1, n)
  <2>1. PICK S : more \in Seq(S)
    BY <1>1 DEF IsList
  <2>2. n \in 1..Len(all) /\ \A i \in 1..n : more[i] \in S /\ all[i] = more[i]
    BY <1>1, <1>2, <2>1
  <2>3. /\ SubSeq(more, 1, n) \in Seq(S) /\ Len(SubSeq(more, 1, n)) = n
        /\ \A i \in 1..n : SubSeq(more, 1, n)[i] = more[i]
    <3>1. /\ SubSeq(more, 1, n) \in Seq(S) /\ Len(SubSeq(more, 1, n)) = IF 1 <= n THEN n - 1 + 1 ELSE 0
          /\ \A i \in 1..(n - 1 + 1) : SubSeq(more, 1, n)[i] = more[1 + i - 1]
      BY <2>2, SubSeqProperties
    <3> QED
      BY <2>2, <3>1
  <2>4. /\ SubSeq(all, 1, n) \in Seq(S) /\ Len(SubSeq(all, 1, n)) = n
        /\ \A i \in 1..n : SubSeq(all, 1, n)[i] = all[i]
    <3>1. /\ SubSeq(all, 1, n) \in Seq(S) /\ Len(SubSeq(all, 1, n)) = IF 1 <= n THEN n - 1 + 1 ELSE 0
          /\ \A i \in 1..(n - 1 + 1) : SubSeq(all, 1, n)[i] = all[1 + i - 1]
      BY <2>2, SubSeqProperties
    <3> QED
      BY <2>2, <3>1
  <2> DEFINE a == SubSeq(more, 1, n)
             b == SubSeq(all, 1, n)
  <2> HIDE DEF a, b
  <2>5. a \in Seq(S) /\ Len(a) = n /\ \A i \in 1..n : a[i] = more[i]
    BY <2>3 DEF a
  <2>6. b \in Seq(S) /\ Len(b) = n /\ \A i \in 1..n : b[i] = all[i]
    BY <2>4 DEF b
  <2>7. a = b
    BY <2>2, <2>5, <2>6
  <2> QED
    BY <2>7 DEF a, b
<1>6. HasAnswer(more)
    BY <1>1, <1>2 DEF HasAnswer
<1> QED
    BY <1>3, <1>4, <1>5, <1>6 DEF more

-----------------------------------------------------------------------------
(* One request at a time: the windows, and what a deletion leaves.         *)

\* All runs of c, and that of q.
Mine(c) == Pick(runs, OfConversation(runs, c))
RunOf(q, c) == [conversation |-> c, request |-> q, result |-> work[q].outcome]

\* The window of c is what the runs s amount to.
WindowAgrees(c, s) ==
    /\ c \in DOMAIN windows <=> s # <<>>
    /\ s # <<>> =>
         /\ windows[c].event = LastKnown(s, "event")
         /\ windows[c].plan = LastKnown(s, "plan")
         /\ windows[c].event # None => Among(windows[c].event, windows[c].constraints)

\* ... and names the messages up to the last answer.
RecentAgrees(c) ==
    Mine(c) # <<>> =>
        /\ HasAnswer(MessagesOf(c))
        /\ windows[c].recent = Ids(LastOf(UpToAnswer(MessagesOf(c)), RecentLimit))

Agrees(c) == WindowAgrees(c, Mine(c)) /\ RecentAgrees(c)

\* A request whose run is saved has the window of before its run, and lists the messages
\* with its answer at the end.
BuildsFrom(q, c) ==
    /\ \E s : IsList(s) /\ Mine(c) = Append(s, RunOf(q, c)) /\ WindowAgrees(c, s)
    /\ pc[q] # "assistant" => AnsweredLast(MessagesOf(c))
    /\ pc[q] \in ListedAt => work[q].recent = Ids(LastOf(MessagesOf(c), RecentLimit))
    /\ pc[q] = "window" => work[q].previous = Existing(windows, c)

RanOn(q, c) == pc[q] \in RanAt /\ work[q].conversation = c
Follows(q, c) == IF RanOn(q, c) THEN BuildsFrom(q, c) ELSE Agrees(c)

\* What is there of a conversation that is gone is of the one q is deleting.
There(q, steps) ==
    DOMAIN conversations \cup (IF pc[q] \in steps THEN {work[q].conversation} ELSE {})
LeftBy(q) ==
    /\ \A i \in DOMAIN messages : messages[i].conversation \in There(q, {"delete messages"})
    /\ DOMAIN windows \subseteq There(q, {"delete messages", "delete windows"})
    /\ \A i \in DOMAIN runs : runs[i].conversation \in There(q, DeletingAt)

\* The conversation a request is at work on is there.
Standing(q) ==
    /\ pc[q] \in Placed => work[q].conversation \in DOMAIN conversations
    /\ pc[q] = "resolve" /\ work[q].conversation # None => work[q].conversation \in DOMAIN conversations

\* It is the turn of q.
Turn(q) ==
    /\ Busy \subseteq {q}
    /\ LeftBy(q) /\ Standing(q)
    /\ \A c \in DOMAIN conversations : Follows(q, c)

TurnInv == inTurn => /\ \A p, q \in Busy : p = q
                     /\ \A q \in Requests : Busy \subseteq {q} => Turn(q)

AllInv == ValidatedInv /\ AuditInv /\ TypeInv

\* If it is the turn of one request it is that of any other that could be next.
LEMMA TurnIs ==
    ASSUME ValidatedInv, NEW q \in Requests, Turn(q)
    PROVE  TurnInv
<1>1. \A p \in Busy : p = q
    BY DEF Turn
<1>2. ASSUME NEW p \in Requests, Busy \subseteq {p}
      PROVE  Turn(p)
  <2>1. CASE p = q
    BY <2>1
  <2>2. CASE p # q
    <3>1. pc[p] \in {"new", "end"} /\ pc[q] \in {"new", "end"}
      BY <1>1, <1>2, <2>2 DEF Busy
    <3>2. LeftBy(p)
      BY <3>1 DEF Turn, LeftBy, There, DeletingAt
    <3>3. Standing(p)
      BY <3>1 DEF Standing, Placed, AskedAt, Moving
    <3>4. \A c \in DOMAIN conversations : Follows(p, c)
      BY <3>1 DEF Turn, Follows, RanOn, RanAt
    <3> QED
      BY <1>2, <3>2, <3>3, <3>4 DEF Turn
  <2> QED
    BY <2>1, <2>2
<1> QED
    BY <1>1, <1>2 DEF TurnInv

LEMMA TurnIsNext == ValidatedInv' /\ (\E q \in Requests : Turn(q))' => TurnInv'
<1>1. ValidatedInv /\ (\E q \in Requests : Turn(q)) => TurnInv
    BY TurnIs
<1> QED
    BY <1>1, PTL

LEMMA TurnMeans ==
    ValidatedInv /\ AuditInv /\ TypeInv /\ TurnInv => WindowIsCurrent
<1> SUFFICES ASSUME TurnInv, TypeInv, AuditInv PROVE WindowIsCurrent
    OBVIOUS
<1>1. SUFFICES ASSUME inTurn, NEW c \in DOMAIN conversations, BusyOn(c) = {}
               PROVE  Agrees(c)
  BY DEF WindowIsCurrent, Agrees, WindowAgrees, RecentAgrees, Mine
<1>2. \E q \in Requests : Turn(q) /\ ~RanOn(q, c)
  <2>1. c \in Requests
    BY <1>1 DEF TypeInv, DocumentsOK
  <2>2. CASE Busy = {}
    <3>1. Turn(c)
      BY <1>1, <2>1, <2>2 DEF TurnInv
    <3>2. pc[c] \in {"new", "end"}
      BY <2>1, <2>2 DEF Busy
    <3>3. ~RanOn(c, c)
      BY <3>2 DEF RanOn, RanAt
    <3> QED
      BY <2>1, <3>1, <3>3
  <2>3. CASE Busy # {}
    <3>1. PICK q \in Busy : TRUE
      BY <2>3
    <3>2. Turn(q) /\ q \in Requests
      BY <1>1, <3>1 DEF TurnInv, Busy
    <3>3. ~RanOn(q, c)
      BY <1>1, <3>1 DEF RanOn, BusyOn
    <3> QED
      BY <3>2, <3>3
  <2> QED
    BY <2>2, <2>3
<1> QED
  BY <1>1, <1>2 DEF Turn, Follows

LEMMA NothingPicked ==
    ASSUME NEW s, IsList(s)
    PROVE  Pick(s, {}) = <<>>
<1>1. IsList(Pick(s, {})) /\ \A i \in DOMAIN Pick(s, {}) : \E k \in {} : TRUE
    BY ListPick, PickedAt
<1>2. DOMAIN Pick(s, {}) = {}
    BY <1>1
<1>3. Len(Pick(s, {})) = 0
    BY <1>1, <1>2, ListFacts
<1>4. PICK R : Pick(s, {}) \in Seq(R)
    BY <1>1 DEF IsList
<1> QED
    BY <1>3, <1>4

LEMMA InitTurn == ConversationsInit => TurnInv
<1> SUFFICES ASSUME ConversationsInit PROVE TurnInv
    OBVIOUS
<1>1. \A q \in Requests : pc[q] = "new"
    BY DEF ConversationsInit
<1>2. DOMAIN conversations = {} /\ DOMAIN messages = {} /\ DOMAIN runs = {} /\ DOMAIN windows = {}
    BY EmptyIsList, ListFacts DEF ConversationsInit
<1>3. Busy = {}
    BY <1>1 DEF Busy
<1>4. \A q \in Requests : LeftBy(q) /\ Standing(q)
    BY <1>1, <1>2 DEF LeftBy, There, Standing, Placed, AskedAt, Moving
<1> QED
    BY <1>2, <1>3, <1>4 DEF TurnInv, Turn

LEMMA StillTurn ==
    ASSUME AllInv, NEW q \in Requests, Turn(q), Call(q)
    PROVE  Busy' \subseteq {q}
<1>1. PICK l : pc' = [pc EXCEPT ![q] = l]
    BY CallMoves DEF AllInv
<1>2. \A p \in Requests : p # q => pc'[p] = pc[p]
    BY <1>1 DEF AllInv, ValidatedInv, Tables
<1> QED
    BY <1>2 DEF Turn, Busy

\* The calls that have nothing to do with the documents.
LEMMA QuietTurn ==
    ASSUME AllInv, NEW q \in Requests, Turn(q), Call(q), UNCHANGED documents,
           pc[q] \notin RanAt \cup DeletingAt, pc'[q] \notin RanAt \cup DeletingAt, Standing(q)'
    PROVE  Turn(q)'
<1>1. UNCHANGED <<conversations, messages, runs, windows>>
    BY DEF documents
<1>2. LeftBy(q)'
    BY <1>1 DEF Turn, LeftBy, There, DeletingAt
<1>3. ASSUME NEW c \in DOMAIN conversations'
      PROVE  Follows(q, c)'
  <2>1. Agrees(c)
    BY <1>1, <1>3 DEF Turn, Follows, RanOn
  <2>2. Agrees(c)'
    BY <1>1, <2>1 DEF Agrees, WindowAgrees, RecentAgrees, Mine, MessagesOf
  <2> QED
    BY <2>2 DEF Follows, RanOn
<1> QED
    BY <1>2, <1>3, StillTurn DEF Turn

LEMMA ReceiveTurn ==
    ASSUME AllInv, NEW q \in Requests, Turn(q), Receive(q)
    PROVE  Turn(q)'
<1>1. PICK t \in Menu[q] :
        /\ task' = [task EXCEPT ![q] = t]
        /\ Goto(q, CASE t.op = "replan" /\ t.conversation = None /\ t.route = None -> "create"
                      [] t.op = "replan" /\ t.conversation = None /\ t.route # None -> "resolve"
                      [] t.op \in {"create", "delete", "publish"} -> t.op
                      [] OTHER -> "require")
        /\ Keep(q, IF t.op \in {"create", "publish"} THEN NoWork
                     ELSE [NoWork EXCEPT !.conversation = t.conversation, !.scenario = Home,
                                         !.route = IF t.op = "replan" THEN t.route ELSE None])
    BY DEF Receive
<1> DEFINE l == CASE t.op = "replan" /\ t.conversation = None /\ t.route = None -> "create"
                  [] t.op = "replan" /\ t.conversation = None /\ t.route # None -> "resolve"
                  [] t.op \in {"create", "delete", "publish"} -> t.op
                  [] OTHER -> "require"
           w == IF t.op \in {"create", "publish"} THEN NoWork
                  ELSE [NoWork EXCEPT !.conversation = t.conversation, !.scenario = Home,
                                      !.route = IF t.op = "replan" THEN t.route ELSE None]
<1>2. t.op \in {"replan", "create", "append", "delete", "publish"}
    BY MenuAssumption
<1>3. pc'[q] = l /\ work'[q] = w /\ task'[q] = t
    BY <1>1 DEF Goto, Keep, AllInv, ValidatedInv, Tables
<1>4. /\ l \in {"create", "resolve", "delete", "publish", "require"}
      /\ l = "resolve" => t.op = "replan" /\ t.conversation = None
      /\ l = "create" /\ t.op # "create" => t.op = "replan" /\ t.route = None
    BY <1>2
<1>5. t.op = "replan" => w.conversation = t.conversation /\ w.route = t.route
    BY DEF NoWork
<1> HIDE DEF l, w
<1>6. Standing(q)'
    BY <1>3, <1>4, <1>5 DEF Standing, Placed, AskedAt, Moving
<1>7. pc[q] \notin RanAt \cup DeletingAt /\ pc'[q] \notin RanAt \cup DeletingAt
    BY <1>3, <1>4 DEF Receive, RanAt, DeletingAt
<1> QED
    BY <1>6, <1>7, QuietTurn DEF Call, Receive

LEMMA EndStands ==
    ASSUME AllInv, NEW q \in Requests, End(q)
    PROVE  Standing(q)' /\ pc'[q] = "end" /\ pc'[q] \notin RanAt \cup DeletingAt
<1>1. pc'[q] = "end"
    BY DEF End, Goto, AllInv, ValidatedInv, Tables
<1> QED
    BY <1>1 DEF Standing, Placed, AskedAt, Moving, RanAt, DeletingAt

LEMMA RequireTurn ==
    ASSUME AllInv, NEW q \in Requests, Turn(q), Require(q)
    PROVE  Turn(q)'
<1>1. Call(q) /\ UNCHANGED documents /\ UNCHANGED operations /\ UNCHANGED task /\ pc[q] = "require"
    BY DEF Require, Call
<1>2. DOMAIN pc = Requests /\ DOMAIN work = Requests /\ DOMAIN work[q] = Fields
    BY DEF AllInv, ValidatedInv, Tables, Locals
<1>3. pc[q] \notin RanAt \cup DeletingAt
    BY <1>1 DEF RanAt, DeletingAt
<1>4. CASE End(q)
    BY <1>1, <1>3, <1>4, EndStands, QuietTurn
<1>5. CASE ~End(q)
  <2>1. /\ work[q].conversation \in DOMAIN conversations
        /\ pc'[q] \in {"append", "scenario", "resolve"}
        /\ pc'[q] = "scenario" => work'[q].route = None
        /\ work'[q].conversation = work[q].conversation
    BY <1>2, <1>5 DEF Require, Goto, Keep, Fields
  <2>2. UNCHANGED conversations
    BY <1>1 DEF documents
  <2>3. Standing(q)'
    BY <2>1, <2>2 DEF Standing, Placed, AskedAt, Moving
  <2>4. pc'[q] \notin RanAt \cup DeletingAt
    BY <2>1 DEF RanAt, DeletingAt
  <2> QED
    BY <1>1, <1>3, <2>3, <2>4, QuietTurn
<1> QED
    BY <1>4, <1>5

LEMMA ResolveRouteTurn ==
    ASSUME AllInv, NEW q \in Requests, Turn(q), ResolveRoute(q)
    PROVE  Turn(q)'
<1> DEFINE r == routes[work[q].route]
           w == [work[q] EXCEPT !.scenario = r.scenario, !.plan = r.plan]
<1>1. /\ Call(q) /\ UNCHANGED documents /\ UNCHANGED operations /\ UNCHANGED task /\ pc[q] = "resolve"
      /\ work'[q] = w /\ pc'[q] = IF work[q].conversation = None THEN "create" ELSE "scenario"
    BY DEF ResolveRoute, Call, Goto, Keep, AllInv, ValidatedInv, Tables
<1>2. w.conversation = work[q].conversation /\ w.scenario = r.scenario /\ w.route = work[q].route
    BY DEF AllInv, ValidatedInv, Locals, Fields
<1>3. work[q].conversation # None => work[q].conversation \in DOMAIN conversations
    BY <1>1 DEF Turn, Standing
<1>4. UNCHANGED <<conversations, routes>>
    BY <1>1 DEF documents, operations
<1> HIDE DEF w
<1>5. Standing(q)'
    BY <1>1, <1>2, <1>3, <1>4 DEF Standing, Placed, AskedAt, Moving
<1>6. pc[q] \notin RanAt \cup DeletingAt /\ pc'[q] \notin RanAt \cup DeletingAt
    BY <1>1 DEF RanAt, DeletingAt
<1> QED
    BY <1>1, <1>5, <1>6, QuietTurn

LEMMA ScenarioTurn ==
    ASSUME AllInv, NEW q \in Requests, Turn(q), ResolveScenario(q)
    PROVE  Turn(q)'
<1>1. Call(q) /\ UNCHANGED documents /\ UNCHANGED operations /\ pc[q] = "scenario"
    BY DEF ResolveScenario, Call
<1>2. pc[q] \notin RanAt \cup DeletingAt
    BY <1>1 DEF RanAt, DeletingAt
<1>3. CASE End(q)
    BY <1>1, <1>2, <1>3, EndStands, QuietTurn
<1>4. CASE ~End(q)
  <2>1. UNCHANGED work /\ pc'[q] = "user"
    BY <1>4 DEF ResolveScenario, Goto, AllInv, ValidatedInv, Tables
  <2>2. UNCHANGED <<conversations, routes>> /\ Standing(q)
    BY <1>1 DEF documents, operations, Turn
  <2>3. Standing(q)'
    BY <1>1, <2>1, <2>2 DEF Standing, Placed, AskedAt, Moving
  <2>4. pc'[q] \notin RanAt \cup DeletingAt
    BY <2>1 DEF RanAt, DeletingAt
  <2> QED
    BY <1>1, <1>2, <2>3, <2>4, QuietTurn
<1> QED
    BY <1>3, <1>4

LEMMA ReadContextTurn ==
    ASSUME AllInv, NEW q \in Requests, Turn(q), ReadContext(q)
    PROVE  Turn(q)'
<1> DEFINE window == Existing(windows, work[q].conversation)
<1>1. PICK answer \in AnswersTo(q, window) :
        /\ Keep(q, [work[q] EXCEPT !.before = window, !.outcome = answer])
        /\ Goto(q, IF ~Moves(q, answer) THEN "run"
                     ELSE IF answer.source = "workflow" THEN "store" ELSE "update")
    BY DEF ReadContext
<1> DEFINE l == IF ~Moves(q, answer) THEN "run" ELSE IF answer.source = "workflow" THEN "store" ELSE "update"
           w == [work[q] EXCEPT !.before = window, !.outcome = answer]
<1>2. Call(q) /\ UNCHANGED documents /\ UNCHANGED operations /\ UNCHANGED task /\ pc[q] = "context"
    BY DEF ReadContext, Call
<1>4. w.outcome = answer /\ w.conversation = work[q].conversation /\ w.route = work[q].route
    BY DEF AllInv, ValidatedInv, Locals, Fields
<1>5. l \in {"run", "store", "update"}
    OBVIOUS
<1>6. pc'[q] = l /\ work'[q] = w
    BY <1>1 DEF Goto, Keep, AllInv, ValidatedInv, Tables
<1> HIDE DEF w, l, window
<1>7. UNCHANGED <<conversations, routes>>
    BY <1>2 DEF documents, operations
<1>8. work[q].conversation \in DOMAIN conversations
    BY <1>2 DEF Turn, Standing, Placed, AskedAt
<1>10. Standing(q)'
    BY <1>4, <1>5, <1>6, <1>7, <1>8 DEF Standing
<1>11. pc[q] \notin RanAt \cup DeletingAt /\ pc'[q] \notin RanAt \cup DeletingAt
    BY <1>2, <1>5, <1>6 DEF RanAt, DeletingAt
<1> QED
    BY <1>2, <1>10, <1>11, QuietTurn

LEMMA StoreTurn ==
    ASSUME AllInv, NEW q \in Requests, Turn(q), StoreScenario(q)
    PROVE  Turn(q)'
<1>1. /\ Call(q) /\ UNCHANGED documents /\ UNCHANGED <<conversations, routes, work>>
      /\ pc[q] = "store" /\ pc'[q] = "update"
    BY DEF StoreScenario, Call, documents, Goto, AllInv, ValidatedInv, Tables
<1>2. Standing(q)
    BY DEF Turn
<1>3. Standing(q)'
    BY <1>1, <1>2 DEF Standing, Placed, AskedAt, Moving
<1>4. pc[q] \notin RanAt \cup DeletingAt /\ pc'[q] \notin RanAt \cup DeletingAt
    BY <1>1 DEF RanAt, DeletingAt
<1> QED
    BY <1>1, <1>3, <1>4, QuietTurn

LEMMA UpdateTurn ==
    ASSUME AllInv, NEW q \in Requests, Turn(q), UpdateRoute(q)
    PROVE  Turn(q)'
<1>1. /\ Call(q) /\ UNCHANGED documents /\ UNCHANGED <<conversations, work>>
      /\ pc[q] = "update" /\ pc'[q] = "run"
    BY DEF UpdateRoute, Call, documents, Goto, AllInv, ValidatedInv, Tables
<1>2. Standing(q)
    BY DEF Turn
<1>3. Standing(q)'
    BY <1>1, <1>2 DEF Standing, Placed, AskedAt, Moving
<1>4. pc[q] \notin RanAt \cup DeletingAt /\ pc'[q] \notin RanAt \cup DeletingAt
    BY <1>1 DEF RanAt, DeletingAt
<1> QED
    BY <1>1, <1>3, <1>4, QuietTurn

LEMMA PublishTurn ==
    ASSUME AllInv, NEW q \in Requests, Turn(q), Publish(q)
    PROVE  Turn(q)'
<1>1. Call(q) /\ UNCHANGED documents /\ End(q) /\ pc[q] = "publish"
    BY DEF Publish, Call
<1>2. pc[q] \notin RanAt \cup DeletingAt
    BY <1>1 DEF RanAt, DeletingAt
<1> QED
    BY <1>1, <1>2, EndStands, QuietTurn

-----------------------------------------------------------------------------
\* A conversation with which nothing happens.
Untouched(c) ==
    /\ Mine(c)' = Mine(c) /\ MessagesOf(c)' = MessagesOf(c)
    /\ c \in DOMAIN windows' <=> c \in DOMAIN windows
    /\ c \in DOMAIN windows => windows'[c] = windows[c]

LEMMA UntouchedAgrees ==
    ASSUME NEW c, Untouched(c), Agrees(c)
    PROVE  Agrees(c)'
    BY DEF Untouched, Agrees, WindowAgrees, RecentAgrees

LEMMA CreateTurn ==
    ASSUME AllInv, NEW q \in Requests, Turn(q), CreateConversation(q)
    PROVE  Turn(q)'
<1>1. /\ Call(q) /\ UNCHANGED <<messages, runs, windows>> /\ UNCHANGED operations /\ UNCHANGED task
      /\ pc[q] = "create" /\ DOMAIN conversations' = DOMAIN conversations \cup {q}
    BY DEF CreateConversation, Call
<1>2. q \notin Known
    BY <1>1, MenuAssumption DEF Known, Minted
<1>3. q \notin DOMAIN conversations /\ q \notin DOMAIN windows /\ \A i \in DOMAIN runs : runs[i].conversation # q
    BY <1>2 DEF AllInv, AuditInv, Named
<1>4. pc'[q] \in {"end", "scenario"}
    BY <1>1 DEF CreateConversation, End, Goto, AllInv, ValidatedInv, Tables
<1>5. LeftBy(q)'
    BY <1>1, <1>4 DEF Turn, LeftBy, There, DeletingAt
<1>6. Standing(q)'
  <2>1. CASE End(q)
    BY <2>1, EndStands
  <2>2. CASE ~End(q)
    <3>1. /\ task[q].op # "create" /\ pc'[q] = "scenario" /\ work'[q].conversation = q
          /\ work'[q].route = work[q].route /\ work'[q].scenario = work[q].scenario
      BY <2>2 DEF CreateConversation, Goto, Keep, AllInv, ValidatedInv, Tables, Locals, Fields
    <3> QED
      BY <1>1, <3>1 DEF Standing
  <2> QED
    BY <2>1, <2>2
<1>7. ASSUME NEW c \in DOMAIN conversations'
      PROVE  Agrees(c)'
  <2>1. CASE c = q
    <3>1. OfConversation(runs, q) = {}
      BY <1>3 DEF OfConversation
    <3>2. Mine(q) = <<>>
      BY <3>1, NothingPicked DEF Mine, AllInv, AuditInv, Lists
    <3>3. Mine(q)' = <<>>
      BY <1>1, <3>2 DEF Mine
    <3> QED
      BY <1>1, <1>3, <2>1, <3>3 DEF Agrees, WindowAgrees, RecentAgrees
  <2>2. CASE c # q
    <3>1. Agrees(c)
      BY <1>1, <1>7, <2>2 DEF Turn, Follows, RanOn, RanAt
    <3>2. Untouched(c)
      BY <1>1 DEF Untouched, Mine, MessagesOf
    <3> QED
      BY <3>1, <3>2, UntouchedAgrees
  <2> QED
    BY <2>1, <2>2
<1>8. \A c \in DOMAIN conversations' : Follows(q, c)'
    BY <1>4, <1>7 DEF Follows, RanOn, RanAt
<1> QED
    BY <1>1, <1>5, <1>6, <1>8, StillTurn DEF Turn

\* A message of the user more, or an appended one: the last answer is as it was.
LEMMA QuestionTurn ==
    ASSUME AllInv, NEW q \in Requests, Turn(q), SaveUserMessage(q) \/ AppendMessage(q)
    PROVE  Turn(q)'
<1>1. /\ Call(q) /\ UNCHANGED <<conversations, runs, windows>> /\ UNCHANGED operations
      /\ pc[q] \in {"user", "append"} /\ pc'[q] \in {"context", "end"}
    BY DEF SaveUserMessage, AppendMessage, Call, End, Goto, AllInv, ValidatedInv, Tables
<1>2. PICK role \in {"user", "appended"} : messages' = Append(messages, Message(q, role))
    BY DEF SaveUserMessage, AppendMessage
<1> DEFINE m == Message(q, role)
<1>3. m.conversation = work[q].conversation /\ m.role # "assistant"
    BY DEF Message
<1>4. work[q].conversation \in DOMAIN conversations
    BY <1>1 DEF Turn, Standing, Placed
<1>5. IsList(messages) /\ messages' = Append(messages, m)
    BY <1>2 DEF AllInv, AuditInv, Lists
<1> HIDE DEF m
<1>6. LeftBy(q)'
  <2>1. /\ DOMAIN messages' = 1..(Len(messages) + 1) /\ DOMAIN messages = 1..Len(messages) /\ Len(messages) \in Nat
        /\ messages'[Len(messages) + 1] = m
        /\ \A i \in DOMAIN messages : messages'[i] = messages[i]
    BY <1>5, ListAppend, ListFacts
  <2>2. \A i \in DOMAIN messages' : i \in DOMAIN messages \/ i = Len(messages) + 1
    BY <2>1
  <2> QED
    BY <1>1, <1>3, <1>4, <2>1, <2>2 DEF Turn, LeftBy, There, DeletingAt
<1>7. Standing(q)'
  <2>1. CASE SaveUserMessage(q)
    <3>1. UNCHANGED work /\ pc[q] = "user" /\ pc'[q] = "context"
      BY <2>1 DEF SaveUserMessage, Goto, AllInv, ValidatedInv, Tables
    <3>2. UNCHANGED routes /\ Standing(q)
      BY <1>1 DEF operations, Turn
    <3> QED
      BY <1>1, <1>4, <3>1, <3>2 DEF Standing, Moving
  <2>2. CASE AppendMessage(q)
    BY <2>2, EndStands DEF AppendMessage
  <2> QED
    BY <2>1, <2>2
<1>8. ASSUME NEW c \in DOMAIN conversations'
      PROVE  Agrees(c)'
  <2>1. Agrees(c)
    BY <1>1, <1>8 DEF Turn, Follows, RanOn, RanAt
  <2>2. Mine(c)' = Mine(c) /\ UNCHANGED windows
    BY <1>1 DEF Mine
  <2>3. MessagesOf(c)' = IF m.conversation = c THEN Append(MessagesOf(c), m) ELSE MessagesOf(c)
    BY <1>5, MoreOf DEF MessagesOf
  <2>4. IsList(MessagesOf(c))
    BY <1>5, ListPick DEF MessagesOf, OfConversation
  <2>5. WindowAgrees(c, Mine(c))'
    BY <2>1, <2>2 DEF Agrees, WindowAgrees
  <2>6. RecentAgrees(c)'
    BY <1>3, <2>1, <2>2, <2>3, <2>4, UpToMore DEF Agrees, RecentAgrees
  <2> QED
    BY <2>5, <2>6 DEF Agrees
<1>9. \A c \in DOMAIN conversations' : Follows(q, c)'
    BY <1>1, <1>8 DEF Follows, RanOn, RanAt
<1> QED
    BY <1>1, <1>6, <1>7, <1>9, StillTurn DEF Turn

LEMMA SaveRunTurn ==
    ASSUME AllInv, NEW q \in Requests, Turn(q), SaveRun(q)
    PROVE  Turn(q)'
<1> DEFINE c == work[q].conversation
           r == RunOf(q, c)
<1>1. /\ Call(q) /\ UNCHANGED <<conversations, messages, windows, work>> /\ UNCHANGED operations
      /\ pc[q] = "run" /\ pc'[q] = "assistant" /\ runs' = Append(runs, r)
    BY DEF SaveRun, Call, RunOf, Goto, AllInv, ValidatedInv, Tables
<1>2. r.conversation = c
    BY DEF RunOf
<1>3. c \in DOMAIN conversations
    BY <1>1 DEF Turn, Standing, Placed, AskedAt
<1>4. IsList(runs)
    BY DEF AllInv, AuditInv, Lists
<1>5. \A d : Mine(d)' = IF r.conversation = d THEN Append(Mine(d), r) ELSE Mine(d)
    BY <1>1, <1>4, MoreOf DEF Mine
<1>6. \A d : d = c => RunOf(q, d)' = r
    BY <1>1 DEF RunOf
<1> HIDE DEF r
<1>7. LeftBy(q)'
  <2>1. /\ DOMAIN runs' = 1..(Len(runs) + 1) /\ DOMAIN runs = 1..Len(runs) /\ Len(runs) \in Nat
        /\ runs'[Len(runs) + 1] = r
        /\ \A i \in DOMAIN runs : runs'[i] = runs[i]
    BY <1>1, <1>4, ListAppend, ListFacts
  <2>2. \A i \in DOMAIN runs' : i \in DOMAIN runs \/ i = Len(runs) + 1
    BY <2>1
  <2> QED
    BY <1>1, <1>2, <1>3, <2>1, <2>2 DEF Turn, LeftBy, There, DeletingAt
<1>8. Standing(q)'
    BY <1>1, <1>3 DEF Standing, Moving
<1>9. ASSUME NEW d \in DOMAIN conversations'
      PROVE  Follows(q, d)'
  <2>1. Agrees(d)
    BY <1>1, <1>9 DEF Turn, Follows, RanOn, RanAt
  <2>2. CASE d = c
    <3>1. IsList(Mine(c))
      BY <1>4, ListPick DEF Mine, OfConversation
    <3>2. WindowAgrees(d, Mine(d))
      BY <2>1 DEF Agrees
    <3>3. \E s : IsList(s) /\ Mine(d)' = Append(s, RunOf(q, d)') /\ WindowAgrees(d, s)'
      <4>1. WindowAgrees(d, Mine(d)) /\ IsList(Mine(d)) /\ Mine(d)' = Append(Mine(d), RunOf(q, d)')
        BY <1>2, <1>5, <1>6, <2>2, <3>1, <3>2
      <4> QED
        BY <1>1, <4>1 DEF WindowAgrees
    <3>4. pc'[q] = "assistant" /\ work'[q].conversation = d
      BY <1>1, <2>2
    <3>5. BuildsFrom(q, d)'
      BY <3>3, <3>4 DEF BuildsFrom, ListedAt
    <3> QED
      BY <3>4, <3>5 DEF Follows, RanOn, RanAt
  <2>3. CASE d # c
    <3>1. Untouched(d)
      BY <1>1, <1>2, <1>5, <2>3 DEF Untouched, MessagesOf
    <3>2. Agrees(d)'
      BY <2>1, <3>1, UntouchedAgrees
    <3> QED
      BY <1>1, <2>3, <3>2 DEF Follows, RanOn
  <2> QED
    BY <2>2, <2>3
<1> QED
    BY <1>1, <1>7, <1>8, <1>9, StillTurn DEF Turn

LEMMA AnswerTurn ==
    ASSUME AllInv, NEW q \in Requests, Turn(q), SaveAssistantMessage(q)
    PROVE  Turn(q)'
<1> DEFINE c == work[q].conversation
           m == Message(q, "assistant")
<1>1. /\ Call(q) /\ UNCHANGED <<conversations, runs, windows, work>> /\ UNCHANGED operations
      /\ pc[q] = "assistant" /\ pc'[q] = "list" /\ messages' = Append(messages, m)
    BY DEF SaveAssistantMessage, Call, Goto, AllInv, ValidatedInv, Tables
<1>2. m.conversation = c /\ m.role = "assistant"
    BY DEF Message
<1>3. c \in DOMAIN conversations
    BY <1>1 DEF Turn, Standing, Placed, AskedAt
<1>4. IsList(messages)
    BY DEF AllInv, AuditInv, Lists
<1> HIDE DEF m
<1>5. \A d : MessagesOf(d)' = IF m.conversation = d THEN Append(MessagesOf(d), m) ELSE MessagesOf(d)
    BY <1>1, <1>4, MoreOf DEF MessagesOf
<1>6. LeftBy(q)'
  <2>1. /\ DOMAIN messages' = 1..(Len(messages) + 1) /\ DOMAIN messages = 1..Len(messages) /\ Len(messages) \in Nat
        /\ messages'[Len(messages) + 1] = m
        /\ \A i \in DOMAIN messages : messages'[i] = messages[i]
    BY <1>1, <1>4, ListAppend, ListFacts
  <2>2. \A i \in DOMAIN messages' : i \in DOMAIN messages \/ i = Len(messages) + 1
    BY <2>1
  <2> QED
    BY <1>1, <1>2, <1>3, <2>1, <2>2 DEF Turn, LeftBy, There, DeletingAt
<1>7. Standing(q)'
    BY <1>1, <1>3 DEF Standing, Moving
<1>8. ASSUME NEW d \in DOMAIN conversations'
      PROVE  Follows(q, d)'
  <2>1. Follows(q, d)
    BY <1>1, <1>8 DEF Turn
  <2>2. CASE d = c
    <3>1. BuildsFrom(q, d)
      BY <1>1, <2>1, <2>2 DEF Follows, RanOn, RanAt
    <3>2. PICK s : IsList(s) /\ Mine(d) = Append(s, RunOf(q, d)) /\ WindowAgrees(d, s)
      BY <3>1 DEF BuildsFrom
    <3>3. Mine(d)' = Append(s, RunOf(q, d)') /\ WindowAgrees(d, s)'
      BY <1>1, <3>2 DEF Mine, RunOf, WindowAgrees
    <3>4. IsList(MessagesOf(d))
      BY <1>4, ListPick DEF MessagesOf, OfConversation
    <3>5. AnsweredLast(MessagesOf(d)')
      BY <1>2, <1>5, <2>2, <3>4, ListAppend, ListFacts DEF AnsweredLast
    <3>6. BuildsFrom(q, d)'
      BY <1>1, <3>2, <3>3, <3>5 DEF BuildsFrom, ListedAt, AnsweredLast
    <3> QED
      BY <1>1, <2>2, <3>6 DEF Follows, RanOn, RanAt
  <2>3. CASE d # c
    <3>1. Agrees(d)
      BY <2>1, <2>3 DEF Follows, RanOn
    <3>2. Untouched(d)
      BY <1>1, <1>2, <1>5, <2>3 DEF Untouched, Mine
    <3>3. Agrees(d)'
      BY <3>1, <3>2, UntouchedAgrees
    <3> QED
      BY <1>1, <2>3, <3>3 DEF Follows, RanOn
  <2> QED
    BY <2>2, <2>3
<1> QED
    BY <1>1, <1>6, <1>7, <1>8, StillTurn DEF Turn

\* What is read for the window is what there is.
LEMMA ReadingTurn ==
    ASSUME AllInv, NEW q \in Requests, Turn(q), ListMessages(q) \/ ReadPrevious(q)
    PROVE  Turn(q)'
<1> DEFINE c == work[q].conversation
<1>1. /\ Call(q) /\ UNCHANGED <<conversations, messages, runs, windows>> /\ UNCHANGED operations
      /\ \/ pc[q] = "list" /\ pc'[q] = "previous"
         \/ pc[q] = "previous" /\ pc'[q] = "window"
    BY DEF ListMessages, ReadPrevious, Call, documents, Goto, AllInv, ValidatedInv, Tables
<1>2. work'[q].conversation = c /\ work'[q].outcome = work[q].outcome
    BY DEF ListMessages, ReadPrevious, Keep, AllInv, ValidatedInv, Tables, Locals, Fields
<1>3. /\ ListMessages(q) => work'[q].recent = Ids(LastOf(MessagesOf(c), RecentLimit))
      /\ ReadPrevious(q) => work'[q].previous = Existing(windows, c) /\ work'[q].recent = work[q].recent
    BY DEF ListMessages, ReadPrevious, Keep, AllInv, ValidatedInv, Tables, Locals, Fields
<1>4. /\ pc'[q] = "previous" => ListMessages(q)
      /\ pc'[q] = "window" => ReadPrevious(q)
    BY <1>1 DEF ListMessages, ReadPrevious
<1>5. c \in DOMAIN conversations
    BY <1>1 DEF Turn, Standing, Placed, AskedAt
<1>6. LeftBy(q)'
    BY <1>1 DEF Turn, LeftBy, There, DeletingAt
<1>7. Standing(q)'
    BY <1>1, <1>2, <1>5 DEF Standing, Moving
<1>8. ASSUME NEW d \in DOMAIN conversations'
      PROVE  Follows(q, d)'
  <2>1. Follows(q, d)
    BY <1>1, <1>8 DEF Turn
  <2>2. Untouched(d)
    BY <1>1 DEF Untouched, Mine, MessagesOf
  <2>3. CASE d = c
    <3>1. BuildsFrom(q, d)
      BY <1>1, <2>1, <2>3 DEF Follows, RanOn, RanAt
    <3>2. PICK s : IsList(s) /\ Mine(d) = Append(s, RunOf(q, d)) /\ WindowAgrees(d, s)
      BY <3>1 DEF BuildsFrom
    <3>3. Mine(d)' = Append(s, RunOf(q, d)') /\ WindowAgrees(d, s)'
      BY <1>1, <1>2, <3>2 DEF Mine, RunOf, WindowAgrees
    <3>4. AnsweredLast(MessagesOf(d)')
      BY <1>1, <2>2, <3>1 DEF BuildsFrom, Untouched
    <3>5. work'[q].recent = Ids(LastOf(MessagesOf(d)', RecentLimit))
      BY <1>1, <1>3, <1>4, <2>2, <2>3, <3>1 DEF BuildsFrom, ListedAt, Untouched
    <3>6. pc'[q] = "window" => work'[q].previous = Existing(windows, d)'
      BY <1>1, <1>3, <1>4, <2>3 DEF Existing
    <3>7. BuildsFrom(q, d)'
      BY <3>2, <3>3, <3>4, <3>5, <3>6 DEF BuildsFrom, AnsweredLast
    <3> QED
      BY <1>1, <1>2, <2>3, <3>7 DEF Follows, RanOn, RanAt
  <2>4. CASE d # c
    <3>1. Agrees(d)'
      BY <2>1, <2>2, <2>4, UntouchedAgrees DEF Follows, RanOn
    <3> QED
      BY <1>2, <2>4, <3>1 DEF Follows, RanOn
  <2> QED
    BY <2>3, <2>4
<1> QED
    BY <1>1, <1>6, <1>7, <1>8, StillTurn DEF Turn

\* The window that is built from the one before and the run is that of all runs.
Amounts(previous, s) ==
    s # <<>> => /\ previous.event = LastKnown(s, "event") /\ previous.plan = LastKnown(s, "plan")
                /\ previous.event # None => Among(previous.event, previous.constraints)
                /\ IsList(previous.constraints)
AmountsNow(w, s, r, previous, recent, q) ==
    /\ w.event = LastKnown(Append(s, r), "event")
    /\ w.plan = LastKnown(Append(s, r), "plan")
    /\ w.recent = recent
    /\ w.id = IF s = <<>> THEN q ELSE previous.id
    /\ w.event # None => Among(w.event, w.constraints)

LEMMA RebuiltAgrees ==
    ASSUME NEW s, IsList(s), NEW r, NEW previous, NEW recent, NEW q,
           previous = None <=> s = <<>>, Amounts(previous, s)
    PROVE  AmountsNow(Rebuilt(previous, r.result, recent, q), s, r, previous, recent, q)
<1> DEFINE oldEvent == IF previous = None THEN None ELSE previous.event
           oldPlan == IF previous = None THEN None ELSE previous.plan
           id == IF previous = None THEN q ELSE previous.id
           constraints == IF previous = None THEN <<>> ELSE previous.constraints
           event == Or(r.result.event, oldEvent)
           plan == Or(r.result.plan, oldPlan)
           kept == IF event = None \/ Among(event, constraints) THEN constraints
                     ELSE LastOf(Append(constraints, event), ConstraintLimit)
           w == Rebuilt(previous, r.result, recent, q)
<1>1. w = [id |-> id, recent |-> recent, event |-> event, plan |-> plan, constraints |-> kept]
    BY DEF Rebuilt
<1>2. oldEvent = LastKnown(s, "event") /\ oldPlan = LastKnown(s, "plan")
    BY LastKnownNone DEF Amounts
<1>3. IsList(constraints)
    BY EmptyIsList DEF Amounts
<1>4. id = IF s = <<>> THEN q ELSE previous.id
    OBVIOUS
<1> HIDE DEF oldEvent, oldPlan, constraints, id
<1>5. /\ event = LastKnown(Append(s, r), "event")
      /\ plan = LastKnown(Append(s, r), "plan")
    BY <1>2, LastKnownMore DEF Or
<1>6. event # None => Among(event, kept)
  <2>1. SUFFICES ASSUME event # None, ~Among(event, constraints)
                 PROVE  Among(event, LastOf(Append(constraints, event), ConstraintLimit))
    OBVIOUS
  <2> DEFINE more == Append(constraints, event)
  <2>2. IsList(more) /\ Len(more) = Len(constraints) + 1 /\ more[Len(constraints) + 1] = event
        /\ Len(constraints) \in Nat
    BY <1>3, ListAppend, ListFacts
  <2>3. ConstraintLimit \in Nat /\ ConstraintLimit > 0
    BY LimitsAssumption
  <2> HIDE DEF more, event
  <2> DEFINE last == LastOf(more, ConstraintLimit)
  <2>4. IsList(last) /\ last[Len(last)] = more[Len(more)] /\ Len(last) > 0
    BY <2>2, <2>3, LastOfFacts
  <2>5. DOMAIN last = 1..Len(last) /\ Len(last) \in Nat
    BY <2>4, ListFacts
  <2> HIDE DEF last
  <2>6. Among(event, last)
    BY <2>2, <2>4, <2>5 DEF Among
  <2> QED
    BY <2>6 DEF last, more
<1> HIDE DEF kept, event, plan
<1> QED
    BY <1>1, <1>4, <1>5, <1>6 DEF AmountsNow

LEMMA SaveWindowTurn ==
    ASSUME AllInv, NEW q \in Requests, Turn(q), SaveWindow(q)
    PROVE  Turn(q)'
<1> DEFINE c == work[q].conversation
           w == Rebuilt(work[q].previous, work[q].outcome, work[q].recent, q)
<1>1. /\ Call(q) /\ UNCHANGED <<conversations, messages, runs>> /\ UNCHANGED operations /\ End(q)
      /\ pc[q] = "window" /\ pc'[q] = "end"
      /\ IF c \in DOMAIN windows /\ windows[c].id # w.id THEN UNCHANGED windows
           ELSE windows' = [d \in DOMAIN windows \cup {c} |-> IF d = c THEN w ELSE windows[d]]
    BY EndStands DEF SaveWindow, Call
<1>2. c \in DOMAIN conversations
    BY <1>1 DEF Turn, Standing, Placed, AskedAt
<1>3. BuildsFrom(q, c)
    BY <1>1, <1>2 DEF Turn, Follows, RanOn, RanAt
<1>4. PICK s : IsList(s) /\ Mine(c) = Append(s, RunOf(q, c)) /\ WindowAgrees(c, s)
    BY <1>3 DEF BuildsFrom
<1> DEFINE r == RunOf(q, c)
<1>5. /\ work[q].previous = Existing(windows, c)
      /\ work[q].recent = Ids(LastOf(MessagesOf(c), RecentLimit)) /\ AnsweredLast(MessagesOf(c))
    BY <1>1, <1>3 DEF BuildsFrom, ListedAt
<1>6. c \in DOMAIN windows => windows[c] \in ContextWindows
    BY DEF AllInv, TypeInv, DocumentsOK, WindowOK
<1>7. /\ work[q].previous = None <=> s = <<>>
      /\ s # <<>> => c \in DOMAIN windows /\ work[q].previous = windows[c]
    BY <1>4, <1>5, <1>6, NoWindowAssumption DEF Existing, WindowAgrees
<1>8. s # <<>> => /\ work[q].previous.event = LastKnown(s, "event")
                  /\ work[q].previous.plan = LastKnown(s, "plan")
                  /\ work[q].previous.event # None => Among(work[q].previous.event, work[q].previous.constraints)
                  /\ IsList(work[q].previous.constraints)
  <2>1. c \in DOMAIN windows => IsList(windows[c].constraints)
    BY <1>6 DEF ContextWindows, IsList
  <2> QED
    BY <1>4, <1>7, <2>1 DEF WindowAgrees
<1>9. r.result = work[q].outcome
    BY DEF RunOf
<1> HIDE DEF r
<1>10. /\ w.event = LastKnown(Append(s, r), "event")
       /\ w.plan = LastKnown(Append(s, r), "plan")
       /\ w.recent = work[q].recent
       /\ w.id = IF s = <<>> THEN q ELSE work[q].previous.id
       /\ w.event # None => Among(w.event, w.constraints)
  <2>1. w = Rebuilt(work[q].previous, r.result, work[q].recent, q)
    BY <1>9
  <2> HIDE DEF w
  <2>2. IsList(s) /\ (work[q].previous = None <=> s = <<>>) /\ Amounts(work[q].previous, s)
    BY <1>4, <1>7, <1>8 DEF Amounts
  <2>3. AmountsNow(w, s, r, work[q].previous, work[q].recent, q)
    BY <2>1, <2>2, RebuiltAgrees, Zenon
  <2> QED
    BY <2>3 DEF AmountsNow
<1> HIDE DEF w
<1>11. windows' = [d \in DOMAIN windows \cup {c} |-> IF d = c THEN w ELSE windows[d]]
    BY <1>1, <1>4, <1>7, <1>10 DEF WindowAgrees
<1>12. LeftBy(q)'
    BY <1>1, <1>2, <1>11 DEF Turn, LeftBy, There, DeletingAt
<1>13. ASSUME NEW d \in DOMAIN conversations'
       PROVE  Agrees(d)'
  <2>1. CASE d = c
    <3>1. Mine(d)' = Append(s, r)
      BY <1>1, <1>4, <2>1 DEF Mine, r
    <3>2. Append(s, r) # <<>>
      <4> DEFINE longer == Append(s, r)
      <4>1. Len(longer) = Len(s) + 1 /\ Len(s) \in Nat
        BY <1>4, ListAppend, ListFacts
      <4> HIDE DEF longer
      <4>2. longer # <<>>
        BY <4>1, EmptyIsList
      <4> QED
        BY <4>2 DEF longer
    <3>3. d \in DOMAIN windows' /\ windows'[d] = w
      BY <1>11, <2>1
    <3>4. WindowAgrees(d, Mine(d))'
      BY <1>10, <3>1, <3>2, <3>3 DEF WindowAgrees
    <3>5. MessagesOf(d)' = MessagesOf(c)
      BY <1>1, <2>1 DEF MessagesOf
    <3>6. IsList(MessagesOf(c))
      BY ListPick DEF MessagesOf, OfConversation, AllInv, AuditInv, Lists
    <3>7. UpToAnswer(MessagesOf(c)) = MessagesOf(c) /\ HasAnswer(MessagesOf(c))
      BY <1>5, <3>6, UpToAll
    <3>8. RecentAgrees(d)'
      BY <1>5, <1>10, <3>3, <3>5, <3>7 DEF RecentAgrees
    <3> QED
      BY <3>4, <3>8 DEF Agrees
  <2>2. CASE d # c
    <3>1. Agrees(d)
      BY <1>1, <1>13, <2>2 DEF Turn, Follows, RanOn
    <3>2. Untouched(d)
      BY <1>1, <1>11, <2>2 DEF Untouched, Mine, MessagesOf
    <3> QED
      BY <3>1, <3>2, UntouchedAgrees
  <2> QED
    BY <2>1, <2>2
<1>14. \A d \in DOMAIN conversations' : Follows(q, d)'
    BY <1>1, <1>13 DEF Follows, RanOn, RanAt
<1> QED
    BY <1>1, <1>12, <1>14, StillTurn, EndStands DEF Turn

-----------------------------------------------------------------------------
\* Deletion, call by call.
LEMMA DeletionStands ==
    ASSUME NEW q \in Requests, pc'[q] \in DeletingAt
    PROVE  Standing(q)'
    BY DEF DeletingAt, Standing, Placed, AskedAt, Moving

LEMMA DeleteConversationTurn ==
    ASSUME AllInv, NEW q \in Requests, Turn(q), DeleteConversation(q)
    PROVE  Turn(q)'
<1> DEFINE c == work[q].conversation
<1>1. /\ Call(q) /\ UNCHANGED <<messages, runs, windows, work>>
      /\ pc[q] = "delete" /\ pc'[q] = "delete messages"
      /\ DOMAIN conversations' = DOMAIN conversations \ {c}
    BY DEF DeleteConversation, Call, Without, Goto, AllInv, ValidatedInv, Tables
<1>2. LeftBy(q)'
    BY <1>1 DEF Turn, LeftBy, There, DeletingAt
<1>3. ASSUME NEW d \in DOMAIN conversations'
      PROVE  Follows(q, d)'
  <2>1. Agrees(d)
    BY <1>1, <1>3 DEF Turn, Follows, RanOn, RanAt
  <2>2. Untouched(d)
    BY <1>1 DEF Untouched, Mine, MessagesOf
  <2>3. Agrees(d)'
    BY <2>1, <2>2, UntouchedAgrees
  <2> QED
    BY <1>1, <2>3 DEF Follows, RanOn, RanAt
<1>4. Standing(q)'
    BY <1>1, DeletionStands DEF DeletingAt
<1> QED
    BY <1>1, <1>2, <1>3, <1>4, StillTurn DEF Turn

LEMMA DeleteMessagesTurn ==
    ASSUME AllInv, NEW q \in Requests, Turn(q), DeleteMessages(q)
    PROVE  Turn(q)'
<1> DEFINE c == work[q].conversation
<1>1. /\ Call(q) /\ UNCHANGED <<conversations, runs, windows, work>>
      /\ pc[q] = "delete messages" /\ pc'[q] = "delete windows"
      /\ messages' = Pick(messages, DOMAIN messages \ OfConversation(messages, c))
    BY DEF DeleteMessages, Call, Goto, AllInv, ValidatedInv, Tables
<1>2. IsList(messages)
    BY DEF AllInv, AuditInv, Lists
<1>3. c \notin DOMAIN conversations
    BY <1>1 DEF AllInv, AuditInv, Progress, DeletingAt
<1>4. \A i \in DOMAIN messages' : \E k \in DOMAIN messages : messages'[i] = messages[k] /\ messages[k].conversation # c
  <2>1. TakenAway(messages, c, messages')
    BY <1>1, <1>2, OthersPicked
  <2> QED
    BY <2>1 DEF TakenAway
<1> HIDE DEF c
<1>5. LeftBy(q)'
  <2>1. \A k \in DOMAIN messages : messages[k].conversation # c => messages[k].conversation \in DOMAIN conversations
    BY <1>1 DEF Turn, LeftBy, There, c
  <2> QED
    BY <1>1, <1>4, <2>1 DEF Turn, LeftBy, There, DeletingAt
<1>6. ASSUME NEW d \in DOMAIN conversations'
      PROVE  Follows(q, d)'
  <2>1. Agrees(d)
    BY <1>1, <1>6 DEF Turn, Follows, RanOn, RanAt
  <2>2. MessagesOf(d)' = MessagesOf(d)
    BY <1>1, <1>2, <1>3, <1>6, OthersStay DEF MessagesOf
  <2>3. Untouched(d)
    BY <1>1, <2>2 DEF Untouched, Mine
  <2>4. Agrees(d)'
    BY <2>1, <2>3, UntouchedAgrees
  <2> QED
    BY <1>1, <2>4 DEF Follows, RanOn, RanAt
<1>7. Standing(q)'
    BY <1>1, DeletionStands DEF DeletingAt
<1> QED
    BY <1>1, <1>5, <1>6, <1>7, StillTurn DEF Turn

LEMMA DeleteWindowsTurn ==
    ASSUME AllInv, NEW q \in Requests, Turn(q), DeleteWindows(q)
    PROVE  Turn(q)'
<1> DEFINE c == work[q].conversation
<1>1. /\ Call(q) /\ UNCHANGED <<conversations, messages, runs, work>>
      /\ pc[q] = "delete windows" /\ pc'[q] = "delete runs"
      /\ DOMAIN windows' = DOMAIN windows \ {c} /\ \A d \in DOMAIN windows' : windows'[d] = windows[d]
    BY DEF DeleteWindows, Call, Without, Goto, AllInv, ValidatedInv, Tables
<1>2. c \notin DOMAIN conversations
    BY <1>1 DEF AllInv, AuditInv, Progress, DeletingAt
<1>3. LeftBy(q)'
    BY <1>1 DEF Turn, LeftBy, There, DeletingAt
<1>4. ASSUME NEW d \in DOMAIN conversations'
      PROVE  Follows(q, d)'
  <2>1. Agrees(d)
    BY <1>1, <1>4 DEF Turn, Follows, RanOn, RanAt
  <2>2. Untouched(d)
    BY <1>1, <1>2, <1>4 DEF Untouched, Mine, MessagesOf
  <2>3. Agrees(d)'
    BY <2>1, <2>2, UntouchedAgrees
  <2> QED
    BY <1>1, <2>3 DEF Follows, RanOn, RanAt
<1>5. Standing(q)'
    BY <1>1, DeletionStands DEF DeletingAt
<1> QED
    BY <1>1, <1>3, <1>4, <1>5, StillTurn DEF Turn

LEMMA DeleteRunsTurn ==
    ASSUME AllInv, NEW q \in Requests, Turn(q), DeleteRuns(q)
    PROVE  Turn(q)'
<1> DEFINE c == work[q].conversation
<1>1. /\ Call(q) /\ UNCHANGED <<conversations, messages, windows>> /\ End(q)
      /\ pc[q] = "delete runs" /\ pc'[q] = "end"
      /\ runs' = Pick(runs, DOMAIN runs \ OfConversation(runs, c))
    BY EndStands DEF DeleteRuns, Call
<1>2. IsList(runs)
    BY DEF AllInv, AuditInv, Lists
<1>3. c \notin DOMAIN conversations
    BY <1>1 DEF AllInv, AuditInv, Progress, DeletingAt
<1>4. \A i \in DOMAIN runs' : \E k \in DOMAIN runs : runs'[i] = runs[k] /\ runs[k].conversation # c
  <2>1. TakenAway(runs, c, runs')
    BY <1>1, <1>2, OthersPicked
  <2> QED
    BY <2>1 DEF TakenAway
<1> HIDE DEF c
<1>5. LeftBy(q)'
  <2>1. \A k \in DOMAIN runs : runs[k].conversation # c => runs[k].conversation \in DOMAIN conversations
    BY <1>1 DEF Turn, LeftBy, There, c
  <2> QED
    BY <1>1, <1>4, <2>1 DEF Turn, LeftBy, There, DeletingAt
<1>6. ASSUME NEW d \in DOMAIN conversations'
      PROVE  Follows(q, d)'
  <2>1. Agrees(d)
    BY <1>1, <1>6 DEF Turn, Follows, RanOn, RanAt
  <2>2. Mine(d)' = Mine(d)
    BY <1>1, <1>2, <1>3, <1>6, OthersStay DEF Mine
  <2>3. Untouched(d)
    BY <1>1, <2>2 DEF Untouched, MessagesOf
  <2>4. Agrees(d)'
    BY <2>1, <2>3, UntouchedAgrees
  <2> QED
    BY <1>1, <2>4 DEF Follows, RanOn, RanAt
<1>7. Standing(q)'
    BY <1>1, EndStands
<1> QED
    BY <1>1, <1>5, <1>6, <1>7, StillTurn DEF Turn

-----------------------------------------------------------------------------
\* A request that calls while they come one at a time is the one at work.
LEMMA ItsTurn ==
    ASSUME TurnInv, NEW q \in Requests, Call(q), inTurn'
    PROVE  inTurn /\ Turn(q)
<1>1. CASE Receive(q)
  <2>1. met' = met \cup {{p, q} : p \in Busy} /\ died' = died
    BY <1>1 DEF Receive
  <2>2. inTurn /\ Busy = {}
    BY <2>1 DEF inTurn
  <2> QED
    BY <2>2 DEF TurnInv
<1>2. CASE ~Receive(q)
  <2>1. inTurn
    BY <1>2 DEF inTurn, encounters, Call, Require, ResolveRoute, CreateConversation, ResolveScenario,
           SaveUserMessage, ReadContext, StoreScenario, UpdateRoute, SaveRun,
           SaveAssistantMessage, ListMessages, ReadPrevious, SaveWindow, AppendMessage,
           DeleteConversation, DeleteMessages, DeleteWindows, DeleteRuns, Publish
  <2>2. pc[q] \notin {"new", "end"}
    BY <1>2 DEF Call, Require, ResolveRoute, CreateConversation, ResolveScenario,
           SaveUserMessage, ReadContext, StoreScenario, UpdateRoute, SaveRun,
           SaveAssistantMessage, ListMessages, ReadPrevious, SaveWindow, AppendMessage,
           DeleteConversation, DeleteMessages, DeleteWindows, DeleteRuns, Publish
  <2>3. q \in Busy
    BY <2>2 DEF Busy
  <2> QED
    BY <2>1, <2>3 DEF TurnInv
<1> QED
    BY <1>1, <1>2

LEMMA NextTurn == AllInv /\ TurnInv /\ AllInv' /\ [ConversationsNext]_conversationVars => TurnInv'
<1> SUFFICES ASSUME AllInv, TurnInv, AllInv', [ConversationsNext]_conversationVars PROVE TurnInv'
    OBVIOUS
<1>1. ASSUME NEW q \in Requests, Call(q)
      PROVE  TurnInv'
  <2>1. CASE inTurn'
    <3>1. Turn(q)
      BY <1>1, <2>1, ItsTurn
    <3>2. Turn(q)'
      BY <1>1, <3>1, ReceiveTurn, RequireTurn, ResolveRouteTurn, CreateTurn, ScenarioTurn, QuestionTurn,
         ReadContextTurn, StoreTurn, UpdateTurn, SaveRunTurn, AnswerTurn, ReadingTurn,
         SaveWindowTurn, DeleteConversationTurn, DeleteMessagesTurn, DeleteWindowsTurn, DeleteRunsTurn,
         PublishTurn DEF Call
    <3> QED
      BY <3>2, TurnIsNext DEF AllInv
  <2>2. CASE ~inTurn'
    BY <2>2 DEF TurnInv
  <2> QED
    BY <2>1, <2>2
<1>2. ASSUME NEW q \in Requests, Crash(q)
      PROVE  TurnInv'
  <2>1. ~inTurn'
    BY <1>2 DEF Crash, inTurn
  <2> QED
    BY <2>1 DEF TurnInv
<1>3. CASE UNCHANGED conversationVars
  <2>1. /\ UNCHANGED <<conversations, messages, runs, windows, stored, routes, task, pc, work>>
        /\ Busy' = Busy /\ inTurn' = inTurn
    BY <1>3 DEF conversationVars, documents, operations, serving, encounters, inTurn, Busy
  <2>2. ASSUME NEW q \in Requests, Turn(q) PROVE Turn(q)'
    <3>1. LeftBy(q)' /\ Standing(q)'
      BY <2>1, <2>2 DEF Turn, LeftBy, There, Standing
    <3>2. \A c : Untouched(c)
      BY <2>1 DEF Untouched, Mine, MessagesOf
    <3>3. ASSUME NEW c \in DOMAIN conversations PROVE Follows(q, c)'
      <4>1. Agrees(c) => Agrees(c)'
        BY <3>2, UntouchedAgrees
      <4>2. Follows(q, c)
        BY <2>2, <3>3 DEF Turn
      <4>3. BuildsFrom(q, c) => BuildsFrom(q, c)'
        BY <2>1 DEF BuildsFrom, WindowAgrees, Mine, RunOf, MessagesOf
      <4>4. RanOn(q, c)' <=> RanOn(q, c)
        BY <2>1 DEF RanOn
      <4> QED
        BY <4>1, <4>2, <4>3, <4>4 DEF Follows
    <3> QED
      BY <2>1, <2>2, <3>1, <3>3 DEF Turn
  <2> QED
    BY <2>1, <2>2 DEF TurnInv
<1> QED
    BY <1>1, <1>2, <1>3 DEF ConversationsNext, Rest

LEMMA ConversationsInvariant == ConversationsSpec => [](AllInv /\ TurnInv)
<1>1. ConversationsInit => AllInv /\ TurnInv
    BY InitValidated, InitAudit, InitTypes, InitTurn DEF AllInv
<1>2. AllInv /\ TurnInv /\ [ConversationsNext]_conversationVars => AllInv' /\ TurnInv'
    BY NextValidated, NextAudit, NextTypes, NextTurn DEF AllInv
<1> QED
    BY <1>1, <1>2, PTL DEF ConversationsSpec

\* Requests that came one at a time: the window of a conversation is what its runs
\* amount to, whichever of them failed, only answered or was about the route.
THEOREM WindowsAreCurrent == ConversationsSpec => []WindowIsCurrent
    BY ConversationsInvariant, TurnMeans, PTL DEF AllInv

-----------------------------------------------------------------------------
(* Requests in progress together: what a deletion leaves behind, and how   *)
(* events add up.                                                          *)

\* Past _require_conversation, with an answer on its way.
Writing == {"resolve", "scenario", "user", "append"} \cup AskedAt

\* Requests that are in progress have met, and who has met has begun.
MetInv ==
    /\ \A p, q \in Busy : p # q => {p, q} \in met
    /\ \A pair \in met : \A p \in pair : p \in Requests /\ pc[p] # "new"

\* A request does what it was asked for.
Fits(q) ==
    /\ pc[q] = "require" => task[q].op \in {"replan", "append"}
    /\ pc[q] = "create" => task[q].op \in {"replan", "create"}
    /\ pc[q] \in {"resolve", "scenario", "user"} \cup AskedAt => task[q].op = "replan"
    /\ pc[q] = "append" => task[q].op = "append"
    /\ pc[q] = "publish" => task[q].op = "publish"
    /\ pc[q] \in {"delete"} \cup DeletingAt =>
         task[q].op = "delete" /\ work[q].conversation = task[q].conversation
    /\ pc[q] # "new" /\ task[q].op = "delete" => task[q].conversation \in Minted

\* A deletion that has taken the conversation away.
GoneFrom(d) == task[d].op = "delete" /\ d \notin died /\ pc[d] \in DeletingAt \cup {"end"}

\* What is left of conversation c is of requests that met d.
MessagesMet(d, c) == \A i \in DOMAIN messages : messages[i].conversation = c => {messages[i].request, d} \in met
RunsMet(d, c) == \A i \in DOMAIN runs : runs[i].conversation = c => {runs[i].request, d} \in met
WindowMet(d, c) == c \in DOMAIN windows => \E p \in Requests : {p, d} \in met /\ task[p].op = "replan"
WritersMet(d, c) == \A p \in Requests : pc[p] \in Writing /\ work[p].conversation = c => {p, d} \in met

Leaves(d) ==
    GoneFrom(d) =>
        LET c == task[d].conversation IN
        /\ c \notin DOMAIN conversations /\ WritersMet(d, c)
        /\ pc[d] \in {"delete windows", "delete runs", "end"} => MessagesMet(d, c)
        /\ pc[d] \in {"delete runs", "end"} => WindowMet(d, c)
        /\ pc[d] = "end" => RunsMet(d, c)

\* Another request that may change routes was in progress together with q.
Crossed(q) == \E p \in Requests : p # q /\ {p, q} \in met /\ task[p].op \in {"replan", "publish"}

\* Else the route is as it was when q resolved it.
Based(q) ==
    /\ \/ pc[q] \in {"scenario", "user", "context"}
       \/ pc[q] = "create" /\ task[q].op # "create"
       => work[q].route = None \/ Crossed(q) \/ routes[work[q].route].scenario = work[q].scenario
    /\ pc[q] \in Moving /\ work[q].outcome.source = "workflow" =>
         \/ Crossed(q)
         \/ \E tag \in Tags : work[q].outcome.plan.scenario = Append(routes[work[q].route].scenario, tag)

TogetherInv == MetInv /\ \A q \in Requests : Fits(q) /\ Leaves(q) /\ Based(q)

LEMMA TogetherMeans == TypeInv /\ TogetherInv => LeftoversExplained
<1> SUFFICES ASSUME TypeInv, TogetherInv, NEW d \in Requests, Deleted(d)
             PROVE  LET c == task[d].conversation IN
                    /\ c \notin DOMAIN conversations
                    /\ \A i \in OfConversation(messages, c) : {messages[i].request, d} \in met
                    /\ \A i \in OfConversation(runs, c) : {runs[i].request, d} \in met
                    /\ c \in DOMAIN windows =>
                         \E p \in Requests : {p, d} \in met /\ task[p].op = "replan"
    BY DEF LeftoversExplained
<1>1. GoneFrom(d) /\ pc[d] = "end" /\ Leaves(d)
    BY DEF Deleted, Ended, GoneFrom, TogetherInv
<1> QED
    BY <1>1 DEF Leaves, MessagesMet, RunsMet, WindowMet, OfConversation

LEMMA InitTogether == ConversationsInit => TogetherInv
<1> SUFFICES ASSUME ConversationsInit PROVE TogetherInv
    OBVIOUS
<1>1. (\A q \in Requests : pc[q] = "new") /\ met = {}
    BY DEF ConversationsInit
<1>2. MetInv
    BY <1>1 DEF MetInv, Busy
<1>3. ASSUME NEW q \in Requests PROVE Fits(q) /\ Leaves(q) /\ Based(q)
    BY <1>1 DEF Fits, Leaves, GoneFrom, Based, AskedAt, DeletingAt, Moving
<1> QED
    BY <1>2, <1>3 DEF TogetherInv

\* A request that has begun keeps its task, and nobody forgets whom it met.
LEMMA HistoryKept ==
    ASSUME ValidatedInv, NEW q \in Requests, Call(q) \/ Crash(q)
    PROVE  /\ \/ Receive(q)
              \/ UNCHANGED <<task, met>> /\ q \in Busy
           /\ \A p \in Requests : p # q => pc'[p] = pc[p] /\ work'[p] = work[p] /\ task'[p] = task[p]
           /\ met \subseteq met' /\ died \subseteq died'
<1>1. CASE Receive(q)
  <2>1. met' = met \cup {{p, q} : p \in Busy} /\ died' = died /\ \E t : task' = [task EXCEPT ![q] = t]
    BY <1>1 DEF Receive
  <2> QED
    BY <1>1, <2>1, CallMoves DEF ValidatedInv, Tables
<1>2. CASE ~Receive(q)
  <2>1. UNCHANGED <<task, met>> /\ (died' = died \/ died' = died \cup {q})
    BY <1>2 DEF encounters, Call, Crash, Require, ResolveRoute, CreateConversation, ResolveScenario,
           SaveUserMessage, ReadContext, StoreScenario, UpdateRoute, SaveRun,
           SaveAssistantMessage, ListMessages, ReadPrevious, SaveWindow, AppendMessage,
           DeleteConversation, DeleteMessages, DeleteWindows, DeleteRuns, Publish
  <2>2. pc[q] \notin {"new", "end"}
    BY <1>2 DEF Call, Crash, Busy, Require, ResolveRoute, CreateConversation, ResolveScenario,
           SaveUserMessage, ReadContext, StoreScenario, UpdateRoute, SaveRun,
           SaveAssistantMessage, ListMessages, ReadPrevious, SaveWindow, AppendMessage,
           DeleteConversation, DeleteMessages, DeleteWindows, DeleteRuns, Publish
  <2> QED
    BY <2>1, <2>2, CallMoves DEF ValidatedInv, Tables, Busy
<1> QED
    BY <1>1, <1>2

LEMMA MetKept ==
    ASSUME ValidatedInv, MetInv, NEW q \in Requests, Call(q) \/ Crash(q)
    PROVE  MetInv'
<1>1. (\A p \in Requests : p # q => pc'[p] = pc[p]) /\ pc'[q] # "new"
    BY HistoryKept, CallMoves DEF ValidatedInv, Tables
<1>2. CASE Receive(q)
  <2>1. met' = met \cup {{p, q} : p \in Busy}
    BY <1>2 DEF Receive
  <2>2. Busy' \subseteq Busy \cup {q} /\ Busy \subseteq Requests
    BY <1>1 DEF Busy
  <2>3. \A p \in Busy : pc'[p] # "new"
    BY <1>1 DEF Busy
  <2>4. \A pair \in met' : \A p \in pair : p \in Requests /\ pc'[p] # "new"
    BY <1>1, <2>1, <2>2, <2>3 DEF MetInv
  <2>5. \A p \in Busy : {p, q} \in met' /\ {q, p} = {p, q}
    BY <2>1
  <2> QED
    BY <2>1, <2>2, <2>4, <2>5 DEF MetInv
<1>3. CASE UNCHANGED met /\ q \in Busy
  <2>1. Busy' \subseteq Busy
    BY <1>1, <1>3 DEF Busy
  <2>2. \A pair \in met : \A p \in pair : p \in Requests /\ pc'[p] # "new"
    BY <1>1 DEF MetInv
  <2> QED
    BY <1>3, <2>1, <2>2 DEF MetInv
<1> QED
    BY <1>2, <1>3, HistoryKept

-----------------------------------------------------------------------------
\* What a call may add to the records, and what a deletion takes away.
LEMMA MessagesAdded ==
    ASSUME AuditInv, NEW q \in Requests, Call(q) \/ Crash(q)
    PROVE  /\ \A i \in DOMAIN messages' :
                \/ \E k \in DOMAIN messages : messages'[i] = messages[k]
                \/ /\ pc[q] \in Writing /\ messages'[i].request = q
                   /\ messages'[i].conversation = work[q].conversation
           /\ DeleteMessages(q) =>
                \A i \in DOMAIN messages' : messages'[i].conversation # work[q].conversation
<1>1. CASE UNCHANGED messages /\ ~DeleteMessages(q)
    BY <1>1
<1>2. CASE DeleteMessages(q)
  <2>1. TakenAway(messages, work[q].conversation, messages')
    BY <1>2, OthersPicked DEF DeleteMessages, AuditInv, Lists
  <2> QED
    BY <2>1 DEF TakenAway
<1>3. CASE \E role : messages' = Append(messages, Message(q, role)) /\ pc[q] \in {"user", "assistant", "append"}
  <2>1. PICK role : messages' = Append(messages, Message(q, role))
    BY <1>3
  <2> DEFINE m == Message(q, role)
  <2>2. m.request = q /\ m.conversation = work[q].conversation
    BY DEF Message
  <2> HIDE DEF m
  <2>3. /\ IsList(messages') /\ DOMAIN messages' = 1..(Len(messages) + 1) /\ Len(messages) \in Nat
        /\ DOMAIN messages = 1..Len(messages)
        /\ messages'[Len(messages) + 1] = m
        /\ \A i \in DOMAIN messages : messages'[i] = messages[i]
    BY <2>1, ListAppend, ListFacts DEF AuditInv, Lists, m
  <2>4. \A i \in DOMAIN messages' : i \in DOMAIN messages \/ i = Len(messages) + 1
    BY <2>3
  <2>5. pc[q] \in Writing /\ ~DeleteMessages(q)
    BY <1>3 DEF Writing, AskedAt, DeleteMessages
  <2> QED
    BY <2>2, <2>3, <2>4, <2>5
<1>4. CASE SaveUserMessage(q) \/ SaveAssistantMessage(q) \/ AppendMessage(q)
    BY <1>3, <1>4 DEF SaveUserMessage, SaveAssistantMessage, AppendMessage
<1>5. CASE ~(SaveUserMessage(q) \/ SaveAssistantMessage(q) \/ AppendMessage(q) \/ DeleteMessages(q))
  <2>1. UNCHANGED messages
    BY <1>5 DEF documents, Call, Crash, Receive, Require, ResolveRoute, CreateConversation,
           ResolveScenario, ReadContext, StoreScenario, UpdateRoute, SaveRun, ListMessages,
           ReadPrevious, SaveWindow, DeleteConversation, DeleteWindows, DeleteRuns, Publish
  <2> QED
    BY <1>1, <1>5, <2>1
<1> QED
    BY <1>2, <1>4, <1>5

LEMMA RunsAdded ==
    ASSUME AuditInv, NEW q \in Requests, Call(q) \/ Crash(q)
    PROVE  /\ \A i \in DOMAIN runs' :
                \/ \E k \in DOMAIN runs : runs'[i] = runs[k]
                \/ /\ pc[q] \in Writing /\ runs'[i].request = q
                   /\ runs'[i].conversation = work[q].conversation
           /\ DeleteRuns(q) => \A i \in DOMAIN runs' : runs'[i].conversation # work[q].conversation
<1>1. CASE DeleteRuns(q)
  <2>1. TakenAway(runs, work[q].conversation, runs')
    BY <1>1, OthersPicked DEF DeleteRuns, AuditInv, Lists
  <2> QED
    BY <2>1 DEF TakenAway
<1>2. CASE SaveRun(q)
  <2> DEFINE m == [conversation |-> work[q].conversation, request |-> q, result |-> work[q].outcome]
  <2>1. m.request = q /\ m.conversation = work[q].conversation
    OBVIOUS
  <2>2. runs' = Append(runs, m)
    BY <1>2 DEF SaveRun
  <2> HIDE DEF m
  <2>3. /\ IsList(runs') /\ DOMAIN runs' = 1..(Len(runs) + 1) /\ Len(runs) \in Nat
        /\ DOMAIN runs = 1..Len(runs)
        /\ runs'[Len(runs) + 1] = m
        /\ \A i \in DOMAIN runs : runs'[i] = runs[i]
    BY <2>2, ListAppend, ListFacts DEF AuditInv, Lists
  <2>4. \A i \in DOMAIN runs' : i \in DOMAIN runs \/ i = Len(runs) + 1
    BY <2>3
  <2>5. pc[q] \in Writing /\ ~DeleteRuns(q)
    BY <1>2 DEF SaveRun, Writing, AskedAt, DeleteRuns
  <2> QED
    BY <2>1, <2>3, <2>4, <2>5
<1>3. CASE ~(SaveRun(q) \/ DeleteRuns(q))
  <2>1. UNCHANGED runs
    BY <1>3 DEF documents, Call, Crash, Receive, Require, ResolveRoute, CreateConversation,
           ResolveScenario, SaveUserMessage, ReadContext, StoreScenario, UpdateRoute,
           SaveAssistantMessage, ListMessages, ReadPrevious, SaveWindow, AppendMessage,
           DeleteConversation, DeleteMessages, DeleteWindows, Publish
  <2> QED
    BY <1>3, <2>1
<1> QED
    BY <1>1, <1>2, <1>3

LEMMA PlacesAdded ==
    ASSUME NEW q \in Requests, Call(q) \/ Crash(q)
    PROVE  /\ DOMAIN windows' \subseteq
                DOMAIN windows \cup (IF pc[q] = "window" THEN {work[q].conversation} ELSE {})
           /\ DeleteWindows(q) => work[q].conversation \notin DOMAIN windows'
           /\ DOMAIN conversations' \subseteq DOMAIN conversations \cup (IF pc[q] = "create" THEN {q} ELSE {})
           /\ DeleteConversation(q) => work[q].conversation \notin DOMAIN conversations'
<1>1. CASE SaveWindow(q)
    BY <1>1 DEF SaveWindow, DeleteWindows, DeleteConversation
<1>2. CASE DeleteWindows(q) \/ DeleteConversation(q)
    BY <1>2 DEF DeleteWindows, DeleteConversation, Without
<1>3. CASE CreateConversation(q)
    BY <1>3 DEF CreateConversation, DeleteWindows, DeleteConversation
<1>4. CASE ~(SaveWindow(q) \/ DeleteWindows(q) \/ DeleteConversation(q) \/ CreateConversation(q))
  <2>1. UNCHANGED <<conversations, windows>>
    BY <1>4 DEF documents, Call, Crash, Receive, Require, ResolveRoute,
           ResolveScenario, SaveUserMessage, ReadContext, StoreScenario, UpdateRoute, SaveRun,
           SaveAssistantMessage, ListMessages, ReadPrevious, AppendMessage,
           DeleteMessages, DeleteRuns, Publish
  <2> QED
    BY <1>4, <2>1
<1> QED
    BY <1>1, <1>2, <1>3, <1>4

-----------------------------------------------------------------------------
\* Where a call leads, after the first.
Moves1(q) == pc[q] = "require" /\ pc'[q] \in {"append", "resolve", "scenario"}
             /\ (pc'[q] = "append" <=> task[q].op = "append")
             /\ work[q].conversation \in DOMAIN conversations
             /\ work'[q].conversation = work[q].conversation
Moves2(q) == pc[q] = "resolve" /\ pc'[q] = (IF work[q].conversation = None THEN "create" ELSE "scenario")
             /\ work'[q].conversation = work[q].conversation
Moves3(q) == pc[q] = "create" /\ pc'[q] = "scenario" /\ task[q].op # "create" /\ work'[q].conversation = q
Moves4(q) == pc[q] \in {"scenario", "user"} \cup AskedAt /\ pc'[q] \in {"user"} \cup AskedAt
             /\ work'[q].conversation = work[q].conversation
Moves5(q) == /\ \/ DeleteConversation(q) /\ pc[q] = "delete" /\ pc'[q] = "delete messages"
                \/ DeleteMessages(q) /\ pc[q] = "delete messages" /\ pc'[q] = "delete windows"
                \/ DeleteWindows(q) /\ pc[q] = "delete windows" /\ pc'[q] = "delete runs"
             /\ work' = work
Ends(q) == pc'[q] = "end" /\ (pc[q] \in {"delete"} \cup DeletingAt => DeleteRuns(q) \/ q \in died')

LEMMA GoesOn ==
    ASSUME ValidatedInv, NEW q \in Requests, Call(q) \/ Crash(q), ~Receive(q)
    PROVE  Moves1(q) \/ Moves2(q) \/ Moves3(q) \/ Moves4(q) \/ Moves5(q) \/ Ends(q)
<1>1. DOMAIN pc = Requests /\ DOMAIN work = Requests /\ DOMAIN work[q] = Fields
    BY DEF ValidatedInv, Tables, Locals
<1>2. CASE End(q)
  <2>1. pc'[q] = "end"
    BY <1>1, <1>2 DEF End, Goto
  <2>2. pc[q] \in {"delete"} \cup DeletingAt => DeleteRuns(q) \/ Crash(q)
    BY <1>1, <1>2, <2>1 DEF DeletingAt, Call, Require, ResolveRoute, CreateConversation, ResolveScenario,
           SaveUserMessage, ReadContext, StoreScenario, UpdateRoute, SaveRun,
           SaveAssistantMessage, ListMessages, ReadPrevious, SaveWindow, AppendMessage,
           DeleteConversation, DeleteMessages, DeleteWindows, Publish, Goto
  <2> QED
    BY <2>1, <2>2 DEF Ends, Crash
<1>3. CASE ~End(q) /\ Require(q)
    BY <1>1, <1>3 DEF Require, Goto, Keep, Fields, Moves1
<1>4. CASE ResolveRoute(q)
    BY <1>1, <1>4 DEF ResolveRoute, Goto, Keep, Fields, Moves2
<1>5. CASE ~End(q) /\ CreateConversation(q)
    BY <1>1, <1>5 DEF CreateConversation, Goto, Keep, Fields, Moves3
<1>6. CASE ReadContext(q)
  <2> DEFINE window == Existing(windows, work[q].conversation)
  <2>1. PICK answer \in AnswersTo(q, window) :
          /\ Keep(q, [work[q] EXCEPT !.before = window, !.outcome = answer])
          /\ Goto(q, IF ~Moves(q, answer) THEN "run"
                       ELSE IF answer.source = "workflow" THEN "store" ELSE "update")
    BY <1>6 DEF ReadContext
  <2> DEFINE l == IF ~Moves(q, answer) THEN "run" ELSE IF answer.source = "workflow" THEN "store" ELSE "update"
             w == [work[q] EXCEPT !.before = window, !.outcome = answer]
  <2>2. l \in AskedAt
    BY DEF AskedAt
  <2>3. w.conversation = work[q].conversation
    BY <1>1 DEF Fields
  <2>4. pc'[q] = l /\ work'[q] = w
    BY <1>1, <2>1 DEF Goto, Keep
  <2> HIDE DEF l, w, window
  <2>5. pc[q] \in AskedAt
    BY <1>6 DEF ReadContext, AskedAt
  <2> QED
    BY <2>2, <2>3, <2>4, <2>5 DEF Moves4
<1>7. CASE \/ ~End(q) /\ ResolveScenario(q)
           \/ SaveUserMessage(q) \/ StoreScenario(q) \/ UpdateRoute(q) \/ SaveRun(q)
           \/ SaveAssistantMessage(q) \/ ListMessages(q) \/ ReadPrevious(q)
    BY <1>1, <1>7 DEF ResolveScenario, SaveUserMessage, StoreScenario, UpdateRoute, SaveRun,
           SaveAssistantMessage, ListMessages, ReadPrevious, Goto, Keep, Fields, AskedAt, Moves4
<1>8. CASE DeleteConversation(q) \/ DeleteMessages(q) \/ DeleteWindows(q)
    BY <1>1, <1>8 DEF DeleteConversation, DeleteMessages, DeleteWindows, Goto, Moves5
<1>9. CASE SaveWindow(q) \/ AppendMessage(q) \/ DeleteRuns(q) \/ Publish(q) \/ Crash(q)
  <2>1. End(q)
    BY <1>9 DEF SaveWindow, AppendMessage, DeleteRuns, Publish, Crash
  <2> QED
    BY <1>2, <2>1
<1> QED
    BY <1>2, <1>3, <1>4, <1>5, <1>6, <1>7, <1>8, <1>9 DEF Call

\* Where the first leads.
LEMMA Begins ==
    ASSUME ValidatedInv, NEW q \in Requests, Receive(q)
    PROVE  /\ pc[q] = "new" /\ task'[q].op \in {"replan", "create", "append", "delete", "publish"}
           /\ pc'[q] = "resolve" => work'[q].conversation = None
           /\ pc'[q] \in {"require", "resolve", "create", "delete", "publish"}
           /\ task'[q].op = "delete" =>
                /\ pc'[q] = "delete" /\ work'[q].conversation = task'[q].conversation
                /\ task'[q].conversation \in Minted
           /\ pc'[q] = "require" => task'[q].op \in {"replan", "append"}
           /\ pc'[q] = "create" => task'[q].op \in {"replan", "create"}
           /\ pc'[q] = "create" /\ task'[q].op = "replan" => work'[q].route = None
           /\ pc'[q] = "resolve" => task'[q].op = "replan"
           /\ pc'[q] \in {"delete", "publish"} => task'[q].op = pc'[q]
<1>1. PICK t \in Menu[q] :
        /\ t.op \in {"replan", "append", "delete"} => t.conversation \in Minted \cup {None}
        /\ task' = [task EXCEPT ![q] = t]
        /\ Goto(q, CASE t.op = "replan" /\ t.conversation = None /\ t.route = None -> "create"
                      [] t.op = "replan" /\ t.conversation = None /\ t.route # None -> "resolve"
                      [] t.op \in {"create", "delete", "publish"} -> t.op
                      [] OTHER -> "require")
        /\ Keep(q, IF t.op \in {"create", "publish"} THEN NoWork
                     ELSE [NoWork EXCEPT !.conversation = t.conversation, !.scenario = Home,
                                         !.route = IF t.op = "replan" THEN t.route ELSE None])
    BY DEF Receive
<1> DEFINE l == CASE t.op = "replan" /\ t.conversation = None /\ t.route = None -> "create"
                  [] t.op = "replan" /\ t.conversation = None /\ t.route # None -> "resolve"
                  [] t.op \in {"create", "delete", "publish"} -> t.op
                  [] OTHER -> "require"
           w == IF t.op \in {"create", "publish"} THEN NoWork
                  ELSE [NoWork EXCEPT !.conversation = t.conversation, !.scenario = Home,
                                      !.route = IF t.op = "replan" THEN t.route ELSE None]
<1>2. /\ t.op \in {"replan", "create", "append", "delete", "publish"}
      /\ t.op \in {"append", "delete"} => t.conversation # None
    BY MenuAssumption
<1>3. pc'[q] = l /\ work'[q] = w /\ task'[q] = t /\ pc[q] = "new"
    BY <1>1 DEF Receive, Goto, Keep, ValidatedInv, Tables
<1>4. t.op \in {"replan", "append", "delete"} =>
        w.conversation = t.conversation /\ (t.op = "replan" => w.route = t.route)
    BY DEF NoWork
<1>5. /\ l = "resolve" => t.op = "replan" /\ t.conversation = None
      /\ l \in {"require", "resolve", "create", "delete", "publish"}
      /\ t.op = "delete" => l = "delete"
      /\ l = "require" => t.op \in {"replan", "append"}
      /\ l = "create" => t.op \in {"replan", "create"}
      /\ l = "create" /\ t.op = "replan" => t.route = None
      /\ l \in {"delete", "publish"} => t.op = l
    BY <1>2
<1> HIDE DEF l, w
<1> QED
    BY <1>1, <1>2, <1>3, <1>4, <1>5

LEMMA FitsKept ==
    ASSUME ValidatedInv, TypeInv, NEW q \in Requests, Call(q) \/ Crash(q), Fits(q)
    PROVE  Fits(q)'
<1>1. Minted \subseteq Minted'
    BY CallMoves
<1>2. CASE Receive(q)
  <2>1. pc'[q] \in {"require", "resolve", "create", "delete", "publish"}
    BY <1>2, Begins
  <2> QED
    BY <1>1, <1>2, <2>1, Begins DEF Fits, AskedAt, DeletingAt
<1>3. CASE ~Receive(q)
  <2>1. task'[q] = task[q] /\ pc[q] # "new"
    BY <1>3, HistoryKept DEF Busy
  <2>2. CASE Moves1(q)
    BY <1>1, <2>1, <2>2 DEF Moves1, Fits, AskedAt, DeletingAt
  <2>3. CASE Moves2(q) \/ Moves3(q)
    BY <1>1, <2>1, <2>3 DEF Moves2, Moves3, Fits, AskedAt, DeletingAt
  <2>4. CASE Moves4(q)
    BY <1>1, <2>1, <2>4 DEF Moves4, Fits, AskedAt, DeletingAt
  <2>5. CASE Moves5(q)
    BY <1>1, <2>1, <2>5 DEF Moves5, Fits, AskedAt, DeletingAt
  <2>6. CASE Ends(q)
    BY <1>1, <2>1, <2>6 DEF Ends, Fits, AskedAt, DeletingAt
  <2> QED
    BY <1>3, <2>2, <2>3, <2>4, <2>5, <2>6, GoesOn
<1> QED
    BY <1>2, <1>3


\* What met a request has kept its task.
LEMMA MetTasks ==
    ASSUME ValidatedInv, MetInv, NEW q \in Requests, Call(q) \/ Crash(q),
           NEW p \in Requests, NEW d \in Requests, {p, d} \in met
    PROVE  task'[p] = task[p] /\ {p, d} \in met'
<1>1. pc[p] # "new"
    BY DEF MetInv
<1> QED
    BY <1>1, HistoryKept, Begins

LEMMA LeavesKept ==
    ASSUME ValidatedInv, AuditInv, TypeInv, MetInv, NEW q \in Requests, Call(q) \/ Crash(q),
           \A p \in Requests : Fits(p), NEW d \in Requests, Leaves(d), GoneFrom(d)'
    PROVE  LET c == task[d].conversation IN
           /\ task'[d] = task[d]
           /\ c \notin DOMAIN conversations' /\ WritersMet(d, c)'
           /\ pc'[d] \in {"delete windows", "delete runs", "end"} => MessagesMet(d, c)'
           /\ pc'[d] \in {"delete runs", "end"} => WindowMet(d, c)'
           /\ pc'[d] = "end" => RunsMet(d, c)'
<1> DEFINE c == task[d].conversation
<1>1. met \subseteq met' /\ died \subseteq died'
    BY HistoryKept
<1>2. ~Receive(q) => UNCHANGED <<task, met>> /\ q \in Busy
    BY HistoryKept
<1>3. \A p \in Requests : p # q => pc'[p] = pc[p] /\ work'[p] = work[p] /\ task'[p] = task[p]
    BY HistoryKept
<1>4. Busy = {p \in Requests : pc[p] \notin {"new", "end"}}
    BY DEF Busy
<1>5. CASE d = q
  <2>1. ~Receive(q)
    BY <1>5, Begins DEF GoneFrom, DeletingAt
  <2>2. task' = task /\ met' = met /\ q \in Busy /\ task[q].op = "delete" /\ q \notin died'
    BY <1>2, <1>5, <2>1 DEF GoneFrom
  <2>3. pc[q] \in {"delete"} \cup DeletingAt
    <3>1. pc[q] \in Steps
      BY DEF TypeInv, LocalsOK, About
    <3> QED
      BY <1>4, <2>2, <3>1 DEF Fits, Steps, AskedAt, DeletingAt
  <2>4. c = work[q].conversation
    BY <1>5, <2>3 DEF Fits
  <2>5. \/ DeleteConversation(q) /\ pc[q] = "delete" /\ pc'[q] = "delete messages"
        \/ DeleteMessages(q) /\ pc[q] = "delete messages" /\ pc'[q] = "delete windows"
        \/ DeleteWindows(q) /\ pc[q] = "delete windows" /\ pc'[q] = "delete runs"
        \/ DeleteRuns(q) /\ pc[q] = "delete runs" /\ pc'[q] = "end"
    <3>1. Moves5(q) \/ Ends(q)
      BY <2>1, <2>3, GoesOn DEF Moves1, Moves2, Moves3, Moves4, AskedAt, DeletingAt
    <3>2. CASE Ends(q)
      BY <2>2, <2>3, <3>2 DEF Ends, DeleteRuns
    <3> QED
      BY <3>1, <3>2 DEF Moves5
  <2>6. ASSUME NEW p \in Requests, pc'[p] \in Writing PROVE {p, d} \in met'
    <3>1. p # q
      BY <2>5, <2>6 DEF Writing, AskedAt
    <3>2. p \in Busy
      BY <1>3, <1>4, <2>6, <3>1 DEF Writing, AskedAt
    <3> QED
      BY <1>5, <2>2, <3>1, <3>2 DEF MetInv
  <2>7. WritersMet(d, c)'
    BY <2>6, <2>2 DEF WritersMet
  <2>8. pc[q] \notin Writing /\ pc[q] \notin {"window", "create"}
    BY <2>3 DEF Writing, AskedAt, DeletingAt
  <2>9. pc[q] # "delete" => GoneFrom(q)
    BY <1>1, <2>2, <2>3 DEF GoneFrom
  <2>10. c \notin DOMAIN conversations'
    BY <1>5, <2>4, <2>5, <2>8, <2>9, PlacesAdded DEF Leaves
  <2>11. pc[q] \in {"delete windows", "delete runs"} => MessagesMet(d, c)
    BY <1>5, <2>9 DEF Leaves
  <2>12. pc[q] = "delete runs" => WindowMet(d, c)
    BY <1>5, <2>9 DEF Leaves
  <2>13. CASE DeleteMessages(q)
    <3>1. MessagesMet(d, c)'
      BY <2>2, <2>4, <2>13, MessagesAdded DEF MessagesMet
    <3> QED
      BY <1>5, <2>2, <2>5, <2>7, <2>10, <2>13, <3>1 DEF DeleteMessages
  <2>14. CASE pc[q] \in {"delete windows", "delete runs"}
    <3>1. MessagesMet(d, c)'
      <4>1. ASSUME NEW i \in DOMAIN messages', messages'[i].conversation = c
            PROVE  {messages'[i].request, d} \in met
        <5>1. \E k \in DOMAIN messages : messages'[i] = messages[k]
          BY <2>8, MessagesAdded
        <5> QED
          BY <2>11, <2>14, <4>1, <5>1 DEF MessagesMet
      <4> QED
        BY <2>2, <4>1 DEF MessagesMet
    <3>2. WindowMet(d, c)'
      BY <2>2, <2>4, <2>5, <2>8, <2>12, <2>14, PlacesAdded DEF WindowMet
    <3>3. DeleteRuns(q) => RunsMet(d, c)'
      BY <2>2, <2>4, RunsAdded DEF RunsMet
    <3> QED
      BY <1>5, <2>2, <2>5, <2>7, <2>10, <2>14, <3>1, <3>2, <3>3
  <2>15. CASE pc[q] = "delete"
    BY <1>5, <2>2, <2>5, <2>7, <2>10, <2>15
  <2> QED
    BY <2>5, <2>13, <2>14, <2>15
<1>6. CASE d # q
  <2>1. pc'[d] = pc[d] /\ task'[d] = task[d]
    BY <1>3, <1>6
  <2>2. GoneFrom(d)
    BY <1>1, <2>1 DEF GoneFrom
  <2>3. /\ c \notin DOMAIN conversations /\ WritersMet(d, c)
        /\ pc[d] \in {"delete windows", "delete runs", "end"} => MessagesMet(d, c)
        /\ pc[d] \in {"delete runs", "end"} => WindowMet(d, c)
        /\ pc[d] = "end" => RunsMet(d, c)
    BY <2>2 DEF Leaves
  <2>4. c \in Minted /\ c # None
    <3>1. c \in Minted
      BY <2>2 DEF GoneFrom, DeletingAt, Fits
    <3> QED
      BY <3>1, MenuAssumption DEF Minted
  <2>5. ~(pc[q] = "create" /\ q = c)
    BY <2>4 DEF Minted
  <2>6. c \notin DOMAIN conversations'
    BY <2>3, <2>5, PlacesAdded
  <2>7. pc[q] \in Writing /\ work[q].conversation = c => {q, d} \in met
    BY <2>3 DEF WritersMet
  <2>8. pc'[q] \in Writing /\ work'[q].conversation = c => {q, d} \in met
    <3> SUFFICES ASSUME pc'[q] \in Writing, work'[q].conversation = c PROVE {q, d} \in met
      OBVIOUS
    <3>1. CASE Receive(q)
      BY <2>4, <3>1, Begins DEF Writing, AskedAt
    <3>2. CASE ~Receive(q)
      <4>1. CASE Moves1(q)
        BY <2>3, <4>1 DEF Moves1
      <4>2. CASE Moves2(q) \/ Moves4(q)
        BY <2>7, <4>2 DEF Moves2, Moves4, Writing
      <4>3. CASE Moves3(q)
        BY <2>5, <4>3 DEF Moves3
      <4>4. CASE Moves5(q) \/ Ends(q)
        BY <4>4 DEF Moves5, Ends, Writing, AskedAt
      <4> QED
        BY <3>2, <4>1, <4>2, <4>3, <4>4, GoesOn
    <3> QED
      BY <3>1, <3>2
  <2>9. WritersMet(d, c)'
    BY <1>1, <1>3, <2>1, <2>3, <2>8 DEF WritersMet
  <2>10. pc[d] \in {"delete windows", "delete runs", "end"} => MessagesMet(d, c)'
    <3> SUFFICES ASSUME MessagesMet(d, c), NEW i \in DOMAIN messages', messages'[i].conversation = c
                 PROVE  {messages'[i].request, d} \in met
      BY <1>1, <2>1, <2>3 DEF MessagesMet
    <3>1. CASE \E k \in DOMAIN messages : messages'[i] = messages[k]
      BY <3>1 DEF MessagesMet
    <3>2. CASE pc[q] \in Writing /\ messages'[i].request = q /\ messages'[i].conversation = work[q].conversation
      BY <2>7, <3>2
    <3> QED
      BY <3>1, <3>2, MessagesAdded
  <2>11. pc[d] = "end" => RunsMet(d, c)'
    <3> SUFFICES ASSUME RunsMet(d, c), NEW i \in DOMAIN runs', runs'[i].conversation = c
                 PROVE  {runs'[i].request, d} \in met
      BY <1>1, <2>1, <2>3 DEF RunsMet
    <3>1. CASE \E k \in DOMAIN runs : runs'[i] = runs[k]
      BY <3>1 DEF RunsMet
    <3>2. CASE pc[q] \in Writing /\ runs'[i].request = q /\ runs'[i].conversation = work[q].conversation
      BY <2>7, <3>2
    <3> QED
      BY <3>1, <3>2, RunsAdded
  <2>12. WindowMet(d, c) => WindowMet(d, c)'
    <3> SUFFICES ASSUME WindowMet(d, c), c \in DOMAIN windows'
                 PROVE  \E p \in Requests : {p, d} \in met' /\ task'[p].op = "replan"
      BY <2>1 DEF WindowMet
    <3>1. CASE c \in DOMAIN windows
      BY <3>1, MetTasks DEF WindowMet
    <3>2. CASE c \notin DOMAIN windows
      <4>1. pc[q] = "window" /\ work[q].conversation = c
        BY <3>2, PlacesAdded
      <4>2. {q, d} \in met /\ task[q].op = "replan"
        BY <2>7, <4>1 DEF Writing, AskedAt, Fits
      <4> QED
        BY <4>2, MetTasks
    <3> QED
      BY <3>1, <3>2
  <2> QED
    BY <2>1, <2>3, <2>6, <2>9, <2>10, <2>11, <2>12
<1> QED
    BY <1>5, <1>6

-----------------------------------------------------------------------------
\* A plan of the workflow that moves on is of a scenario one event further.
LEMMA WorkflowPlansAddUp ==
    ASSUME NEW q, NEW window, NEW answer \in AnswersTo(q, window),
           Moves(q, answer), answer.source = "workflow"
    PROVE  \E tag \in Tags : answer.plan.scenario = Append(work[q].scenario, tag)
<1>1. answer.source # "route_qa" /\ answer.succeeded /\ answer.plan # None
    BY DEF Moves
<1>2. PICK o \in Outcomes(work[q].scenario, window # None) :
        answer = IF o = FollowedUp THEN FollowedUpFrom(window) ELSE o
    BY <1>1 DEF AnswersTo, RouteAnswered
<1>3. o # FollowedUp
    BY <1>2 DEF FollowedUpFrom, FollowedUp
<1>4. answer = o
    BY <1>2, <1>3
<1>5. o.succeeded
    BY <1>1, <1>4
<1>6. PICK tag \in Tags : o = Replanned(work[q].scenario, tag)
  <2>1. \A tag, plan : ~Failed(tag, plan).succeeded
    BY DEF Failed
  <2>2. \A tag, plan : o # Failed(tag, plan)
    BY <1>5, <2>1
  <2> QED
    BY <1>3, <2>2 DEF Outcomes
<1>7. o.plan = PlanFor(Append(work[q].scenario, tag), TRUE)
    BY <1>6 DEF Replanned
<1> QED
    BY <1>4, <1>7 DEF PlanFor

LEMMA CrossedKept ==
    ASSUME ValidatedInv, MetInv, NEW q \in Requests, Call(q) \/ Crash(q),
           NEW d \in Requests, Crossed(d)
    PROVE  Crossed(d)'
    BY MetTasks DEF Crossed

\* Only two calls write to routes, and their requests may.
LEMMA RoutesKept ==
    ASSUME NEW q \in Requests, Call(q) \/ Crash(q), Fits(q)
    PROVE  UNCHANGED routes \/ (q \in Busy /\ task[q].op \in {"replan", "publish"})
<1>1. CASE UpdateRoute(q) \/ Publish(q)
    BY <1>1 DEF UpdateRoute, Publish, Fits, Busy, AskedAt
<1>2. CASE ~(UpdateRoute(q) \/ Publish(q))
  <2>1. Receive(q) \/ ReadContext(q) => UNCHANGED routes
    BY DEF operations, Receive, ReadContext
  <2>2. Require(q) \/ ResolveRoute(q) \/ CreateConversation(q) \/ ResolveScenario(q)
        \/ SaveUserMessage(q) \/ StoreScenario(q) \/ Crash(q) => UNCHANGED routes
    BY DEF operations, Require, ResolveRoute, CreateConversation, ResolveScenario,
           SaveUserMessage, StoreScenario, Crash
  <2>3. SaveRun(q) \/ SaveAssistantMessage(q) \/ ListMessages(q) \/ ReadPrevious(q) \/ SaveWindow(q)
        \/ AppendMessage(q) => UNCHANGED routes
    BY DEF operations, SaveRun, SaveAssistantMessage, ListMessages, ReadPrevious, SaveWindow,
           AppendMessage
  <2>4. DeleteConversation(q) \/ DeleteMessages(q) \/ DeleteWindows(q) \/ DeleteRuns(q) => UNCHANGED routes
    BY DEF operations, DeleteConversation, DeleteMessages, DeleteWindows, DeleteRuns
  <2> QED
    BY <1>2, <2>1, <2>2, <2>3, <2>4 DEF Call
<1> QED
    BY <1>1, <1>2

\* Where the route a request is about is looked at.
Looking(q) == pc[q] \in {"scenario", "user", "context"} \/ (pc[q] = "create" /\ task[q].op # "create")
Resolved(q) == work[q].route = None \/ Crossed(q) \/ routes[work[q].route].scenario = work[q].scenario
AddsUp(q) ==
    \/ Crossed(q)
    \/ \E tag \in Tags : work[q].outcome.plan.scenario = Append(routes[work[q].route].scenario, tag)

LEMMA BasedIs ==
    \A q \in Requests :
        Based(q) <=> /\ Looking(q) => Resolved(q)
                     /\ pc[q] \in Moving /\ work[q].outcome.source = "workflow" => AddsUp(q)
    BY DEF Based, Looking, Resolved, AddsUp

LEMMA OwnBased ==
    ASSUME ValidatedInv, MetInv, NEW q \in Requests, Call(q) \/ Crash(q), Based(q)
    PROVE  /\ Looking(q)' => Resolved(q)'
           /\ pc'[q] \in Moving /\ work'[q].outcome.source = "workflow" => AddsUp(q)'
<1>1. DOMAIN pc = Requests /\ DOMAIN work = Requests /\ DOMAIN work[q] = Fields
    BY DEF ValidatedInv, Tables, Locals
<1>2. Crossed(q) => Crossed(q)'
    BY CrossedKept
<1>3. CASE End(q)
    BY <1>1, <1>3 DEF End, Goto, Looking, Moving
<1>4. CASE Receive(q)
    BY <1>4, Begins DEF Looking, Resolved, Moving
<1>5. CASE ~End(q) /\ Require(q)
  <2>1. pc'[q] \notin Moving
    BY <1>1, <1>5 DEF Require, Goto, Moving
  <2>2. pc'[q] \in {"append", "resolve"} \/ (pc'[q] = "scenario" /\ work'[q].route = None)
    <3> DEFINE named == work[q].route
               route == IF named = None THEN conversations[work[q].conversation] ELSE named
               w == [work[q] EXCEPT !.route = route]
    <3>1. CASE Goto(q, "append")
      BY <1>1, <3>1 DEF Goto
    <3>2. CASE ~Goto(q, "append")
      <4>1. Keep(q, w) /\ Goto(q, IF route = None THEN "scenario" ELSE "resolve")
        BY <1>5, <3>2 DEF Require
      <4>2. w.route = route
        BY <1>1 DEF Fields
      <4> HIDE DEF route, w
      <4> QED
        BY <1>1, <4>1, <4>2 DEF Goto, Keep
    <3> QED
      BY <3>1, <3>2
  <2> QED
    BY <2>1, <2>2 DEF Looking, Resolved
<1>6. CASE ResolveRoute(q)
  <2>1. pc'[q] \in {"create", "scenario"} /\ UNCHANGED routes
        /\ work'[q].scenario = routes[work[q].route].scenario /\ work'[q].route = work[q].route
    BY <1>1, <1>6 DEF ResolveRoute, Goto, Keep, Fields, operations
  <2> QED
    BY <2>1 DEF Resolved, Moving
<1>7. CASE ~End(q) /\ \/ CreateConversation(q) \/ ResolveScenario(q) \/ SaveUserMessage(q)
  <2>1. /\ pc'[q] \in {"scenario", "user", "context"} /\ UNCHANGED routes
        /\ work'[q].scenario = work[q].scenario /\ work'[q].route = work[q].route
    BY <1>1, <1>7 DEF CreateConversation, ResolveScenario, SaveUserMessage, Goto, Keep, Fields, operations
  <2>2. Looking(q)
    BY <1>7 DEF CreateConversation, ResolveScenario, SaveUserMessage, End, Looking
  <2>3. Resolved(q)
    BY <2>2, BasedIs
  <2> QED
    BY <1>2, <2>1, <2>3 DEF Resolved, Moving
<1>8. CASE ReadContext(q)
  <2> DEFINE window == Existing(windows, work[q].conversation)
  <2>1. PICK answer \in AnswersTo(q, window) :
          /\ Keep(q, [work[q] EXCEPT !.before = window, !.outcome = answer])
          /\ Goto(q, IF ~Moves(q, answer) THEN "run"
                       ELSE IF answer.source = "workflow" THEN "store" ELSE "update")
    BY <1>8 DEF ReadContext
  <2> DEFINE l == IF ~Moves(q, answer) THEN "run" ELSE IF answer.source = "workflow" THEN "store" ELSE "update"
             w == [work[q] EXCEPT !.before = window, !.outcome = answer]
  <2>2. w.outcome = answer /\ w.route = work[q].route
    BY <1>1 DEF Fields
  <2>3. pc'[q] = l /\ work'[q] = w
    BY <1>1, <2>1 DEF Goto, Keep
  <2>4. l \in {"run", "store", "update"} /\ (l \in Moving => Moves(q, answer))
    BY DEF Moving
  <2> HIDE DEF l, w, window
  <2>5. UNCHANGED routes /\ Resolved(q)
    BY <1>8, BasedIs DEF ReadContext, operations, Looking
  <2>6. ~Looking(q)'
    BY <2>3, <2>4 DEF Looking
  <2>7. ASSUME l \in Moving, answer.source = "workflow" PROVE AddsUp(q)'
    <3>1. work[q].route # None /\ \E tag \in Tags : answer.plan.scenario = Append(work[q].scenario, tag)
      BY <2>4, <2>7, WorkflowPlansAddUp DEF Moves
    <3> QED
      BY <1>2, <2>2, <2>3, <2>5, <3>1 DEF Resolved, AddsUp
  <2> QED
    BY <2>2, <2>3, <2>6, <2>7
<1>9. CASE StoreScenario(q)
  <2>1. pc[q] = "store" /\ pc'[q] = "update" /\ UNCHANGED <<routes, work>>
    BY <1>1, <1>9 DEF StoreScenario, Goto
  <2> QED
    BY <1>2, <2>1, BasedIs DEF AddsUp, Looking, Moving
<1>10. CASE \/ UpdateRoute(q) \/ SaveRun(q) \/ SaveAssistantMessage(q) \/ ListMessages(q) \/ ReadPrevious(q)
            \/ DeleteConversation(q) \/ DeleteMessages(q) \/ DeleteWindows(q)
    BY <1>1, <1>10 DEF UpdateRoute, SaveRun, SaveAssistantMessage, ListMessages, ReadPrevious,
           DeleteConversation, DeleteMessages, DeleteWindows, Goto, Looking, Moving
<1>11. CASE SaveWindow(q) \/ AppendMessage(q) \/ DeleteRuns(q) \/ Publish(q) \/ Crash(q)
    BY <1>3, <1>11 DEF SaveWindow, AppendMessage, DeleteRuns, Publish, Crash
<1> QED
    BY <1>3, <1>4, <1>5, <1>6, <1>7, <1>8, <1>9, <1>10, <1>11 DEF Call

LEMMA BasedKept ==
    ASSUME ValidatedInv, MetInv, NEW q \in Requests, Call(q) \/ Crash(q), Fits(q),
           NEW d \in Requests, Based(d)
    PROVE  Based(d)'
<1>1. CASE d = q
    BY <1>1, OwnBased DEF Based, Looking, Resolved, AddsUp
<1>2. CASE d # q
  <2>1. pc'[d] = pc[d] /\ work'[d] = work[d] /\ task'[d] = task[d]
    BY <1>2, HistoryKept
  <2>2. Crossed(d) => Crossed(d)'
    BY CrossedKept
  <2>3. CASE UNCHANGED routes
    BY <2>1, <2>2, <2>3 DEF Based, Moving
  <2>4. CASE q \in Busy /\ task[q].op \in {"replan", "publish"}
    <3>1. ASSUME d \in Busy PROVE Crossed(d)
      BY <1>2, <2>4, <3>1 DEF MetInv, Crossed
    <3>2. d \notin Busy => pc'[d] \in {"new", "end"}
      BY <2>1 DEF Busy
    <3> QED
      BY <2>2, <3>1, <3>2 DEF Based, Moving
  <2> QED
    BY <2>3, <2>4, RoutesKept
<1> QED
    BY <1>1, <1>2

-----------------------------------------------------------------------------
LEMMA StutterTogether ==
    ASSUME TogetherInv, UNCHANGED conversationVars
    PROVE  TogetherInv'
<1>1. UNCHANGED <<conversations, messages, runs, windows, stored, routes, task, pc, work, met, died>>
    BY DEF conversationVars, documents, operations, serving, encounters
<1>2. MetInv'
    BY <1>1 DEF TogetherInv, MetInv, Busy
<1>3. ASSUME NEW q \in Requests PROVE Fits(q)'
    BY <1>1 DEF TogetherInv, Fits, Minted
<1>4. ASSUME NEW q \in Requests PROVE Leaves(q)'
    BY <1>1 DEF TogetherInv, Leaves, GoneFrom, WritersMet, MessagesMet, WindowMet, RunsMet
<1>5. ASSUME NEW q \in Requests PROVE Based(q)'
    BY <1>1 DEF TogetherInv, Based, Crossed
<1> QED
    BY <1>2, <1>3, <1>4, <1>5 DEF TogetherInv

LEMMA NextTogether == AllInv /\ TogetherInv /\ [ConversationsNext]_conversationVars => TogetherInv'
<1> SUFFICES ASSUME AllInv, TogetherInv, [ConversationsNext]_conversationVars PROVE TogetherInv'
    OBVIOUS
<1> USE DEF AllInv
<1>1. CASE UNCHANGED conversationVars
    BY <1>1, StutterTogether
<1>2. ASSUME NEW q \in Requests, Call(q) \/ Crash(q) PROVE TogetherInv'
  <2>1. MetInv /\ \A p \in Requests : Fits(p) /\ Leaves(p) /\ Based(p)
    BY DEF TogetherInv
  <2>2. MetInv'
    BY <1>2, <2>1, MetKept
  <2>3. ASSUME NEW d \in Requests PROVE Fits(d)'
    <3>1. CASE d = q
      BY <1>2, <2>1, <3>1, FitsKept
    <3>2. CASE d # q
      <4>1. pc'[d] = pc[d] /\ work'[d] = work[d] /\ task'[d] = task[d]
        BY <1>2, <3>2, HistoryKept
      <4>2. Minted \subseteq Minted'
        BY <1>2, CallMoves
      <4> QED
        BY <2>1, <4>1, <4>2 DEF Fits
    <3> QED
      BY <3>1, <3>2
  <2>4. ASSUME NEW d \in Requests PROVE Leaves(d)'
    BY <1>2, <2>1, LeavesKept DEF Leaves
  <2>5. ASSUME NEW d \in Requests PROVE Based(d)'
    BY <1>2, <2>1, BasedKept
  <2> QED
    BY <2>2, <2>3, <2>4, <2>5 DEF TogetherInv
<1> QED
    BY <1>1, <1>2 DEF ConversationsNext, Rest

LEMMA TogetherInvariant == ConversationsSpec => [](AllInv /\ TogetherInv)
<1>1. ConversationsInit => TogetherInv
    BY InitTogether
<1>2. AllInv /\ TogetherInv /\ [ConversationsNext]_conversationVars => TogetherInv'
    BY NextTogether
<1> QED
    BY <1>1, <1>2, ConversationsInvariant, PTL DEF ConversationsSpec

\* Whatever is served at the same time and wherever a request dies: the conversation
\* of a deletion that went through stays away, and what is left of its records was
\* written by requests that were in progress together with the deletion.
THEOREM DeletionsExplained == ConversationsSpec => []LeftoversExplained
<1>1. AllInv /\ TogetherInv => LeftoversExplained
    BY TogetherMeans DEF AllInv
<1> QED
    BY <1>1, TogetherInvariant, PTL

LEMMA StepAddsUp ==
    ASSUME AllInv, TogetherInv, [ConversationsNext]_conversationVars,
           NEW q \in Requests, Updates(q, "workflow")
    PROVE  LET r == work[q].route IN
           \/ \E tag \in Tags : routes'[r].scenario = Append(routes[r].scenario, tag)
           \/ \E p \in Requests : p # q /\ {p, q} \in met /\ task[p].op \in {"replan", "publish"}
<1>1. ConversationsNext
    BY DEF Updates, conversationVars, serving
<1>2. UpdateRoute(q)
    BY <1>1, OnlyUpdateUpdates DEF AllInv
<1>3. pc[q] \in Moving /\ work[q].outcome.source = "workflow" /\ Based(q)
    BY DEF Updates, Moving, TogetherInv
<1>4. work[q].route \in Routes /\ DOMAIN routes = Routes
      /\ \A r \in Routes : DOMAIN routes[r] = {"scenario", "plan"}
    BY <1>3 DEF AllInv, ValidatedInv, Locals, Tables
<1>5. routes'[work[q].route].scenario = work[q].outcome.plan.scenario
    BY <1>2, <1>3, <1>4 DEF UpdateRoute
<1> QED
    BY <1>3, <1>5 DEF Based, Crossed

\* Whatever is served at the same time: a replan appends its event to the scenario the
\* route is in when it writes, unless it was in progress together with another request
\* that may change routes.
THEOREM ReplansAddUp == ConversationsSpec => EventsAddUp
<1>1. AllInv /\ TogetherInv /\ [ConversationsNext]_conversationVars =>
        [\A q \in Requests : Updates(q, "workflow") =>
          LET r == work[q].route IN
          \/ \E tag \in Tags : routes'[r].scenario = Append(routes[r].scenario, tag)
          \/ \E p \in Requests : p # q /\ {p, q} \in met /\ task[p].op \in {"replan", "publish"}]_conversationVars
    BY StepAddsUp
<1> QED
    BY <1>1, TogetherInvariant, PTL DEF ConversationsSpec, EventsAddUp


=============================================================================
