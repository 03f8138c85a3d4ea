----------------------------- MODULE JobPolling -----------------------------
(***************************************************************************)
(* The console follows the planning jobs (frontend/src/main.jsx): as long  *)
(* as it shows a running job it asks for the list every 2.5 s, and when    *)
(* the list brings a completed job it loads the routes. Answers arrive in  *)
(* any order. "running" stands for queued too; of the API it needs only    *)
(* what a job comes to (PlanningJobs has the rest).                        *)
(*                                                                         *)
(* Left out: requests that fail, the drivers loaded with the routes, which *)
(* route is shown.                                                         *)
(***************************************************************************)
EXTENDS Integers, FiniteSets

CONSTANTS Jobs, MaxInFlight  \* what the browser has in flight at most (a bound)

ASSUME InFlightAssumption == MaxInFlight \in Nat /\ MaxInFlight >= 2

Slots == 1..MaxInFlight

Absent == "absent"

VARIABLES
    job,      \* at the API: what each job has come to
    shown,    \* planningJobs of the console
    mapped,   \* the jobs whose routes are among the console's routes
    request,  \* request[i]: what is in flight in slot i
    opened,
    missed    \* history: one of the cases in which the console stays behind, and what
              \* follows is left out

pollingVars == <<job, shown, mapped, request, opened, missed>>

Free == [op |-> "free", job |-> Absent, stage |-> "sent", refresh |-> FALSE,
         before |-> {}, answer |-> [j \in Jobs |-> Absent], overtaken |-> FALSE]
Send(op, j) == [Free EXCEPT !.op = op, !.job = j]

Completed(f) == {j \in Jobs : f[j] = "completed"}
InFlight == {i \in Slots : request[i].op # "free"}

PollingInit ==
    /\ job = [j \in Jobs |-> Absent] /\ shown = [j \in Jobs |-> Absent] /\ mapped = {}
    /\ request = [i \in Slots |-> Free]
    /\ opened = FALSE /\ missed = FALSE

\* The page is opened, while jobs are running or not; it loads the list and the routes.
OpenConsole ==
    /\ ~opened /\ opened' = TRUE
    /\ job' \in [Jobs -> {Absent, "running"}]
    /\ request' = [request EXCEPT ![1] = Send("list", Absent), ![2] = Send("routes", Absent)]
    /\ UNCHANGED <<shown, mapped, missed>>

\* The worker of a job ends, its routes published before.
EndJob(j) ==
    /\ ~missed /\ job[j] = "running"
    /\ \E status \in {"completed", "failed"} : job' = [job EXCEPT ![j] = status]
    /\ UNCHANGED <<shown, mapped, request, opened, missed>>

Issue(i, r) ==
    /\ opened /\ ~missed /\ request[i].op = "free" /\ \A k \in 1..(i - 1) : request[k].op # "free"
    /\ request' = [request EXCEPT ![i] = r]
    /\ UNCHANGED <<job, shown, mapped, opened, missed>>

\* The timer is there while a running job is shown.
Poll(i) ==
    /\ \E j \in Jobs : shown[j] = "running"
    /\ Issue(i, [Send("list", Absent) EXCEPT !.before = Completed(shown), !.refresh = TRUE])

\* The user asks for one thing at a time (a bound).
UserMayAct == \A k \in InFlight : request[k].op \in {"list", "routes"}

\* "Refresh jobs"
RefreshJobs(i) == UserMayAct /\ Issue(i, [Send("list", Absent) EXCEPT !.before = Completed(shown)])

StartPlanningJob(i, j) == /\ UserMayAct /\ job[j] = Absent
                          /\ Issue(i, Send("start", j))
CancelPlanningJob(i, j) == UserMayAct /\ shown[j] = "running" /\ Issue(i, Send("cancel", j))
DeletePlanningJob(i, j) == UserMayAct /\ shown[j] # Absent /\ Issue(i, Send("delete", j))

\* What a request makes of its job at the API.
Outcome(r) ==
    CASE r.op = "start" -> "running"
      [] r.op = "cancel" -> IF job[r.job] = "running" THEN "cancelled" ELSE job[r.job]
      [] r.op = "delete" -> "deleted"

\* The answer is read from the jobs as they are then.
Serve(i) ==
    /\ ~missed /\ request[i].op # "free" /\ request[i].stage = "sent"
    /\ LET r == request[i] IN
       job' = IF r.op \in {"list", "routes"} THEN job ELSE [job EXCEPT ![r.job] = Outcome(r)]
    /\ request' = [request EXCEPT ![i].stage = "served", ![i].answer = job']
    /\ UNCHANGED <<shown, mapped, opened, missed>>

Arriving(i, ops) == ~missed /\ request[i].stage = "served" /\ request[i].op \in ops
Close(i) == request' = [request EXCEPT ![i] = Free]

Listed(f) == [j \in Jobs |-> IF f[j] = "deleted" THEN Absent ELSE f[j]]

\* Mutant: the routes are loaded when no job is left running.
MutFollow(i) ==
    IF /\ request[i].refresh /\ Completed(shown') \ request[i].before # {}
       /\ \A j \in Jobs : shown'[j] # "running"
      THEN request' = [request EXCEPT ![i] = Send("routes", Absent)]
      ELSE Close(i)

\* "newly completed" by what was shown when the list was asked for.
Follow(i) ==
    IF request[i].refresh /\ Completed(shown') \ request[i].before # {}
      THEN request' = [request EXCEPT ![i] = Send("routes", Absent)]
      ELSE Close(i)

\* loadPlanningJobs
ListArrives(i) ==
    /\ Arriving(i, {"list"})
    /\ shown' = Listed(request[i].answer)
    /\ Follow(i)
    /\ missed' = \/ missed
                 \/ request[i].overtaken
                 \/ /\ ~request[i].refresh
                    /\ ~(Completed(shown') \subseteq request[i].before)
    /\ UNCHANGED <<job, mapped, opened>>

\* loadRoutes
RoutesArrive(i) ==
    /\ Arriving(i, {"routes"})
    /\ mapped' = Completed(request[i].answer)
    /\ missed' = (missed \/ ~(mapped \subseteq mapped'))
    /\ Close(i)
    /\ UNCHANGED <<job, shown, opened>>

\* Mutant: a cancelled job is shown as cancelled, whatever it had come to.
MutShownAfter(r) ==
    CASE r.op = "delete" -> Absent
      [] r.op = "cancel" -> "cancelled"
      [] OTHER -> r.answer[r.job]

ShownAfter(r) ==
    IF r.op = "delete" \/ (r.op = "cancel" /\ shown[r.job] = Absent) THEN Absent ELSE r.answer[r.job]

\* The answer to the user's own request; what was read before it is overtaken.
AnswerArrives(i) ==
    /\ Arriving(i, {"start", "cancel", "delete"})
    /\ LET r == request[i] IN
       /\ shown' = [shown EXCEPT ![r.job] = ShownAfter(r)]
       /\ missed' = (missed \/ (r.op = "cancel" /\ r.answer[r.job] = "completed"))
    /\ request' = [k \in Slots |-> IF k = i THEN Free
                                     ELSE [request[k] EXCEPT !.overtaken = request[k].stage = "served"]]
    /\ UNCHANGED <<job, mapped, opened>>

Arrival(i) == ListArrives(i) \/ RoutesArrive(i) \/ AnswerArrives(i)

PollingRest ==
    /\ opened /\ (missed \/ (InFlight = {} /\ \A j \in Jobs : shown[j] # "running" /\ job[j] # "running"))
    /\ UNCHANGED pollingVars

PollingNext ==
    \/ OpenConsole
    \/ \E j \in Jobs : EndJob(j)
    \/ \E i \in Slots : Poll(i) \/ RefreshJobs(i) \/ Serve(i) \/ Arrival(i)
    \/ \E i \in Slots, j \in Jobs : \/ StartPlanningJob(i, j) \/ CancelPlanningJob(i, j)
                                    \/ DeletePlanningJob(i, j)
    \/ PollingRest

\* Workers end, the timer fires, and what is in flight arrives.
PollingFairness ==
    /\ \A j \in Jobs : WF_pollingVars(EndJob(j))
    /\ WF_pollingVars(\E i \in Slots : Poll(i))
    /\ \A i \in Slots : WF_pollingVars(Serve(i) \/ Arrival(i))

PollingSpec == PollingInit /\ [][PollingNext]_pollingVars /\ PollingFairness

-----------------------------------------------------------------------------
\* When the console has stopped asking it shows of every job what it came to, unless
\* a list read before one of the user's own changes arrived after its answer: such a
\* list takes a job just started off the screen, or brings a deleted one back, and if
\* it shows no running job the timer goes with it.
SettledShowsTruth ==
    ~missed /\ InFlight = {} /\ (\A j \in Jobs : shown[j] # "running") =>
        \A j \in Jobs : shown[j] = Absent \/ shown[j] = job[j]

\* FRONTEND_UX.md "job status/progress visibility": a job shown as running comes to be
\* shown as it ended, and if it completed its routes are loaded. It is not so for a
\* completion that "Refresh jobs", the first list or the answer to a cancellation
\* brings, nor when an older list of routes arrives last (missed).
\* One job stands for all: nothing in the module tells one from another.
ConsoleCatchesUp ==
    LET j == CHOOSE j \in Jobs : TRUE IN
    (shown[j] = "running" /\ ~missed) ~>
        \/ missed \/ job[j] = "deleted"
        \/ /\ shown[j] = job[j] /\ job[j] # "running"
           /\ job[j] = "completed" => j \in mapped

=============================================================================
