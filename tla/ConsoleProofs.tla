---------------------------- MODULE ConsoleProofs ----------------------------
(***************************************************************************)
(* Machine-checked proofs about what the administrator's console shows, of *)
(* the planning jobs (JobPolling) and of a conversation (ChatView), for    *)
(* every set of jobs and conversations, every number of requests in flight *)
(* and every order of their answers.                                       *)
(***************************************************************************)
EXTENDS JobPolling, ChatView, TLAPS

-----------------------------------------------------------------------------
(* JobPolling: what an answer in flight may say of a job. It may be late,  *)
(* but then it says that the job is running, or does not know it, or a     *)
(* deletion the user asked for is not answered yet.                        *)

Statuses == {Absent, "running", "completed", "failed", "cancelled", "deleted"}
Ops == {"free", "list", "routes", "start", "cancel", "delete"}
UserOps == {"start", "cancel", "delete"}

PollRequest ==
    [op : Ops, job : Jobs \cup {Absent}, stage : {"sent", "served"}, refresh : BOOLEAN,
     before : SUBSET Jobs, answer : [Jobs -> Statuses], overtaken : BOOLEAN]

PollingTypeOK ==
    /\ job \in [Jobs -> Statuses] /\ shown \in [Jobs -> Statuses]
    /\ request \in [Slots -> PollRequest]
    /\ opened \in BOOLEAN /\ missed \in BOOLEAN
    /\ \A i \in Slots : request[i].op \in UserOps => request[i].job \in Jobs

DeleteUnderway(j) ==
    \E k \in Slots : request[k].op = "delete" /\ request[k].job = j /\ request[k].stage = "served"

\* What the console may yet say of job j.
MayShow(s, j) == s \in {Absent, "running", job[j]} \/ DeleteUnderway(j)

NothingYet ==
    ~opened => /\ \A j \in Jobs : shown[j] = Absent
               /\ \A i \in Slots : request[i] = Free

OneAtATime ==
    \A i, k \in Slots : request[i].op \in UserOps /\ request[k].op \in UserOps => i = k

\* A job is started once; a cancellation is answered with what the job came to.
OwnAnswers ==
    \A i \in Slots :
        LET r == request[i] IN
        /\ r.op = "start" /\ r.stage = "sent" => job[r.job] = Absent
        /\ r.op = "start" /\ r.stage = "served" => r.answer[r.job] = "running"
        /\ r.op = "cancel" /\ r.stage = "served" =>
             r.answer[r.job] = job[r.job] /\ job[r.job] # "running"

ListsAreLate ==
    \A i \in Slots :
        request[i].op = "list" /\ request[i].stage = "served" /\ ~request[i].overtaken =>
            \A j \in Jobs : MayShow(request[i].answer[j], j)

PollingInv ==
    /\ PollingTypeOK /\ NothingYet /\ OneAtATime
    /\ ~missed => OwnAnswers /\ ListsAreLate /\ \A j \in Jobs : MayShow(shown[j], j)

-----------------------------------------------------------------------------
(* JobPolling: what each step keeps.                                       *)

LEMMA PollingStarts == PollingInit => PollingInv
<1> SUFFICES ASSUME PollingInit
             PROVE  PollingInv
    OBVIOUS
<1>1. Free \in PollRequest /\ Free.op = "free"
    BY DEF Free, PollRequest, Ops, Statuses, Absent
<1>2. \A i \in Slots : request[i] = Free
    BY DEF PollingInit
<1>3. PollingTypeOK
    BY <1>1, <1>2 DEF PollingInit, PollingTypeOK, UserOps, Statuses, Absent
<1>4. NothingYet /\ OneAtATime /\ OwnAnswers /\ ListsAreLate
    BY <1>1, <1>2 DEF PollingInit, NothingYet, OneAtATime, OwnAnswers, ListsAreLate, UserOps
<1>5. \A j \in Jobs : MayShow(shown[j], j)
    BY DEF PollingInit, MayShow, Absent
<1> QED
    BY <1>3, <1>4, <1>5 DEF PollingInv

\* Of a request for a job no user has asked for, and of none.
LEMMA SentRequest ==
    \A op \in Ops, j \in Jobs \cup {Absent} :
        /\ Send(op, j) \in PollRequest
        /\ Send(op, j).op = op /\ Send(op, j).job = j /\ Send(op, j).stage = "sent"
BY DEF Send, Free, PollRequest, Ops, Statuses, Absent

LEMMA OpenKeepsPolling ==
    ASSUME PollingInv, OpenConsole
    PROVE  PollingInv'
<1> USE DEF PollingInv
<1>1. /\ ~opened /\ opened' = TRUE /\ UNCHANGED <<shown, missed>>
      /\ job' \in [Jobs -> {Absent, "running"}]
      /\ request' = [request EXCEPT ![1] = Send("list", Absent), ![2] = Send("routes", Absent)]
    BY DEF OpenConsole
<1>2. /\ \A j \in Jobs : shown[j] = Absent
      /\ \A i \in Slots : request[i] = Free
    BY <1>1 DEF NothingYet
<1>3. \A i \in Slots : request'[i] \in {Free, Send("list", Absent), Send("routes", Absent)}
    BY <1>1, <1>2 DEF PollingTypeOK
<1>4. \A i \in Slots : request'[i].op \in {"free", "list", "routes"} /\ request'[i].stage = "sent"
    BY <1>3, SentRequest DEF Free, Ops
<1>5. PollingTypeOK'
  <2>1. \A i \in Slots : request'[i] \in PollRequest
      BY <1>1, <1>2, <1>3, SentRequest DEF PollingTypeOK, Ops
  <2>2. request' \in [Slots -> PollRequest]
      BY <1>1, <2>1 DEF PollingTypeOK
  <2>3. job' \in [Jobs -> Statuses]
      BY <1>1 DEF Statuses
  <2> QED
      BY <1>1, <1>4, <2>2, <2>3 DEF PollingTypeOK, UserOps
<1>6. NothingYet' /\ OneAtATime' /\ OwnAnswers' /\ ListsAreLate'
    BY <1>1, <1>4 DEF NothingYet, OneAtATime, OwnAnswers, ListsAreLate, UserOps
<1>7. \A j \in Jobs : MayShow(shown[j], j)'
    BY <1>1, <1>2 DEF MayShow, Absent
<1> QED
    BY <1>5, <1>6, <1>7

LEMMA EndKeepsPolling ==
    ASSUME PollingInv, NEW j \in Jobs, EndJob(j)
    PROVE  PollingInv'
<1> USE DEF PollingInv
<1>1. /\ ~missed /\ job[j] = "running" /\ UNCHANGED <<shown, mapped, request, opened, missed>>
      /\ job' \in [Jobs -> Statuses]
      /\ \A k \in Jobs : job'[k] = job[k] \/ (job[k] = "running" /\ k = j)
    BY DEF EndJob, PollingTypeOK, Statuses
<1>2. PollingTypeOK' /\ NothingYet' /\ OneAtATime'
    BY <1>1 DEF PollingTypeOK, NothingYet, OneAtATime
<1>3. OwnAnswers'
  <2> SUFFICES ASSUME NEW i \in Slots
               PROVE  /\ request[i].op = "start" /\ request[i].stage = "sent" => job'[request[i].job] = Absent
                      /\ request[i].op = "start" /\ request[i].stage = "served" =>
                           request[i].answer[request[i].job] = "running"
                      /\ request[i].op = "cancel" /\ request[i].stage = "served" =>
                           request[i].answer[request[i].job] = job'[request[i].job]
                           /\ job'[request[i].job] # "running"
      BY <1>1 DEF OwnAnswers
  <2>1. request[i].op \in UserOps => request[i].job \in Jobs
      BY DEF PollingTypeOK
  <2> QED
      BY <1>1, <2>1 DEF OwnAnswers, UserOps, Absent
<1>4. \A k \in Jobs : DeleteUnderway(k) => DeleteUnderway(k)'
    BY <1>1 DEF DeleteUnderway
<1>5. ListsAreLate'
    BY <1>1, <1>4 DEF ListsAreLate, MayShow
<1>6. \A k \in Jobs : MayShow(shown[k], k)'
    BY <1>1, <1>4 DEF MayShow
<1> QED
    BY <1>2, <1>3, <1>5, <1>6

\* A request is sent: nothing that is known of the jobs changes.
LEMMA IssueKeepsPolling ==
    ASSUME PollingInv, NEW i \in Slots, NEW r \in PollRequest, Issue(i, r), r.stage = "sent",
           r.op \in UserOps => /\ UserMayAct /\ r.job \in Jobs
                               /\ r.op = "start" => job[r.job] = Absent
    PROVE  PollingInv'
<1> USE DEF PollingInv
<1>1. /\ opened /\ ~missed /\ request[i].op = "free" /\ request' = [request EXCEPT ![i] = r]
      /\ UNCHANGED <<job, shown, mapped, opened, missed>>
    BY DEF Issue
<1>2. /\ request'[i] = r /\ \A k \in Slots : k # i => request'[k] = request[k]
      /\ request' \in [Slots -> PollRequest]
    BY <1>1 DEF PollingTypeOK
<1>3. PollingTypeOK'
    BY <1>1, <1>2 DEF PollingTypeOK
<1>4. NothingYet'
    BY <1>1 DEF NothingYet
<1>5. OneAtATime'
    BY <1>1, <1>2 DEF OneAtATime, UserMayAct, InFlight, UserOps
<1>6. \A k \in Jobs : DeleteUnderway(k) => DeleteUnderway(k)'
    BY <1>1, <1>2 DEF DeleteUnderway
<1>7. OwnAnswers'
    BY <1>1, <1>2 DEF OwnAnswers, UserOps
<1>8. ListsAreLate'
    BY <1>1, <1>2, <1>6 DEF ListsAreLate, MayShow
<1>9. \A k \in Jobs : MayShow(shown[k], k)'
    BY <1>1, <1>6 DEF MayShow
<1> QED
    BY <1>1, <1>3, <1>4, <1>5, <1>7, <1>8, <1>9

LEMMA AsksKeepPolling ==
    ASSUME PollingInv, NEW i \in Slots
    PROVE  /\ Poll(i) => PollingInv'
           /\ RefreshJobs(i) => PollingInv'
           /\ \A j \in Jobs : StartPlanningJob(i, j) \/ CancelPlanningJob(i, j) \/ DeletePlanningJob(i, j) =>
                                PollingInv'
<1>1. Completed(shown) \in SUBSET Jobs
    BY DEF Completed
<1>2. ASSUME Poll(i)
      PROVE  PollingInv'
  <2> DEFINE s == Send("list", Absent)
             r == [s EXCEPT !.before = Completed(shown), !.refresh = TRUE]
  <2>1. s \in PollRequest /\ s.stage = "sent" /\ s.op = "list"
      BY SentRequest DEF Ops
  <2>2. Issue(i, r)
      BY <1>2 DEF Poll
  <2> HIDE DEF s
  <2>3. r \in PollRequest /\ r.stage = "sent" /\ r.op = "list"
      BY <1>1, <2>1 DEF PollRequest
  <2> HIDE DEF r
  <2> QED
      BY <2>2, <2>3, IssueKeepsPolling DEF UserOps
<1>3. ASSUME RefreshJobs(i)
      PROVE  PollingInv'
  <2> DEFINE r == [Send("list", Absent) EXCEPT !.before = Completed(shown)]
  <2>1. r \in PollRequest /\ r.stage = "sent" /\ r.op = "list"
      BY <1>1, SentRequest DEF PollRequest, Ops
  <2>2. Issue(i, r)
      BY <1>3 DEF RefreshJobs
  <2> HIDE DEF r
  <2> QED
      BY <2>1, <2>2, IssueKeepsPolling DEF UserOps
<1>4. ASSUME NEW j \in Jobs, NEW op \in UserOps, UserMayAct, Issue(i, Send(op, j)),
             op = "start" => job[j] = Absent
      PROVE  PollingInv'
  <2> DEFINE r == Send(op, j)
  <2>1. r \in PollRequest /\ r.stage = "sent" /\ r.op = op /\ r.job = j
      BY SentRequest DEF UserOps, Ops
  <2> HIDE DEF r
  <2>2. Issue(i, r)
      BY <1>4 DEF r
  <2> QED
      BY <1>4, <2>1, <2>2, IssueKeepsPolling
<1>5. ASSUME NEW j \in Jobs, StartPlanningJob(i, j) \/ CancelPlanningJob(i, j) \/ DeletePlanningJob(i, j)
      PROVE  PollingInv'
    BY <1>4, <1>5 DEF StartPlanningJob, CancelPlanningJob, DeletePlanningJob, UserOps
<1> QED
    BY <1>2, <1>3, <1>5

\* The API answers: the jobs as they are now, after what was asked.
LEMMA ServeKeepsPolling ==
    ASSUME PollingInv, NEW i \in Slots, Serve(i)
    PROVE  PollingInv'
<1> USE DEF PollingInv
<1> DEFINE r == request[i]
<1>1. /\ ~missed /\ r.op # "free" /\ r.stage = "sent"
      /\ job' = IF r.op \in {"list", "routes"} THEN job ELSE [job EXCEPT ![r.job] = Outcome(r)]
      /\ request' = [request EXCEPT ![i].stage = "served", ![i].answer = job']
      /\ UNCHANGED <<shown, mapped, opened, missed>>
    BY DEF Serve
<1>2. r \in PollRequest /\ (r.op \in UserOps => r.job \in Jobs)
    BY DEF PollingTypeOK
<1>3. r.op \in {"list", "routes"} \/ r.op \in UserOps
    BY <1>1, <1>2 DEF PollRequest, Ops, UserOps
<1>4. job' \in [Jobs -> Statuses] /\ \A j \in Jobs : job'[j] = job[j] \/ (r.op \in UserOps /\ j = r.job)
  <2>1. r.op \in UserOps => Outcome(r) \in Statuses
      BY <1>2 DEF Outcome, UserOps, Statuses, PollingTypeOK
  <2> QED
      BY <1>1, <1>2, <1>3, <2>1 DEF PollingTypeOK, UserOps
<1>5. r.op \in UserOps => job'[r.job] = Outcome(r)
    BY <1>1, <1>2 DEF UserOps, PollingTypeOK
<1>6. /\ request'[i] = [r EXCEPT !.stage = "served", !.answer = job']
      /\ \A k \in Slots : k # i => request'[k] = request[k]
    BY <1>1 DEF PollingTypeOK
<1>7. /\ request'[i] \in PollRequest /\ request'[i].op = r.op /\ request'[i].job = r.job
      /\ request'[i].stage = "served" /\ request'[i].answer = job'
    BY <1>2, <1>4, <1>6 DEF PollRequest
<1>8. PollingTypeOK'
  <2>1. request' \in [Slots -> PollRequest]
      BY <1>1, <1>6, <1>7 DEF PollingTypeOK
  <2> QED
      BY <1>1, <1>2, <1>4, <1>6, <1>7, <2>1 DEF PollingTypeOK
<1>9. NothingYet'
    BY <1>1 DEF NothingYet, Free
<1>10. OneAtATime'
    BY <1>6, <1>7 DEF OneAtATime
<1>11. \A k \in Slots : k # i /\ request[k].op \in UserOps => r.op \notin UserOps
    BY DEF OneAtATime
<1>12. OwnAnswers'
  <2> SUFFICES ASSUME NEW k \in Slots
               PROVE  LET rk == request'[k] IN
                      /\ rk.op = "start" /\ rk.stage = "sent" => job'[rk.job] = Absent
                      /\ rk.op = "start" /\ rk.stage = "served" => rk.answer[rk.job] = "running"
                      /\ rk.op = "cancel" /\ rk.stage = "served" =>
                           rk.answer[rk.job] = job'[rk.job] /\ job'[rk.job] # "running"
      BY DEF OwnAnswers
  <2>1. CASE k = i
      BY <1>5, <1>7, <2>1 DEF UserOps, Outcome
  <2>2. CASE k # i /\ request[k].op \in UserOps
    <3>1. job' = job
        BY <1>1, <1>3, <1>11, <2>2
    <3> QED
        BY <1>1, <1>6, <2>2, <3>1 DEF OwnAnswers
  <2>3. CASE k # i /\ request[k].op \notin UserOps
      BY <1>6, <2>3 DEF UserOps
  <2> QED
      BY <2>1, <2>2, <2>3
<1>13. \A j \in Jobs : DeleteUnderway(j) => DeleteUnderway(j)'
    BY <1>1, <1>6 DEF DeleteUnderway
\* What may be shown may still be: a job that is started, cancelled or deleted.
<1>14. \A j \in Jobs, x \in Statuses : MayShow(x, j) => MayShow(x, j)'
  <2> SUFFICES ASSUME NEW j \in Jobs, NEW x \in Statuses, MayShow(x, j)
               PROVE  MayShow(x, j)'
      OBVIOUS
  <2>1. CASE job'[j] = job[j]
      BY <1>13, <2>1 DEF MayShow
  <2>2. CASE r.op = "start" /\ j = r.job
    <3>1. job[j] = Absent
        BY <1>1, <2>2 DEF OwnAnswers
    <3> QED
        BY <1>13, <3>1 DEF MayShow
  <2>3. CASE r.op = "cancel" /\ j = r.job
    <3>1. job[j] = "running" \/ job'[j] = job[j]
        BY <1>5, <2>3 DEF UserOps, Outcome
    <3> QED
        BY <1>13, <2>1, <3>1 DEF MayShow
  <2>4. CASE r.op = "delete" /\ j = r.job
    <3>1. DeleteUnderway(j)'
        BY <1>7, <2>4 DEF DeleteUnderway
    <3> QED
        BY <3>1 DEF MayShow
  <2> QED
      BY <1>4, <2>1, <2>2, <2>3, <2>4 DEF UserOps
<1>15. ListsAreLate'
  <2> SUFFICES ASSUME NEW k \in Slots, request'[k].op = "list", request'[k].stage = "served",
                      ~request'[k].overtaken, NEW j \in Jobs
               PROVE  request'[k].answer[j] \in {Absent, "running", job'[j]} \/ DeleteUnderway(j)'
      BY DEF ListsAreLate, MayShow
  <2>1. CASE k = i
      BY <1>7, <2>1
  <2>2. CASE k # i
    <3>1. MayShow(request[k].answer[j], j) /\ request[k].answer[j] \in Statuses
        BY <1>1, <1>6, <2>2 DEF ListsAreLate, PollingTypeOK, PollRequest
    <3> QED
        BY <1>6, <1>14, <2>2, <3>1 DEF MayShow
  <2> QED
      BY <2>1, <2>2
<1>16. \A j \in Jobs : MayShow(shown[j], j)'
  <2> SUFFICES ASSUME NEW j \in Jobs
               PROVE  shown[j] \in {Absent, "running", job'[j]} \/ DeleteUnderway(j)'
      BY <1>1 DEF MayShow
  <2>1. MayShow(shown[j], j) /\ shown[j] \in Statuses
      BY <1>1 DEF PollingTypeOK
  <2> QED
      BY <1>14, <2>1 DEF MayShow
<1> QED
    BY <1>8, <1>9, <1>10, <1>12, <1>15, <1>16

\* A slot that is no deletion is freed, or is to load the routes.
LEMMA LoadKeepsPolling ==
    ASSUME PollingInv, NEW i \in Slots, ListArrives(i) \/ RoutesArrive(i)
    PROVE  PollingInv'
<1> USE DEF PollingInv
<1> DEFINE r == request[i]
<1>1. /\ ~missed /\ r.stage = "served" /\ r.op \in {"list", "routes"}
      /\ UNCHANGED <<job, opened>>
      /\ request' = [request EXCEPT ![i] = Free] \/ request' = [request EXCEPT ![i] = Send("routes", Absent)]
    BY DEF ListArrives, RoutesArrive, Arriving, Follow, Close
<1>2. /\ request' \in [Slots -> PollRequest]
      /\ request'[i].op \in {"free", "routes"} /\ request'[i].stage = "sent"
      /\ \A k \in Slots : k # i => request'[k] = request[k]
  <2>1. Free \in PollRequest /\ Free.op = "free" /\ Free.stage = "sent"
      BY DEF Free, PollRequest, Ops, Statuses, Absent
  <2>2. LET s == Send("routes", Absent) IN s \in PollRequest /\ s.op = "routes" /\ s.stage = "sent"
      BY SentRequest DEF Ops
  <2> QED
      BY <1>1, <2>1, <2>2 DEF PollingTypeOK
<1>3. NothingYet'
    BY <1>1 DEF NothingYet, Free
<1>4. OneAtATime'
    BY <1>2 DEF OneAtATime, UserOps
<1>5. OwnAnswers'
    BY <1>1, <1>2 DEF OwnAnswers
<1>6. \A j \in Jobs : DeleteUnderway(j) => DeleteUnderway(j)'
    BY <1>1, <1>2 DEF DeleteUnderway
<1>7. ListsAreLate'
    BY <1>1, <1>2, <1>6 DEF ListsAreLate, MayShow
<1>8. CASE RoutesArrive(i)
  <2>1. shown' = shown /\ missed' \in BOOLEAN
      BY <1>8 DEF RoutesArrive, PollingTypeOK
  <2>2. PollingTypeOK'
      BY <1>1, <1>2, <2>1 DEF PollingTypeOK, UserOps
  <2>3. \A j \in Jobs : MayShow(shown[j], j)'
      BY <1>1, <1>6, <2>1 DEF MayShow
  <2> QED
      BY <1>3, <1>4, <1>5, <1>7, <2>2, <2>3
<1>9. CASE ListArrives(i)
  <2>1. r \in PollRequest /\ r.op = "list"
      BY <1>9 DEF PollingTypeOK, ListArrives, Arriving
  <2>2. /\ shown' = [j \in Jobs |-> IF r.answer[j] = "deleted" THEN Absent ELSE r.answer[j]]
        /\ missed' = \/ missed
                     \/ r.overtaken
                     \/ /\ ~r.refresh
                        /\ ~(Completed(shown') \subseteq r.before)
      BY <1>9 DEF ListArrives, Listed
  <2>3. shown' \in [Jobs -> Statuses] /\ missed' \in BOOLEAN
      BY <2>1, <2>2 DEF PollRequest, Statuses, PollingTypeOK
  <2>4. PollingTypeOK'
      BY <1>1, <1>2, <2>3 DEF PollingTypeOK, UserOps
  <2>5. ~missed' => \A j \in Jobs : MayShow(shown[j], j)'
    <3> SUFFICES ASSUME ~missed', NEW j \in Jobs
                 PROVE  shown'[j] \in {Absent, "running", job[j]} \/ DeleteUnderway(j)'
        BY <1>1 DEF MayShow
    <3>1. ~r.overtaken
        BY <2>2
    <3>2. MayShow(r.answer[j], j)
        BY <1>1, <2>1, <3>1 DEF ListsAreLate
    <3> QED
        BY <1>6, <2>2, <3>2 DEF MayShow
  <2> QED
      BY <1>3, <1>4, <1>5, <1>7, <2>4, <2>5
<1> QED
    BY <1>8, <1>9

\* The user's own answer: what the API made of that job, and lists read before are marked.
LEMMA AnswerKeepsPolling ==
    ASSUME PollingInv, NEW i \in Slots, AnswerArrives(i)
    PROVE  PollingInv'
<1> USE DEF PollingInv
<1> DEFINE r == request[i]
<1>1. /\ ~missed /\ r.stage = "served" /\ r.op \in UserOps
      /\ shown' = [shown EXCEPT ![r.job] = ShownAfter(r)]
      /\ missed' = (missed \/ (r.op = "cancel" /\ r.answer[r.job] = "completed"))
      /\ request' = [k \in Slots |-> IF k = i THEN Free
                        ELSE [request[k] EXCEPT !.overtaken = request[k].stage = "served"]]
      /\ UNCHANGED <<job, mapped, opened>>
    BY DEF AnswerArrives, Arriving, UserOps
<1>2. r \in PollRequest /\ r.job \in Jobs
    BY <1>1 DEF PollingTypeOK
<1>3. request'[i] = Free /\ Free \in PollRequest /\ Free.op = "free"
    BY <1>1 DEF Free, PollRequest, Ops, Statuses, Absent
<1>4. \A k \in Slots : k # i =>
         /\ request'[k] \in PollRequest
         /\ request'[k].op = request[k].op /\ request'[k].job = request[k].job
         /\ request'[k].stage = request[k].stage /\ request'[k].answer = request[k].answer
         /\ request'[k].overtaken = (request[k].stage = "served")
  <2> SUFFICES ASSUME NEW k \in Slots, k # i
               PROVE  /\ request'[k] \in PollRequest
                      /\ request'[k].op = request[k].op /\ request'[k].job = request[k].job
                      /\ request'[k].stage = request[k].stage /\ request'[k].answer = request[k].answer
                      /\ request'[k].overtaken = (request[k].stage = "served")
      OBVIOUS
  <2>1. request'[k] = [request[k] EXCEPT !.overtaken = request[k].stage = "served"]
      BY <1>1
  <2>2. request[k] \in PollRequest /\ (request[k].stage = "served") \in BOOLEAN
      BY DEF PollingTypeOK
  <2> QED
      BY <2>1, <2>2 DEF PollRequest
<1>5. \A k \in Slots : k # i => request[k].op \notin UserOps
    BY <1>1 DEF OneAtATime
<1>6. ShownAfter(r) \in Statuses
    BY <1>2 DEF ShownAfter, PollRequest, Statuses
<1>7. PollingTypeOK'
  <2>1. request' \in [Slots -> PollRequest]
      BY <1>1, <1>3, <1>4
  <2>2. \A k \in Slots : request'[k].op \notin UserOps
      BY <1>3, <1>4, <1>5 DEF UserOps
  <2> QED
      BY <1>1, <1>2, <1>6, <2>1, <2>2 DEF PollingTypeOK
<1>8. NothingYet'
    BY <1>1 DEF NothingYet, Free
<1>9. OneAtATime' /\ OwnAnswers'
    BY <1>3, <1>4, <1>5 DEF OneAtATime, OwnAnswers, UserOps
<1>10. \A j \in Jobs : j # r.job /\ DeleteUnderway(j) => DeleteUnderway(j)'
    BY <1>4 DEF DeleteUnderway
<1>11. ListsAreLate'
  <2>1. \A k \in Slots : request'[k].op = "list" /\ request'[k].stage = "served" => request'[k].overtaken
      BY <1>3, <1>4
  <2> QED
      BY <2>1 DEF ListsAreLate
<1>12. ~missed' => \A j \in Jobs : MayShow(shown[j], j)'
  <2> SUFFICES ASSUME ~missed', NEW j \in Jobs
               PROVE  shown'[j] \in {Absent, "running", job[j]} \/ DeleteUnderway(j)'
      BY <1>1 DEF MayShow
  <2>1. CASE j = r.job
    <3>1. shown'[j] \in {Absent, r.answer[r.job]} /\ (r.op = "delete" => shown'[j] = Absent)
        BY <1>1, <1>2, <2>1 DEF PollingTypeOK, ShownAfter
    <3>2. r.op = "start" => r.answer[r.job] = "running"
        BY <1>1 DEF OwnAnswers
    <3>3. r.op = "cancel" => r.answer[r.job] = job[r.job]
        BY <1>1 DEF OwnAnswers
    <3> QED
        BY <1>1, <2>1, <3>1, <3>2, <3>3 DEF UserOps
  <2>2. CASE j # r.job
    <3>1. shown'[j] = shown[j] /\ MayShow(shown[j], j)
        BY <1>1, <2>2 DEF PollingTypeOK
    <3> QED
        BY <1>10, <2>2, <3>1 DEF MayShow
  <2> QED
      BY <2>1, <2>2
<1> QED
    BY <1>7, <1>8, <1>9, <1>11, <1>12

LEMMA PollingKept == PollingInv /\ [PollingNext]_pollingVars => PollingInv'
<1> SUFFICES ASSUME PollingInv, [PollingNext]_pollingVars
             PROVE  PollingInv'
    OBVIOUS
<1>1. CASE UNCHANGED pollingVars
  <2>1. UNCHANGED <<job, shown, mapped, request, opened, missed>>
      BY <1>1 DEF pollingVars
  <2>2. PollingTypeOK' /\ NothingYet' /\ OneAtATime'
      BY <2>1 DEF PollingInv, PollingTypeOK, NothingYet, OneAtATime
  <2>3. \A j \in Jobs : DeleteUnderway(j) => DeleteUnderway(j)'
      BY <2>1 DEF DeleteUnderway
  <2>4. ~missed => OwnAnswers' /\ ListsAreLate'
      BY <2>1, <2>3 DEF PollingInv, OwnAnswers, ListsAreLate, MayShow
  <2>5. ~missed => \A j \in Jobs : MayShow(shown[j], j)'
      BY <2>1, <2>3 DEF PollingInv, MayShow
  <2> QED
      BY <2>1, <2>2, <2>4, <2>5 DEF PollingInv
<1>2. CASE OpenConsole
    BY <1>2, OpenKeepsPolling
<1>3. ASSUME NEW j \in Jobs, EndJob(j)
      PROVE  PollingInv'
    BY <1>3, EndKeepsPolling
<1>4. ASSUME NEW i \in Slots, Poll(i) \/ RefreshJobs(i) \/ Serve(i) \/ Arrival(i)
      PROVE  PollingInv'
    BY <1>4, AsksKeepPolling, ServeKeepsPolling, LoadKeepsPolling, AnswerKeepsPolling DEF Arrival
<1>5. ASSUME NEW i \in Slots, NEW j \in Jobs,
             StartPlanningJob(i, j) \/ CancelPlanningJob(i, j) \/ DeletePlanningJob(i, j)
      PROVE  PollingInv'
    BY <1>5, AsksKeepPolling
<1>6. CASE PollingRest
    BY <1>1, <1>6 DEF PollingRest
<1> QED
    BY <1>1, <1>2, <1>3, <1>4, <1>5, <1>6 DEF PollingNext

\* A console that has stopped asking shows of every job what it came to, or nothing:
\* what it shows that is not true is "running", for which it asks again, or belongs to
\* a deletion whose answer is on its way. Whatever is in flight is read late, never wrong.
THEOREM SettledIsTrue == PollingSpec => []SettledShowsTruth
<1>1. PollingInit => PollingInv
    BY PollingStarts
<1>2. PollingInv /\ [PollingNext]_pollingVars => PollingInv'
    BY PollingKept
<1>3. PollingInv => SettledShowsTruth
  <2> SUFFICES ASSUME PollingInv, ~missed, InFlight = {}, \A j \in Jobs : shown[j] # "running", NEW j \in Jobs
               PROVE  shown[j] = Absent \/ shown[j] = job[j]
      BY DEF SettledShowsTruth
  <2>1. ~DeleteUnderway(j)
      BY DEF DeleteUnderway, InFlight
  <2>2. MayShow(shown[j], j)
      BY DEF PollingInv
  <2> QED
      BY <2>1, <2>2 DEF MayShow
<1> QED
    BY <1>1, <1>2, <1>3, PTL DEF PollingSpec

-----------------------------------------------------------------------------
(* ChatView: a pane that does not yet show the selected conversation is    *)
(* asked for, unless its last answer came for another.                     *)

Steps == {<<"list">>, <<"messages">>, <<"context">>, <<"runs">>, <<"delete">>,
          <<"replan", "messages", "list">>, <<"messages", "list">>}
Loads == {"messages", "context", "runs", "delete"}

ChatOrNull == Chats \cup {NobodysChat}
ChatRequest == [steps : Steps, chat : ChatOrNull, id : ChatOrNull]

ChatTypeOK ==
    /\ exist \subseteq Chats /\ chatList \subseteq Chats
    /\ conversationId \in ChatOrNull /\ storedId \in ChatOrNull /\ reloaded \in ChatOrNull
    /\ waiting \subseteq ChatRequest
    /\ \A r \in waiting : r.steps[1] \in Loads => r.chat \in Chats

\* What is asked for the selected conversation.
Asked(op) == \E r \in waiting : r.steps[1] = op /\ r.chat = conversationId

\* A pane, what it should show, and whether that is on its way.
Shows(op, pane, value) == op \in strayed \/ pane = value \/ Asked(op)

PanesInv ==
    conversationId \in exist \cup {NobodysChat} =>
        /\ Shows("messages", shownMessages, conversationId)
        /\ Shows("context", contextWindow, ChatOrNone(conversationId))
        /\ Shows("runs", agenticResult, ChatOrNone(conversationId))

\* From a reload until the user acts: the API has what it had, and the stored
\* conversation is restored as soon as the list is there.
ReloadInv ==
    reloaded # NobodysChat =>
        /\ \A r \in waiting : r.steps[1] \notin {"replan", "delete"}
        /\ ~disabled
        /\ chatList \in {{}, exist}
        /\ reloaded \in exist =>
             /\ storedId = reloaded
             /\ \/ conversationId = reloaded
                \/ /\ conversationId = NobodysChat
                   /\ chatList = exist \/ \E r \in waiting : r.steps[1] = "list"

ChatInv == ChatTypeOK /\ ReloadInv /\ PanesInv

-----------------------------------------------------------------------------
(* ChatView: what the user does keeps the invariant.                       *)

LEMMA StepsGoOn ==
    \A steps \in Steps :
        Len(steps) # 1 =>
            /\ Tail(steps) \in Steps
            /\ Tail(steps)[1] \notin {"replan", "delete"}
            /\ Tail(steps)[1] \in Loads => steps[1] = "replan"
<1> SUFFICES ASSUME NEW steps \in Steps, Len(steps) # 1
             PROVE  /\ Tail(steps) \in Steps
                    /\ Tail(steps)[1] \notin {"replan", "delete"}
                    /\ Tail(steps)[1] \in Loads => steps[1] = "replan"
    OBVIOUS
<1>1. CASE steps = <<"replan", "messages", "list">>
  <2>1. Tail(steps) = <<"messages", "list">>
      BY <1>1
  <2> QED
      BY <1>1, <2>1 DEF Steps
<1>2. CASE steps = <<"messages", "list">>
  <2>1. Tail(steps) = <<"list">>
      BY <1>2
  <2> QED
      BY <1>2, <2>1 DEF Steps, Loads
<1>3. \/ \E op \in {"list", "messages", "context", "runs", "delete"} : steps = <<op>>
      \/ steps = <<"replan", "messages", "list">>
      \/ steps = <<"messages", "list">>
    BY DEF Steps
<1>4. ASSUME NEW op, steps = <<op>>
      PROVE  FALSE
    BY <1>4
<1> QED
    BY <1>1, <1>2, <1>3, <1>4

LEMMA PageIs ==
    /\ OpenPage \subseteq ChatRequest
    /\ \A r \in OpenPage : r.steps[1] = "list"
    /\ \E r \in OpenPage : r.steps[1] = "list"
BY DEF OpenPage, Request, ChatRequest, Steps, ChatOrNull

LEMMA ChatStarts == ChatInit => ChatInv
<1> SUFFICES ASSUME ChatInit
             PROVE  ChatInv
    OBVIOUS
<1>1. ChatTypeOK
    BY PageIs, ChatAssumption DEF ChatInit, ChatTypeOK, ChatOrNull, Loads
<1>2. ReloadInv
    BY PageIs DEF ChatInit, ReloadInv
<1>3. PanesInv
    BY DEF ChatInit, PanesInv, Shows, ChatOrNone
<1> QED
    BY <1>1, <1>2, <1>3 DEF ChatInv

\* The request that is answered is done, or it goes on with its next step.
LEMMA GoesOn ==
    ASSUME ChatTypeOK, NEW r \in waiting, Proceed(r), r.steps[1] # "replan"
    PROVE  /\ waiting' \subseteq ChatRequest
           /\ \A s \in waiting' : s.steps[1] \in Loads => s.chat \in Chats
           /\ \A s \in waiting : s # r => s \in waiting'
           /\ \A s \in waiting' : s \in waiting \/ s.steps[1] \notin {"replan", "delete"}
<1> DEFINE next == [r EXCEPT !.steps = Tail(@)]
<1>1. r \in ChatRequest
    BY DEF ChatTypeOK
<1>2. next.steps = Tail(r.steps)
    BY <1>1 DEF ChatRequest
<1>3. Len(r.steps) # 1 =>
        next \in ChatRequest /\ next.steps[1] \notin {"replan", "delete"} /\ next.steps[1] \notin Loads
    BY <1>1, <1>2, StepsGoOn DEF ChatRequest
<1>4. \A s \in waiting' : s \in waiting \/ (Len(r.steps) # 1 /\ s = next)
    BY DEF Proceed
<1>5. \A s \in waiting : s # r => s \in waiting'
    BY DEF Proceed
<1> HIDE DEF next
<1> QED
    BY <1>3, <1>4, <1>5 DEF ChatTypeOK

\* What is asked stays asked when something else is answered.
LEMMA StillAsked ==
    ASSUME NEW r \in waiting, \A s \in waiting : s # r => s \in waiting',
           conversationId' = conversationId, NEW op, r.steps[1] # op, Asked(op)
    PROVE  Asked(op)'
BY DEF Asked

LEMMA SelectKeepsChat ==
    ASSUME ChatInv, NEW c \in Chats, SelectConversation(c), UNCHANGED <<reloaded>> \/ reloaded' = NobodysChat,
           reloaded' # NobodysChat /\ reloaded \in exist => c = reloaded
    PROVE  ChatInv'
<1> USE DEF ChatInv
<1> DEFINE ops == {"messages", "context", "runs"}
           new == {Request(<<op>>, c, NobodysChat) : op \in ops}
<1>1. /\ conversationId' = c /\ storedId' = c /\ disabled' = FALSE
      /\ waiting' = waiting \cup new
      /\ UNCHANGED <<atApi, panes, chatList, strayed>>
    BY DEF SelectConversation
<1>2. \A s \in new : s \in ChatRequest /\ s.chat = c /\ s.steps[1] \in ops
    BY DEF Request, ChatRequest, Steps, ChatOrNull
<1>3. \A op \in ops : \E s \in new : s.steps[1] = op /\ s.chat = c
  <2> SUFFICES ASSUME NEW op \in ops
               PROVE  \E s \in new : s.steps[1] = op /\ s.chat = c
      OBVIOUS
  <2>1. Request(<<op>>, c, NobodysChat) \in new
      OBVIOUS
  <2> QED
      BY <2>1 DEF Request
<1> HIDE DEF new
<1>4. ChatTypeOK'
    BY <1>1, <1>2 DEF ChatTypeOK, ChatOrNull, atApi
<1>5. ReloadInv'
    BY <1>1, <1>2 DEF ReloadInv, atApi
<1>6. \A op \in ops : Asked(op)'
    BY <1>1, <1>3 DEF Asked
<1>7. PanesInv'
    BY <1>6 DEF PanesInv, Shows
<1> QED
    BY <1>4, <1>5, <1>7

LEMMA ClickKeepsChat ==
    ASSUME ChatInv, NEW c \in Chats, ClickConversation(c)
    PROVE  ChatInv'
<1>1. SelectConversation(c) /\ reloaded' = NobodysChat
    BY DEF ClickConversation, UserActs
<1> QED
    BY <1>1, SelectKeepsChat

LEMMA RestoreKeepsChat ==
    ASSUME ChatInv, AutoRestore
    PROVE  ChatInv'
<1> USE DEF ChatInv
<1>1. PICK c \in ToRestore : SelectConversation(c)
    BY DEF AutoRestore
<1>2. RestoreDue /\ UNCHANGED <<reloaded>>
    BY DEF AutoRestore
<1>3. c \in Chats
    BY DEF ToRestore, ChatTypeOK
<1>4. reloaded \in exist => c = reloaded
  <2> SUFFICES ASSUME reloaded \in exist
               PROVE  c = reloaded
      OBVIOUS
  <2>1. reloaded # NobodysChat
      BY ChatAssumption DEF ChatTypeOK
  <2>2. chatList = exist /\ storedId = reloaded
      BY <1>2, <2>1 DEF ReloadInv, RestoreDue
  <2> QED
      BY <2>2 DEF ToRestore
<1> QED
    BY <1>1, <1>2, <1>3, <1>4, SelectKeepsChat

\* Nothing is selected and nothing is shown.
LEMMA ClearedAgrees ==
    ASSUME conversationId' = NobodysChat, ClearPanes
    PROVE  PanesInv'
BY DEF ClearPanes, PanesInv, Shows, ChatOrNone

LEMMA NewKeepsChat ==
    ASSUME ChatInv, StartNewConversation
    PROVE  ChatInv'
<1> USE DEF ChatInv
<1>1. /\ conversationId' = NobodysChat /\ storedId' = NobodysChat /\ reloaded' = NobodysChat
      /\ ClearPanes
      /\ UNCHANGED <<exist, gone, empty, chatList, waiting>>
    BY DEF StartNewConversation, ClearSelection, UserActs, atApi
<1>2. ChatTypeOK'
    BY <1>1 DEF ChatTypeOK, ChatOrNull
<1>3. ReloadInv'
    BY <1>1 DEF ReloadInv
<1> QED
    BY <1>1, <1>2, <1>3, ClearedAgrees

\* The user asks for something more: what is shown and selected stays.
LEMMA AskKeepsChat ==
    ASSUME ChatInv, NEW r \in ChatRequest, waiting' = waiting \cup {r},
           r.steps[1] \in Loads => r.chat \in Chats,
           reloaded' = NobodysChat,
           UNCHANGED <<atApi, selection, panes, chatList, disabled, strayed>>
    PROVE  ChatInv'
<1> USE DEF ChatInv, atApi, selection, panes
<1>1. ChatTypeOK'
    BY DEF ChatTypeOK, ChatOrNull
<1>2. ReloadInv'
    BY DEF ReloadInv
<1>3. \A op : Asked(op) => Asked(op)'
    BY DEF Asked
<1>4. PanesInv'
    BY <1>3 DEF PanesInv, Shows, ChatOrNone
<1> QED
    BY <1>1, <1>2, <1>4

LEMMA ClickDeleteKeepsChat ==
    ASSUME ChatInv, NEW c \in Chats, ClickDelete(c)
    PROVE  ChatInv'
<1> DEFINE r == Request(<<"delete">>, c, conversationId)
<1>1. /\ waiting' = waiting \cup {r} /\ reloaded' = NobodysChat
      /\ UNCHANGED <<atApi, selection, panes, chatList, disabled, strayed>>
    BY DEF ClickDelete, UserActs
<1>2. r \in ChatRequest /\ r.chat = c
    BY DEF Request, ChatRequest, Steps, ChatOrNull, ChatInv, ChatTypeOK
<1> HIDE DEF r
<1> QED
    BY <1>1, <1>2, AskKeepsChat

LEMMA SendKeepsChat ==
    ASSUME ChatInv, SendMessage
    PROVE  ChatInv'
<1> DEFINE r == Request(<<"replan", "messages", "list">>, conversationId, NobodysChat)
<1>1. /\ waiting' = waiting \cup {r} /\ reloaded' = NobodysChat
      /\ UNCHANGED <<atApi, selection, panes, chatList, disabled, strayed>>
    BY DEF SendMessage, UserActs
<1>2. r \in ChatRequest /\ r.steps[1] = "replan"
    BY DEF Request, ChatRequest, Steps, ChatOrNull, ChatInv, ChatTypeOK
<1>3. "replan" \notin Loads
    BY DEF Loads
<1> HIDE DEF r
<1> QED
    BY <1>1, <1>2, <1>3, AskKeepsChat

LEMMA ReloadKeepsChat ==
    ASSUME ChatInv, Reload
    PROVE  ChatInv'
<1> USE DEF ChatInv
<1>1. /\ conversationId' = NobodysChat /\ ClearPanes
      /\ chatList' = {} /\ disabled' = FALSE /\ waiting' = OpenPage /\ reloaded' = storedId
      /\ UNCHANGED <<exist, gone, empty, storedId>>
    BY DEF Reload, atApi
<1>2. ChatTypeOK'
    BY <1>1, PageIs DEF ChatTypeOK, ChatOrNull, Loads
<1>3. ReloadInv'
    BY <1>1, PageIs DEF ReloadInv
<1> QED
    BY <1>1, <1>2, <1>3, ClearedAgrees

LEMMA NothingKeepsChat ==
    ASSUME ChatInv, UNCHANGED chatVars
    PROVE  ChatInv'
<1> USE DEF ChatInv, chatVars, atApi, selection, panes, traces
<1>1. ChatTypeOK'
    BY DEF ChatTypeOK
<1>2. ReloadInv'
    BY DEF ReloadInv
<1>3. \A op : Asked(op) => Asked(op)'
    BY DEF Asked
<1>4. PanesInv'
    BY <1>3 DEF PanesInv, Shows, ChatOrNone
<1> QED
    BY <1>1, <1>2, <1>4

-----------------------------------------------------------------------------
(* ChatView: the answers.                                                  *)

\* Of a request that is no replan and no deletion, which changes nothing at the API.
LEMMA AnswerKeepsReload ==
    ASSUME ChatInv, NEW r \in waiting, Proceed(r), r.steps[1] \notin {"replan", "delete", "list"},
           UNCHANGED <<exist, chatList, conversationId, storedId, disabled, reloaded>>
    PROVE  ReloadInv'
<1>1. /\ \A s \in waiting : s # r => s \in waiting'
      /\ \A s \in waiting' : s \in waiting \/ s.steps[1] \notin {"replan", "delete"}
    BY GoesOn DEF ChatInv
<1> QED
    BY <1>1 DEF ChatInv, ReloadInv

LEMMA PaneKeepsChat ==
    ASSUME ChatInv, NEW r \in waiting, PaneAnswered(r)
    PROVE  ChatInv'
<1> USE DEF ChatInv
<1>1. /\ r.steps[1] \in {"messages", "context", "runs"} /\ Proceed(r)
      /\ UNCHANGED <<exist, gone, empty, conversationId, storedId, chatList, disabled, reloaded>>
      /\ strayed' = IF ~Known(r) THEN strayed
                      ELSE IF r.chat = conversationId THEN strayed \ {r.steps[1]}
                      ELSE strayed \cup {r.steps[1]}
    BY DEF PaneAnswered, Answer, atApi, selection
<1>2. /\ waiting' \subseteq ChatRequest
      /\ \A s \in waiting' : s.steps[1] \in Loads => s.chat \in Chats
      /\ \A s \in waiting : s # r => s \in waiting'
    BY <1>1, GoesOn
<1>3. ChatTypeOK'
    BY <1>1, <1>2 DEF ChatTypeOK
<1>4. ReloadInv'
    BY <1>1, AnswerKeepsReload
<1>5. \A op : r.steps[1] # op /\ Asked(op) => Asked(op)'
    BY <1>1, <1>2, StillAsked
<1>6. \A op : op # r.steps[1] => (op \in strayed' <=> op \in strayed)
    BY <1>1
<1>7. PanesInv'
  <2> SUFFICES ASSUME conversationId \in exist \cup {NobodysChat}
               PROVE  /\ Shows("messages", shownMessages, conversationId)'
                      /\ Shows("context", contextWindow, ChatOrNone(conversationId))'
                      /\ Shows("runs", agenticResult, ChatOrNone(conversationId))'
      BY <1>1 DEF PanesInv
  <2>1. /\ Shows("messages", shownMessages, conversationId)
        /\ Shows("context", contextWindow, ChatOrNone(conversationId))
        /\ Shows("runs", agenticResult, ChatOrNone(conversationId))
      BY DEF PanesInv
  <2>2. ChatOrNone(conversationId)' = ChatOrNone(conversationId)
      BY <1>1 DEF ChatOrNone
\* What is not the pane of the answer stays.
  <2>3. \A op, pane, value : op # r.steps[1] /\ Shows(op, pane, value) =>
                               op \in strayed' \/ pane = value \/ Asked(op)'
      BY <1>5, <1>6 DEF Shows
  <2>4. CASE ~Known(r)
    <3>1. r.chat # conversationId
        BY <1>1, <2>4, ChatAssumption DEF Known, ChatTypeOK, Loads
    <3>2. \A op : Asked(op) => Asked(op)'
        BY <1>1, <1>2, <3>1 DEF Asked
    <3>3. UNCHANGED <<shownMessages, contextWindow, agenticResult, strayed>>
        BY <1>1, <2>4 DEF PaneAnswered
    <3> QED
        BY <1>1, <2>1, <2>2, <3>2, <3>3 DEF Shows
  <2>5. CASE Known(r) /\ r.chat # conversationId
    <3>1. r.steps[1] \in strayed'
        BY <1>1, <2>5
    <3>2. /\ r.steps[1] # "messages" => UNCHANGED shownMessages
          /\ r.steps[1] # "context" => UNCHANGED contextWindow
          /\ r.steps[1] # "runs" => UNCHANGED agenticResult
        BY DEF PaneAnswered, Answer
    <3> QED
        BY <1>1, <2>1, <2>2, <2>3, <3>1, <3>2 DEF Shows
  <2>6. CASE Known(r) /\ r.chat = conversationId
    <3>1. /\ r.steps[1] = "messages" => /\ shownMessages' = conversationId
                                        /\ UNCHANGED <<contextWindow, agenticResult>>
          /\ r.steps[1] = "context" => /\ contextWindow' = ChatOrNone(conversationId)
                                       /\ UNCHANGED <<shownMessages, agenticResult>>
          /\ r.steps[1] = "runs" => /\ agenticResult' = ChatOrNone(conversationId)
                                    /\ UNCHANGED <<shownMessages, contextWindow>>
        BY <2>6 DEF PaneAnswered, Answer
    <3> QED
        BY <1>1, <2>1, <2>2, <2>3, <3>1 DEF Shows
  <2> QED
      BY <2>4, <2>5, <2>6
<1> QED
    BY <1>3, <1>4, <1>7

LEMMA ConversationsKeepChat ==
    ASSUME ChatInv, NEW r \in waiting, ConversationsAnswered(r)
    PROVE  ChatInv'
<1> USE DEF ChatInv
<1>1. /\ r.steps[1] = "list" /\ Proceed(r) /\ chatList' = exist
      /\ UNCHANGED <<exist, gone, empty, conversationId, storedId, disabled, reloaded, strayed,
                     shownMessages, contextWindow, agenticResult>>
    BY DEF ConversationsAnswered, Answer, atApi, selection, panes, traces
<1>2. /\ waiting' \subseteq ChatRequest
      /\ \A s \in waiting' : s.steps[1] \in Loads => s.chat \in Chats
      /\ \A s \in waiting : s # r => s \in waiting'
      /\ \A s \in waiting' : s \in waiting \/ s.steps[1] \notin {"replan", "delete"}
    BY <1>1, GoesOn
<1>3. ChatTypeOK'
    BY <1>1, <1>2 DEF ChatTypeOK
<1>4. ReloadInv'
    BY <1>1, <1>2 DEF ReloadInv
<1>5. \A op : r.steps[1] # op /\ Asked(op) => Asked(op)'
    BY <1>1, <1>2, StillAsked
<1>6. PanesInv'
    BY <1>1, <1>5 DEF PanesInv, Shows, ChatOrNone
<1> QED
    BY <1>3, <1>4, <1>6

LEMMA ReplanKeepsChat ==
    ASSUME ChatInv, NEW r \in waiting, ReplanAnswered(r)
    PROVE  ChatInv'
<1> USE DEF ChatInv
<1>1. r.steps[1] = "replan" /\ UNCHANGED <<shownMessages, chatList, reloaded>>
    BY DEF ReplanAnswered, Answer
<1>2. reloaded = NobodysChat
    BY <1>1 DEF ReloadInv
<1> DEFINE next(c) == [r EXCEPT !.steps = Tail(@), !.chat = c]
<1>3. PICK c \in (IF r.chat = NobodysChat THEN Chats \ (exist \cup gone) ELSE {r.chat} \cap exist) :
         /\ exist' = exist \cup {c} /\ empty' = empty \ {c}
         /\ conversationId' = c /\ storedId' = c
         /\ agenticResult' = c /\ contextWindow' = c
         /\ waiting' = (waiting \ {r}) \cup {next(c)}
    BY DEF ReplanAnswered
<1>4. c \in Chats
    BY <1>3 DEF ChatTypeOK
<1>5. r \in ChatRequest /\ r.steps = <<"replan", "messages", "list">>
  <2>1. r \in ChatRequest /\ r.steps \in Steps
      BY DEF ChatTypeOK, ChatRequest
  <2> QED
      BY <1>1, <2>1 DEF Steps
<1>6. next(c).steps = <<"messages", "list">> /\ next(c).chat = c /\ next(c) \in ChatRequest
  <2>1. next(c).steps = Tail(r.steps) /\ next(c).chat = c
      BY <1>5 DEF ChatRequest
  <2>2. Tail(r.steps) = <<"messages", "list">>
      BY <1>5
  <2>3. Tail(r.steps) \in Steps
      BY <2>2 DEF Steps
  <2>4. c \in ChatOrNull
      BY <1>4 DEF ChatOrNull
  <2>5. next(c) \in ChatRequest
      BY <1>5, <2>3, <2>4 DEF ChatRequest
  <2> QED
      BY <2>1, <2>2, <2>5
<1> HIDE DEF next
<1>7. next(c).steps[1] = "messages"
    BY <1>6
<1>8. ChatTypeOK'
    BY <1>1, <1>3, <1>4, <1>6 DEF ChatTypeOK, ChatOrNull
<1>9. ReloadInv'
    BY <1>1, <1>2 DEF ReloadInv
<1>10. PanesInv'
  <2>1. Asked("messages")'
      BY <1>3, <1>6, <1>7 DEF Asked
  <2> QED
      BY <1>3, <2>1 DEF PanesInv, Shows, ChatOrNone
<1> QED
    BY <1>8, <1>9, <1>10

LEMMA FailureKeepsChat ==
    ASSUME ChatInv, NEW r \in waiting, ReplanFailed(r)
    PROVE  ChatInv'
<1> USE DEF ChatInv
<1>1. /\ r.steps[1] = "replan" /\ waiting' = waiting \ {r}
      /\ UNCHANGED <<exist, gone, empty, conversationId, storedId, chatList, disabled, reloaded, strayed,
                     shownMessages, contextWindow, agenticResult>>
    BY DEF ReplanFailed, Answer, atApi, selection, panes, traces
<1>2. ChatTypeOK'
    BY <1>1 DEF ChatTypeOK
<1>3. ReloadInv'
    BY <1>1 DEF ReloadInv
<1>4. \A op : r.steps[1] # op /\ Asked(op) => Asked(op)'
    BY <1>1, StillAsked
<1>5. PanesInv'
    BY <1>1, <1>4 DEF PanesInv, Shows, ChatOrNone
<1> QED
    BY <1>2, <1>3, <1>5

LEMMA DeletionKeepsChat ==
    ASSUME ChatInv, NEW r \in waiting, DeleteAnswered(r)
    PROVE  ChatInv'
<1> USE DEF ChatInv
<1>1. /\ r.steps[1] = "delete" /\ Proceed(r) /\ exist' = exist \ {r.chat}
      /\ UNCHANGED <<empty, disabled, reloaded>>
    BY DEF DeleteAnswered, Answer
<1>2. /\ waiting' \subseteq ChatRequest
      /\ \A s \in waiting' : s.steps[1] \in Loads => s.chat \in Chats
      /\ \A s \in waiting : s # r => s \in waiting'
    BY <1>1, GoesOn
<1>3. reloaded = NobodysChat
    BY <1>1 DEF ReloadInv
<1>4. ReloadInv'
    BY <1>1, <1>3 DEF ReloadInv
<1>5. \/ /\ r.chat \in exist /\ chatList' = chatList \ {r.chat}
         /\ conversationId' = NobodysChat /\ storedId' = NobodysChat /\ ClearPanes
      \/ /\ chatList' \in {chatList, chatList \ {r.chat}}
         /\ UNCHANGED <<conversationId, storedId, shownMessages, contextWindow, agenticResult, strayed>>
    BY DEF DeleteAnswered, ClearSelection, selection, panes
<1>6. ChatTypeOK'
    BY <1>1, <1>2, <1>5 DEF ChatTypeOK, ChatOrNull
<1>7. CASE conversationId' = NobodysChat /\ ClearPanes
    BY <1>4, <1>6, <1>7, ClearedAgrees
<1>8. CASE UNCHANGED <<conversationId, shownMessages, contextWindow, agenticResult, strayed>>
  <2>1. \A op : r.steps[1] # op /\ Asked(op) => Asked(op)'
      BY <1>2, <1>8, StillAsked
  <2>2. PanesInv'
      BY <1>1, <1>8, <2>1 DEF PanesInv, Shows, ChatOrNone
  <2> QED
      BY <1>4, <1>6, <2>2
<1> QED
    BY <1>5, <1>7, <1>8

LEMMA ChatKept == ChatInv /\ [ChatNext]_chatVars => ChatInv'
<1> SUFFICES ASSUME ChatInv, [ChatNext]_chatVars
             PROVE  ChatInv'
    OBVIOUS
<1>1. CASE UNCHANGED chatVars
    BY <1>1, NothingKeepsChat
<1>2. ASSUME NEW c \in Chats, ClickConversation(c) \/ ClickDelete(c)
      PROVE  ChatInv'
    BY <1>2, ClickKeepsChat, ClickDeleteKeepsChat
<1>3. CASE ChatRest
    BY <1>3, NothingKeepsChat DEF ChatRest
<1>4. CASE AutoRestore \/ StartNewConversation \/ SendMessage \/ Reload
    BY <1>4, RestoreKeepsChat, NewKeepsChat, SendKeepsChat, ReloadKeepsChat
<1>5. ASSUME NEW r \in waiting,
             \/ PaneAnswered(r) \/ ConversationsAnswered(r)
             \/ ReplanAnswered(r) \/ ReplanFailed(r) \/ DeleteAnswered(r)
      PROVE  ChatInv'
    BY <1>5, PaneKeepsChat, ConversationsKeepChat, ReplanKeepsChat, FailureKeepsChat, DeletionKeepsChat
<1> QED
    BY <1>1, <1>2, <1>3, <1>4, <1>5 DEF ChatNext

LEMMA ChatInvariant == ChatSpec => []ChatInv
<1>1. ChatInit => ChatInv
    BY ChatStarts
<1>2. ChatInv /\ [ChatNext]_chatVars => ChatInv'
    BY ChatKept
<1> QED
    BY <1>1, <1>2, PTL DEF ChatSpec

\* When everything is answered, a pane shows the selected conversation, unless its last
\* answer was for one that was not selected any more: what does not agree is asked for,
\* as selectConversation and a replan ask for what they do not set themselves.
THEOREM PanesComeToAgree == ChatSpec => []PanesAgree
<1>1. ChatInv => PanesAgree
    BY DEF ChatInv, PanesInv, Shows, PanesAgree, Settled, Asked
<1> QED
    BY <1>1, ChatInvariant, PTL

\* A reload opens the stored conversation again if it still exists: nothing clears the
\* stored id before the list is there, and the list has the conversation.
THEOREM ReloadComesBack == ChatSpec => []ReloadRestores
<1>1. ChatInv => ReloadRestores
  <2> SUFFICES ASSUME ChatInv, Settled, reloaded \in exist
               PROVE  conversationId = reloaded
      BY DEF ReloadRestores
  <2>1. reloaded # NobodysChat
      BY ChatAssumption DEF ChatInv, ChatTypeOK
  <2>2. /\ ~disabled
        /\ conversationId = reloaded \/ (conversationId = NobodysChat /\ chatList = exist)
      BY <2>1 DEF ChatInv, ReloadInv, Settled
  <2> QED
      BY <2>2 DEF Settled, RestoreDue
<1> QED
    BY <1>1, ChatInvariant, PTL

=============================================================================
