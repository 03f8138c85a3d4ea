---------------------------- MODULE PlanningJobs ----------------------------
(***************************************************************************)
(* Asynchronous planning jobs: the API handlers of PlanningJobService      *)
(* (planning/jobs.py) and the worker process each job is run by            *)
(* (planning/worker.py), sharing one MongoDB document per job.             *)
(*                                                                         *)
(* Every save is a whole-document replace_one(upsert=True) of a record     *)
(* built from a copy read earlier, and nothing locks or versions the       *)
(* document, so each database call is an action of its own and the copies  *)
(* held between two calls are part of the state.                           *)
(***************************************************************************)
EXTENDS Integers, FiniteSets

CONSTANTS
    Jobs,         \* job ids; create_job draws a fresh one (uuid4) per call
    Threads,      \* threads of the API process serving cancel, delete and polls
    Pids,         \* operating system process ids
    NoPid,        \* pid = None
    NoDoc,        \* no document with this _id
    MaxFaults,    \* bound on crashes, restarts and database errors
    QuietCreate   \* create_job ends before anyone else acts on its job

ASSUME NoPidAssumption == NoPid \notin Pids
ASSUME FaultsAssumption == MaxFaults \in Nat
ASSUME SwitchAssumption == QuietCreate \in BOOLEAN

-----------------------------------------------------------------------------
(* The job document: the fields of PlanningJobRecord that control depends  *)
(* on. result and completed_at are only ever tested for being set; error   *)
(* says who wrote it, the worker's handler or the reconciliation.          *)

Status == {"queued", "running", "completed", "failed", "cancelled"}
Active == {"queued", "running"}
Terminal == {"completed", "failed", "cancelled"}
Progress == {0, 1, 2, 8, 18, 100}

Record == [status : Status, progress : Progress, pid : Pids \cup {NoPid},
           result : BOOLEAN, error : {"none", "raised", "gone"},
           completed : BOOLEAN]

ASSUME NoDocAssumption == NoDoc \notin Record

Doc == Record \cup {NoDoc}

Queued == [status |-> "queued", progress |-> 0, pid |-> NoPid,
           result |-> FALSE, error |-> "none", completed |-> FALSE]

\* Mutant: progress + 1 for max(progress, 1).
MutAddOne(p) == p + 1

AtLeast1(p) == IF p = 0 THEN 1 ELSE p

\* Mutant: the second save forgets the pid.
MutStartedNoPid(p) == [Queued EXCEPT !.status = "running", !.progress = 2]

\* create_job's second save: a copy of the queued record, not of the document.
Started(p) == [Queued EXCEPT !.status = "running", !.progress = 2, !.pid = p]

\* The worker's update(): whatever the status was, it is running now.
Advanced(rec, p) == [rec EXCEPT !.status = "running", !.progress = p]

Completed(rec) == [rec EXCEPT !.status = "completed", !.progress = 100,
                              !.result = TRUE, !.completed = TRUE]

Failed(rec, why) == [rec EXCEPT !.status = "failed", !.error = why,
                                !.progress = AtLeast1(@), !.completed = TRUE]

Cancelled(rec) == [rec EXCEPT !.status = "cancelled", !.completed = TRUE,
                              !.progress = AtLeast1(@)]

-----------------------------------------------------------------------------
VARIABLES
    db,         \* db[j]: the document of job j, or NoDoc
    creator,    \* creator[j]: how far create_job(j) has come
    wpc,        \* wpc[j]: the worker process of j: its next call, or its corpse
    wpid,       \* wpid[j]: the pid Popen returned for it
    wjob,       \* wjob[j]: the worker's variable `job`
    wlatest,    \* wlatest[j]: its variable `latest`, between a read and a save
    orphan,     \* workers whose parent, the API process, has restarted
    published,  \* jobs whose run_daily_planning returned: routes are published
    tpc,        \* tpc[t]: the next call of the handler on thread t
    todo,       \* todo[t]: the jobs that handler still has to deal with
    copy,       \* copy[t]: the documents it has read
    deleting,   \* threads whose cancel_job was called by delete_job
    faults      \* faults so far

vars == <<db, creator, wpc, wpid, wjob, wlatest, orphan, published,
          tpc, todo, copy, deleting, faults>>
workerLocals == <<wpid, wjob, wlatest, orphan, published>>
handlerVars == <<tpc, todo, copy, deleting>>

CreatorPc == {"none", "saved", "spawned", "done", "aborted"}
InTry == {"load_read", "load_write", "opt_read", "opt_write", "solve",
          "done_read", "done_write"}
Alive == {"boot", "fail_read", "fail_write"} \cup InTry
WorkerPc == {"none", "zombie", "reaped"} \cup Alive
HandlerPc == {"idle", "reread", "kill", "save", "delete", "reconcile"}

TypeOK ==
    /\ db \in [Jobs -> Doc]
    /\ creator \in [Jobs -> CreatorPc]
    /\ wpc \in [Jobs -> WorkerPc]
    /\ wpid \in [Jobs -> Pids \cup {NoPid}]
    /\ wjob \in [Jobs -> Doc]
    /\ wlatest \in [Jobs -> Doc]
    /\ orphan \in SUBSET Jobs
    /\ published \in SUBSET Jobs
    /\ tpc \in [Threads -> HandlerPc]
    /\ todo \in [Threads -> SUBSET Jobs]
    /\ copy \in [Threads -> [Jobs -> Doc]]
    /\ deleting \in SUBSET Threads
    /\ faults \in 0..MaxFaults

NoCopies == [j \in Jobs |-> NoDoc]

Init ==
    /\ db = NoCopies
    /\ creator = [j \in Jobs |-> "none"]
    /\ wpc = [j \in Jobs |-> "none"]
    /\ wpid = [j \in Jobs |-> NoPid]
    /\ wjob = NoCopies
    /\ wlatest = NoCopies
    /\ orphan = {}
    /\ published = {}
    /\ tpc = [t \in Threads |-> "idle"]
    /\ todo = [t \in Threads |-> {}]
    /\ copy = [t \in Threads |-> NoCopies]
    /\ deleting = {}
    /\ faults = 0

Fault == faults < MaxFaults /\ faults' = faults + 1

\* A process that ends stays a zombie until its parent polls it; a worker that
\* has outlived the API process is a child of init, which reaps it at once.
Corpse(j) == IF j \in orphan THEN "reaped" ELSE "zombie"

\* Mutant: only the API's own children are looked up, as Popen.poll would.
MutChildExists(p) ==
    \E j \in Jobs \ orphan : wpid[j] = p /\ wpc[j] \in Alive \cup {"zombie"}

\* _process_exists: os.kill(pid, 0) succeeds on a zombie.
ProcessExists(p) ==
    \E j \in Jobs : wpid[j] = p /\ wpc[j] \in Alive \cup {"zombie"}

-----------------------------------------------------------------------------
(* create_job: save the queued record, start the worker, save the record   *)
(* again as running.                                                       *)

CreateQueued(j) ==
    /\ creator[j] = "none"
    /\ creator' = [creator EXCEPT ![j] = "saved"]
    /\ db' = [db EXCEPT ![j] = Queued]
    /\ UNCHANGED <<wpc, workerLocals, handlerVars, faults>>

\* subprocess.Popen first polls the abandoned children of earlier calls
\* (subprocess._cleanup), which reaps the zombies among them. The operating
\* system gives the worker any pid that no process has, a zombie being one.
Popen(j) ==
    /\ creator[j] = "saved"
    /\ creator' = [creator EXCEPT ![j] = "spawned"]
    /\ wpc' = [k \in Jobs |-> IF k = j THEN "boot"
                              ELSE IF wpc[k] = "zombie" /\ creator[k] # "spawned"
                                   THEN "reaped" ELSE wpc[k]]
    /\ \E p \in Pids :
         /\ \A k \in Jobs : wpid[k] = p => wpc'[k] = "reaped"
         /\ wpid' = [wpid EXCEPT ![j] = p]
    /\ UNCHANGED <<db, wjob, wlatest, orphan, published, handlerVars, faults>>

\* When create_job returns, the Popen object is collected: a worker that has
\* already ended is reaped, any other is left to a later Popen.
DropPopen(j) ==
    wpc' = [wpc EXCEPT ![j] = IF @ = "zombie" THEN "reaped" ELSE @]

\* Mutant: the Popen object is kept in the service, which all requests share.
MutSharedPopen(j) ==
    /\ creator[j] = "spawned"
    /\ creator' = [creator EXCEPT ![j] = "done"]
    /\ \E k \in Jobs : /\ creator[k] \in {"spawned", "done"}
                       /\ db' = [db EXCEPT ![j] = Started(wpid[k])]
    /\ DropPopen(j)
    /\ UNCHANGED <<workerLocals, handlerVars, faults>>

CreateRunning(j) ==
    /\ creator[j] = "spawned"
    /\ creator' = [creator EXCEPT ![j] = "done"]
    /\ db' = [db EXCEPT ![j] = Started(wpid[j])]
    /\ DropPopen(j)
    /\ UNCHANGED <<workerLocals, handlerVars, faults>>

\* Popen raises, or the second save does: the request fails with a 400 and the
\* queued record stays.
CreateFails(j) ==
    /\ Fault
    /\ creator[j] = "saved" \/ (creator[j] = "spawned" /\ ~QuietCreate)
    /\ creator' = [creator EXCEPT ![j] = "aborted"]
    /\ DropPopen(j)
    /\ UNCHANGED <<db, workerLocals, handlerVars>>

\* With QuietCreate nobody acts on a job whose create_job is still running.
Settled(j) == QuietCreate => creator[j] \in {"done", "aborted"}

-----------------------------------------------------------------------------
(* The worker process (worker.main). Between any two calls it may be       *)
(* killed, crash or be overtaken by a handler.                             *)

Goto(j, pc) == wpc' = [wpc EXCEPT ![j] = pc]

\* repository.get_job(...) or job
Latest(j) == IF db[j] = NoDoc THEN wjob[j] ELSE db[j]

\* The process ends, its memory with it.
Exit(j) ==
    /\ Goto(j, Corpse(j))
    /\ wjob' = [wjob EXCEPT ![j] = NoDoc]
    /\ wlatest' = [wlatest EXCEPT ![j] = NoDoc]

\* The job is read once; when it is gone the process returns 2.
Boot(j) ==
    /\ wpc[j] = "boot"
    /\ Settled(j)
    /\ IF db[j] = NoDoc
       THEN Exit(j)
       ELSE /\ wjob' = [wjob EXCEPT ![j] = db[j]]
            /\ Goto(j, "load_read")
            /\ UNCHANGED wlatest
    /\ UNCHANGED <<db, creator, wpid, orphan, published, handlerVars, faults>>

ReadLatest(j, from, to) ==
    /\ wpc[j] = from
    /\ wlatest' = [wlatest EXCEPT ![j] = Latest(j)]
    /\ Goto(j, to)
    /\ UNCHANGED <<db, creator, wpid, wjob, orphan, published, handlerVars, faults>>

\* update(): the saved record becomes the worker's `job`.
SaveUpdate(j, from, progress, to) ==
    /\ wpc[j] = from
    /\ LET rec == Advanced(wlatest[j], progress) IN
         /\ db' = [db EXCEPT ![j] = rec]
         /\ wjob' = [wjob EXCEPT ![j] = rec]
    /\ wlatest' = [wlatest EXCEPT ![j] = NoDoc]
    /\ Goto(j, to)
    /\ UNCHANGED <<creator, wpid, orphan, published, handlerVars, faults>>

ReportLoading(j) ==
    \/ ReadLatest(j, "load_read", "load_write")
    \/ SaveUpdate(j, "load_write", 8, "opt_read")

ReportOptimizing(j) ==
    \/ ReadLatest(j, "opt_read", "opt_write")
    \/ SaveUpdate(j, "opt_write", 18, "solve")

\* Mutant: an exception of run_daily_planning is swallowed.
MutSolveSwallows(j) ==
    /\ wpc[j] = "solve"
    /\ Goto(j, "done_read")
    /\ published' \in {published, published \cup {j}}
    /\ UNCHANGED <<db, creator, wpid, wjob, wlatest, orphan, handlerVars, faults>>

\* run_daily_planning publishes the routes and returns, or raises.
Solve(j) ==
    /\ wpc[j] = "solve"
    /\ \/ Goto(j, "done_read") /\ published' = published \cup {j}
       \/ Goto(j, "fail_read") /\ UNCHANGED published
    /\ UNCHANGED <<db, creator, wpid, wjob, wlatest, orphan, handlerVars, faults>>

SaveCompleted(j) ==
    /\ wpc[j] = "done_write"
    /\ db' = [db EXCEPT ![j] = Completed(wlatest[j])]
    /\ Exit(j)
    /\ UNCHANGED <<creator, wpid, orphan, published, handlerVars, faults>>

ReportCompleted(j) == ReadLatest(j, "done_read", "done_write") \/ SaveCompleted(j)

\* except BaseException: nothing more is saved when the job reads cancelled.
ReadForFailure(j) ==
    /\ wpc[j] = "fail_read"
    /\ LET latest == Latest(j) IN
         IF latest.status = "cancelled"
         THEN Exit(j)
         ELSE /\ wlatest' = [wlatest EXCEPT ![j] = latest]
              /\ Goto(j, "fail_write")
              /\ UNCHANGED wjob
    /\ UNCHANGED <<db, creator, wpid, orphan, published, handlerVars, faults>>

SaveFailed(j) ==
    /\ wpc[j] = "fail_write"
    /\ db' = [db EXCEPT ![j] = Failed(wlatest[j], "raised")]
    /\ Exit(j)
    /\ UNCHANGED <<creator, wpid, orphan, published, handlerVars, faults>>

ReportFailure(j) == ReadForFailure(j) \/ SaveFailed(j)

\* A call inside the try block raises, before it has taken effect ...
CallRaises(j) ==
    /\ Fault
    /\ wpc[j] \in InTry
    /\ wlatest' = [wlatest EXCEPT ![j] = NoDoc]
    /\ Goto(j, "fail_read")
    /\ UNCHANGED <<db, creator, wpid, wjob, orphan, published, handlerVars>>

\* ... or after: MongoDB applied the save and the connection broke.
SaveRaises(j) ==
    /\ Fault
    /\ \/ /\ wpc[j] = "load_write"
          /\ db' = [db EXCEPT ![j] = Advanced(wlatest[j], 8)]
       \/ /\ wpc[j] = "opt_write"
          /\ db' = [db EXCEPT ![j] = Advanced(wlatest[j], 18)]
       \/ /\ wpc[j] = "done_write"
          /\ db' = [db EXCEPT ![j] = Completed(wlatest[j])]
    /\ wlatest' = [wlatest EXCEPT ![j] = NoDoc]
    /\ Goto(j, "fail_read")
    /\ UNCHANGED <<creator, wpid, wjob, orphan, published, handlerVars>>

\* A native crash of the solver, the OOM killer, or a second exception raised
\* outside the try block.
WorkerCrash(j) ==
    /\ Fault
    /\ wpc[j] \in Alive
    /\ Exit(j)
    /\ UNCHANGED <<db, creator, wpid, orphan, published, handlerVars>>

Worker(j) ==
    \/ Boot(j) \/ ReportLoading(j) \/ ReportOptimizing(j) \/ Solve(j)
    \/ ReportCompleted(j) \/ ReportFailure(j)

-----------------------------------------------------------------------------
(* The other handlers: cancel_job, delete_job, get_job and list_jobs.      *)

Holds(t, pc, S, docs) ==
    /\ tpc' = [tpc EXCEPT ![t] = pc]
    /\ todo' = [todo EXCEPT ![t] = S]
    /\ copy' = [copy EXCEPT ![t] = docs]

Return(t) == Holds(t, "idle", {}, NoCopies) /\ deleting' = deleting \ {t}

Snapshot(S) == [j \in Jobs |-> IF j \in S THEN db[j] ELSE NoDoc]

IsActive(doc) == doc # NoDoc /\ doc.status \in Active
IsTerminal(doc) == doc # NoDoc /\ doc.status \in Terminal

\* Mutant: only a worker that has reported progress is signalled.
MutSignalReported(t, j) ==
    Holds(t, IF db[j].pid = NoPid \/ db[j].progress <= 2 THEN "save" ELSE "kill",
          {j}, Snapshot({j}))

\* cancel_job returns at once when the job is gone or terminal, and has a
\* process to signal only when the document names one.
AfterCancelRead(t, j) ==
    Holds(t, IF db[j].pid = NoPid THEN "save" ELSE "kill", {j}, Snapshot({j}))

CancelRead(t, j) ==
    /\ tpc[t] = "idle"
    /\ Settled(j)
    /\ IsActive(db[j])
    /\ AfterCancelRead(t, j)
    /\ UNCHANGED <<db, creator, wpc, workerLocals, deleting, faults>>

\* Mutant: only a child of this API process is signalled, as terminate() would.
MutKillChild(t, j) ==
    /\ tpc[t] = "kill" /\ j \in todo[t]
    /\ LET hit == {k \in Jobs \ orphan : wpid[k] = copy[t][j].pid /\ wpc[k] \in Alive} IN
         /\ wpc' = [k \in Jobs |-> IF k \in hit THEN Corpse(k) ELSE wpc[k]]
         /\ wjob' = [k \in Jobs |-> IF k \in hit THEN NoDoc ELSE wjob[k]]
         /\ wlatest' = [k \in Jobs |-> IF k \in hit THEN NoDoc ELSE wlatest[k]]
    /\ tpc' = [tpc EXCEPT ![t] = "save"]
    /\ UNCHANGED <<db, creator, wpid, orphan, published, todo, copy, deleting, faults>>

\* os.killpg(job.pid, SIGTERM): the worker leads its process group and has no
\* handler for the signal, so whichever worker owns that pid now dies.
Kill(t, j) ==
    /\ tpc[t] = "kill" /\ j \in todo[t]
    /\ LET hit == {k \in Jobs : wpid[k] = copy[t][j].pid /\ wpc[k] \in Alive} IN
         /\ wpc' = [k \in Jobs |-> IF k \in hit THEN Corpse(k) ELSE wpc[k]]
         /\ wjob' = [k \in Jobs |-> IF k \in hit THEN NoDoc ELSE wjob[k]]
         /\ wlatest' = [k \in Jobs |-> IF k \in hit THEN NoDoc ELSE wlatest[k]]
    /\ tpc' = [tpc EXCEPT ![t] = "save"]
    /\ UNCHANGED <<db, creator, wpid, orphan, published, todo, copy, deleting, faults>>

CancelSave(t, j) ==
    /\ tpc[t] = "save" /\ j \in todo[t]
    /\ db' = [db EXCEPT ![j] = Cancelled(copy[t][j])]
    /\ IF t \in deleting
       THEN Holds(t, "delete", {j}, NoCopies) /\ UNCHANGED deleting
       ELSE Return(t)
    /\ UNCHANGED <<creator, wpc, workerLocals, faults>>

\* Mutant: delete_job removes an active job without cancelling it.
MutDeleteOnly(t, j) ==
    /\ tpc[t] = "idle"
    /\ creator[j] # "none" /\ Settled(j)
    /\ Holds(t, "delete", {j}, NoCopies)
    /\ deleting' = deleting \cup {t}
    /\ UNCHANGED <<db, creator, wpc, workerLocals, faults>>

\* delete_job cancels first when its own read shows an active job; cancel_job
\* then reads the document again.
DeleteRead(t, j) ==
    /\ tpc[t] = "idle"
    /\ creator[j] # "none" /\ Settled(j)
    /\ Holds(t, IF IsActive(db[j]) THEN "reread" ELSE "delete", {j}, NoCopies)
    /\ deleting' = deleting \cup {t}
    /\ UNCHANGED <<db, creator, wpc, workerLocals, faults>>

DeleteCancelRead(t, j) ==
    /\ tpc[t] = "reread" /\ j \in todo[t]
    /\ IF IsActive(db[j])
       THEN AfterCancelRead(t, j)
       ELSE Holds(t, "delete", {j}, NoCopies)
    /\ UNCHANGED <<db, creator, wpc, workerLocals, deleting, faults>>

DeleteDoc(t, j) ==
    /\ tpc[t] = "delete" /\ j \in todo[t]
    /\ db' = [db EXCEPT ![j] = NoDoc]
    /\ Return(t)
    /\ UNCHANGED <<creator, wpc, workerLocals, faults>>

\* Mutants: jobs without a pid are reconciled too; jobs that still read
\* "starting" are not.
MutReconcileNoPid == {j \in Jobs : db[j] # NoDoc /\ db[j].status = "running"}
MutReconcileLate == {j \in Jobs : /\ db[j] # NoDoc
                                  /\ db[j].status = "running"
                                  /\ db[j].pid # NoPid
                                  /\ db[j].progress > 2}

\* get_job reads one document, list_jobs all of them; either then reconciles,
\* one by one, the running ones that name a process.
Reconcilable == {j \in Jobs : /\ db[j] # NoDoc
                              /\ db[j].status = "running"
                              /\ db[j].pid # NoPid}

PollRead(t, S) ==
    /\ tpc[t] = "idle"
    /\ S \cap Reconcilable # {}
    /\ Holds(t, "reconcile", S \cap Reconcilable, Snapshot(S \cap Reconcilable))
    /\ UNCHANGED <<db, creator, wpc, workerLocals, deleting, faults>>

Poll(t) == PollRead(t, Jobs) \/ \E j \in Jobs : PollRead(t, {j})

\* _reconcile_job. The process check and the save it leads to are one step: a
\* process that does not exist stays so until its pid is handed out again.
Reconcile(t, j) ==
    /\ tpc[t] = "reconcile" /\ j \in todo[t]
    /\ LET rec == copy[t][j] IN
         IF ProcessExists(rec.pid) \/ rec.completed
         THEN UNCHANGED db
         ELSE db' = [db EXCEPT ![j] =
                       Failed(rec, IF rec.error = "none" THEN "gone" ELSE rec.error)]
    /\ IF todo[t] = {j}
       THEN Return(t)
       ELSE /\ Holds(t, "reconcile", todo[t] \ {j}, [copy[t] EXCEPT ![j] = NoDoc])
            /\ UNCHANGED deleting
    /\ UNCHANGED <<creator, wpc, workerLocals, faults>>

\* A database call of a handler raises: the request ends where it stands.
HandlerFails(t) ==
    /\ Fault
    /\ tpc[t] # "idle"
    /\ Return(t)
    /\ UNCHANGED <<db, creator, wpc, workerLocals>>

Handler(t) ==
    \E j \in Jobs :
        \/ Kill(t, j) \/ CancelSave(t, j)
        \/ DeleteCancelRead(t, j) \/ DeleteDoc(t, j)
        \/ Reconcile(t, j)

-----------------------------------------------------------------------------
(* Restarts. Requests in flight are lost; documents are not.               *)

DropRequests ==
    /\ creator' = [j \in Jobs |-> IF creator[j] \in {"saved", "spawned"}
                                  THEN "aborted" ELSE creator[j]]
    /\ tpc' = [t \in Threads |-> "idle"]
    /\ todo' = [t \in Threads |-> {}]
    /\ copy' = [t \in Threads |-> NoCopies]
    /\ deleting' = {}

\* The API process alone: workers run in sessions of their own and go on.
ApiRestart ==
    /\ Fault
    /\ QuietCreate => \A j \in Jobs : creator[j] # "spawned"
    /\ DropRequests
    /\ wpc' = [j \in Jobs |-> IF wpc[j] = "zombie" THEN "reaped" ELSE wpc[j]]
    /\ orphan' = orphan \cup {j \in Jobs : wpc[j] \in Alive}
    /\ UNCHANGED <<db, wpid, wjob, wlatest, published>>

\* The container or host: every process is gone.
HostRestart ==
    /\ Fault
    /\ DropRequests
    /\ wpc' = [j \in Jobs |-> IF wpc[j] = "none" THEN "none" ELSE "reaped"]
    /\ wjob' = NoCopies
    /\ wlatest' = NoCopies
    /\ orphan' = {}
    /\ UNCHANGED <<db, wpid, published>>

-----------------------------------------------------------------------------
Next ==
    \/ \E j \in Jobs :
         \/ CreateQueued(j) \/ Popen(j) \/ CreateRunning(j) \/ CreateFails(j)
         \/ Worker(j) \/ CallRaises(j) \/ SaveRaises(j) \/ WorkerCrash(j)
    \/ \E t \in Threads :
         \/ \E j \in Jobs : CancelRead(t, j) \/ DeleteRead(t, j)
         \/ Poll(t) \/ Handler(t) \/ HandlerFails(t)
    \/ ApiRestart
    \/ HostRestart

Spec == Init /\ [][Next]_vars

\* Processes and requests that are under way go on: a worker is a process the
\* operating system schedules and its solver runs under a time limit, and a
\* handler has a thread of its own. The console lists the jobs every 2.5 s
\* while one of them is queued or running (frontend/src/main.jsx, 309-317), so
\* a poll that keeps having something to reconcile gets through.
Fairness ==
    /\ \A j \in Jobs : WF_vars(Popen(j)) /\ WF_vars(CreateRunning(j))
                      /\ WF_vars(Worker(j))
    /\ \A t \in Threads : WF_vars(Handler(t))
    /\ SF_vars(\E t \in Threads : PollRead(t, Jobs))

FairSpec == Spec /\ Fairness

-----------------------------------------------------------------------------
(* Properties                                                              *)

HasStatus(j, status) == db[j] # NoDoc /\ db[j].status = status

\* A job that reads cancelled has no worker: cancel_job signals the process
\* before it saves, and no worker survives to publish routes behind the
\* operator's back. Needs QuietCreate: a job cancelled while its document does
\* not yet name a pid is cancelled in name only.
CancelledMeansStopped ==
    \A j \in Jobs : HasStatus(j, "cancelled") => wpc[j] \notin Alive

\* While a worker is at work, its job's document names its pid: cancel_job can
\* reach it, and a poll can find out that it died. The document is rewritten
\* whole by the creator, the worker and the handlers, each from a copy that may
\* predate the pid. Needs QuietCreate.
RunningIsReachable ==
    \A j \in Jobs :
        wpc[j] \in Alive /\ Settled(j) /\ db[j] # NoDoc => db[j].pid = wpid[j]

\* The signal of a cancellation, sent to a pid read long ago, can meet another
\* job's worker only once the worker of its own job is gone and reaped, as then
\* the pid may be handed out again: no save ever puts one job's pid into the
\* document of another, and a zombie keeps its pid.
CancelSparesOthers ==
    \A t \in Threads : \A j \in todo[t] :
        tpc[t] = "kill" =>
            \A k \in Jobs : wpid[k] = copy[t][j].pid /\ wpc[k] \in Alive
                => k = j \/ wpc[j] = "reaped"

\* API_REFERENCE.md:327 "Request job cancellation.", jobs.py:152 "Optimization
\* cancelled by operator.": the cancellation of a job stops its own worker, not
\* that of a job nobody has cancelled.
CancelHitsOwnWorker ==
    \A t \in Threads : \A j \in todo[t] :
        tpc[t] = "kill" =>
            \A k \in Jobs : wpid[k] = copy[t][j].pid /\ wpc[k] \in Alive => k = j

\* A job that the reconciliation blamed on a lost worker has lost it: no process
\* is left that could still finish the job, in whatever order the poll's copy,
\* the process check and the saves of others came.
GoneMeansReaped ==
    \A j \in Jobs : db[j] # NoDoc /\ db[j].error = "gone" => wpc[j] = "reaped"

\* A completed job carries its result and end time, and its routes have been
\* published; a result is never reported for a planning run that did not return.
CompletedIsReal ==
    \A j \in Jobs : db[j] # NoDoc =>
        /\ db[j].status = "completed" => db[j].result /\ db[j].completed
        /\ db[j].result => j \in published

\* The record of a job lives the life JobLifecycle describes.
Phase(doc) == CASE doc = NoDoc -> "absent"
                [] IsTerminal(doc) -> "ended"
                [] OTHER -> doc.status

Lifecycle == INSTANCE JobLifecycle WITH
    phase <- [j \in Jobs |-> Phase(db[j])],
    made <- [j \in Jobs |-> creator[j] # "none"]

ImplementsLifecycle == Lifecycle!Spec

\* A job whose creation succeeded does not stay active for ever, unless its
\* worker is a zombie nobody has reaped (see DeadIsReported), or the pid of its
\* worker has passed to one that is.
Settles ==
    \A j \in Jobs :
        creator[j] = "done" /\ IsActive(db[j])
            ~> \/ ~IsActive(db[j])
               \/ \E k \in Jobs : wpid[k] = wpid[j] /\ wpc[k] = "zombie"

\* jobs.py:178-179: "Optimization worker exited before completing the job.",
\* "Worker process is no longer running.": a poll reports a worker that ended
\* without saving an outcome.
DeadIsReported ==
    \A j \in Jobs :
        creator[j] = "done" /\ wpc[j] \in {"zombie", "reaped"} ~> ~IsActive(db[j])

\* API_REFERENCE.md:331: "Delete a planning job record.": a deleted record does
\* not come back.
DeletedStaysDeleted ==
    [][\A j \in Jobs : db[j] = NoDoc /\ creator[j] # "none" => db'[j] = NoDoc]_vars

-----------------------------------------------------------------------------
(* Inductive invariants.                                                   *)

\* A document in the collection, in a worker or in a handler. Everything below
\* is said of all of them alike: any of them may be what is saved next.
Holding(j) == {db[j], wjob[j], wlatest[j]} \cup {copy[t][j] : t \in Threads}
Held(j) == Holding(j) \ {NoDoc}

AfterBoot == Alive \ {"boot"}
HasLatest == {"load_write", "opt_write", "done_write", "fail_write"}
HasCopy == {"kill", "save", "reconcile"}

\* The local copies are there when the code uses them.
LocalsOK ==
    /\ \A j \in Jobs :
         /\ wpc[j] \in AfterBoot => wjob[j] # NoDoc
         /\ wpc[j] \in HasLatest => wlatest[j] # NoDoc
    /\ \A t \in Threads : tpc[t] \in HasCopy =>
         \A j \in todo[t] : copy[t][j] # NoDoc

\* Before Popen there is no process and no pid.
PidsOK ==
    \A j \in Jobs :
        /\ creator[j] \in {"none", "saved"} => wpid[j] = NoPid
        /\ wpid[j] = NoPid <=> wpc[j] = "none"

\* A pid is that of one process at a time.
PidsUnique ==
    \A j, k \in Jobs :
        wpid[j] = wpid[k] /\ wpid[j] # NoPid /\ j # k
            => wpc[j] = "reaped" \/ wpc[k] = "reaped"

\* What every copy of a job's document says is true of the job: its identity,
\* its worker's pid and state, and whether its routes are out.
Fits(doc, made, pid, pc, out) ==
    /\ made
    /\ doc.pid # NoPid => doc.pid = pid
    /\ doc.error = "gone" => pc = "reaped"
    /\ doc.status = "completed" => doc.result /\ doc.completed
    /\ doc.result => out

HeldOK ==
    \A j \in Jobs : \A doc \in Held(j) :
        Fits(doc, creator[j] # "none", wpid[j], wpc[j], j \in published)

\* Who is about to look for a process or to signal it has a pid.
ActsOnPid ==
    \A t \in Threads : tpc[t] \in {"kill", "reconcile"} =>
        \A j \in todo[t] : copy[t][j].pid # NoPid

PublishedOK ==
    \A j \in Jobs : wpc[j] \in {"done_read", "done_write"} => j \in published

\* Holds whatever the environment does; implies GoneMeansReaped,
\* CompletedIsReal and CancelSparesOthers.
OpenInv ==
    /\ TypeOK /\ LocalsOK /\ PidsOK /\ PidsUnique
    /\ HeldOK /\ ActsOnPid /\ PublishedOK

\* The parts of QuietInv. While create_job is running only the database has the
\* job's document, as first saved, and the worker has not read it.
EarlyOK ==
    \A j \in Jobs : creator[j] \in {"none", "saved", "spawned"} =>
        /\ db[j] \in {NoDoc, Queued}
        /\ creator[j] # "none" => db[j] = Queued
        /\ wjob[j] = NoDoc /\ wlatest[j] = NoDoc /\ wpc[j] \notin AfterBoot
        /\ \A t \in Threads : j \notin todo[t] /\ copy[t][j] = NoDoc

\* A create_job that failed left no worker.
AbortedOK == \A j \in Jobs : creator[j] = "aborted" => wpc[j] \in {"none", "reaped"}

\* No copy of a document lacks the pid or says too early that the job is
\* cancelled.
FitsQuiet(doc, how, pid, pc) ==
    /\ how = "done" => doc.pid = pid
    /\ doc.status = "cancelled" => pc \notin Alive

QuietHeldOK ==
    \A j \in Jobs : \A doc \in Held(j) : FitsQuiet(doc, creator[j], wpid[j], wpc[j])

\* A cancellation or deletion deals with one job. Who is about to save a
\* cancellation has stopped the worker; who is about to delete a job has seen it
\* end.
StopsFirst ==
    \A t \in Threads : \A j \in todo[t] :
        /\ tpc[t] # "reconcile" => todo[t] = {j}
        /\ tpc[t] = "save" => wpc[j] \notin Alive
        /\ tpc[t] = "delete" => ~IsActive(db[j])

\* Until it reports an outcome, a worker finds its job running.
FindsRunning ==
    \A j \in Jobs :
        creator[j] = "done" /\ wpc[j] \in InTry \cup {"boot"} => HasStatus(j, "running")

\* Holds when QuietCreate does: a cancellation, by whoever and from whichever
\* copy, is saved only once the worker is gone, and neither the worker nor a
\* stale copy makes an ended job active again. Implies CancelledMeansStopped,
\* RunningIsReachable and the steps of JobLifecycle.
QuietInv ==
    /\ OpenInv
    /\ EarlyOK /\ AbortedOK /\ QuietHeldOK /\ StopsFirst /\ FindsRunning

=============================================================================
