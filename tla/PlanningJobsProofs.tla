------------------------- MODULE PlanningJobsProofs -------------------------
(***************************************************************************)
(* Machine-checked proofs about PlanningJobs, for every set of jobs,       *)
(* threads and pids.                                                       *)
(*                                                                         *)
(* The types come first; they hold whatever the environment does. Then     *)
(* OpenInv, from which follow GoneMeansReaped, CompletedIsReal and         *)
(* CancelSparesOthers, even if pids are handed out again and others act on *)
(* a job while its create_job is running. Last what holds only when nobody *)
(* does: QuietInv, and that the record of a job lives the life of          *)
(* JobLifecycle.                                                           *)
(***************************************************************************)
EXTENDS PlanningJobs, TLAPS

-----------------------------------------------------------------------------
(* What the record updates return.                                         *)

LEMMA StartingRecords ==
    /\ Queued \in Record
    /\ \A p \in Pids \cup {NoPid} : Started(p) \in Record
BY DEF Record, Status, Progress, Queued, Started

LEMMA AdvancedRecord == \A rec \in Record, p \in Progress : Advanced(rec, p) \in Record
BY DEF Record, Status, Advanced

LEMMA CompletedRecord == \A rec \in Record : Completed(rec) \in Record
BY DEF Record, Status, Progress, Completed

LEMMA FailedRecord ==
    \A rec \in Record, why \in {"none", "raised", "gone"} : Failed(rec, why) \in Record
<1>. SUFFICES ASSUME NEW rec \in Record, NEW why \in {"none", "raised", "gone"}
              PROVE  Failed(rec, why) \in Record
  OBVIOUS
<1>1. AtLeast1(rec.progress) \in Progress
  BY DEF AtLeast1, Record, Progress
<1>. QED  BY <1>1 DEF Record, Status, Failed

LEMMA CancelledRecord == \A rec \in Record : Cancelled(rec) \in Record
BY DEF Record, Status, Progress, Cancelled, AtLeast1

LEMMA InitType == Init => TypeOK /\ LocalsOK
BY FaultsAssumption, NoDocAssumption
   DEF Init, TypeOK, LocalsOK, NoCopies, Doc, CreatorPc, WorkerPc, Alive, InTry,
       HandlerPc, AfterBoot, HasLatest, HasCopy

\* The next-state relation with its helpers opened up to single actions.
LEMMA NextActions ==
    ASSUME Next
    PROVE  \/ \E j \in Jobs :
                \/ CreateQueued(j) \/ Popen(j) \/ CreateRunning(j) \/ CreateFails(j)
                \/ Boot(j)
                \/ ReadLatest(j, "load_read", "load_write")
                \/ ReadLatest(j, "opt_read", "opt_write")
                \/ ReadLatest(j, "done_read", "done_write")
                \/ SaveUpdate(j, "load_write", 8, "opt_read")
                \/ SaveUpdate(j, "opt_write", 18, "solve")
                \/ Solve(j) \/ SaveCompleted(j) \/ ReadForFailure(j) \/ SaveFailed(j)
                \/ CallRaises(j) \/ SaveRaises(j) \/ WorkerCrash(j)
           \/ \E t \in Threads : \E j \in Jobs :
                \/ CancelRead(t, j) \/ DeleteRead(t, j)
                \/ Kill(t, j) \/ CancelSave(t, j)
                \/ DeleteCancelRead(t, j) \/ DeleteDoc(t, j) \/ Reconcile(t, j)
           \/ \E t \in Threads : \E S \in SUBSET Jobs : PollRead(t, S)
           \/ \E t \in Threads : HandlerFails(t)
           \/ ApiRestart
           \/ HostRestart
<1>1. ASSUME NEW t \in Threads, Poll(t)
      PROVE  \E S \in SUBSET Jobs : PollRead(t, S)
  BY <1>1 DEF Poll
<1>2. ASSUME NEW j \in Jobs, Worker(j)
      PROVE  \/ Boot(j)
             \/ ReadLatest(j, "load_read", "load_write")
             \/ ReadLatest(j, "opt_read", "opt_write")
             \/ ReadLatest(j, "done_read", "done_write")
             \/ SaveUpdate(j, "load_write", 8, "opt_read")
             \/ SaveUpdate(j, "opt_write", 18, "solve")
             \/ Solve(j) \/ SaveCompleted(j) \/ ReadForFailure(j) \/ SaveFailed(j)
  BY <1>2 DEF Worker, ReportLoading, ReportOptimizing, ReportCompleted, ReportFailure
<1>3. ASSUME NEW t \in Threads, Handler(t)
      PROVE  \E j \in Jobs : \/ Kill(t, j) \/ CancelSave(t, j)
                             \/ DeleteCancelRead(t, j) \/ DeleteDoc(t, j)
                             \/ Reconcile(t, j)
  BY <1>3 DEF Handler
<1>. QED  BY <1>1, <1>2, <1>3 DEF Next

-----------------------------------------------------------------------------
(* Types.                                                                  *)

Typed == TypeOK /\ LocalsOK

LEMMA CreateTyped ==
    ASSUME Typed, NEW j \in Jobs,
           CreateQueued(j) \/ Popen(j) \/ CreateRunning(j) \/ CreateFails(j)
    PROVE  Typed'
<1>. USE FaultsAssumption DEF Typed, TypeOK, LocalsOK
<1>1. CASE CreateQueued(j)
  BY <1>1, StartingRecords DEF Doc, CreateQueued, CreatorPc, workerLocals, handlerVars
<1>2. CASE Popen(j)
  BY <1>2 DEF Popen, CreatorPc, WorkerPc, Alive, InTry, AfterBoot, HasLatest, handlerVars
<1>3. CASE CreateRunning(j)
  BY <1>3, StartingRecords DEF Doc, CreateRunning, DropPopen, CreatorPc, WorkerPc, Alive, InTry, AfterBoot,
              HasLatest, workerLocals, handlerVars
<1>4. CASE CreateFails(j)
  BY <1>4 DEF CreateFails, Fault, DropPopen, CreatorPc, WorkerPc, Alive, InTry, AfterBoot,
              HasLatest, workerLocals, handlerVars
<1>. QED  BY <1>1, <1>2, <1>3, <1>4

LEMMA LatestIsRecord ==
    ASSUME Typed, NEW j \in Jobs, wpc[j] \in AfterBoot
    PROVE  Latest(j) \in Record
BY DEF Typed, TypeOK, LocalsOK, Latest, Doc

LEMMA WorkerTyped ==
    ASSUME Typed, NEW j \in Jobs,
           \/ Boot(j)
           \/ ReadLatest(j, "load_read", "load_write")
           \/ ReadLatest(j, "opt_read", "opt_write")
           \/ ReadLatest(j, "done_read", "done_write")
           \/ SaveUpdate(j, "load_write", 8, "opt_read")
           \/ SaveUpdate(j, "opt_write", 18, "solve")
           \/ Solve(j) \/ SaveCompleted(j) \/ ReadForFailure(j) \/ SaveFailed(j)
           \/ CallRaises(j) \/ SaveRaises(j) \/ WorkerCrash(j)
    PROVE  Typed'
<1>. USE FaultsAssumption, NoDocAssumption
     DEF Typed, TypeOK, LocalsOK, Doc, WorkerPc, Alive, InTry, AfterBoot, HasLatest,
         Goto, Exit, Corpse, handlerVars
<1>1. CASE Boot(j)
  <2>1. CASE db[j] = NoDoc
    BY SMTT(60), <1>1, <2>1 DEF Boot
  <2>2. CASE db[j] # NoDoc
    BY <1>1, <2>2 DEF Boot
  <2>. QED  BY <2>1, <2>2
<1>2. CASE \/ ReadLatest(j, "load_read", "load_write")
           \/ ReadLatest(j, "opt_read", "opt_write")
           \/ ReadLatest(j, "done_read", "done_write")
  <2>1. Latest(j) \in Record
    BY <1>2, LatestIsRecord DEF ReadLatest
  <2>. QED  BY SMTT(60), <1>2, <2>1 DEF ReadLatest
<1>3. CASE \/ SaveUpdate(j, "load_write", 8, "opt_read")
           \/ SaveUpdate(j, "opt_write", 18, "solve")
  <2>1. wlatest[j] \in Record
    BY <1>3 DEF SaveUpdate
  <2>2. Advanced(wlatest[j], 8) \in Record /\ Advanced(wlatest[j], 18) \in Record
    BY <2>1, AdvancedRecord DEF Progress
  <2>. QED  BY SMTT(60), <1>3, <2>2 DEF SaveUpdate
<1>4. CASE Solve(j)
  BY <1>4 DEF Solve
<1>5. CASE SaveCompleted(j)
  BY <1>5, CompletedRecord DEF SaveCompleted
<1>6. CASE ReadForFailure(j)
  <2>1. Latest(j) \in Record
    BY <1>6, LatestIsRecord DEF ReadForFailure
  <2>2. CASE Latest(j).status = "cancelled"
    BY <1>6, <2>2 DEF ReadForFailure
  <2>3. CASE Latest(j).status # "cancelled"
    BY <1>6, <2>1, <2>3 DEF ReadForFailure
  <2>. QED  BY <2>2, <2>3
<1>7. CASE SaveFailed(j)
  BY <1>7, FailedRecord DEF SaveFailed
<1>8. CASE CallRaises(j)
  BY <1>8 DEF CallRaises, Fault
<1>9. CASE SaveRaises(j)
  BY <1>9, AdvancedRecord, CompletedRecord DEF SaveRaises, Fault, Progress
<1>10. CASE WorkerCrash(j)
  BY <1>10 DEF WorkerCrash, Fault
<1>. QED  BY <1>1, <1>2, <1>3, <1>4, <1>5, <1>6, <1>7, <1>8, <1>9, <1>10

LEMMA SnapshotTyped ==
    ASSUME Typed, NEW S \in SUBSET Jobs
    PROVE  /\ Snapshot(S) \in [Jobs -> Doc]
           /\ \A j \in S : Snapshot(S)[j] = db[j]
           /\ NoCopies \in [Jobs -> Doc]
BY DEF Typed, TypeOK, Snapshot, NoCopies, Doc

\* A handler that leaves the database and the workers alone, or saves a record.
LEMMA HoldsTyped ==
    ASSUME Typed, NEW t \in Threads, NEW pc \in HandlerPc, NEW S \in SUBSET Jobs,
           NEW docs \in [Jobs -> Doc], Holds(t, pc, S, docs),
           pc \in HasCopy => \A j \in S : docs[j] # NoDoc,
           db' \in [Jobs -> Doc], deleting' \in SUBSET Threads, faults' \in 0..MaxFaults,
           UNCHANGED <<creator, wpc, workerLocals>>
    PROVE  Typed'
<1>1. TypeOK'
  BY DEF Typed, TypeOK, Holds, workerLocals
<1>2. ASSUME NEW t2 \in Threads, tpc'[t2] \in HasCopy, NEW j \in todo'[t2]
      PROVE  copy'[t2][j] # NoDoc
  BY <1>2 DEF Typed, TypeOK, LocalsOK, Holds
<1>3. LocalsOK'
  BY <1>2 DEF Typed, LocalsOK, workerLocals
<1>. QED  BY <1>1, <1>3 DEF Typed

LEMMA ReturnTyped ==
    ASSUME Typed, NEW t \in Threads, Return(t),
           db' \in [Jobs -> Doc], faults' \in 0..MaxFaults,
           UNCHANGED <<creator, wpc, workerLocals>>
    PROVE  Typed'
<1>1. deleting' \in SUBSET Threads
  BY DEF Typed, TypeOK, Return
<1>. QED  BY <1>1, HoldsTyped, SnapshotTyped DEF Return, HandlerPc, HasCopy

\* Starting a cancellation: the document just read is an active job's.
LEMMA CancelReadTyped ==
    ASSUME Typed, NEW t \in Threads, NEW j \in Jobs, IsActive(db[j]),
           AfterCancelRead(t, j),
           UNCHANGED <<db, creator, wpc, workerLocals, deleting, faults>>
    PROVE  Typed'
<1>1. Snapshot({j}) \in [Jobs -> Doc] /\ \A k \in {j} : Snapshot({j})[k] # NoDoc
  BY SnapshotTyped DEF IsActive
<1>2. PICK pc \in {"save", "kill"} : Holds(t, pc, {j}, Snapshot({j}))
  BY DEF AfterCancelRead
<1>3. db' \in [Jobs -> Doc] /\ deleting' \in SUBSET Threads /\ faults' \in 0..MaxFaults
  BY DEF Typed, TypeOK
<1>. QED  BY <1>1, <1>2, <1>3, HoldsTyped DEF HandlerPc

LEMMA CancelTyped ==
    ASSUME Typed, NEW t \in Threads, NEW j \in Jobs,
           CancelRead(t, j) \/ Kill(t, j) \/ CancelSave(t, j)
    PROVE  Typed'
<1>1. CASE CancelRead(t, j)
  BY <1>1, CancelReadTyped DEF CancelRead
<1>2. CASE Kill(t, j)
  BY <1>2, SMTT(60) DEF Kill, Typed, TypeOK, LocalsOK, Corpse, WorkerPc, HandlerPc, Doc,
                  AfterBoot, HasLatest, HasCopy, Alive, InTry
<1>3. CASE CancelSave(t, j)
  <2>1. copy[t][j] \in Record
    BY <1>3 DEF CancelSave, Typed, TypeOK, LocalsOK, HasCopy, Doc
  <2>2. db' \in [Jobs -> Doc]
    BY <1>3, <2>1, CancelledRecord DEF CancelSave, Typed, TypeOK, Doc
  <2>3. CASE t \in deleting
    <3>1. Holds(t, "delete", {j}, NoCopies) /\ UNCHANGED deleting
      BY <1>3, <2>3 DEF CancelSave
    <3>2. deleting' \in SUBSET Threads /\ faults' \in 0..MaxFaults
      BY <1>3, <3>1 DEF CancelSave, Typed, TypeOK
    <3>3. UNCHANGED <<creator, wpc, workerLocals>>
      BY <1>3 DEF CancelSave
    <3>4. NoCopies \in [Jobs -> Doc]
      BY SnapshotTyped
    <3>5. "delete" \in HandlerPc /\ "delete" \notin HasCopy
      BY DEF HandlerPc, HasCopy
    <3>. QED  BY <2>2, <3>1, <3>2, <3>3, <3>4, <3>5, HoldsTyped
  <2>4. CASE t \notin deleting
    BY <1>3, <2>2, <2>4, ReturnTyped DEF CancelSave, Typed, TypeOK
  <2>. QED  BY <2>3, <2>4
<1>. QED  BY <1>1, <1>2, <1>3

LEMMA DeleteTyped ==
    ASSUME Typed, NEW t \in Threads, NEW j \in Jobs,
           DeleteRead(t, j) \/ DeleteCancelRead(t, j) \/ DeleteDoc(t, j)
    PROVE  Typed'
<1>0. db \in [Jobs -> Doc] /\ deleting \in SUBSET Threads /\ faults \in 0..MaxFaults
      /\ NoCopies \in [Jobs -> Doc]
  BY SnapshotTyped DEF Typed, TypeOK
<1>1. CASE DeleteRead(t, j)
  <2>1. PICK pc \in {"reread", "delete"} : Holds(t, pc, {j}, NoCopies)
    BY <1>1 DEF DeleteRead
  <2>. QED  BY <1>0, <1>1, <2>1, HoldsTyped DEF DeleteRead, HandlerPc, HasCopy
<1>2. CASE DeleteCancelRead(t, j)
  <2>1. CASE IsActive(db[j])
    BY <1>2, <2>1, CancelReadTyped DEF DeleteCancelRead
  <2>2. CASE ~IsActive(db[j])
    BY <1>0, <1>2, <2>2, HoldsTyped DEF DeleteCancelRead, HandlerPc, HasCopy
  <2>. QED  BY <2>1, <2>2
<1>3. CASE DeleteDoc(t, j)
  BY <1>0, <1>3, ReturnTyped DEF DeleteDoc, Doc
<1>. QED  BY <1>1, <1>2, <1>3

LEMMA PollTyped ==
    ASSUME Typed, NEW t \in Threads,
           \/ \E S \in SUBSET Jobs : PollRead(t, S)
           \/ \E j \in Jobs : Reconcile(t, j)
           \/ HandlerFails(t)
    PROVE  Typed'
<1>0. db \in [Jobs -> Doc] /\ deleting \in SUBSET Threads /\ faults \in 0..MaxFaults
  BY DEF Typed, TypeOK
<1>1. ASSUME NEW S \in SUBSET Jobs, PollRead(t, S)
      PROVE  Typed'
  <2>. DEFINE R == S \cap Reconcilable
  <2>1. Snapshot(R) \in [Jobs -> Doc] /\ \A k \in R : Snapshot(R)[k] # NoDoc
    BY SnapshotTyped DEF Reconcilable
  <2>. QED  BY <1>0, <1>1, <2>1, HoldsTyped DEF PollRead, HandlerPc
<1>2. ASSUME NEW j \in Jobs, Reconcile(t, j)
      PROVE  Typed'
  <2>1. copy[t] \in [Jobs -> Doc] /\ \A k \in todo[t] : copy[t][k] \in Record
    BY <1>2 DEF Reconcile, Typed, TypeOK, LocalsOK, HasCopy, Doc
  <2>2. copy[t][j] \in Record /\ copy[t][j].error \in {"none", "raised", "gone"}
    BY <1>2, <2>1 DEF Reconcile, Record
  <2>3. db' \in [Jobs -> Doc]
    BY <1>0, <1>2, <2>2, FailedRecord DEF Reconcile, Doc
  <2>4. CASE todo[t] = {j}
    BY <1>0, <1>2, <2>3, <2>4, ReturnTyped DEF Reconcile
  <2>5. CASE todo[t] # {j}
    <3>. DEFINE docs == [copy[t] EXCEPT ![j] = NoDoc]
    <3>1. docs \in [Jobs -> Doc] /\ \A k \in todo[t] \ {j} : docs[k] # NoDoc
      BY <2>1, NoDocAssumption DEF Doc
    <3>2. todo[t] \ {j} \in SUBSET Jobs
      BY DEF Typed, TypeOK
    <3>. QED  BY <1>0, <1>2, <2>3, <2>5, <3>1, <3>2, HoldsTyped DEF Reconcile, HandlerPc
  <2>. QED  BY <2>4, <2>5
<1>3. CASE HandlerFails(t)
  BY <1>0, <1>3, ReturnTyped, FaultsAssumption DEF HandlerFails, Fault
<1>. QED  BY <1>1, <1>2, <1>3

LEMMA RestartTyped ==
    ASSUME Typed, ApiRestart \/ HostRestart
    PROVE  Typed'
<1>1. CASE ApiRestart
  BY <1>1, FaultsAssumption, SMTT(60)
     DEF ApiRestart, DropRequests, Fault, NoCopies, Typed, TypeOK, LocalsOK, Doc,
         CreatorPc, WorkerPc, Alive, InTry, AfterBoot, HasLatest, HandlerPc, HasCopy
<1>2. CASE HostRestart
  BY <1>2, FaultsAssumption, SMTT(60)
     DEF HostRestart, DropRequests, Fault, NoCopies, Typed, TypeOK, LocalsOK, Doc,
         CreatorPc, WorkerPc, Alive, InTry, AfterBoot, HasLatest, HandlerPc, HasCopy
<1>. QED  BY <1>1, <1>2

LEMMA StutterTyped == Typed /\ UNCHANGED vars => Typed'
BY DEF Typed, TypeOK, LocalsOK, vars

LEMMA NextTyped == Typed /\ [Next]_vars => Typed'
BY NextActions, CreateTyped, WorkerTyped, CancelTyped, DeleteTyped, PollTyped,
   RestartTyped, StutterTyped

\* Every variable keeps its type, and no handler or worker ever uses a copy of a
\* document it does not have (worker.py:39, 61, 76; jobs.py:140-156, 166-182).
THEOREM TypeCorrect == Spec => []TypeOK
<1>1. Init => Typed
  BY InitType DEF Typed
<1>2. Typed => TypeOK
  BY DEF Typed
<1>. QED  BY <1>1, <1>2, NextTyped, PTL DEF Spec

-----------------------------------------------------------------------------
(***************************************************************************)
(* OpenInv is an invariant of PlanningJobs, whatever the environment does: *)
(* pids may be handed out again and others may act on a job while its      *)
(* create_job is running. GoneMeansReaped and CompletedIsReal follow.      *)
(*                                                                         *)
(* The argument: any copy of a document may be what is saved next, so the  *)
(* invariant is about all of them (Fits). A step keeps what the old copies *)
(* say true (Grows), and each record it makes fits when the one it was     *)
(* made from does.                                                         *)
(***************************************************************************)

-----------------------------------------------------------------------------
(* Fits, of the records the code makes.                                    *)

\* A saved record is made from a copy by changing what Fits allows to change.
LEMMA FitsSaved ==
    ASSUME NEW rec \in Record, NEW made, NEW pid, NEW pc, NEW out,
           Fits(rec, made, pid, pc, out)
    PROVE  /\ \A p \in Progress : Fits(Advanced(rec, p), made, pid, pc, out)
           /\ Fits(Failed(rec, "raised"), made, pid, pc, out)
           /\ Fits(Cancelled(rec), made, pid, pc, out)
           /\ out => Fits(Completed(rec), made, pid, pc, out)
           /\ pc = "reaped" => \A why \in {"none", "raised", "gone"} :
                                   Fits(Failed(rec, why), made, pid, pc, out)
BY DEF Fits, Record, Advanced, Failed, Cancelled, Completed

-----------------------------------------------------------------------------
(* What no step takes back.                                                *)

Grows ==
    \A j \in Jobs :
        /\ creator[j] # "none" => creator'[j] # "none"
        /\ wpid[j] # NoPid => wpid'[j] = wpid[j]
        /\ wpc[j] = "reaped" => wpc'[j] = "reaped"
        /\ j \in published => j \in published'

LEMMA CreateGrows ==
    ASSUME Typed, PidsOK, NEW j \in Jobs,
           CreateQueued(j) \/ Popen(j) \/ CreateRunning(j) \/ CreateFails(j)
    PROVE  Grows
<1>. USE DEF Typed, TypeOK, Grows
<1>1. CASE CreateQueued(j)
  BY <1>1 DEF CreateQueued, workerLocals
<1>2. CASE Popen(j)
  BY <1>2 DEF Popen, PidsOK
<1>3. CASE CreateRunning(j)
  BY <1>3 DEF CreateRunning, DropPopen, workerLocals
<1>4. CASE CreateFails(j)
  BY <1>4 DEF CreateFails, DropPopen, workerLocals
<1>. QED  BY <1>1, <1>2, <1>3, <1>4

\* A worker's step moves its own pc, which is not that of a reaped process.
LEMMA WorkerGrows ==
    ASSUME Typed, NEW j \in Jobs,
           \/ Boot(j)
           \/ ReadLatest(j, "load_read", "load_write")
           \/ ReadLatest(j, "opt_read", "opt_write")
           \/ ReadLatest(j, "done_read", "done_write")
           \/ SaveUpdate(j, "load_write", 8, "opt_read")
           \/ SaveUpdate(j, "opt_write", 18, "solve")
           \/ Solve(j) \/ SaveCompleted(j) \/ ReadForFailure(j) \/ SaveFailed(j)
           \/ CallRaises(j) \/ SaveRaises(j) \/ WorkerCrash(j)
    PROVE  /\ UNCHANGED <<creator, wpid, tpc, todo, copy>>
           /\ published \subseteq published'
           /\ wpc[j] \in Alive
           /\ \E pc \in WorkerPc \ {"none"} : wpc' = [wpc EXCEPT ![j] = pc]
<1>1. CASE Boot(j)
  BY <1>1 DEF Boot, Goto, Exit, Corpse, WorkerPc, Alive, InTry, handlerVars
<1>2. CASE \/ ReadLatest(j, "load_read", "load_write")
           \/ ReadLatest(j, "opt_read", "opt_write")
           \/ ReadLatest(j, "done_read", "done_write")
  BY <1>2 DEF ReadLatest, Goto, WorkerPc, Alive, InTry, handlerVars
<1>3. CASE \/ SaveUpdate(j, "load_write", 8, "opt_read")
           \/ SaveUpdate(j, "opt_write", 18, "solve")
  BY <1>3 DEF SaveUpdate, Goto, WorkerPc, Alive, InTry, handlerVars
<1>4. CASE Solve(j)
  BY <1>4 DEF Solve, Goto, WorkerPc, Alive, InTry, handlerVars
<1>5. CASE SaveCompleted(j)
  BY <1>5 DEF SaveCompleted, Exit, Goto, Corpse, WorkerPc, Alive, InTry, handlerVars
<1>6. CASE ReadForFailure(j)
  BY <1>6 DEF ReadForFailure, Exit, Goto, Corpse, WorkerPc, Alive, InTry, handlerVars
<1>7. CASE SaveFailed(j)
  BY <1>7 DEF SaveFailed, Exit, Goto, Corpse, WorkerPc, Alive, InTry, handlerVars
<1>8. CASE CallRaises(j) \/ SaveRaises(j)
  BY <1>8 DEF CallRaises, SaveRaises, Goto, WorkerPc, Alive, InTry, handlerVars
<1>9. CASE WorkerCrash(j)
  BY <1>9 DEF WorkerCrash, Exit, Goto, Corpse, WorkerPc, Alive, InTry, handlerVars
<1>. QED  BY <1>1, <1>2, <1>3, <1>4, <1>5, <1>6, <1>7, <1>8, <1>9

-----------------------------------------------------------------------------
(* The copies of a document after a step.                                  *)

FitsNow(j, doc) == Fits(doc, creator[j] # "none", wpid[j], wpc[j], j \in published)
FitsNext(j, doc) ==
    Fits(doc, creator'[j] # "none", wpid'[j], wpc'[j], j \in published')

Old(j, doc) == doc = NoDoc \/ doc \in Holding(j)

LEMMA HoldingMembers ==
    ASSUME NEW j \in Jobs
    PROVE  /\ Old(j, db[j]) /\ Old(j, wjob[j]) /\ Old(j, wlatest[j])
           /\ \A t \in Threads : Old(j, copy[t][j])
           /\ Old(j, Latest(j))
BY DEF Old, Holding, Latest

\* If every copy held after a step was held before it or fits, all of them fit.
LEMMA HeldFits ==
    ASSUME HeldOK, Grows,
           \A j \in Jobs :
               /\ Old(j, db'[j]) \/ FitsNext(j, db'[j])
               /\ Old(j, wjob'[j]) \/ FitsNext(j, wjob'[j])
               /\ Old(j, wlatest'[j]) \/ FitsNext(j, wlatest'[j])
               /\ \A t \in Threads : Old(j, copy'[t][j]) \/ FitsNext(j, copy'[t][j])
    PROVE  HeldOK'
<1>1. ASSUME NEW j \in Jobs, NEW doc, Old(j, doc), doc # NoDoc
      PROVE  FitsNext(j, doc)
  <2>1. FitsNow(j, doc)
    BY <1>1 DEF HeldOK, Held, Old, FitsNow
  <2>. QED  BY <2>1 DEF Fits, FitsNow, FitsNext, Grows
<1>2. ASSUME NEW j \in Jobs,
             NEW doc \in {db'[j], wjob'[j], wlatest'[j]} \cup {copy'[t][j] : t \in Threads},
             doc # NoDoc
      PROVE  FitsNext(j, doc)
  BY <1>1, <1>2
<1>. QED  BY <1>2 DEF HeldOK, Held, Holding, FitsNext

\* A copy the code builds on is a record, and fits.
LEMMA OldFits ==
    ASSUME Typed, HeldOK, NEW j \in Jobs, NEW doc, Old(j, doc), doc # NoDoc
    PROVE  doc \in Record /\ FitsNow(j, doc)
<1>1. doc \in Doc
  BY DEF Typed, TypeOK, Holding, Old
<1>2. doc \in Held(j)
  BY DEF Held, Old
<1>. QED  BY <1>1, <1>2 DEF Doc, HeldOK, FitsNow

\* If the documents and copies of all jobs but j are left alone, and those of j
\* only by a worker, it is enough to look at three values.
LEMMA WorkerHeld ==
    ASSUME Typed, HeldOK, Grows, NEW j \in Jobs, NEW doc, NEW job, NEW latest,
           db' = [db EXCEPT ![j] = doc],
           wjob' = [wjob EXCEPT ![j] = job],
           wlatest' = [wlatest EXCEPT ![j] = latest],
           UNCHANGED copy,
           Old(j, doc) \/ FitsNext(j, doc),
           Old(j, job) \/ FitsNext(j, job),
           Old(j, latest) \/ FitsNext(j, latest)
    PROVE  HeldOK'
<1>1. ASSUME NEW k \in Jobs
      PROVE  /\ Old(k, db'[k]) \/ FitsNext(k, db'[k])
             /\ Old(k, wjob'[k]) \/ FitsNext(k, wjob'[k])
             /\ Old(k, wlatest'[k]) \/ FitsNext(k, wlatest'[k])
             /\ \A t \in Threads : Old(k, copy'[t][k])
  <2>1. CASE k = j
    BY <2>1, HoldingMembers DEF Typed, TypeOK
  <2>2. CASE k # j
    BY <2>2, HoldingMembers DEF Typed, TypeOK
  <2>. QED  BY <2>1, <2>2
<1>. QED  BY <1>1, HeldFits

LEMMA WorkerKeepsHeld ==
    ASSUME Typed, HeldOK, PublishedOK, Grows, NEW j \in Jobs,
           \/ Boot(j)
           \/ ReadLatest(j, "load_read", "load_write")
           \/ ReadLatest(j, "opt_read", "opt_write")
           \/ ReadLatest(j, "done_read", "done_write")
           \/ SaveUpdate(j, "load_write", 8, "opt_read")
           \/ SaveUpdate(j, "opt_write", 18, "solve")
           \/ Solve(j) \/ SaveCompleted(j) \/ ReadForFailure(j) \/ SaveFailed(j)
           \/ CallRaises(j) \/ SaveRaises(j) \/ WorkerCrash(j)
    PROVE  HeldOK'
<1>1. /\ Old(j, NoDoc) /\ Old(j, db[j]) /\ Old(j, wjob[j]) /\ Old(j, wlatest[j])
      /\ Old(j, Latest(j))
  BY HoldingMembers DEF Old
<1>2. /\ db = [db EXCEPT ![j] = db[j]]
      /\ wjob = [wjob EXCEPT ![j] = wjob[j]]
      /\ wlatest = [wlatest EXCEPT ![j] = wlatest[j]]
  BY DEF Typed, TypeOK
\* What the worker saves is made from wlatest.
<1>3. ASSUME wlatest[j] # NoDoc, NEW p \in Progress
      PROVE  /\ FitsNext(j, Advanced(wlatest[j], p))
             /\ FitsNext(j, Failed(wlatest[j], "raised"))
             /\ j \in published => FitsNext(j, Completed(wlatest[j]))
  <2>1. wlatest[j] \in Record /\ FitsNow(j, wlatest[j])
    BY <1>1, <1>3, OldFits
  <2>2. FitsNext(j, wlatest[j]) /\ (j \in published => j \in published')
    BY <2>1 DEF Fits, FitsNow, FitsNext, Grows
  <2>. QED  BY <2>1, <2>2, FitsSaved DEF FitsNext
<1>4. 8 \in Progress /\ 18 \in Progress
  BY DEF Progress
<1>5. wpc[j] \in HasLatest => wlatest[j] # NoDoc
  BY DEF Typed, LocalsOK
<1>6. wpc[j] = "done_write" => j \in published
  BY DEF PublishedOK
<1>7. UNCHANGED copy
  BY WorkerGrows
<1>8. CASE \/ Boot(j) \/ Solve(j) \/ WorkerCrash(j) \/ CallRaises(j) \/ ReadForFailure(j)
  <2>1. UNCHANGED db
    BY <1>8 DEF Boot, Solve, WorkerCrash, CallRaises, ReadForFailure
  <2>2. PICK job \in {NoDoc, db[j], wjob[j]} : wjob' = [wjob EXCEPT ![j] = job]
    BY <1>2, <1>8 DEF Boot, Solve, WorkerCrash, CallRaises, ReadForFailure, Exit
  <2>3. PICK latest \in {NoDoc, wlatest[j], Latest(j)} :
            wlatest' = [wlatest EXCEPT ![j] = latest]
    BY <1>2, <1>8 DEF Boot, Solve, WorkerCrash, CallRaises, ReadForFailure, Exit
  <2>. QED  BY <1>1, <1>2, <1>7, <2>1, <2>2, <2>3, WorkerHeld
<1>9. CASE \/ ReadLatest(j, "load_read", "load_write")
           \/ ReadLatest(j, "opt_read", "opt_write")
           \/ ReadLatest(j, "done_read", "done_write")
  <2>1. db' = db /\ wjob' = wjob /\ wlatest' = [wlatest EXCEPT ![j] = Latest(j)]
    BY <1>9 DEF ReadLatest
  <2>. QED  BY <1>1, <1>2, <1>7, <2>1, WorkerHeld
<1>10. ASSUME NEW p \in Progress, NEW from \in HasLatest, NEW to, SaveUpdate(j, from, p, to)
       PROVE  HeldOK'
  <2>. DEFINE rec == Advanced(wlatest[j], p)
  <2>1. /\ db' = [db EXCEPT ![j] = rec]
        /\ wjob' = [wjob EXCEPT ![j] = rec]
        /\ wlatest' = [wlatest EXCEPT ![j] = NoDoc]
        /\ wpc[j] \in HasLatest
    BY <1>10 DEF SaveUpdate
  <2>2. FitsNext(j, rec)
    BY <1>3, <1>5, <2>1
  <2>. QED  BY <1>1, <1>7, <2>1, <2>2, WorkerHeld
<1>11. CASE SaveCompleted(j) \/ SaveFailed(j)
  <2>1. PICK rec \in {Completed(wlatest[j]), Failed(wlatest[j], "raised")} :
            db' = [db EXCEPT ![j] = rec] /\ FitsNext(j, rec)
    BY <1>3, <1>4, <1>5, <1>6, <1>11 DEF SaveCompleted, SaveFailed, HasLatest
  <2>2. wjob' = [wjob EXCEPT ![j] = NoDoc] /\ wlatest' = [wlatest EXCEPT ![j] = NoDoc]
    BY <1>11 DEF SaveCompleted, SaveFailed, Exit
  <2>. QED  BY <1>1, <1>7, <2>1, <2>2, WorkerHeld
<1>12. CASE SaveRaises(j)
  <2>1. PICK rec : db' = [db EXCEPT ![j] = rec] /\ FitsNext(j, rec)
    BY <1>3, <1>4, <1>5, <1>6, <1>12 DEF SaveRaises, HasLatest
  <2>2. wjob' = wjob /\ wlatest' = [wlatest EXCEPT ![j] = NoDoc]
    BY <1>12 DEF SaveRaises
  <2>. QED  BY <1>1, <1>2, <1>7, <2>1, <2>2, WorkerHeld
<1>13. "load_write" \in HasLatest /\ "opt_write" \in HasLatest
  BY DEF HasLatest
<1>. QED  BY <1>4, <1>8, <1>9, <1>10, <1>11, <1>12, <1>13

LEMMA CreateKeepsHeld ==
    ASSUME Typed, HeldOK, Grows, NEW j \in Jobs,
           CreateQueued(j) \/ Popen(j) \/ CreateRunning(j) \/ CreateFails(j)
    PROVE  HeldOK'
<1>1. UNCHANGED <<wjob, wlatest, copy>>
  BY DEF CreateQueued, Popen, CreateRunning, CreateFails, workerLocals, handlerVars
<1>2. PICK doc : /\ db' = [db EXCEPT ![j] = doc]
                 /\ Old(j, doc) \/ FitsNext(j, doc)
  <2>1. CASE CreateQueued(j)
    <3>1. db' = [db EXCEPT ![j] = Queued] /\ creator'[j] # "none"
      BY <2>1 DEF CreateQueued, Typed, TypeOK
    <3>2. FitsNext(j, Queued)
      BY <3>1 DEF FitsNext, Fits, Queued
    <3>. QED  BY <3>1, <3>2
  <2>2. CASE CreateRunning(j)
    <3>1. /\ db' = [db EXCEPT ![j] = Started(wpid[j])]
          /\ creator'[j] # "none"
          /\ wpid' = wpid
      BY <2>2 DEF CreateRunning, workerLocals, Typed, TypeOK
    <3>2. FitsNext(j, Started(wpid[j]))
      BY <3>1 DEF FitsNext, Fits, Started, Queued
    <3>. QED  BY <3>1, <3>2
  <2>3. CASE Popen(j) \/ CreateFails(j)
    <3>1. db' = [db EXCEPT ![j] = db[j]]
      BY <2>3 DEF Popen, CreateFails, Typed, TypeOK
    <3>. QED  BY <3>1, HoldingMembers
  <2>. QED  BY <2>1, <2>2, <2>3
<1>3. /\ wjob' = [wjob EXCEPT ![j] = wjob[j]]
      /\ wlatest' = [wlatest EXCEPT ![j] = wlatest[j]]
  BY <1>1 DEF Typed, TypeOK
<1>4. Old(j, wjob[j]) /\ Old(j, wlatest[j]) /\ UNCHANGED copy
  BY <1>1, HoldingMembers
<1>. QED  BY <1>2, <1>3, <1>4, WorkerHeld

\* A handler replaces its copies by documents it has read or lets go of, and
\* saves at most one record.
LEMMA HandlerHeld ==
    ASSUME Typed, HeldOK, Grows, NEW t \in Threads, NEW docs, NEW j \in Jobs, NEW rec,
           db' = [db EXCEPT ![j] = rec],
           copy' = [copy EXCEPT ![t] = docs],
           UNCHANGED <<wjob, wlatest>>,
           Old(j, rec) \/ FitsNext(j, rec),
           \A k \in Jobs : Old(k, docs[k])
    PROVE  HeldOK'
<1>1. ASSUME NEW k \in Jobs
      PROVE  /\ Old(k, db'[k]) \/ FitsNext(k, db'[k])
             /\ Old(k, wjob'[k])
             /\ Old(k, wlatest'[k])
             /\ \A t2 \in Threads : Old(k, copy'[t2][k])
  <2>1. Old(k, db'[k]) \/ FitsNext(k, db'[k])
    BY HoldingMembers DEF Typed, TypeOK
  <2>2. \A t2 \in Threads : Old(k, copy'[t2][k])
    BY HoldingMembers DEF Typed, TypeOK
  <2>. QED  BY <2>1, <2>2, HoldingMembers
<1>. QED  BY <1>1, HeldFits

LEMMA CopiesOld ==
    ASSUME Typed, NEW k \in Jobs
    PROVE  /\ Old(k, NoCopies[k])
           /\ \A S \in SUBSET Jobs : Old(k, Snapshot(S)[k])
BY HoldingMembers DEF Old, NoCopies, Snapshot

\* Handlers that only read.
LEMMA ReadersKeepHeld ==
    ASSUME Typed, HeldOK, Grows, NEW t \in Threads,
           \/ \E j \in Jobs : \/ CancelRead(t, j) \/ DeleteRead(t, j)
                              \/ DeleteCancelRead(t, j)
           \/ \E S \in SUBSET Jobs : PollRead(t, S)
           \/ HandlerFails(t)
    PROVE  HeldOK'
<1>1. UNCHANGED <<db, wjob, wlatest>>
  BY DEF CancelRead, DeleteRead, DeleteCancelRead, PollRead, HandlerFails, workerLocals
<1>2. PICK docs \in {NoCopies} \cup {Snapshot(S) : S \in SUBSET Jobs} :
          copy' = [copy EXCEPT ![t] = docs]
  <2>1. ASSUME NEW j \in Jobs, CancelRead(t, j) \/ DeleteRead(t, j) \/ DeleteCancelRead(t, j)
        PROVE  copy' = [copy EXCEPT ![t] = NoCopies] \/ copy' = [copy EXCEPT ![t] = Snapshot({j})]
    BY <2>1 DEF CancelRead, DeleteRead, DeleteCancelRead, AfterCancelRead, Holds
  <2>2. ASSUME NEW S \in SUBSET Jobs, PollRead(t, S)
        PROVE  copy' = [copy EXCEPT ![t] = Snapshot(S \cap Reconcilable)]
    BY <2>2 DEF PollRead, Holds
  <2>3. CASE HandlerFails(t)
    BY <2>3 DEF HandlerFails, Return, Holds
  <2>. QED  BY <2>1, <2>2, <2>3
<1>3. ASSUME NEW k \in Jobs
      PROVE  /\ Old(k, db'[k]) /\ Old(k, wjob'[k]) /\ Old(k, wlatest'[k])
             /\ \A t2 \in Threads : Old(k, copy'[t2][k])
  BY <1>1, <1>2, HoldingMembers, CopiesOld DEF Typed, TypeOK
<1>. QED  BY <1>3, HeldFits

\* Handlers that save: the cancellation, the deletion, the reconciliation.
LEMMA SaversKeepHeld ==
    ASSUME Typed, HeldOK, PidsOK, ActsOnPid, Grows, NEW t \in Threads, NEW j \in Jobs,
           CancelSave(t, j) \/ DeleteDoc(t, j) \/ Reconcile(t, j)
    PROVE  HeldOK'
<1>1. UNCHANGED <<wjob, wlatest, wpc, wpid, published, creator>>
  BY DEF CancelSave, DeleteDoc, Reconcile, workerLocals
<1>2. /\ tpc[t] \in HasCopy => copy[t][j] \in Record /\ FitsNow(j, copy[t][j])
      /\ tpc[t] \in {"save", "delete", "reconcile"}
      /\ j \in todo[t]
  BY HoldingMembers, OldFits
     DEF CancelSave, DeleteDoc, Reconcile, Typed, LocalsOK, HasCopy
<1>3. \A doc : FitsNow(j, doc) => FitsNext(j, doc)
  BY <1>1 DEF FitsNow, FitsNext, Fits
<1>4. CASE CancelSave(t, j)
  <2>1. copy' = [copy EXCEPT ![t] = NoCopies] /\ db' = [db EXCEPT ![j] = Cancelled(copy[t][j])]
    BY <1>4 DEF CancelSave, Return, Holds
  <2>2. FitsNext(j, Cancelled(copy[t][j]))
    BY <1>2, <1>3, <1>4, FitsSaved DEF CancelSave, HasCopy, FitsNow
  <2>. QED  BY <1>1, <2>1, <2>2, CopiesOld, HandlerHeld
<1>5. CASE DeleteDoc(t, j)
  <2>1. copy' = [copy EXCEPT ![t] = NoCopies] /\ db' = [db EXCEPT ![j] = NoDoc]
    BY <1>5 DEF DeleteDoc, Return, Holds
  <2>2. Old(j, NoDoc)
    BY DEF Old
  <2>. QED  BY <1>1, <2>1, <2>2, CopiesOld, HandlerHeld
<1>6. CASE Reconcile(t, j)
  <2>. DEFINE rec == copy[t][j]
  <2>1. rec \in Record /\ FitsNow(j, rec) /\ rec.pid # NoPid
    BY <1>2, <1>6 DEF Reconcile, HasCopy, ActsOnPid
  <2>2. PICK docs \in {NoCopies, [copy[t] EXCEPT ![j] = NoDoc]} :
            copy' = [copy EXCEPT ![t] = docs]
    BY <1>6 DEF Reconcile, Return, Holds
  <2>3. \A k \in Jobs : Old(k, docs[k])
    BY HoldingMembers, CopiesOld DEF Typed, TypeOK, Old
  <2>4. CASE ProcessExists(rec.pid) \/ rec.completed
    <3>1. db' = [db EXCEPT ![j] = db[j]]
      BY <1>6, <2>4 DEF Reconcile, Typed, TypeOK
    <3>. QED  BY <1>1, <2>2, <2>3, <3>1, HoldingMembers, HandlerHeld
  <2>5. CASE ~(ProcessExists(rec.pid) \/ rec.completed)
    <3>1. PICK why \in {"none", "raised", "gone"} : db' = [db EXCEPT ![j] = Failed(rec, why)]
      <4>1. db' = [db EXCEPT ![j] = Failed(rec, IF rec.error = "none" THEN "gone" ELSE rec.error)]
        BY <1>6, <2>5 DEF Reconcile
      <4>. QED  BY <2>1, <4>1 DEF Record
    <3>2. wpc[j] = "reaped"
      <4>1. wpid[j] = rec.pid
        BY <2>1 DEF FitsNow, Fits
      <4>2. wpc[j] \notin Alive \cup {"zombie", "none"}
        BY <2>1, <2>5, <4>1 DEF ProcessExists, PidsOK
      <4>. QED  BY <4>2 DEF Typed, TypeOK, WorkerPc
    <3>3. FitsNext(j, Failed(rec, why))
      BY <1>3, <2>1, <3>2, FitsSaved DEF FitsNow
    <3>. QED  BY <1>1, <2>2, <2>3, <3>1, <3>3, HandlerHeld
  <2>. QED  BY <2>4, <2>5
<1>. QED  BY <1>4, <1>5, <1>6

\* A signal and a restart only make copies disappear.
LEMMA LossKeepsHeld ==
    ASSUME Typed, HeldOK, Grows,
           \/ \E t \in Threads : \E j \in Jobs : Kill(t, j)
           \/ ApiRestart \/ HostRestart \/ UNCHANGED vars
    PROVE  HeldOK'
<1>1. ASSUME NEW k \in Jobs
      PROVE  /\ db'[k] = db[k]
             /\ wjob'[k] \in {wjob[k], NoDoc}
             /\ wlatest'[k] \in {wlatest[k], NoDoc}
             /\ \A t \in Threads : copy'[t][k] \in {copy[t][k], NoDoc}
  BY DEF Kill, ApiRestart, HostRestart, DropRequests, NoCopies, vars, Typed, TypeOK
<1>2. ASSUME NEW k \in Jobs
      PROVE  /\ Old(k, db'[k]) /\ Old(k, wjob'[k]) /\ Old(k, wlatest'[k])
             /\ \A t \in Threads : Old(k, copy'[t][k])
  BY <1>1, HoldingMembers DEF Old
<1>. QED  BY <1>2, HeldFits

-----------------------------------------------------------------------------
(* The invariant.                                                          *)

IInv == Typed /\ PidsOK /\ PidsUnique /\ HeldOK /\ ActsOnPid /\ PublishedOK

LEMMA NextGrows == IInv /\ [Next]_vars => Grows
<1>. SUFFICES ASSUME IInv, [Next]_vars
              PROVE  Grows
  OBVIOUS
<1>0. Typed /\ PidsOK
  BY DEF IInv
<1>1. ASSUME NEW j \in Jobs,
             UNCHANGED <<creator, wpid>>, published \subseteq published',
             wpc[j] \in Alive, NEW pc, wpc' = [wpc EXCEPT ![j] = pc]
      PROVE  Grows
  BY <1>0, <1>1 DEF Grows, Typed, TypeOK, Alive, InTry
<1>2. ASSUME UNCHANGED <<creator, wpid, published>>,
             \A j \in Jobs : wpc[j] = "reaped" => wpc'[j] = "reaped"
      PROVE  Grows
  BY <1>2 DEF Grows
<1>3. ASSUME NEW t \in Threads, NEW j \in Jobs,
             \/ CancelRead(t, j) \/ DeleteRead(t, j)
             \/ Kill(t, j) \/ CancelSave(t, j)
             \/ DeleteCancelRead(t, j) \/ DeleteDoc(t, j) \/ Reconcile(t, j)
      PROVE  Grows
  BY <1>2, <1>3 DEF CancelRead, DeleteRead, Kill, CancelSave, DeleteCancelRead,
                    DeleteDoc, Reconcile, workerLocals, Alive, InTry
<1>4. ASSUME NEW t \in Threads, HandlerFails(t) \/ \E S \in SUBSET Jobs : PollRead(t, S)
      PROVE  Grows
  BY <1>2, <1>4 DEF HandlerFails, PollRead, workerLocals
<1>5. CASE ApiRestart \/ HostRestart
  BY <1>0, <1>5 DEF ApiRestart, HostRestart, DropRequests, Grows, Typed, TypeOK
<1>6. CASE UNCHANGED vars
  BY <1>2, <1>6 DEF vars
<1>. QED
  BY <1>0, <1>1, <1>3, <1>4, <1>5, <1>6, NextActions, CreateGrows, WorkerGrows

LEMMA NextPids == IInv /\ [Next]_vars => PidsOK'
<1>. SUFFICES ASSUME IInv, [Next]_vars
              PROVE  PidsOK'
  OBVIOUS
<1>. USE DEF PidsOK, Typed, TypeOK
<1>0. Typed /\ PidsOK
  BY DEF IInv
<1>1. ASSUME NEW j \in Jobs, CreateQueued(j) \/ CreateRunning(j) \/ CreateFails(j)
      PROVE  PidsOK'
  BY <1>0, <1>1 DEF CreateQueued, CreateRunning, CreateFails, DropPopen, workerLocals
<1>2. ASSUME NEW j \in Jobs, Popen(j)
      PROVE  PidsOK'
  BY <1>0, <1>2, NoPidAssumption DEF Popen
<1>3. ASSUME NEW j \in Jobs, UNCHANGED <<creator, wpid>>, wpc[j] \in Alive,
             NEW pc, pc # "none", wpc' = [wpc EXCEPT ![j] = pc]
      PROVE  PidsOK'
  BY <1>0, <1>3 DEF Alive, InTry
<1>4. ASSUME UNCHANGED <<creator, wpid>>,
             \A j \in Jobs : wpc'[j] = "none" <=> wpc[j] = "none"
      PROVE  PidsOK'
  BY <1>0, <1>4
<1>5. ASSUME NEW t \in Threads, NEW j \in Jobs,
             \/ CancelRead(t, j) \/ DeleteRead(t, j)
             \/ CancelSave(t, j)
             \/ DeleteCancelRead(t, j) \/ DeleteDoc(t, j) \/ Reconcile(t, j)
      PROVE  PidsOK'
  BY <1>4, <1>5 DEF CancelRead, DeleteRead, CancelSave, DeleteCancelRead,
                    DeleteDoc, Reconcile, workerLocals
<1>6. ASSUME NEW t \in Threads, NEW j \in Jobs, Kill(t, j)
      PROVE  PidsOK'
  BY <1>0, <1>4, <1>6 DEF Kill, Corpse, Alive, InTry
<1>7. ASSUME NEW t \in Threads, HandlerFails(t) \/ \E S \in SUBSET Jobs : PollRead(t, S)
      PROVE  PidsOK'
  BY <1>4, <1>7 DEF HandlerFails, PollRead, workerLocals
<1>8. CASE ApiRestart \/ HostRestart
  <2>1. /\ wpid' = wpid
        /\ \A j \in Jobs : /\ wpc'[j] = "none" <=> wpc[j] = "none"
                           /\ creator'[j] \in {"none", "saved"} => creator'[j] = creator[j]
    BY <1>0, <1>8 DEF ApiRestart, HostRestart, DropRequests
  <2>. QED  BY <1>0, <2>1
<1>9. CASE UNCHANGED vars
  BY <1>4, <1>9 DEF vars
<1>. QED
  BY <1>0, <1>1, <1>2, <1>3, <1>5, <1>6, <1>7, <1>8, <1>9, NextActions, WorkerGrows

\* Popen gives out only pids that no process has, and no process comes back.
LEMMA NextUnique == IInv /\ [Next]_vars => PidsUnique'
<1>. SUFFICES ASSUME IInv, [Next]_vars
              PROVE  PidsUnique'
  OBVIOUS
<1>0. PidsUnique /\ PidsOK /\ Typed /\ Grows
  BY NextGrows DEF IInv
<1>. USE DEF Typed, TypeOK, PidsUnique, Grows
<1>1. ASSUME UNCHANGED wpid
      PROVE  PidsUnique'
  BY <1>0, <1>1
<1>2. ASSUME NEW j \in Jobs, Popen(j)
      PROVE  PidsUnique'
  BY <1>0, <1>2 DEF Popen, PidsOK
<1>3. ASSUME NEW j \in Jobs, CreateQueued(j) \/ CreateRunning(j) \/ CreateFails(j)
      PROVE  PidsUnique'
  BY <1>1, <1>3 DEF CreateQueued, CreateRunning, CreateFails, workerLocals
<1>4. ASSUME NEW t \in Threads, NEW j \in Jobs,
             \/ CancelRead(t, j) \/ DeleteRead(t, j)
             \/ Kill(t, j) \/ CancelSave(t, j)
             \/ DeleteCancelRead(t, j) \/ DeleteDoc(t, j) \/ Reconcile(t, j)
             \/ HandlerFails(t) \/ \E S \in SUBSET Jobs : PollRead(t, S)
      PROVE  UNCHANGED wpid
  BY <1>4 DEF CancelRead, DeleteRead, Kill, CancelSave, DeleteCancelRead, DeleteDoc,
              Reconcile, HandlerFails, PollRead, workerLocals
<1>5. CASE ApiRestart \/ HostRestart \/ UNCHANGED vars
  BY <1>1, <1>5 DEF ApiRestart, HostRestart, vars
<1>. QED
  BY <1>0, <1>1, <1>2, <1>3, <1>4, <1>5, NextActions, WorkerGrows DEF HandlerFails

LEMMA NextActsOnPid == IInv /\ [Next]_vars => ActsOnPid'
<1>. SUFFICES ASSUME IInv, [Next]_vars
              PROVE  ActsOnPid'
  OBVIOUS
<1>. USE DEF ActsOnPid, Typed, TypeOK
<1>0. Typed /\ ActsOnPid
  BY DEF IInv
<1>1. CASE UNCHANGED <<tpc, todo, copy>>
  BY <1>0, <1>1
\* Only PollRead starts a reconciliation, and only a read that finds a pid leads to
\* a signal.
<1>2. ASSUME NEW t \in Threads, NEW pc \in HandlerPc, NEW S, NEW docs, Holds(t, pc, S, docs),
             pc \in {"kill", "reconcile"} => \A j \in S : docs[j].pid # NoPid
      PROVE  ActsOnPid'
  BY <1>0, <1>2 DEF Holds
<1>3. ASSUME NEW t \in Threads, Return(t)
      PROVE  ActsOnPid'
  BY <1>2, <1>3 DEF Return, HandlerPc
<1>4. ASSUME NEW j \in Jobs, CreateQueued(j) \/ Popen(j) \/ CreateRunning(j) \/ CreateFails(j)
      PROVE  ActsOnPid'
  BY <1>1, <1>4 DEF CreateQueued, Popen, CreateRunning, CreateFails, handlerVars
<1>5. ASSUME NEW t \in Threads, NEW j \in Jobs,
             CancelRead(t, j) \/ DeleteRead(t, j) \/ CancelSave(t, j) \/ DeleteCancelRead(t, j)
             \/ DeleteDoc(t, j) \/ HandlerFails(t)
      PROVE  ActsOnPid'
  <2>1. ASSUME AfterCancelRead(t, j)
        PROVE  ActsOnPid'
    <3>1. CASE db[j].pid = NoPid
      BY <1>2, <2>1, <3>1 DEF AfterCancelRead, HandlerPc
    <3>2. CASE db[j].pid # NoPid
      <4>1. \A k \in {j} : Snapshot({j})[k].pid # NoPid
        BY <3>2 DEF Snapshot
      <4>. QED  BY <1>2, <2>1, <3>2, <4>1 DEF AfterCancelRead, HandlerPc
    <3>. QED  BY <3>1, <3>2
  <2>2. \/ AfterCancelRead(t, j) \/ Return(t)
        \/ \E pc \in HandlerPc \ {"kill", "reconcile"} : \E S, docs : Holds(t, pc, S, docs)
    BY <1>5 DEF CancelRead, DeleteRead, CancelSave, DeleteCancelRead, DeleteDoc,
                HandlerFails, HandlerPc
  <2>. QED  BY <1>2, <1>3, <2>1, <2>2
<1>6. ASSUME NEW t \in Threads, NEW j \in Jobs, Kill(t, j)
      PROVE  ActsOnPid'
  BY <1>0, <1>6 DEF Kill
<1>7. ASSUME NEW t \in Threads, NEW S \in SUBSET Jobs, PollRead(t, S)
      PROVE  ActsOnPid'
  <2>1. \A j \in S \cap Reconcilable : Snapshot(S \cap Reconcilable)[j].pid # NoPid
    BY DEF Reconcilable, Snapshot
  <2>. QED  BY <1>2, <1>7, <2>1 DEF PollRead, HandlerPc
<1>8. ASSUME NEW t \in Threads, NEW j \in Jobs, Reconcile(t, j)
      PROVE  ActsOnPid'
  <2>1. CASE todo[t] = {j}
    BY <1>3, <1>8, <2>1 DEF Reconcile
  <2>2. CASE todo[t] # {j}
    <3>1. \A k \in todo[t] \ {j} : [copy[t] EXCEPT ![j] = NoDoc][k].pid # NoPid
      BY <1>0, <1>8 DEF Reconcile
    <3>. QED  BY <1>2, <1>8, <2>2, <3>1 DEF Reconcile, HandlerPc
  <2>. QED  BY <2>1, <2>2
<1>9. CASE ApiRestart \/ HostRestart
  BY <1>0, <1>9 DEF ApiRestart, HostRestart, DropRequests
<1>10. CASE UNCHANGED vars
  BY <1>1, <1>10 DEF vars
<1>. QED
  BY <1>0, <1>1, <1>3, <1>4, <1>5, <1>6, <1>7, <1>8, <1>9, <1>10, NextActions, WorkerGrows
     DEF HandlerFails

\* A worker that is about to save its result has had its routes published.
LEMMA NextPublished == IInv /\ [Next]_vars => PublishedOK'
<1>. SUFFICES ASSUME IInv, [Next]_vars
              PROVE  PublishedOK'
  OBVIOUS
<1>. USE DEF PublishedOK, Typed, TypeOK
<1>. DEFINE Done == {"done_read", "done_write"}
<1>0. Typed /\ PublishedOK /\ Grows
  BY NextGrows DEF IInv
<1>1. ASSUME \A j \in Jobs : wpc'[j] \in Done => wpc[j] \in Done
      PROVE  PublishedOK'
  BY <1>0, <1>1 DEF Grows
<1>2. ASSUME NEW j \in Jobs,
             \/ CreateQueued(j) \/ Popen(j) \/ CreateRunning(j) \/ CreateFails(j)
             \/ Boot(j)
             \/ ReadLatest(j, "load_read", "load_write")
             \/ ReadLatest(j, "opt_read", "opt_write")
             \/ ReadLatest(j, "done_read", "done_write")
             \/ SaveUpdate(j, "load_write", 8, "opt_read")
             \/ SaveUpdate(j, "opt_write", 18, "solve")
             \/ SaveCompleted(j) \/ ReadForFailure(j) \/ SaveFailed(j)
             \/ CallRaises(j) \/ SaveRaises(j) \/ WorkerCrash(j)
      PROVE  PublishedOK'
  BY <1>0, <1>1, <1>2
     DEF CreateQueued, Popen, CreateRunning, CreateFails, DropPopen, workerLocals, Boot,
         ReadLatest, SaveUpdate, SaveCompleted, ReadForFailure, SaveFailed, CallRaises,
         SaveRaises, WorkerCrash, Goto, Exit, Corpse
<1>3. ASSUME NEW j \in Jobs, Solve(j)
      PROVE  PublishedOK'
  BY <1>0, <1>3 DEF Solve, Goto
<1>4. ASSUME NEW t \in Threads, NEW j \in Jobs,
             \/ CancelRead(t, j) \/ DeleteRead(t, j)
             \/ Kill(t, j) \/ CancelSave(t, j)
             \/ DeleteCancelRead(t, j) \/ DeleteDoc(t, j) \/ Reconcile(t, j)
             \/ HandlerFails(t) \/ \E S \in SUBSET Jobs : PollRead(t, S)
      PROVE  PublishedOK'
  BY <1>1, <1>4 DEF CancelRead, DeleteRead, Kill, Corpse, CancelSave, DeleteCancelRead,
                    DeleteDoc, Reconcile, HandlerFails, PollRead, workerLocals
<1>5. CASE ApiRestart \/ HostRestart \/ UNCHANGED vars
  BY <1>1, <1>5 DEF ApiRestart, HostRestart, vars
<1>. QED
  BY <1>2, <1>3, <1>4, <1>5, NextActions DEF HandlerFails

LEMMA NextHeld == IInv /\ [Next]_vars => HeldOK'
<1>. SUFFICES ASSUME IInv, [Next]_vars
              PROVE  HeldOK'
  OBVIOUS
<1>1. Typed /\ HeldOK /\ PidsOK /\ ActsOnPid /\ PublishedOK /\ Grows
  BY NextGrows DEF IInv
<1>. QED
  BY <1>1, NextActions, CreateKeepsHeld, WorkerKeepsHeld, ReadersKeepHeld, SaversKeepHeld,
     LossKeepsHeld

LEMMA Inductive == IInv /\ [Next]_vars => IInv'
BY NextTyped, NextPids, NextUnique, NextHeld, NextActsOnPid, NextPublished DEF IInv

LEMMA InitInv == Init => IInv
<1>. SUFFICES ASSUME Init
              PROVE  IInv
  OBVIOUS
<1>1. \A j \in Jobs : Held(j) = {}
  BY DEF Init, Held, Holding, NoCopies
<1>2. PidsOK /\ PidsUnique /\ HeldOK /\ ActsOnPid /\ PublishedOK
  BY <1>1 DEF Init, PidsOK, PidsUnique, HeldOK, ActsOnPid, PublishedOK
<1>. QED  BY <1>2, InitType DEF IInv, Typed

\* Everything the copies of the documents say, in the database, in the workers
\* and in the handlers, stays true whatever the interleaving (jobs.py, worker.py).
THEOREM CopiesStayTrue == Spec => []OpenInv
<1>1. IInv => OpenInv
  BY DEF IInv, OpenInv, Typed
<1>. QED  BY <1>1, InitInv, Inductive, PTL DEF Spec

\* The reconciliation (jobs.py:165-183) never blames a lost worker while the job
\* still has one, however old its copy of the job is.
THEOREM GoneIsReaped == Spec => []GoneMeansReaped
<1>1. IInv => GoneMeansReaped
  <2>. SUFFICES ASSUME IInv, NEW j \in Jobs, db[j] # NoDoc, db[j].error = "gone"
                PROVE  wpc[j] = "reaped"
    BY DEF GoneMeansReaped
  <2>1. Old(j, db[j]) /\ Typed /\ HeldOK
    BY HoldingMembers DEF IInv
  <2>2. FitsNow(j, db[j])
    BY <2>1, OldFits
  <2>. QED  BY <2>2 DEF FitsNow, Fits
<1>. QED  BY <1>1, InitInv, Inductive, PTL DEF Spec

\* A result in a job's document is the result of a run_daily_planning that
\* returned (worker.py:56-73), even if the document was rewritten by others.
THEOREM CompletedJobsPublished == Spec => []CompletedIsReal
<1>1. IInv => CompletedIsReal
  <2>. SUFFICES ASSUME IInv, NEW j \in Jobs, db[j] # NoDoc
                PROVE  /\ db[j].status = "completed" => db[j].result /\ db[j].completed
                       /\ db[j].result => j \in published
    BY DEF CompletedIsReal
  <2>1. Old(j, db[j]) /\ Typed /\ HeldOK
    BY HoldingMembers DEF IInv
  <2>2. FitsNow(j, db[j])
    BY <2>1, OldFits
  <2>. QED  BY <2>2 DEF FitsNow, Fits
<1>. QED  BY <1>1, InitInv, Inductive, PTL DEF Spec

\* The signal of a cancellation (jobs.py:142) can meet another job's worker only
\* after the job's own has been reaped, whoever reuses pids and whatever the copy.
THEOREM SignalsSpareOthers == Spec => []CancelSparesOthers
<1>1. IInv => CancelSparesOthers
  <2>. SUFFICES ASSUME IInv, NEW t \in Threads, NEW j \in todo[t], tpc[t] = "kill",
                       NEW k \in Jobs, wpid[k] = copy[t][j].pid, wpc[k] \in Alive, k # j
                PROVE  wpc[j] = "reaped"
    BY DEF CancelSparesOthers
  <2>1. j \in Jobs /\ Typed /\ HeldOK /\ PidsUnique
    BY DEF IInv, Typed, TypeOK
  <2>2. copy[t][j] # NoDoc /\ copy[t][j].pid # NoPid
    BY DEF IInv, Typed, LocalsOK, HasCopy, ActsOnPid
  <2>3. Old(j, copy[t][j])
    BY <2>1, HoldingMembers
  <2>4. FitsNow(j, copy[t][j])
    BY <2>1, <2>2, <2>3, OldFits
  <2>5. wpid[j] = wpid[k] /\ wpid[j] # NoPid
    BY <2>2, <2>4 DEF FitsNow, Fits
  <2>6. wpc[k] # "reaped"
    BY DEF Alive, InTry
  <2>. QED  BY <2>1, <2>5, <2>6 DEF PidsUnique
<1>. QED  BY <1>1, InitInv, Inductive, PTL DEF Spec

-----------------------------------------------------------------------------
(***************************************************************************)
(* What PlanningJobs guarantees when nobody acts on a job before its       *)
(* create_job has ended (QuietCreate): QuietInv is an invariant,           *)
(* cancellations stop the worker for good, and the record of a job lives   *)
(* the life JobLifecycle describes.                                        *)
(*                                                                         *)
(* The argument, beyond that of OpenInv: every copy of a                   *)
(* document names the worker's pid, so a handler that has signalled that   *)
(* pid has stopped the worker, and a worker that is still at work has been *)
(* overtaken by no cancellation, deletion or reconciliation.               *)
(***************************************************************************)

QInv == IInv /\ EarlyOK /\ AbortedOK /\ QuietHeldOK /\ StopsFirst /\ FindsRunning

-----------------------------------------------------------------------------
(* Consequences of the invariant for one job.                              *)

\* A worker that has read its job, or may do so, has a creator that is done.
LEMMA AliveIsDone ==
    ASSUME QInv, NEW j \in Jobs, wpc[j] \in Alive, Settled(j), QuietCreate
    PROVE  creator[j] = "done"
<1>1. wpc[j] \notin {"none", "reaped"}
  BY DEF Alive, InTry
<1>. QED  BY <1>1 DEF QInv, AbortedOK, Settled

LEMMA AtWorkIsDone ==
    ASSUME QInv, NEW j \in Jobs, wpc[j] \in AfterBoot
    PROVE  creator[j] = "done"
<1>1. wpc[j] \notin {"none", "reaped"}
  BY DEF AfterBoot, Alive, InTry
<1>. QED  BY <1>1 DEF QInv, EarlyOK, AbortedOK, IInv, Typed, TypeOK, CreatorPc

\* A handler deals with jobs whose creator has ended.
LEMMA TodoIsSettled ==
    ASSUME QInv, NEW t \in Threads, NEW j \in Jobs, j \in todo[t] \/ copy[t][j] # NoDoc
    PROVE  creator[j] \in {"done", "aborted"}
BY DEF QInv, EarlyOK, IInv, Typed, TypeOK, CreatorPc

\* A copy that names no pid is of a job without a live worker; one that does
\* names the worker's.
LEMMA CopyNamesWorker ==
    ASSUME QInv, NEW j \in Jobs, creator[j] \in {"done", "aborted"},
           NEW doc \in Held(j), wpc[j] \in Alive
    PROVE  doc.pid = wpid[j] /\ wpid[j] # NoPid
<1>1. wpc[j] \notin {"none", "reaped"}
  BY DEF Alive, InTry
<1>. QED  BY <1>1 DEF QInv, AbortedOK, QuietHeldOK, FitsQuiet, IInv, PidsOK

LEMMA ReadIsHeld ==
    ASSUME NEW j \in Jobs
    PROVE  /\ db[j] # NoDoc => db[j] \in Held(j)
           /\ wlatest[j] # NoDoc => wlatest[j] \in Held(j)
           /\ \A t \in Threads : copy[t][j] # NoDoc => copy[t][j] \in Held(j)
BY DEF Held, Holding

-----------------------------------------------------------------------------
(* What the steps of a worker leave alone.                                 *)

WorkerStep(j) ==
    \/ Boot(j)
    \/ ReadLatest(j, "load_read", "load_write")
    \/ ReadLatest(j, "opt_read", "opt_write")
    \/ ReadLatest(j, "done_read", "done_write")
    \/ SaveUpdate(j, "load_write", 8, "opt_read")
    \/ SaveUpdate(j, "opt_write", 18, "solve")
    \/ Solve(j) \/ SaveCompleted(j) \/ ReadForFailure(j) \/ SaveFailed(j)
    \/ CallRaises(j) \/ SaveRaises(j) \/ WorkerCrash(j)

\* What a worker saves: its copy with an update, or a result or failure.
Saves(j) ==
    {Advanced(wlatest[j], 8), Advanced(wlatest[j], 18), Completed(wlatest[j]),
     Failed(wlatest[j], "raised")}

LEMMA WorkerWrites ==
    ASSUME Typed, NEW j \in Jobs, WorkerStep(j)
    PROVE  /\ \A k \in Jobs \ {j} : /\ db'[k] = db[k]
                                    /\ wjob'[k] = wjob[k]
                                    /\ wlatest'[k] = wlatest[k]
                                    /\ wpc'[k] = wpc[k]
           /\ db'[j] # db[j] => db'[j] \in Saves(j) /\ wlatest[j] # NoDoc
           /\ \/ wjob'[j] \in {wjob[j], db[j], NoDoc}
              \/ wjob'[j] \in Saves(j) /\ wlatest[j] # NoDoc
           /\ wlatest'[j] \in {wlatest[j], Latest(j), NoDoc}
<1>. USE DEF Typed, TypeOK, Saves
<1>0. wpc[j] \in HasLatest => wlatest[j] # NoDoc
  BY DEF LocalsOK
<1>1. CASE Boot(j)
  BY <1>1 DEF Boot, Exit, Goto
<1>2. CASE \/ ReadLatest(j, "load_read", "load_write")
           \/ ReadLatest(j, "opt_read", "opt_write")
           \/ ReadLatest(j, "done_read", "done_write")
  BY <1>2 DEF ReadLatest, Goto
<1>3. CASE \/ SaveUpdate(j, "load_write", 8, "opt_read")
           \/ SaveUpdate(j, "opt_write", 18, "solve")
  BY <1>0, <1>3 DEF SaveUpdate, Goto, HasLatest
<1>4. CASE Solve(j) \/ CallRaises(j)
  BY <1>4 DEF Solve, CallRaises, Goto
<1>5. CASE SaveCompleted(j) \/ SaveFailed(j)
  BY <1>0, <1>5 DEF SaveCompleted, SaveFailed, Exit, Goto, HasLatest
<1>6. CASE ReadForFailure(j) \/ WorkerCrash(j)
  BY <1>6 DEF ReadForFailure, WorkerCrash, Exit, Goto
<1>7. CASE SaveRaises(j)
  BY <1>0, <1>7 DEF SaveRaises, Goto, HasLatest
<1>. QED  BY <1>1, <1>2, <1>3, <1>4, <1>5, <1>6, <1>7 DEF WorkerStep

\* A worker that saves its progress is at work and was before.
LEMMA WorkerAdvances ==
    ASSUME Typed, NEW j \in Jobs, WorkerStep(j)
    PROVE  /\ wpc'[j] \in InTry \cup {"boot"} =>
                /\ wpc[j] \in InTry \cup {"boot"}
                /\ db'[j] = db[j] \/ \E p \in {8, 18} : db'[j] = Advanced(wlatest[j], p)
           /\ \/ db'[j] = db[j]
              \/ db'[j] \in {Completed(wlatest[j]), Failed(wlatest[j], "raised")}
              \/ wpc[j] \in InTry /\ \E p \in {8, 18} : db'[j] = Advanced(wlatest[j], p)
<1>. USE DEF Typed, TypeOK, InTry
<1>1. CASE Boot(j)
  BY <1>1 DEF Boot, Exit, Goto
<1>2. CASE \/ ReadLatest(j, "load_read", "load_write")
           \/ ReadLatest(j, "opt_read", "opt_write")
           \/ ReadLatest(j, "done_read", "done_write")
  BY <1>2 DEF ReadLatest, Goto
<1>3. CASE \/ SaveUpdate(j, "load_write", 8, "opt_read")
           \/ SaveUpdate(j, "opt_write", 18, "solve")
  BY <1>3 DEF SaveUpdate, Goto
<1>4. CASE Solve(j) \/ CallRaises(j)
  BY <1>4 DEF Solve, CallRaises, Goto
<1>5. CASE SaveCompleted(j) \/ SaveFailed(j)
  BY <1>5 DEF SaveCompleted, SaveFailed, Exit, Goto, Corpse
<1>6. CASE ReadForFailure(j) \/ WorkerCrash(j)
  BY <1>6 DEF ReadForFailure, WorkerCrash, Exit, Goto, Corpse
<1>7. CASE SaveRaises(j)
  BY <1>7 DEF SaveRaises, Goto
<1>. QED  BY <1>1, <1>2, <1>3, <1>4, <1>5, <1>6, <1>7 DEF WorkerStep

\* What a handler leaves alone, and what it may hold afterwards: documents it
\* has read or held, of jobs it deals with.
HandlerStep(t) ==
    \/ \E j \in Jobs : \/ CancelRead(t, j) \/ DeleteRead(t, j) \/ DeleteCancelRead(t, j)
                       \/ Kill(t, j) \/ CancelSave(t, j) \/ DeleteDoc(t, j) \/ Reconcile(t, j)
    \/ \E S \in SUBSET Jobs : PollRead(t, S)
    \/ HandlerFails(t)

LEMMA HandlerLeaves ==
    ASSUME Typed, NEW t \in Threads, HandlerStep(t)
    PROVE  /\ UNCHANGED <<creator, wpid>>
           /\ \A k \in Jobs : /\ wpc'[k] = wpc[k] \/ wpc'[k] \notin Alive
                              /\ wpc[k] \notin Alive => wpc'[k] = wpc[k]
                              /\ wjob'[k] \in {wjob[k], NoDoc}
                              /\ wlatest'[k] \in {wlatest[k], NoDoc}
           /\ \A t2 \in Threads \ {t} : /\ tpc'[t2] = tpc[t2]
                                        /\ todo'[t2] = todo[t2]
                                        /\ copy'[t2] = copy[t2]
<1>. USE DEF Typed, TypeOK
<1>1. ASSUME NEW j \in Jobs, CancelRead(t, j) \/ DeleteRead(t, j) \/ DeleteCancelRead(t, j)
      PROVE  UNCHANGED <<creator, wpid, wpc, wjob, wlatest>> /\ \E pc, S, docs : Holds(t, pc, S, docs)
  BY <1>1 DEF CancelRead, DeleteRead, DeleteCancelRead, AfterCancelRead, workerLocals
<1>2. ASSUME NEW j \in Jobs, CancelSave(t, j) \/ DeleteDoc(t, j) \/ Reconcile(t, j)
      PROVE  UNCHANGED <<creator, wpid, wpc, wjob, wlatest>> /\ \E pc, S, docs : Holds(t, pc, S, docs)
  BY <1>2 DEF CancelSave, DeleteDoc, Reconcile, Return, workerLocals
<1>3. ASSUME HandlerFails(t) \/ \E S \in SUBSET Jobs : PollRead(t, S)
      PROVE  UNCHANGED <<creator, wpid, wpc, wjob, wlatest>> /\ \E pc, S, docs : Holds(t, pc, S, docs)
  BY <1>3 DEF HandlerFails, PollRead, Return, workerLocals
<1>4. ASSUME UNCHANGED <<creator, wpid, wpc, wjob, wlatest>>, NEW pc, NEW S, NEW docs, Holds(t, pc, S, docs)
      PROVE  /\ \A k \in Jobs : wpc'[k] = wpc[k] /\ wjob'[k] = wjob[k] /\ wlatest'[k] = wlatest[k]
             /\ \A t2 \in Threads \ {t} : /\ tpc'[t2] = tpc[t2]
                                          /\ todo'[t2] = todo[t2]
                                          /\ copy'[t2] = copy[t2]
  BY <1>4 DEF Holds
<1>5. ASSUME NEW j \in Jobs, Kill(t, j)
      PROVE  /\ UNCHANGED <<creator, wpid, todo, copy>>
             /\ tpc' = [tpc EXCEPT ![t] = "save"]
             /\ \A k \in Jobs : /\ wpc'[k] = wpc[k] \/ (wpc'[k] \notin Alive /\ wpc[k] \in Alive)
                                /\ wjob'[k] \in {wjob[k], NoDoc}
                                /\ wlatest'[k] \in {wlatest[k], NoDoc}
  BY <1>5 DEF Kill, Corpse, Alive, InTry
<1>. QED  BY <1>1, <1>2, <1>3, <1>4, <1>5 DEF HandlerStep

LEMMA NextSteps ==
    ASSUME Next
    PROVE  \/ \E j \in Jobs : \/ CreateQueued(j) \/ Popen(j) \/ CreateRunning(j)
                              \/ CreateFails(j) \/ WorkerStep(j)
           \/ \E t \in Threads : HandlerStep(t)
           \/ ApiRestart \/ HostRestart
BY NextActions DEF WorkerStep, HandlerStep

-----------------------------------------------------------------------------
(* Jobs under creation.                                                    *)

\* A handler never picks up a job whose create_job is still running.
LEMMA HandlerPicksSettled ==
    ASSUME QInv, QuietCreate, NEW t \in Threads, HandlerStep(t), NEW k \in Jobs,
           k \in todo'[t] \/ copy'[t][k] # NoDoc
    PROVE  creator[k] \in {"done", "aborted"}
<1>0. /\ Typed
      /\ \A j \in Jobs : j \in todo[t] \/ copy[t][j] # NoDoc => creator[j] \in {"done", "aborted"}
  BY TodoIsSettled DEF QInv, IInv
<1>. USE DEF Typed, TypeOK
<1>1. ASSUME NEW pc, NEW S, NEW docs, Holds(t, pc, S, docs)
      PROVE  todo'[t] = S /\ copy'[t] = docs
  BY <1>0, <1>1 DEF Holds
<1>2. ASSUME NEW j \in Jobs, CancelRead(t, j) \/ DeleteRead(t, j)
      PROVE  creator[k] \in {"done", "aborted"}
  <2>1. /\ creator[j] \in {"done", "aborted"}
        /\ \E pc, docs : Holds(t, pc, {j}, docs) /\ docs \in {NoCopies, Snapshot({j})}
    BY <1>2 DEF CancelRead, DeleteRead, AfterCancelRead, Settled
  <2>. QED  BY <1>1, <2>1 DEF NoCopies, Snapshot
<1>3. ASSUME NEW j \in Jobs, DeleteCancelRead(t, j)
      PROVE  creator[k] \in {"done", "aborted"}
  <2>1. /\ creator[j] \in {"done", "aborted"}
        /\ \E pc, docs : Holds(t, pc, {j}, docs) /\ docs \in {NoCopies, Snapshot({j})}
    BY <1>0, <1>3 DEF DeleteCancelRead, AfterCancelRead
  <2>. QED  BY <1>1, <2>1 DEF NoCopies, Snapshot
<1>4. ASSUME NEW j \in Jobs, Kill(t, j)
      PROVE  creator[k] \in {"done", "aborted"}
  BY <1>0, <1>4 DEF Kill
<1>5. ASSUME NEW j \in Jobs, CancelSave(t, j) \/ DeleteDoc(t, j) \/ HandlerFails(t)
      PROVE  creator[k] \in {"done", "aborted"}
  <2>1. \E pc : \E S \in {{}, {j}} : Holds(t, pc, S, NoCopies) /\ (S = {j} => j \in todo[t])
    BY <1>5 DEF CancelSave, DeleteDoc, HandlerFails, Return
  <2>. QED  BY <1>0, <1>1, <2>1 DEF NoCopies
<1>6. ASSUME NEW j \in Jobs, Reconcile(t, j)
      PROVE  creator[k] \in {"done", "aborted"}
  <2>1. \/ Holds(t, "idle", {}, NoCopies)
        \/ Holds(t, "reconcile", todo[t] \ {j}, [copy[t] EXCEPT ![j] = NoDoc])
    BY <1>6 DEF Reconcile, Return
  <2>. QED  BY <1>0, <1>1, <2>1 DEF NoCopies
<1>7. ASSUME NEW S \in SUBSET Jobs, PollRead(t, S)
      PROVE  creator[k] \in {"done", "aborted"}
  <2>1. Holds(t, "reconcile", S \cap Reconcilable, Snapshot(S \cap Reconcilable))
    BY <1>7 DEF PollRead
  <2>2. k \in Reconcilable
    BY <1>1, <2>1 DEF Snapshot
  <2>3. db[k] \notin {NoDoc, Queued}
    BY <2>2 DEF Reconcilable, Queued
  <2>. QED  BY <1>0, <2>3 DEF QInv, EarlyOK, CreatorPc
<1>. QED  BY <1>2, <1>3, <1>4, <1>5, <1>6, <1>7 DEF HandlerStep, HandlerFails

\* A handler writes to a job it deals with.
LEMMA HandlerWrites ==
    ASSUME Typed, NEW t \in Threads, HandlerStep(t), NEW k \in Jobs, db'[k] # db[k]
    PROVE  /\ k \in todo[t]
           /\ \/ tpc[t] = "save" /\ db'[k] = Cancelled(copy[t][k])
              \/ tpc[t] = "delete" /\ db'[k] = NoDoc
              \/ /\ tpc[t] = "reconcile"
                 /\ ~ProcessExists(copy[t][k].pid)
                 /\ \E why : db'[k] = Failed(copy[t][k], why)
<1>. USE DEF Typed, TypeOK
<1>1. ASSUME NEW j \in Jobs, CancelRead(t, j) \/ DeleteRead(t, j) \/ DeleteCancelRead(t, j) \/ Kill(t, j)
      PROVE  FALSE
  BY <1>1 DEF CancelRead, DeleteRead, DeleteCancelRead, Kill
<1>2. ~(HandlerFails(t) \/ \E S \in SUBSET Jobs : PollRead(t, S))
  BY DEF HandlerFails, PollRead
<1>3. PICK j \in Jobs : CancelSave(t, j) \/ DeleteDoc(t, j) \/ Reconcile(t, j)
  BY <1>1, <1>2 DEF HandlerStep
<1>4. j = k
  BY <1>3 DEF CancelSave, DeleteDoc, Reconcile
<1>5. CASE CancelSave(t, j)
  BY <1>4, <1>5 DEF CancelSave
<1>6. CASE DeleteDoc(t, j)
  BY <1>4, <1>6 DEF DeleteDoc
<1>7. CASE Reconcile(t, j)
  BY <1>4, <1>7 DEF Reconcile
<1>. QED  BY <1>3, <1>5, <1>6, <1>7

LEMMA NextEarly == QInv /\ QuietCreate /\ [Next]_vars => EarlyOK'
<1>. SUFFICES ASSUME QInv, QuietCreate, [Next]_vars
              PROVE  EarlyOK'
  OBVIOUS
<1>0. EarlyOK /\ Typed /\ PidsOK
  BY DEF QInv, IInv
<1>. USE DEF Typed, TypeOK
<1>1. ASSUME NEW j \in Jobs, CreateQueued(j) \/ CreateRunning(j) \/ CreateFails(j)
      PROVE  EarlyOK'
  BY <1>0, <1>1 DEF EarlyOK, CreateQueued, CreateRunning, CreateFails, DropPopen, AfterBoot, Alive,
                    InTry, workerLocals, handlerVars
<1>2. ASSUME NEW j \in Jobs, Popen(j)
      PROVE  EarlyOK'
  BY <1>0, <1>2 DEF EarlyOK, Popen, AfterBoot, Alive, InTry, handlerVars
<1>3. ASSUME NEW j \in Jobs, WorkerStep(j)
      PROVE  EarlyOK'
  <2>1. UNCHANGED <<creator, todo, copy>> /\ wpc[j] \in Alive
    BY <1>0, <1>3, WorkerGrows DEF WorkerStep
  <2>2. \A k \in Jobs \ {j} : db'[k] = db[k] /\ wjob'[k] = wjob[k] /\ wlatest'[k] = wlatest[k]
                               /\ wpc'[k] = wpc[k]
    BY <1>0, <1>3, WorkerWrites
  <2>3. CASE creator[j] = "done"
    BY <1>0, <2>1, <2>2, <2>3 DEF EarlyOK
  <2>4. CASE creator[j] # "done"
    <3>1. WorkerCrash(j)
      <4>1. wpc[j] = "boot" /\ ~Settled(j)
        BY <2>1, <2>4, AtWorkIsDone, AliveIsDone DEF AfterBoot
      <4>. QED  BY <1>3, <4>1 DEF WorkerStep, Boot, ReadLatest, SaveUpdate, Solve, SaveCompleted,
                                 ReadForFailure, SaveFailed, CallRaises, SaveRaises, InTry
    <3>2. db' = db /\ wjob'[j] = NoDoc /\ wlatest'[j] = NoDoc /\ wpc'[j] \notin AfterBoot
      BY <1>0, <3>1 DEF WorkerCrash, Exit, Goto, Corpse, AfterBoot, Alive, InTry
    <3>. QED  BY <1>0, <2>1, <2>2, <3>2 DEF EarlyOK
  <2>. QED  BY <2>3, <2>4
<1>4. ASSUME NEW t \in Threads, HandlerStep(t)
      PROVE  EarlyOK'
  <2>. SUFFICES ASSUME NEW k \in Jobs, creator'[k] \in {"none", "saved", "spawned"}
                PROVE  /\ db'[k] \in {NoDoc, Queued}
                       /\ creator'[k] # "none" => db'[k] = Queued
                       /\ wjob'[k] = NoDoc /\ wlatest'[k] = NoDoc /\ wpc'[k] \notin AfterBoot
                       /\ \A t2 \in Threads : k \notin todo'[t2] /\ copy'[t2][k] = NoDoc
    BY DEF EarlyOK
  <2>1. creator' = creator /\ wpc'[k] \notin AfterBoot /\ wjob'[k] = NoDoc /\ wlatest'[k] = NoDoc
    BY <1>0, <1>4, HandlerLeaves DEF EarlyOK, AfterBoot
  <2>2. k \notin todo'[t] /\ copy'[t][k] = NoDoc
    BY <1>4, <2>1, HandlerPicksSettled
  <2>3. \A t2 \in Threads \ {t} : k \notin todo'[t2] /\ copy'[t2][k] = NoDoc
    BY <1>0, <1>4, <2>1, HandlerLeaves DEF EarlyOK
  <2>4. db'[k] = db[k]
    BY <1>0, <1>4, <2>1, HandlerWrites DEF EarlyOK
  <2>. QED  BY <1>0, <2>1, <2>2, <2>3, <2>4 DEF EarlyOK
<1>5. CASE ApiRestart \/ HostRestart
  BY <1>0, <1>5 DEF EarlyOK, ApiRestart, HostRestart, DropRequests, NoCopies, AfterBoot, Alive, InTry
<1>6. CASE UNCHANGED vars
  BY <1>0, <1>6 DEF EarlyOK, vars
<1>. QED  BY <1>1, <1>2, <1>3, <1>4, <1>5, <1>6, NextSteps

\* With QuietCreate an API restart meets no create_job that has started a worker.
LEMMA NextAborted == QInv /\ QuietCreate /\ [Next]_vars => AbortedOK'
<1>. SUFFICES ASSUME QInv, QuietCreate, [Next]_vars
              PROVE  AbortedOK'
  OBVIOUS
<1>0. AbortedOK /\ Typed /\ PidsOK
  BY DEF QInv, IInv
<1>. USE DEF Typed, TypeOK, AbortedOK
<1>1. ASSUME NEW j \in Jobs, CreateQueued(j) \/ Popen(j) \/ CreateRunning(j) \/ CreateFails(j)
      PROVE  AbortedOK'
  BY <1>0, <1>1 DEF CreateQueued, Popen, CreateRunning, CreateFails, DropPopen, PidsOK
<1>2. ASSUME NEW j \in Jobs, WorkerStep(j)
      PROVE  AbortedOK'
  <2>1. creator' = creator /\ wpc[j] \in Alive
    BY <1>0, <1>2, WorkerGrows DEF WorkerStep
  <2>2. \A k \in Jobs \ {j} : wpc'[k] = wpc[k]
    BY <1>0, <1>2, WorkerWrites
  <2>. QED  BY <1>0, <2>1, <2>2 DEF Alive, InTry
<1>3. ASSUME NEW t \in Threads, HandlerStep(t)
      PROVE  AbortedOK'
  BY <1>0, <1>3, HandlerLeaves DEF Alive, InTry
<1>4. CASE ApiRestart \/ HostRestart
  BY <1>0, <1>4 DEF ApiRestart, HostRestart, DropRequests, PidsOK
<1>5. CASE UNCHANGED vars
  BY <1>0, <1>5 DEF vars
<1>. QED  BY <1>1, <1>2, <1>3, <1>4, <1>5, NextSteps

-----------------------------------------------------------------------------
(* Handlers stop the worker first; workers are not overtaken.              *)

\* No step makes an ended job active again, except the creation itself.
LEMMA EndedStaysEnded ==
    ASSUME QInv, [Next]_vars, NEW k \in Jobs, creator[k] \in {"done", "aborted"},
           ~IsActive(db[k])
    PROVE  ~IsActive(db'[k])
<1>1. Typed
  BY DEF QInv, IInv
<1>2. ASSUME NEW j \in Jobs, CreateQueued(j) \/ Popen(j) \/ CreateRunning(j) \/ CreateFails(j)
      PROVE  db'[k] = db[k]
  BY <1>1, <1>2 DEF CreateQueued, Popen, CreateRunning, CreateFails, Typed, TypeOK
<1>3. ASSUME NEW j \in Jobs, WorkerStep(j)
      PROVE  ~IsActive(db'[k])
  <2>1. CASE j # k
    BY <1>1, <1>3, <2>1, WorkerWrites
  <2>2. CASE j = k
    <3>1. wpc[j] \notin InTry
      <4>. SUFFICES ASSUME wpc[j] \in InTry
                    PROVE  FALSE
        OBVIOUS
      <4>1. creator[j] = "done"
        BY AtWorkIsDone DEF AfterBoot, Alive, InTry
      <4>. QED  BY <2>2, <4>1 DEF QInv, FindsRunning, HasStatus, IsActive, Active
    <3>2. db'[j] = db[j] \/ db'[j] \in {Completed(wlatest[j]), Failed(wlatest[j], "raised")}
      BY <1>1, <1>3, <3>1, WorkerAdvances
    <3>3. CASE db'[j] = Completed(wlatest[j]) /\ wlatest[j] # NoDoc
      BY <1>1, <2>2, <3>3 DEF IsActive, Active, Completed, Typed, TypeOK, Doc, Record
    <3>4. CASE db'[j] = Failed(wlatest[j], "raised") /\ wlatest[j] # NoDoc
      BY <1>1, <2>2, <3>4 DEF IsActive, Active, Failed, Typed, TypeOK, Doc, Record
    <3>. QED  BY <1>1, <1>3, <2>2, <3>2, <3>3, <3>4, WorkerWrites
  <2>. QED  BY <2>1, <2>2
<1>4. ASSUME NEW t \in Threads, HandlerStep(t)
      PROVE  ~IsActive(db'[k])
  <2>1. CASE db'[k] = db[k]
    BY <2>1
  <2>2. CASE db'[k] # db[k]
    <3>1. /\ k \in todo[t]
          /\ tpc[t] \in HasCopy \/ db'[k] = NoDoc
          /\ db'[k] \in {Cancelled(copy[t][k]), NoDoc} \/ \E why : db'[k] = Failed(copy[t][k], why)
      BY <1>1, <1>4, <2>2, HandlerWrites DEF HasCopy
    <3>2. db'[k] # NoDoc => copy[t][k] \in Record
      BY <1>1, <3>1 DEF Typed, TypeOK, LocalsOK, Doc
    <3>. QED  BY <3>1, <3>2 DEF IsActive, Active, Cancelled, Failed, Record
  <2>. QED  BY <2>1, <2>2
<1>5. ASSUME ApiRestart \/ HostRestart \/ UNCHANGED vars
      PROVE  db' = db
  BY <1>5 DEF ApiRestart, HostRestart, vars
<1>. QED  BY <1>2, <1>3, <1>4, <1>5, NextSteps

\* A worker that has ended does not come back.
LEMMA EndedWorkerStaysEnded ==
    ASSUME QInv, [Next]_vars, NEW k \in Jobs, creator[k] \in {"done", "aborted"},
           wpc[k] \notin Alive
    PROVE  wpc'[k] \notin Alive
<1>0. Typed
  BY DEF QInv, IInv
<1>1. ASSUME NEW j \in Jobs, CreateQueued(j) \/ Popen(j) \/ CreateRunning(j) \/ CreateFails(j)
      PROVE  wpc'[k] \in {wpc[k], "reaped"}
  BY <1>0, <1>1 DEF CreateQueued, Popen, CreateRunning, CreateFails, DropPopen, Typed, TypeOK
<1>2. ASSUME NEW j \in Jobs, WorkerStep(j)
      PROVE  wpc'[k] = wpc[k]
  BY <1>0, <1>2, WorkerGrows, WorkerWrites DEF WorkerStep
<1>3. ASSUME ApiRestart \/ HostRestart \/ UNCHANGED vars
      PROVE  wpc'[k] \in {wpc[k], "reaped", "none"}
  BY <1>0, <1>3 DEF ApiRestart, HostRestart, vars, Typed, TypeOK
<1>. QED  BY <1>0, <1>1, <1>2, <1>3, NextSteps, HandlerLeaves DEF Alive, InTry

\* A thread that goes on as it was keeps its promises, whatever others do.
LEMMA StopsKept ==
    ASSUME QInv, [Next]_vars, NEW t \in Threads, NEW k \in Jobs,
           UNCHANGED <<tpc[t], todo[t], copy[t]>>, k \in todo'[t]
    PROVE  /\ tpc'[t] # "reconcile" => todo'[t] = {k}
           /\ tpc'[t] = "save" => wpc'[k] \notin Alive
           /\ tpc'[t] = "delete" => ~IsActive(db'[k])
<1>1. creator[k] \in {"done", "aborted"}
  BY TodoIsSettled
<1>. QED  BY <1>1, EndedStaysEnded, EndedWorkerStaysEnded DEF QInv, StopsFirst

LEMMA NextStops == QInv /\ QuietCreate /\ [Next]_vars => StopsFirst'
<1>. SUFFICES ASSUME QInv, QuietCreate, [Next]_vars
              PROVE  StopsFirst'
  OBVIOUS
<1>0. Typed /\ StopsFirst
  BY DEF QInv, IInv
<1>. DEFINE Kept(t) == /\ tpc'[t] = tpc[t] /\ todo'[t] = todo[t] /\ copy'[t] = copy[t]
            Stops(t) == \A k \in todo'[t] :
                            /\ tpc'[t] # "reconcile" => todo'[t] = {k}
                            /\ tpc'[t] = "save" => wpc'[k] \notin Alive
                            /\ tpc'[t] = "delete" => ~IsActive(db'[k])
<1>kept. ASSUME NEW t \in Threads, Kept(t)
      PROVE  Stops(t)
  <2>1. todo'[t] \subseteq Jobs
    BY <1>0, <1>kept DEF Typed, TypeOK
  <2>. QED  BY <1>kept, <2>1, StopsKept
<1>1. ASSUME UNCHANGED <<tpc, todo, copy>>
      PROVE  StopsFirst'
  BY <1>1, <1>kept DEF StopsFirst
<1>2. ASSUME NEW t \in Threads, HandlerStep(t), Stops(t)
      PROVE  StopsFirst'
  <2>1. ASSUME NEW t2 \in Threads, t2 # t
        PROVE  Stops(t2)
    BY <1>0, <1>2, <2>1, <1>kept, HandlerLeaves
  <2>. QED  BY <1>2, <2>1 DEF StopsFirst
\* A handler that holds one job: what its next call requires.
<1>3. ASSUME NEW t \in Threads, NEW j \in Jobs, HandlerStep(t),
             NEW pc, NEW docs, Holds(t, pc, {j}, docs),
             /\ pc = "save" => wpc'[j] \notin Alive
             /\ pc = "delete" => ~IsActive(db'[j])
      PROVE  StopsFirst'
  <2>1. tpc'[t] = pc /\ todo'[t] = {j} /\ copy'[t] = docs
    BY <1>0, <1>3 DEF Holds, Typed, TypeOK
  <2>. QED  BY <1>2, <1>3, <2>1
<1>4. ASSUME NEW t \in Threads, HandlerStep(t), NEW pc, NEW S, NEW docs, Holds(t, pc, S, docs),
             S = {} \/ pc = "reconcile"
      PROVE  StopsFirst'
  <2>1. tpc'[t] = pc /\ todo'[t] = S
    BY <1>0, <1>4 DEF Holds, Typed, TypeOK
  <2>. QED  BY <1>2, <1>4, <2>1
\* A document without a pid is that of a job without a live worker.
<1>5. ASSUME NEW t \in Threads, NEW j \in Jobs, HandlerStep(t), wpc' = wpc,
             creator[j] \in {"done", "aborted"}, IsActive(db[j]), AfterCancelRead(t, j)
      PROVE  StopsFirst'
  <2>1. db[j].pid = NoPid => wpc'[j] \notin Alive
    BY <1>5, ReadIsHeld, CopyNamesWorker DEF IsActive
  <2>. DEFINE pc == IF db[j].pid = NoPid THEN "save" ELSE "kill"
  <2>2. Holds(t, pc, {j}, Snapshot({j})) /\ Snapshot({j})[j] = db[j]
    BY <1>5 DEF AfterCancelRead, Snapshot
  <2>. QED  BY <1>3, <1>5, <2>1, <2>2
<1>6. ASSUME NEW j \in Jobs, CreateQueued(j) \/ Popen(j) \/ CreateRunning(j) \/ CreateFails(j)
      PROVE  StopsFirst'
  BY <1>1, <1>6 DEF CreateQueued, Popen, CreateRunning, CreateFails, handlerVars
<1>7. ASSUME NEW j \in Jobs, WorkerStep(j)
      PROVE  StopsFirst'
  BY <1>0, <1>1, <1>7, WorkerGrows DEF WorkerStep
<1>8. ASSUME NEW t \in Threads, NEW j \in Jobs, CancelRead(t, j)
      PROVE  StopsFirst'
  BY <1>5, <1>8 DEF CancelRead, Settled, HandlerStep
<1>9. ASSUME NEW t \in Threads, NEW j \in Jobs, DeleteRead(t, j)
      PROVE  StopsFirst'
  <2>. DEFINE pc == IF IsActive(db[j]) THEN "reread" ELSE "delete"
  <2>1. Holds(t, pc, {j}, NoCopies) /\ db' = db /\ HandlerStep(t)
    BY <1>9 DEF DeleteRead, HandlerStep
  <2>. QED  BY <1>3, <2>1
<1>10. ASSUME NEW t \in Threads, NEW j \in Jobs, DeleteCancelRead(t, j)
       PROVE  StopsFirst'
  <2>1. wpc' = wpc /\ db' = db /\ creator[j] \in {"done", "aborted"} /\ HandlerStep(t)
    BY <1>10, TodoIsSettled DEF DeleteCancelRead, HandlerStep
  <2>2. CASE IsActive(db[j])
    BY <1>5, <1>10, <2>1, <2>2 DEF DeleteCancelRead
  <2>3. CASE ~IsActive(db[j])
    BY <1>3, <1>10, <2>1, <2>3 DEF DeleteCancelRead
  <2>. QED  BY <2>2, <2>3
\* The signal goes to the pid in the copy, which is the worker's.
<1>11. ASSUME NEW t \in Threads, NEW j \in Jobs, Kill(t, j)
       PROVE  StopsFirst'
  <2>1. tpc[t] = "kill" /\ j \in todo[t] /\ todo[t] = {j} /\ todo' = todo /\ tpc'[t] = "save"
    BY <1>0, <1>11 DEF Kill, StopsFirst, Typed, TypeOK
  <2>2. wpc'[j] \notin Alive
    <3>. SUFFICES ASSUME wpc[j] \in Alive
                  PROVE  wpc'[j] \notin Alive
      BY <1>0, <1>11 DEF Kill, Corpse, Alive, InTry, Typed, TypeOK
    <3>1. copy[t][j] # NoDoc
      BY <1>0, <2>1 DEF Typed, LocalsOK, HasCopy
    <3>2. wpid[j] = copy[t][j].pid
      BY <2>1, <3>1, ReadIsHeld, TodoIsSettled, CopyNamesWorker
    <3>. QED  BY <1>11, <3>2 DEF Kill, Corpse, Alive, InTry
  <2>. QED  BY <1>2, <1>11, <2>1, <2>2 DEF HandlerStep
<1>12. ASSUME NEW t \in Threads, NEW j \in Jobs, CancelSave(t, j)
       PROVE  StopsFirst'
  <2>1. HandlerStep(t) /\ copy[t][j] \in Record /\ db'[j] = Cancelled(copy[t][j])
    <3>1. tpc[t] = "save" /\ j \in todo[t] /\ db'[j] = Cancelled(copy[t][j])
      BY <1>0, <1>12 DEF CancelSave, Typed, TypeOK
    <3>2. copy[t][j] \in Doc \ {NoDoc}
      BY <1>0, <3>1 DEF Typed, TypeOK, LocalsOK, HasCopy
    <3>. QED  BY <1>12, <3>1, <3>2 DEF HandlerStep, Doc
  <2>2. ~IsActive(db'[j])
    BY <2>1 DEF IsActive, Active, Cancelled, Record
  <2>. QED  BY <1>3, <1>4, <1>12, <2>1, <2>2 DEF CancelSave, Return
<1>13. ASSUME NEW t \in Threads, NEW j \in Jobs, DeleteDoc(t, j) \/ Reconcile(t, j) \/ HandlerFails(t)
       PROVE  StopsFirst'
  BY <1>4, <1>13 DEF DeleteDoc, Reconcile, HandlerFails, Return, HandlerStep
<1>14. ASSUME NEW t \in Threads, NEW S \in SUBSET Jobs, PollRead(t, S)
       PROVE  StopsFirst'
  BY <1>4, <1>14 DEF PollRead, HandlerStep
<1>15. ASSUME NEW t \in Threads, HandlerFails(t)
       PROVE  StopsFirst'
  BY <1>4, <1>15 DEF HandlerFails, Return, HandlerStep
<1>16. CASE ApiRestart \/ HostRestart
  BY <1>16 DEF ApiRestart, HostRestart, DropRequests, StopsFirst
<1>17. CASE UNCHANGED vars
  BY <1>1, <1>17 DEF vars
<1>. QED
  BY <1>6, <1>7, <1>8, <1>9, <1>10, <1>11, <1>12, <1>13, <1>14, <1>15, <1>16, <1>17, NextSteps
     DEF HandlerStep

LEMMA NextFinds == QInv /\ [Next]_vars => FindsRunning'
<1>. SUFFICES ASSUME QInv, [Next]_vars, NEW k \in Jobs,
                     creator'[k] = "done", wpc'[k] \in InTry \cup {"boot"}
              PROVE  db'[k] # NoDoc /\ db'[k].status = "running"
  BY DEF FindsRunning, HasStatus
<1>0. Typed /\ FindsRunning
  BY DEF QInv, IInv
<1>. USE DEF FindsRunning, HasStatus
<1>1. ASSUME creator[k] = "done", wpc[k] \in InTry \cup {"boot"}, db'[k] = db[k]
      PROVE  db'[k] # NoDoc /\ db'[k].status = "running"
  BY <1>0, <1>1
<1>2. ASSUME NEW j \in Jobs, CreateQueued(j) \/ Popen(j) \/ CreateFails(j)
      PROVE  db'[k] # NoDoc /\ db'[k].status = "running"
  BY <1>0, <1>1, <1>2
     DEF CreateQueued, Popen, CreateFails, DropPopen, Typed, TypeOK, InTry
<1>3. ASSUME NEW j \in Jobs, CreateRunning(j)
      PROVE  db'[k] # NoDoc /\ db'[k].status = "running"
  <2>1. CASE j = k
    <3>1. db'[k] = Started(wpid[k]) /\ wpid[k] \in Pids \cup {NoPid}
      BY <1>0, <1>3, <2>1 DEF CreateRunning, Typed, TypeOK
    <3>2. db'[k] \in Record
      BY <3>1, StartingRecords
    <3>. QED  BY <3>1, <3>2, NoDocAssumption DEF Started, Queued
  <2>2. CASE j # k
    BY <1>0, <1>1, <1>3, <2>2 DEF CreateRunning, DropPopen, Typed, TypeOK, InTry
  <2>. QED  BY <2>1, <2>2
<1>4. ASSUME NEW j \in Jobs, WorkerStep(j)
      PROVE  db'[k] # NoDoc /\ db'[k].status = "running"
  <2>1. creator' = creator
    BY <1>0, <1>4, WorkerGrows DEF WorkerStep
  <2>2. CASE j # k
    BY <1>0, <1>1, <1>4, <2>1, <2>2, WorkerWrites
  <2>3. CASE j = k
    <3>1. /\ wpc[k] \in InTry \cup {"boot"}
          /\ db'[k] = db[k] \/ \E p \in {8, 18} : db'[k] = Advanced(wlatest[k], p)
          /\ db'[k] # db[k] => wlatest[k] # NoDoc
      BY <1>0, <1>4, <2>3, WorkerAdvances, WorkerWrites
    <3>2. CASE db'[k] # db[k]
      <4>1. PICK p \in {8, 18} : db'[k] = Advanced(wlatest[k], p)
        BY <3>1, <3>2
      <4>2. wlatest[k] \in Record /\ p \in Progress
        BY <1>0, <3>1, <3>2 DEF Typed, TypeOK, Doc, Progress
      <4>3. db'[k] \in Record /\ db'[k].status = "running"
        BY <4>1, <4>2, AdvancedRecord DEF Advanced, Record
      <4>. QED  BY <4>3, NoDocAssumption
    <3>. QED  BY <1>1, <2>1, <3>1, <3>2
  <2>. QED  BY <2>2, <2>3
<1>5. ASSUME NEW t \in Threads, HandlerStep(t)
      PROVE  db'[k] # NoDoc /\ db'[k].status = "running"
  <2>1. creator[k] = "done" /\ wpc[k] = wpc'[k] /\ wpc[k] \in Alive
    BY <1>0, <1>5, HandlerLeaves DEF Alive
  <2>2. db'[k] = db[k]
    <3>. SUFFICES ASSUME db'[k] # db[k]
                  PROVE  FALSE
      OBVIOUS
    <3>1. /\ k \in todo[t] /\ tpc[t] \in {"save", "delete", "reconcile"}
          /\ tpc[t] = "reconcile" => ~ProcessExists(copy[t][k].pid)
      BY <1>0, <1>5, HandlerWrites
    <3>2. tpc[t] # "save"
      BY <2>1, <3>1 DEF QInv, StopsFirst
    <3>3. tpc[t] # "delete"
      BY <1>0, <2>1, <3>1 DEF QInv, StopsFirst, IsActive, Active
    <3>4. tpc[t] = "reconcile" => copy[t][k].pid = wpid[k]
      BY <1>0, <2>1, <3>1, ReadIsHeld, CopyNamesWorker DEF Typed, LocalsOK, HasCopy
    <3>. QED  BY <2>1, <3>1, <3>2, <3>3, <3>4 DEF ProcessExists
  <2>. QED  BY <1>1, <2>1, <2>2
<1>6. CASE ApiRestart \/ HostRestart
  BY <1>0, <1>1, <1>6 DEF ApiRestart, HostRestart, DropRequests, Typed, TypeOK, InTry
<1>7. CASE UNCHANGED vars
  BY <1>1, <1>7 DEF vars
<1>. QED  BY <1>2, <1>3, <1>4, <1>5, <1>6, <1>7, NextSteps

-----------------------------------------------------------------------------
(* Every copy of a document names the worker's pid.                        *)

LEMMA HandlerCopies ==
    ASSUME Typed, NEW t \in Threads, HandlerStep(t), NEW k \in Jobs
    PROVE  copy'[t][k] \in {NoDoc, db[k], copy[t][k]}
<1>. USE DEF Typed, TypeOK
<1>1. ASSUME NEW pc, NEW S, NEW docs, Holds(t, pc, S, docs),
             docs[k] \in {NoDoc, db[k], copy[t][k]}
      PROVE  copy'[t][k] \in {NoDoc, db[k], copy[t][k]}
  BY <1>1 DEF Holds
<1>2. NoCopies[k] = NoDoc /\ \A S \in SUBSET Jobs : Snapshot(S)[k] \in {NoDoc, db[k]}
  BY DEF NoCopies, Snapshot
<1>3. ASSUME NEW j \in Jobs, CancelRead(t, j) \/ DeleteRead(t, j) \/ DeleteCancelRead(t, j)
      PROVE  copy'[t][k] \in {NoDoc, db[k], copy[t][k]}
  <2>1. \E pc : Holds(t, pc, {j}, NoCopies) \/ Holds(t, pc, {j}, Snapshot({j}))
    BY <1>3 DEF CancelRead, DeleteRead, DeleteCancelRead, AfterCancelRead
  <2>. QED  BY <1>1, <1>2, <2>1
<1>4. ASSUME NEW j \in Jobs, Kill(t, j)
      PROVE  copy' = copy
  BY <1>4 DEF Kill
<1>5. ASSUME NEW j \in Jobs, CancelSave(t, j) \/ DeleteDoc(t, j)
      PROVE  copy'[t][k] \in {NoDoc, db[k], copy[t][k]}
  <2>1. \E pc, S : Holds(t, pc, S, NoCopies)
    BY <1>5 DEF CancelSave, DeleteDoc, Return
  <2>. QED  BY <1>1, <1>2, <2>1
<1>6. ASSUME NEW j \in Jobs, Reconcile(t, j)
      PROVE  copy'[t][k] \in {NoDoc, db[k], copy[t][k]}
  <2>1. \E pc, S : Holds(t, pc, S, NoCopies) \/ Holds(t, pc, S, [copy[t] EXCEPT ![j] = NoDoc])
    BY <1>6 DEF Reconcile, Return
  <2>2. [copy[t] EXCEPT ![j] = NoDoc][k] \in {NoDoc, copy[t][k]}
    OBVIOUS
  <2>. QED  BY <1>1, <1>2, <2>1, <2>2
<1>7. ASSUME NEW S \in SUBSET Jobs, PollRead(t, S)
      PROVE  copy'[t][k] \in {NoDoc, db[k], copy[t][k]}
  <2>1. S \cap Reconcilable \in SUBSET Jobs
    OBVIOUS
  <2>. QED  BY <1>1, <1>2, <1>7, <2>1 DEF PollRead
<1>8. CASE HandlerFails(t)
  BY <1>1, <1>2, <1>8 DEF HandlerFails, Return
<1>. QED  BY <1>3, <1>4, <1>5, <1>6, <1>7, <1>8 DEF HandlerStep

\* A record made from a copy keeps its pid, and says that the job is cancelled
\* only if the worker has been stopped.
Derived(k, doc) ==
    \/ doc \in Held(k)
    \/ \E rec \in Held(k) : /\ doc.pid = rec.pid
                            /\ doc.status = "cancelled" => wpc[k] \notin Alive

LEMMA UpdatesDerive ==
    ASSUME Typed, NEW k \in Jobs, NEW rec \in Held(k)
    PROVE  /\ \A p : Derived(k, Advanced(rec, p))
           /\ Derived(k, Completed(rec))
           /\ \A why : Derived(k, Failed(rec, why))
           /\ wpc[k] \notin Alive => Derived(k, Cancelled(rec))
<1>1. rec \in Record
  BY DEF Held, Holding, Typed, TypeOK, Doc
<1>. QED  BY <1>1 DEF Derived, Advanced, Completed, Failed, Cancelled, Record

LEMMA NextDerived ==
    ASSUME QInv, [Next]_vars, NEW k \in Jobs, creator[k] \in {"done", "aborted"},
           NEW doc \in Held(k)'
    PROVE  Derived(k, doc)
<1>0. Typed /\ doc # NoDoc
  BY DEF QInv, IInv, Held
<1>1. \/ doc \in {db'[k], wjob'[k], wlatest'[k]}
      \/ \E t \in Threads : doc = copy'[t][k]
  BY DEF Held, Holding
<1>2. /\ \A d \in {db[k], wjob[k], wlatest[k], Latest(k)} : d # NoDoc => Derived(k, d)
      /\ \A t \in Threads : copy[t][k] # NoDoc => Derived(k, copy[t][k])
  BY DEF Derived, Held, Holding, Latest
<1>3. CASE db' = db /\ \A j \in Jobs : /\ wjob'[j] \in {wjob[j], NoDoc}
                                       /\ wlatest'[j] \in {wlatest[j], NoDoc}
                                       /\ \A t \in Threads : copy'[t][j] \in {copy[t][j], NoDoc}
  BY <1>0, <1>1, <1>2, <1>3
<1>4. ASSUME NEW j \in Jobs, CreateQueued(j) \/ Popen(j) \/ CreateRunning(j) \/ CreateFails(j)
      PROVE  Derived(k, doc)
  <2>1. db'[k] = db[k] /\ wjob' = wjob /\ wlatest' = wlatest /\ copy' = copy
    BY <1>0, <1>4 DEF CreateQueued, Popen, CreateRunning, CreateFails, workerLocals, handlerVars,
                      Typed, TypeOK
  <2>. QED  BY <1>0, <1>1, <1>2, <2>1
<1>5. ASSUME NEW j \in Jobs, WorkerStep(j)
      PROVE  Derived(k, doc)
  <2>1. copy' = copy
    BY <1>0, <1>5, WorkerGrows DEF WorkerStep
  <2>2. CASE j # k
    <3>1. db'[k] = db[k] /\ wjob'[k] = wjob[k] /\ wlatest'[k] = wlatest[k]
      BY <1>0, <1>5, <2>2, WorkerWrites
    <3>. QED  BY <1>0, <1>1, <1>2, <2>1, <3>1
  <2>3. CASE j = k
    <3>1. /\ db'[k] # db[k] => db'[k] \in Saves(k) /\ wlatest[k] # NoDoc
          /\ \/ wjob'[k] \in {wjob[k], db[k], NoDoc}
             \/ wjob'[k] \in Saves(k) /\ wlatest[k] # NoDoc
          /\ wlatest'[k] \in {wlatest[k], Latest(k), NoDoc}
      BY <1>0, <1>5, <2>3, WorkerWrites
    <3>2. wlatest[k] # NoDoc => \A d \in Saves(k) : Derived(k, d)
      BY <1>0, ReadIsHeld, UpdatesDerive DEF Saves
    <3>. QED  BY <1>0, <1>1, <1>2, <2>1, <3>1, <3>2
  <2>. QED  BY <2>2, <2>3
<1>6. ASSUME NEW t \in Threads, HandlerStep(t)
      PROVE  Derived(k, doc)
  <2>1. CASE doc = db'[k] /\ db'[k] # db[k]
    <3>1. /\ k \in todo[t] /\ tpc[t] \in HasCopy
          /\ \/ tpc[t] = "save" /\ doc = Cancelled(copy[t][k])
             \/ \E why : doc = Failed(copy[t][k], why)
      BY <1>0, <1>6, <2>1, HandlerWrites DEF HasCopy
    <3>2. copy[t][k] \in Held(k)
      BY <1>0, <3>1, ReadIsHeld DEF Typed, LocalsOK
    <3>3. tpc[t] = "save" => wpc[k] \notin Alive
      BY <3>1 DEF QInv, StopsFirst
    <3>. QED  BY <1>0, <3>1, <3>2, <3>3, UpdatesDerive
  <2>2. wjob'[k] \in {wjob[k], NoDoc} /\ wlatest'[k] \in {wlatest[k], NoDoc}
    BY <1>0, <1>6, HandlerLeaves
  <2>3. \A t2 \in Threads : copy'[t2][k] \in {NoDoc, db[k], copy[t2][k]}
    BY <1>0, <1>6, HandlerLeaves, HandlerCopies
  <2>. QED  BY <1>0, <1>1, <1>2, <2>1, <2>2, <2>3
<1>7. ASSUME ApiRestart \/ HostRestart \/ UNCHANGED vars
      PROVE  Derived(k, doc)
  BY <1>0, <1>3, <1>7 DEF ApiRestart, HostRestart, DropRequests, NoCopies, vars, Typed, TypeOK
<1>. QED  BY <1>4, <1>5, <1>6, <1>7, NextSteps

\* The creator of a settled job has ended, and so has the choice of its pid.
LEMMA SettledStays ==
    ASSUME QInv, [Next]_vars, NEW k \in Jobs, creator[k] \in {"done", "aborted"}
    PROVE  creator'[k] = creator[k] /\ wpid'[k] = wpid[k]
<1>0. Typed
  BY DEF QInv, IInv
<1>1. ASSUME NEW j \in Jobs, CreateQueued(j) \/ Popen(j) \/ CreateRunning(j) \/ CreateFails(j)
      PROVE  creator'[k] = creator[k] /\ wpid'[k] = wpid[k]
  BY <1>0, <1>1 DEF CreateQueued, Popen, CreateRunning, CreateFails, workerLocals, Typed, TypeOK
<1>2. ASSUME NEW j \in Jobs, WorkerStep(j)
      PROVE  creator' = creator /\ wpid' = wpid
  BY <1>0, <1>2, WorkerGrows DEF WorkerStep
<1>3. ASSUME ApiRestart \/ HostRestart \/ UNCHANGED vars
      PROVE  creator'[k] = creator[k] /\ wpid'[k] = wpid[k]
  BY <1>0, <1>3 DEF ApiRestart, HostRestart, DropRequests, vars, Typed, TypeOK
<1>. QED  BY <1>0, <1>1, <1>2, <1>3, NextSteps, HandlerLeaves

LEMMA NextQuietHeld == QInv /\ QuietCreate /\ [Next]_vars => QuietHeldOK'
<1>. SUFFICES ASSUME QInv, QuietCreate, [Next]_vars, NEW k \in Jobs, NEW doc \in Held(k)'
              PROVE  FitsQuiet(doc, creator'[k], wpid'[k], wpc'[k])
  BY DEF QuietHeldOK
<1>0. Typed /\ Typed' /\ EarlyOK /\ EarlyOK'
  BY Inductive, NextEarly DEF QInv, IInv
<1>1. CASE creator[k] \in {"done", "aborted"}
  <2>1. creator'[k] = creator[k] /\ wpid'[k] = wpid[k]
    BY <1>1, SettledStays
  <2>2. wpc[k] \notin Alive => wpc'[k] \notin Alive
    BY <1>1, EndedWorkerStaysEnded
  <2>3. Derived(k, doc)
    BY <1>1, NextDerived
  <2>4. \A rec \in Held(k) : FitsQuiet(rec, creator[k], wpid[k], wpc[k])
    BY DEF QInv, QuietHeldOK
  <2>. QED  BY <2>1, <2>2, <2>3, <2>4 DEF Derived, FitsQuiet
<1>2. CASE creator[k] \notin {"done", "aborted"} /\ creator'[k] \notin {"done", "aborted"}
  <2>1. doc = Queued
    BY <1>0, <1>2 DEF EarlyOK, Held, Holding, Typed, TypeOK, CreatorPc
  <2>. QED  BY <1>2, <2>1 DEF FitsQuiet, Queued
<1>3. CASE creator[k] \notin {"done", "aborted"} /\ creator'[k] \in {"done", "aborted"}
  <2>1. /\ db[k] \in {NoDoc, Queued} /\ wjob[k] = NoDoc /\ wlatest[k] = NoDoc
        /\ \A t \in Threads : copy[t][k] = NoDoc
    BY <1>0, <1>3 DEF EarlyOK, Typed, TypeOK, CreatorPc
  <2>2. ~(\E j \in Jobs : WorkerStep(j)) /\ ~(\E t \in Threads : HandlerStep(t)) /\ ~UNCHANGED vars
    BY <1>0, <1>3, WorkerGrows, HandlerLeaves DEF WorkerStep, vars
  <2>3. CASE CreateRunning(k)
    <3>1. doc = Started(wpid[k]) /\ wpid' = wpid
      BY <1>0, <2>1, <2>3 DEF CreateRunning, workerLocals, handlerVars, Held, Holding, Typed, TypeOK
    <3>. QED  BY <3>1 DEF FitsQuiet, Started, Queued
  <2>4. CASE ~CreateRunning(k)
    <3>1. \/ ApiRestart \/ HostRestart
          \/ \E j \in Jobs : CreateQueued(j) \/ Popen(j) \/ CreateRunning(j) \/ CreateFails(j)
      BY <2>2, NextSteps
    <3>2. creator'[k] = "aborted" /\ db' = db
      BY <1>0, <1>3, <2>4, <3>1
         DEF ApiRestart, HostRestart, DropRequests, CreateQueued, Popen, CreateRunning,
             CreateFails, Typed, TypeOK
    <3>3. /\ wjob'[k] = NoDoc /\ wlatest'[k] = NoDoc
          /\ \A t \in Threads : copy'[t][k] = NoDoc
      BY <1>0, <2>1, <3>1
         DEF ApiRestart, HostRestart, DropRequests, CreateQueued, Popen, CreateRunning,
             CreateFails, NoCopies, workerLocals, handlerVars, Typed, TypeOK
    <3>4. doc = Queued
      BY <2>1, <3>2, <3>3 DEF Held, Holding
    <3>. QED  BY <3>2, <3>4 DEF FitsQuiet, Queued
  <2>. QED  BY <2>3, <2>4
<1>. QED  BY <1>1, <1>2, <1>3

-----------------------------------------------------------------------------
(* The invariant and the properties.                                       *)

LEMMA QuietInductive == QInv /\ QuietCreate /\ [Next]_vars => QInv'
BY Inductive, NextEarly, NextAborted, NextQuietHeld, NextStops, NextFinds
   DEF QInv

LEMMA QuietInit == Init => QInv
<1>. SUFFICES ASSUME Init
              PROVE  QInv
  OBVIOUS
<1>1. \A j \in Jobs : Held(j) = {}
  BY DEF Init, Held, Holding, NoCopies
<1>2. QuietHeldOK
  BY <1>1 DEF QuietHeldOK
<1>3. EarlyOK
  BY DEF Init, EarlyOK, NoCopies, AfterBoot, Alive, InTry
<1>4. AbortedOK /\ StopsFirst /\ FindsRunning
  BY DEF Init, AbortedOK, StopsFirst, FindsRunning
<1>. QED  BY <1>2, <1>3, <1>4, InitInv DEF QInv

\* Handlers, worker and creation keep out of each other's way as QuietInv says
\* (jobs.py, worker.py), when create_job is undisturbed.
THEOREM QuietCopies ==
    ASSUME QuietCreate
    PROVE  Spec => []QuietInv
<1>1. QInv => QuietInv
  BY DEF QInv, QuietInv, IInv, OpenInv, Typed
<1>2. QInv /\ [Next]_vars => QInv'
  BY QuietInductive
<1>. QED  BY <1>1, <1>2, QuietInit, PTL DEF Spec

\* A job that reads cancelled has no worker left that could publish routes
\* (cancel_job, jobs.py:135-152).
THEOREM CancelStops ==
    ASSUME QuietCreate
    PROVE  Spec => []CancelledMeansStopped
<1>1. QInv => CancelledMeansStopped
  <2>. SUFFICES ASSUME QInv, NEW j \in Jobs, db[j] # NoDoc, db[j].status = "cancelled"
                PROVE  wpc[j] \notin Alive
    BY DEF CancelledMeansStopped, HasStatus
  <2>1. db[j] \in Held(j)
    BY ReadIsHeld
  <2>. QED  BY <2>1 DEF QInv, QuietHeldOK, FitsQuiet
<1>2. QInv /\ [Next]_vars => QInv'
  BY QuietInductive
<1>. QED  BY <1>1, <1>2, QuietInit, PTL DEF Spec

\* A live worker's pid is in its job's document, where cancel_job and the
\* reconciliation look for it (jobs.py:140, 168).
THEOREM WorkersAreReachable ==
    ASSUME QuietCreate
    PROVE  Spec => []RunningIsReachable
<1>1. QInv => RunningIsReachable
  <2>. SUFFICES ASSUME QInv, NEW j \in Jobs, wpc[j] \in Alive, Settled(j), db[j] # NoDoc
                PROVE  db[j].pid = wpid[j]
    BY DEF RunningIsReachable
  <2>1. creator[j] = "done" /\ db[j] \in Held(j)
    BY AliveIsDone, ReadIsHeld
  <2>. QED  BY <2>1, CopyNamesWorker
<1>2. QInv /\ [Next]_vars => QInv'
  BY QuietInductive
<1>. QED  BY <1>1, <1>2, QuietInit, PTL DEF Spec

-----------------------------------------------------------------------------
(* The record of a job lives the life of JobLifecycle.                     *)

PhaseOf == [j \in Jobs |-> Phase(db[j])]
Made == [j \in Jobs |-> creator[j] # "none"]

LEMMA PhaseValues ==
    /\ Phase(NoDoc) = "absent"
    /\ Phase(Queued) = "queued"
    /\ \A p \in Pids \cup {NoPid} : Phase(Started(p)) = "running"
    /\ \A rec \in Record : /\ Phase(rec) = IF rec.status \in Terminal THEN "ended" ELSE rec.status
                           /\ \A p \in Progress : Phase(Advanced(rec, p)) = "running"
                           /\ Phase(Completed(rec)) = "ended"
                           /\ \A why \in {"none", "raised", "gone"} : Phase(Failed(rec, why)) = "ended"
                           /\ Phase(Cancelled(rec)) = "ended"
<1>1. Phase(NoDoc) = "absent"
  BY DEF Phase, IsTerminal
<1>2. ASSUME NEW rec, rec # NoDoc, rec.status \in Status
      PROVE  Phase(rec) = IF rec.status \in Terminal THEN "ended" ELSE rec.status
  <2>1. CASE rec.status \in Terminal
    BY <1>2, <2>1 DEF Phase, IsTerminal
  <2>2. CASE rec.status \notin Terminal
    BY <1>2, <2>2 DEF Phase, IsTerminal
  <2>. QED  BY <2>1, <2>2
<1>3. ASSUME NEW rec \in Record
      PROVE  rec # NoDoc /\ rec.status \in Status
  BY NoDocAssumption DEF Record
<1>4. Phase(Queued) = "queued" /\ \A p \in Pids \cup {NoPid} : Phase(Started(p)) = "running"
  <2>1. Queued \in Record /\ Queued.status = "queued"
    BY StartingRecords DEF Queued
  <2>2. \A p \in Pids \cup {NoPid} : Started(p) \in Record /\ Started(p).status = "running"
    BY StartingRecords DEF Queued, Started
  <2>. QED  BY <1>2, <1>3, <2>1, <2>2 DEF Terminal
<1>5. ASSUME NEW rec \in Record, NEW p \in Progress
      PROVE  Phase(Advanced(rec, p)) = "running"
  <2>1. Advanced(rec, p) \in Record /\ Advanced(rec, p).status = "running"
    BY AdvancedRecord DEF Advanced, Record
  <2>. QED  BY <1>2, <1>3, <2>1 DEF Terminal
<1>6. ASSUME NEW rec \in Record
      PROVE  /\ Phase(Completed(rec)) = "ended"
             /\ Phase(Cancelled(rec)) = "ended"
             /\ \A why \in {"none", "raised", "gone"} : Phase(Failed(rec, why)) = "ended"
  <2>1. Completed(rec).status = "completed" /\ Completed(rec) # NoDoc
    BY CompletedRecord, NoDocAssumption DEF Completed, Record
  <2>2. Cancelled(rec).status = "cancelled" /\ Cancelled(rec) # NoDoc
    BY CancelledRecord, NoDocAssumption DEF Cancelled, Record
  <2>3. ASSUME NEW why \in {"none", "raised", "gone"}
        PROVE  Failed(rec, why).status = "failed" /\ Failed(rec, why) # NoDoc
    <3>1. Failed(rec, why) \in Record
      BY FailedRecord
    <3>2. AtLeast1(rec.progress) \in Progress
      BY DEF AtLeast1, Record, Progress
    <3>3. Failed(rec, why).status = "failed"
      BY <3>2 DEF Failed, Record
    <3>. QED  BY <3>1, <3>3, NoDocAssumption
  <2>4. \A doc : doc # NoDoc /\ doc.status \in {"completed", "cancelled", "failed"} => Phase(doc) = "ended"
    BY <1>2 DEF Terminal, Status
  <2>. QED  BY <2>1, <2>2, <2>3, <2>4
<1>. QED  BY <1>1, <1>2, <1>3, <1>4, <1>5, <1>6

Moves(j) ==
    /\ \A k \in Jobs \ {j} : db'[k] = db[k] /\ (creator'[k] = "none" <=> creator[k] = "none")
    /\ \/ /\ creator'[j] = "none" <=> creator[j] = "none"
          /\ \/ Phase(db'[j]) = Phase(db[j])
             \/ Phase(db[j]) = "queued" /\ Phase(db'[j]) = "running"
             \/ creator[j] # "none" /\ Phase(db'[j]) = "ended"
             \/ Phase(db[j]) = "ended" /\ Phase(db'[j]) = "absent"
       \/ /\ creator[j] = "none" /\ creator'[j] # "none"
          /\ Phase(db[j]) = "absent" /\ Phase(db'[j]) = "queued"

LEMMA CreateMoves ==
    ASSUME QInv, NEW j \in Jobs,
           CreateQueued(j) \/ Popen(j) \/ CreateRunning(j) \/ CreateFails(j)
    PROVE  Moves(j)
<1>0. Typed /\ EarlyOK
  BY DEF QInv, IInv
<1>. USE DEF Typed, TypeOK, Moves
<1>1. CASE CreateQueued(j)
  <2>1. creator[j] = "none" /\ creator' = [creator EXCEPT ![j] = "saved"]
        /\ db' = [db EXCEPT ![j] = Queued]
    BY <1>1 DEF CreateQueued
  <2>2. db[j] = NoDoc
    BY <2>1, ReadIsHeld DEF QInv, IInv, HeldOK, Fits
  <2>. QED  BY <1>0, <2>1, <2>2, PhaseValues
<1>2. CASE CreateRunning(j)
  <2>1. /\ creator[j] = "spawned" /\ creator' = [creator EXCEPT ![j] = "done"]
        /\ db' = [db EXCEPT ![j] = Started(wpid[j])]
    BY <1>2 DEF CreateRunning
  <2>2. db[j] = Queued /\ wpid[j] \in Pids \cup {NoPid}
    BY <1>0, <2>1 DEF EarlyOK
  <2>3. Phase(db[j]) = "queued" /\ Phase(db'[j]) = "running"
    BY <1>0, <2>1, <2>2, PhaseValues
  <2>. QED  BY <1>0, <2>1, <2>3
<1>3. CASE Popen(j) \/ CreateFails(j)
  BY <1>0, <1>3 DEF Popen, CreateFails
<1>. QED  BY <1>1, <1>2, <1>3

LEMMA WorkerMoves ==
    ASSUME QInv, NEW j \in Jobs, WorkerStep(j)
    PROVE  Moves(j)
<1>0. Typed /\ FindsRunning
  BY DEF QInv, IInv
<1>1. creator' = creator /\ \A k \in Jobs \ {j} : db'[k] = db[k]
  BY <1>0, WorkerGrows, WorkerWrites DEF WorkerStep
<1>2. CASE db'[j] = db[j]
  BY <1>1, <1>2 DEF Moves
<1>3. CASE db'[j] # db[j]
  <2>1. wlatest[j] # NoDoc
    BY <1>0, <1>3, WorkerWrites
  <2>2. wlatest[j] \in Record /\ creator[j] # "none"
    BY <1>0, <2>1 DEF QInv, EarlyOK, Typed, TypeOK, Doc
  <2>3. CASE db'[j] \in {Completed(wlatest[j]), Failed(wlatest[j], "raised")}
    <3>1. Phase(db'[j]) = "ended"
      BY <2>2, <2>3, PhaseValues
    <3>. QED  BY <1>1, <2>2, <3>1 DEF Moves
  <2>4. CASE wpc[j] \in InTry /\ \E p \in {8, 18} : db'[j] = Advanced(wlatest[j], p)
    <3>1. creator[j] = "done"
      BY <2>4, AtWorkIsDone DEF AfterBoot, Alive, InTry
    <3>2. db[j] \in Record /\ db[j].status = "running"
      BY <1>0, <2>4, <3>1 DEF FindsRunning, HasStatus, Typed, TypeOK, Doc
    <3>3. Phase(db[j]) = "running"
      BY <3>2, PhaseValues DEF Terminal
    <3>4. 8 \in Progress /\ 18 \in Progress
      BY DEF Progress
    <3>5. Phase(db'[j]) = "running"
      BY <2>2, <2>4, <3>4, PhaseValues
    <3>. QED  BY <1>1, <3>3, <3>5 DEF Moves
  <2>. QED  BY <1>0, <1>3, <2>3, <2>4, WorkerAdvances
<1>. QED  BY <1>2, <1>3

LEMMA HandlerMoves ==
    ASSUME QInv, NEW t \in Threads, HandlerStep(t)
    PROVE  creator' = creator /\ (db' = db \/ \E j \in Jobs : Moves(j))
<1>0. Typed
  BY DEF QInv, IInv
<1>1. creator' = creator
  BY <1>0, HandlerLeaves
<1>2. ASSUME NEW j \in Jobs, CancelSave(t, j) \/ DeleteDoc(t, j) \/ Reconcile(t, j)
      PROVE  Moves(j)
  <2>1. \A k \in Jobs \ {j} : db'[k] = db[k]
    BY <1>0, <1>2 DEF CancelSave, DeleteDoc, Reconcile, Typed, TypeOK
  <2>2. CASE db'[j] = db[j]
    BY <1>1, <2>1, <2>2 DEF Moves
  <2>3. CASE db'[j] # db[j]
    <3>1. HandlerStep(t) /\ j \in todo[t]
      BY <1>0, <2>3, HandlerWrites
    <3>2. creator[j] \in {"done", "aborted"}
      BY <3>1, TodoIsSettled
    <3>3. tpc[t] \in HasCopy => copy[t][j] \in Record
      BY <1>0, <3>1 DEF Typed, TypeOK, LocalsOK, Doc
    <3>4. CASE CancelSave(t, j)
      <4>1. db'[j] = Cancelled(copy[t][j]) /\ copy[t][j] \in Record
        BY <1>0, <3>3, <3>4 DEF CancelSave, HasCopy, Typed, TypeOK
      <4>. QED  BY <1>1, <2>1, <3>2, <4>1, PhaseValues DEF Moves
    <3>5. CASE DeleteDoc(t, j)
      <4>1. db'[j] = NoDoc /\ ~IsActive(db[j])
        BY <1>0, <3>1, <3>5 DEF DeleteDoc, QInv, StopsFirst, Typed, TypeOK
      <4>2. db[j] \in Record /\ db[j].status \in Terminal
        BY <1>0, <2>3, <4>1 DEF IsActive, Active, Terminal, Status, Record, Doc, Typed, TypeOK
      <4>3. Phase(db[j]) = "ended" /\ Phase(db'[j]) = "absent"
        BY <4>1, <4>2, PhaseValues
      <4>. QED  BY <1>1, <2>1, <4>3 DEF Moves
    <3>6. CASE Reconcile(t, j)
      <4>1. copy[t][j] \in Record
        BY <3>3, <3>6 DEF Reconcile, HasCopy
      <4>2. PICK why \in {"none", "raised", "gone"} : db'[j] = Failed(copy[t][j], why)
        <5>1. db'[j] = Failed(copy[t][j], IF copy[t][j].error = "none" THEN "gone" ELSE copy[t][j].error)
          BY <1>0, <2>3, <3>6 DEF Reconcile, Typed, TypeOK
        <5>. QED  BY <4>1, <5>1 DEF Record
      <4>3. Phase(db'[j]) = "ended"
        BY <4>1, <4>2, PhaseValues
      <4>. QED  BY <1>1, <2>1, <3>2, <4>3 DEF Moves
    <3>. QED  BY <1>2, <3>4, <3>5, <3>6
  <2>. QED  BY <2>2, <2>3
<1>3. ASSUME ~(\E j \in Jobs : CancelSave(t, j) \/ DeleteDoc(t, j) \/ Reconcile(t, j))
      PROVE  db' = db
  BY <1>3 DEF HandlerStep, CancelRead, DeleteRead, DeleteCancelRead, Kill, HandlerFails, PollRead
<1>. QED  BY <1>1, <1>2, <1>3

\* A move of one job's record is a step of JobLifecycle, or none.
LEMMA MovesAreSteps ==
    ASSUME Typed, Typed', NEW j \in Jobs, Moves(j)
    PROVE  [Lifecycle!Next]_<<PhaseOf, Made>>
<1>. DEFINE from == Phase(db[j])
            to == Phase(db'[j])
<1>1. PhaseOf' = [PhaseOf EXCEPT ![j] = to]
  BY DEF Moves, PhaseOf
<1>2. from \in {"absent", "queued", "running", "ended"}
  BY PhaseValues DEF Typed, TypeOK, Doc, Record, Status, Terminal
<1>3. CASE (creator'[j] = "none" <=> creator[j] = "none") /\ to = from
  BY <1>1, <1>3 DEF PhaseOf, Made, Moves
<1>4. CASE (creator'[j] = "none" <=> creator[j] = "none") /\ to # from
  <2>1. Made' = Made /\ Made[j] = (creator[j] # "none")
    BY <1>4 DEF Made, Moves
  <2>2. \/ Lifecycle!Move(j, "queued", "running") \/ Lifecycle!Move(j, "queued", "ended")
        \/ Lifecycle!Move(j, "running", "ended") \/ Lifecycle!Move(j, "ended", "absent")
        \/ Made[j] /\ Lifecycle!Move(j, "absent", "ended")
    BY <1>1, <1>2, <1>4, <2>1 DEF Moves, PhaseOf, Lifecycle!Move
  <2>. QED
    BY <2>1, <2>2 DEF PhaseOf, Made, Lifecycle!Next, Lifecycle!Start, Lifecycle!End,
                      Lifecycle!Delete, Lifecycle!Return
<1>5. CASE creator[j] = "none" /\ creator'[j] # "none" /\ from = "absent" /\ to = "queued"
  <2>1. Made' = [Made EXCEPT ![j] = TRUE] /\ ~Made[j]
    BY <1>5 DEF Made, Moves
  <2>2. Lifecycle!Move(j, "absent", "queued")
    BY <1>1, <1>5 DEF PhaseOf, Lifecycle!Move
  <2>. QED  BY <2>1, <2>2 DEF PhaseOf, Made, Lifecycle!Next, Lifecycle!Create
<1>. QED  BY <1>3, <1>4, <1>5 DEF Moves

\* The record of a job, as clients see it, implements JobLifecycle: it is made
\* once, never goes back from running to queued, and never becomes active again
\* after it has ended (jobs.py and worker.py).
THEOREM LifecycleImplemented ==
    ASSUME QuietCreate
    PROVE  Spec => ImplementsLifecycle
<1>1. Init => Lifecycle!Init
  BY PhaseValues DEF Init, Lifecycle!Init, NoCopies
<1>2. QInv /\ [Next]_vars => [Lifecycle!Next]_<<PhaseOf, Made>>
  <2>. SUFFICES ASSUME QInv, [Next]_vars
                PROVE  [Lifecycle!Next]_<<PhaseOf, Made>>
    OBVIOUS
  <2>1. Typed /\ Typed'
    BY Inductive DEF QInv, IInv
  <2>2. ASSUME db' = db, \A j \in Jobs : creator'[j] = "none" <=> creator[j] = "none"
        PROVE  UNCHANGED <<PhaseOf, Made>>
    BY <2>2 DEF PhaseOf, Made
  <2>3. CASE ApiRestart \/ HostRestart \/ UNCHANGED vars
    <3>1. db' = db /\ \A j \in Jobs : creator'[j] = "none" <=> creator[j] = "none"
      BY <2>3 DEF ApiRestart, HostRestart, DropRequests, vars
    <3>. QED  BY <2>2, <3>1
  <2>4. CASE \E t \in Threads : HandlerStep(t)
    BY <2>1, <2>2, <2>4, HandlerMoves, MovesAreSteps
  <2>5. CASE \E j \in Jobs : Moves(j)
    BY <2>1, <2>5, MovesAreSteps
  <2>. QED  BY <2>3, <2>4, <2>5, NextSteps, CreateMoves, WorkerMoves
<1>3. QInv /\ [Next]_vars => QInv'
  BY QuietInductive
<1>. QED
  BY <1>1, <1>2, <1>3, QuietInit, PTL DEF Spec, ImplementsLifecycle, Lifecycle!Spec, PhaseOf, Made

=============================================================================
