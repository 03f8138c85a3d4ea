----------------------------- MODULE MCServices -----------------------------
(***************************************************************************)
(* One run for the components that share no state: each behaviour is one   *)
(* of a single component, the others stay as they are at first.            *)
(***************************************************************************)
EXTENDS AgenticWorkflow, Conversations, DatasetBuild, Chunking, Ingestion, JobPolling, ChatView, TLC

CONSTANTS c1, c2, c3, v1, v2, q1, q2, q3, r1, r2

VARIABLE part  \* the component that moves

Parts == {"workflow", "conversations", "dataset", "chunking", "ingestion", "polling", "chat", "job"}

\* One planning job and its liveness: PlanningJobs under names of its own.
VARIABLES db, creator, wpc, wpid, wjob, wlatest, orphan, published, tpc, todo, copy,
          deleting, faults
OneJob == INSTANCE PlanningJobs WITH
    Jobs <- {"job"}, Threads <- {"t1", "t2"}, Pids <- {"pid"}, NoPid <- None, NoDoc <- None,
    MaxFaults <- 2, QuietCreate <- TRUE

-----------------------------------------------------------------------------
\* AgenticWorkflow
MCDemand == (c1 :> 1 @@ c2 :> 1 @@ c3 :> 1)
MCCapacity == (v1 :> 3 @@ v2 :> 1)

Scene(id, known, open, fleet, blocked) ==
    [id |-> <<id>>, known |-> known, open |-> open, fleet |-> fleet, blocked |-> blocked]
All == Scene("all", {c1, c2, c3}, {c1, c2, c3}, <<v1, v2>>, {})
Two == Scene("two", {c1, c2, c3}, {c1, c2}, <<v2, v1>>, {<<c1, c2>>})
One == Scene("one", {c1, c2}, {c1, c2}, <<v1>>, {})

Text(words, ids) == [words |-> words, ids |-> ids]
Blocked == Text({"blocked"}, <<c1, c2>>)
Closed == Text({"closed", "customer"}, <<c2>>)
Road == Text({"road"}, <<c1>>)
MCTexts == {Blocked, Closed, Road, Text({"cannot", "customer"}, <<Stray, c3>>), Text({"urgent"}, <<c1>>)}
Thanks == Text({"followup"}, <<>>)

Case(s, t, followsUp, extractor, generator) ==
    [scenario |-> s, text |-> t, context |-> followsUp, extractor |-> extractor, generator |-> generator]
MCCases ==
    {Case(s, t, FALSE, "rules", g) : s \in {All, Two}, t \in MCTexts, g \in {"solver", "policy"}}
    \cup {Case(One, Thanks, c, e, "solver") : c \in BOOLEAN, e \in {"rules", "api"}}
    \cup {Case(One, Road, FALSE, "api", g) : g \in {"solver", "policy"}}
    \cup {Case(Two, Closed, TRUE, "api", "solver")}

Trip(v, stops) == [vehicle |-> v, stops |-> stops]
MCAnswers ==
    { <<Trip(v1, <<c1, c2>>)>>,
      <<Trip(v1, <<Depot, c2, c1, Depot>>), Trip(v2, <<Depot, c3>>)>>,
      <<Trip(v1, <<c1, c2, Depot, c3>>)>>,
      <<Trip(v2, <<>>), Trip(v1, <<c1, c1>>)>>,
      <<Trip(v1, <<c1, c2>>), Trip(v2, <<c2, c3>>)>>,
      <<Trip(Stray, <<c1>>), Trip(v2, <<c2, c1>>)>>,
      <<Trip(v1, <<Stray>>)>> }
MCOther == {<<Trip(v1, <<Depot, c1, Depot>>)>>}

-----------------------------------------------------------------------------
\* Conversations: a first replan or an empty conversation; then, at the same time,
\* two of what can happen to it.
MCHome == <<"demo">>
MCFirstStored == {MCHome}
MCFirstScenario == (r1 :> <<"demo">> @@ r2 :> <<"gone">>)
MCMenu ==
    (q1 :> {Replan(None, r1, FALSE), CreateEmpty} @@
     q2 :> {Replan(q1, None, FALSE), Replan(q1, None, TRUE), Replan(None, r2, FALSE),
            AppendTo(q1), Delete(q1), Publication(r1)} @@
     q3 :> {Replan(q1, None, FALSE)})
MCAfter == (q1 :> {} @@ q2 :> {q1} @@ q3 :> {q1})

-----------------------------------------------------------------------------
\* DatasetBuild: seeds that are scarce at first, then none for a while.
MCFruitful == {1, 2} \cup 34..36 \cup 60..68 \cup 100..300

\* Ingestion: one file with two names.
MCFile(p) == IF p = "docs/a" THEN "a" ELSE p
MCAsks == ("first" :> {<<"a">>, <<"b", "a">>} @@ "second" :> {<<"a", "b">>, <<"docs/a">>})

-----------------------------------------------------------------------------
W == workflowVars
C == conversationVars
D == datasetVars
K == chunkingVars
I == ingestionVars
P == pollingVars
H == chatVars
J == <<db, creator, wpc, wpid, wjob, wlatest, orphan, published, tpc, todo, copy,
       deleting, faults>>

ServicesInit ==
    /\ part \in Parts
    /\ WorkflowInit /\ ConversationsInit /\ DatasetInit /\ ChunkingInit
    /\ IngestionInit /\ (part # "ingestion" => repository = "postgres" /\ \A f \in Files : content[f].count = 2)
    /\ PollingInit
    /\ OneJob!Init
    /\ ChatInit /\ (part # "chat" => storedId = NobodysChat)

ServicesNext ==
    \/ part = "workflow" /\ WorkflowNext /\ UNCHANGED <<part, C, D, K, I, P, H, J>>
    \/ part = "conversations" /\ ConversationsNext /\ UNCHANGED <<part, W, D, K, I, P, H, J>>
    \/ part = "dataset" /\ DatasetNext /\ UNCHANGED <<part, W, C, K, I, P, H, J>>
    \/ part = "chunking" /\ ChunkingNext /\ UNCHANGED <<part, W, C, D, I, P, H, J>>
    \/ part = "ingestion" /\ IngestionNext /\ UNCHANGED <<part, W, C, D, K, P, H, J>>
    \/ part = "polling" /\ PollingNext /\ UNCHANGED <<part, W, C, D, K, I, H, J>>
    \/ part = "chat" /\ ChatNext /\ UNCHANGED <<part, W, C, D, K, I, P, J>>
    \/ part = "job" /\ OneJob!Next /\ UNCHANGED <<part, W, C, D, K, I, P, H>>

ServicesSpec ==
    /\ ServicesInit /\ [][ServicesNext]_<<part, W, C, D, K, I, P, H, J>>
    /\ \A j \in Jobs : WF_P(part = "polling" /\ EndJob(j))
    /\ WF_P(part = "polling" /\ \E i \in Slots : Poll(i))
    /\ \A i \in Slots : WF_P(part = "polling" /\ (Serve(i) \/ Arrival(i)))
    /\ WF_J(part = "job" /\ OneJob!Popen("job")) /\ WF_J(part = "job" /\ OneJob!CreateRunning("job"))
    /\ WF_J(part = "job" /\ OneJob!Worker("job"))
    /\ \A t \in {"t1", "t2"} : WF_J(part = "job" /\ OneJob!Handler(t))
    /\ SF_J(part = "job" /\ \E t \in {"t1", "t2"} : OneJob!PollRead(t, {"job"}))

-----------------------------------------------------------------------------
\* The state of a replan and of the conversations stays of its type: the policy is
\* not asked more often than it may be, and a window keeps to its limits.
ServicesTypeOK == WorkflowTypeOK /\ ConversationsTypeOK

\* Through two crashes, restarts or database errors, a job whose creation succeeded
\* ends, unless its worker is a zombie that nobody reaps.
JobSettles == OneJob!Settles

=============================================================================
