--------------------------- MODULE ReplanOutcomes ---------------------------
(***************************************************************************)
(* What a run of the agentic workflow promises its caller, in terms of     *)
(* scenario ids only: ENGINE_IMPLEMENTATION_PLAN.md:537 "Every branch must *)
(* end with either a validated final route or an explicit failure status." *)
(***************************************************************************)
EXTENDS Sequences, Nothing

CONSTANT Tags   \* what an event appends to the id of a scenario

\* A plan for the scenario with this id, and whether it passes validation there.
PlanFor(id, valid) == [scenario |-> id, valid |-> valid]

Replanned(id, tag) ==
    [succeeded |-> TRUE, source |-> "workflow", event |-> tag,
     plan |-> PlanFor(Append(id, tag), TRUE)]

\* A failure may carry the plan of the scenario after the event that did not pass.
Failed(tag, plan) ==
    [succeeded |-> FALSE, source |-> "workflow", event |-> tag, plan |-> plan]

\* The plan and the event are those of the context window.
FollowedUp == [succeeded |-> TRUE, source |-> "context_window", event |-> None, plan |-> None]

\* The answers for a message about the scenario id, with or without a context
\* window at hand.
Outcomes(id, context) ==
    {Replanned(id, tag) : tag \in Tags}
    \cup {Failed(tag, None) : tag \in Tags}
    \cup {Failed(tag, PlanFor(Append(id, tag), FALSE)) : tag \in Tags}
    \cup {IF context THEN FollowedUp ELSE Failed(None, None)}

=============================================================================
