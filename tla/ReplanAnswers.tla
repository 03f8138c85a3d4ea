--------------------------- MODULE ReplanAnswers ---------------------------
(***************************************************************************)
(* What the user is told of a run that succeeded: the comparison of the    *)
(* plan before and after (services/comparison.py) and the sentence about   *)
(* the event that memory/service.py makes of it. Distances, vehicle loads  *)
(* and the wording are left out; with a language model composing the       *)
(* answer these are the facts it is given.                                 *)
(***************************************************************************)
EXTENDS RoutePlans, Nothing

\* compare_plans
Served(p) ==
    (UNION {{p.routes[k].stops[i] : i \in DOMAIN p.routes[k].stops} : k \in DOMAIN p.routes}) \ {Depot}
Edges(p) == UNION {Arcs(p.routes[k]) : k \in DOMAIN p.routes}

\* Mutant: the plans are swapped.
MutRemoved(before, after) == Served(after) \ Served(before)

Removed(before, after) == Served(before) \ Served(after)

\* _event_impact_summary_for_prompt looks for the arc in both directions,
\* whichever are blocked; a plan that is not there has no edges.
UsesSegment(e, p) == p # None /\ {<<e.from, e.to>>, <<e.to, e.from>>} \cap Edges(p) # {}

\* _compose_grounded_replanning_fallback: the first lines. ("remains served" is what is
\* written of every unavailable customer whom the replan did not remove.)
Claim(e, base, final) ==
    CASE e.type = "block" /\ ~UsesSegment(e, base) /\ ~UsesSegment(e, final) -> "not affected"
      [] e.type = "block" /\ UsesSegment(e, base) /\ ~UsesSegment(e, final) -> "avoided"
      [] e.type = "block" /\ UsesSegment(e, final) -> "still used"
      [] e.type = "unavailable" /\ e.customer \in Removed(base, final) -> "deferred"
      [] e.type = "unavailable" /\ e.customer \notin Removed(base, final) -> "remains served"
      [] OTHER -> "interpreted"

\* _event_node_notes: the customers of the event noted as "already inactive/deferred in
\* the current scenario". That is the scenario after the event, so a customer whom the
\* event itself defers is noted too.
NotedDeferred(e, target) ==
    (IF e.type = "block" THEN {e.from, e.to} ELSE {e.customer})
        \cap (target.known \ Active(target))

=============================================================================
