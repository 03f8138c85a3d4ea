-------------------------- MODULE EventExtraction --------------------------
(***************************************************************************)
(* From a message to an operational event (services/event_extraction.py):  *)
(* the rules, and the extractor that asks a language model first.          *)
(*                                                                         *)
(* A text is the keyword classes found in it and the node ids it names, in *)
(* order. A class is a set of keywords that occur in the same lists:       *)
(*   blocked   blockage list and event markers (ACCIDENT, BLOCK, AVOID...) *)
(*   road      blockage list only (ROAD, STREET, SEGMENT, VIA...)          *)
(*   closed    both lists and event markers (CLOSED, UNAVAILABLE...)       *)
(*   cannot    unavailability list and event markers (CANNOT RECEIVE...)   *)
(*   unable    unavailability list only (NÃO CONSEGUE RECEBER)              *)
(*   urgent    priority list and event markers                             *)
(*   customer  CUSTOMER, DELIVERY, RECEIVE and their translations          *)
(*   followup  follow-up markers (CONFIRM, EXPLAIN, SHOW...)               *)
(***************************************************************************)
EXTENDS RoutePlans, Nothing

ASSUME NoEventAssumption == None \notin Events

Words == {"blocked", "road", "closed", "cannot", "unable", "urgent", "customer", "followup"}

Says(t, words) == t.words \cap words # {}

\* Where in a text a member of S is named, and the first of some places.
Named(t, S) == {i \in DOMAIN t.ids : t.ids[i] \in S}
First(places) == CHOOSE i \in places : \A j \in places : i <= j

\* RuleBasedEventExtractor.extract: a blockage is looked for first, then an
\* unavailable customer, then a priority; the first list that matches decides,
\* unless it is that of blockages, two nodes are missing and a customer is spoken
\* of. from and to may be one node.
Rules(t, s) ==
    LET nodes == Named(t, Nodes(s))
        others == nodes \ {First(nodes)}
        customers == Named(t, s.known)
        customer == t.ids[First(customers)]
        blockage == Says(t, {"blocked", "road", "closed"})
    IN  CASE blockage /\ others # {} -> Blocking(t.ids[First(nodes)], t.ids[First(others)], TRUE)
          [] blockage /\ others = {} /\ ~Says(t, {"customer"}) -> None
          [] OTHER -> IF customers = {} THEN None
                      ELSE IF Says(t, {"closed", "cannot", "unable"}) THEN Unavailable(customer)
                      ELSE IF Says(t, {"urgent"}) THEN Priority(customer)
                      ELSE None

FollowUp(t) ==
    Says(t, {"followup"}) /\ ~Says(t, {"blocked", "closed", "cannot", "urgent"})

\* The model's answers that _event_from_llm_payload accepts.
ModelEvents(s) ==
    {e \in Events : IF e.type = "block"
                      THEN {e.from, e.to} \subseteq Nodes(s) /\ e.from # e.to
                      ELSE e.customer \in s.known}

\* LlmEventExtractor.extract: anything not accepted, and any exception, leaves
\* the rules to answer.
Extractions(extractor, t, s) ==
    IF extractor = "rules" \/ (FollowUp(t) /\ Rules(t, s) = None)
      THEN {Rules(t, s)}
      ELSE {Rules(t, s)} \cup ModelEvents(s)

=============================================================================
