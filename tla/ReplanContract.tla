--------------------------- MODULE ReplanContract ---------------------------
(***************************************************************************)
(* A replanning service seen from outside: it is asked about a scenario,   *)
(* and answers once, with one of the outcomes it promises.                 *)
(***************************************************************************)
EXTENDS ReplanOutcomes

VARIABLES
    asked,   \* [id, context]: the scenario asked about and whether a window is at hand
    reply    \* the answer, or None

contractVars == <<asked, reply>>

ContractInit == asked = None /\ reply = None

Ask == asked = None /\ asked' # None /\ UNCHANGED reply

\* The caller has its answer.
Close == reply # None /\ asked' = None /\ reply' = None

Reply ==
    /\ asked # None
    /\ reply = None
    /\ reply' \in Outcomes(asked.id, asked.context)
    /\ UNCHANGED asked

ContractNext == Ask \/ Reply \/ Close

ContractSpec == ContractInit /\ [][ContractNext]_contractVars

=============================================================================
