-------------------------- MODULE MCConversations --------------------------
(***************************************************************************)
(* Three requests of the conversation service, for two of its findings.    *)
(***************************************************************************)
EXTENDS Conversations, TLC

CONSTANTS q1, q2, q3, r1

MCHome == <<"demo">>
MCFirstStored == {MCHome}
MCFirstScenario == r1 :> MCHome

\* A replan in each of two conversations about one route, then a message in the first.
MCMenu == q1 :> {Replan(None, r1, FALSE)} @@ q2 :> {Replan(None, r1, FALSE)} @@ q3 :> {Replan(q1, None, FALSE)}
MCAfter == q1 :> {} @@ q2 :> {q1} @@ q3 :> {q1, q2}

\* A conversation, then a message in it while it is deleted.
MCDeletedMenu == q1 :> {CreateEmpty} @@ q2 :> {Replan(q1, r1, FALSE)} @@ q3 :> {Delete(q1)}
MCDeletedAfter == q1 :> {} @@ q2 :> {q1} @@ q3 :> {q1}

=============================================================================
