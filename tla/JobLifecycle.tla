---------------------------- MODULE JobLifecycle ----------------------------
(***************************************************************************)
(* What a client of the planning-job API may rely on: the life of one      *)
(* job's record. A record is created once, is queued, then running, and    *)
(* ends; a record that has ended never becomes active again.               *)
(*                                                                         *)
(* Two things the code does not promise are left open here on purpose: an  *)
(* ended record may be ended a second time (Relabel), and a deleted one    *)
(* may come back, but only as an ended record (Return).                    *)
(***************************************************************************)
CONSTANT Jobs
VARIABLES phase, made

Phase == {"absent", "queued", "running", "ended"}

Init ==
    /\ phase = [j \in Jobs |-> "absent"]
    /\ made = [j \in Jobs |-> FALSE]

Move(j, from, to) ==
    /\ phase[j] = from
    /\ phase' = [phase EXCEPT ![j] = to]

Create(j) ==
    /\ ~made[j]
    /\ Move(j, "absent", "queued")
    /\ made' = [made EXCEPT ![j] = TRUE]

Start(j) == Move(j, "queued", "running") /\ UNCHANGED made
End(j) == (Move(j, "queued", "ended") \/ Move(j, "running", "ended")) /\ UNCHANGED made
Delete(j) == Move(j, "ended", "absent") /\ UNCHANGED made
Return(j) == made[j] /\ Move(j, "absent", "ended") /\ UNCHANGED made

\* Relabel leaves the phase as it is: it is a stuttering step.
Next == \E j \in Jobs : Create(j) \/ Start(j) \/ End(j) \/ Delete(j) \/ Return(j)

Spec == Init /\ [][Next]_<<phase, made>>
=============================================================================
