------------------------------ MODULE Picking ------------------------------
(***************************************************************************)
(* What a loop over a list keeps of it, in order: the code's               *)
(* comprehensions with a condition, and its loops that append some of what *)
(* they come to. The condition is given by the places where it holds.      *)
(***************************************************************************)
EXTENDS Naturals, Sequences

\* The places up to n among at, in order.
Places(at, n) ==
    LET upTo[k \in Nat] ==
          IF k = 0 THEN <<>>
            ELSE IF k \in at THEN Append(upTo[k - 1], k) ELSE upTo[k - 1]
    IN  upTo[n]

\* What s has at those places.
Pick(s, at) ==
    LET places == Places(at, Len(s))
    IN  [j \in 1..Len(places) |-> s[places[j]]]

=============================================================================
