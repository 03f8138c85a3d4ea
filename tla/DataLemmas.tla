----------------------------- MODULE DataLemmas -----------------------------
(***************************************************************************)
(* Facts about numbers, lists and sums that the other proofs cite by name. *)
(*                                                                         *)
(* The induction theorems of the library take an operator as parameter.    *)
(* Here induction is over a set of numbers, by its least counterexample,   *)
(* and a function defined by recursion is had from a step that is a        *)
(* function itself: what is computed by running through a list can so be   *)
(* reasoned about for a list of any length.                                *)
(***************************************************************************)
EXTENDS Integers, Functions, Picking, WellFoundedInduction, FiniteSetTheorems, TLAPS

\* Nonempty sets of natural numbers have a least member.
LEMMA LeastExists ==
    ASSUME NEW at \in SUBSET Nat, at # {}
    PROVE  \E i \in at : \A j \in at : i <= j
<1>1. \E x \in at : \A y \in at : ~(<<y, x>> \in OpToRel(<, Nat))
    BY NatLessThanWellFounded, WFMin
<1>2. PICK x \in at : \A y \in at : ~(y < x)
    BY <1>1 DEF OpToRel
<1> QED
    BY <1>2

\* Nonempty sets of integers between two bounds have a largest member.
LEMMA LargestExists ==
    ASSUME NEW a \in Int, NEW b \in Int, NEW at \in SUBSET (a..b), at # {}
    PROVE  \E i \in at : \A j \in at : j <= i
<1> DEFINE depths == {b - i : i \in at}
<1>1. depths \subseteq Nat /\ depths # {}
    OBVIOUS
<1>2. \E x \in depths : \A y \in depths : ~(<<y, x>> \in OpToRel(<, Nat))
    BY <1>1, NatLessThanWellFounded, WFMin
<1>3. PICK x \in depths : \A y \in depths : ~(y < x)
    BY <1>1, <1>2 DEF OpToRel
<1>4. PICK i \in at : x = b - i
    OBVIOUS
<1>5. \A j \in at : j <= i
  <2>1. SUFFICES ASSUME NEW j \in at PROVE j <= i
    OBVIOUS
  <2>2. ~(b - j < b - i)
    BY <1>3, <1>4
  <2> QED
    BY <2>2
<1> QED
    BY <1>5

-----------------------------------------------------------------------------
\* A set of numbers that has 0, and with a number the next one, has them all.
LEMMA InductionOnNat ==
    ASSUME NEW T, 0 \in T, \A n \in Nat : n \in T => n + 1 \in T
    PROVE  \A n \in Nat : n \in T
<1> SUFFICES ASSUME NEW m \in Nat, m \notin T PROVE FALSE
    OBVIOUS
<1> DEFINE out == {n \in Nat : n \notin T}
<1>1. PICK n \in out : \A j \in out : n <= j
    BY LeastExists, out \in SUBSET Nat, out # {}
<1>2. n # 0 /\ n - 1 \in Nat /\ n - 1 \notin out
    BY <1>1
<1>3. (n - 1) + 1 \in T
    BY <1>2
<1> QED
    BY <1>1, <1>3

\* The function f on the numbers has this first value and this step.
Recurs(f, first, step) ==
    \A n \in Nat : f[n] = IF n = 0 THEN first ELSE step[<<f[n - 1], n>>]

\* A function on the numbers is defined by its first value and a step.
LEMMA RecursionOnNat ==
    ASSUME NEW S, NEW first \in S, NEW step \in [S \X Nat -> S]
    PROVE  \E f \in [Nat -> S] : Recurs(f, first, step)
<1> DEFINE Runs(f, n) == \A k \in 0..n : f[k] = IF k = 0 THEN first ELSE step[<<f[k - 1], k>>]
           T == {n \in Nat : \E f \in [0..n -> S] : Runs(f, n)}
<1>1. 0 \in T
  <2>1. Runs([k \in 0..0 |-> first], 0)
    OBVIOUS
  <2> QED
    BY <2>1
<1>2. ASSUME NEW n \in Nat, n \in T PROVE n + 1 \in T
  <2>1. PICK f \in [0..n -> S] : Runs(f, n)
    BY <1>2
  <2> DEFINE g == [k \in 0..(n + 1) |-> IF k = n + 1 THEN step[<<f[n], n + 1>>] ELSE f[k]]
  <2>2. g \in [0..(n + 1) -> S]
    OBVIOUS
  <2>3. Runs(g, n + 1)
    <3> SUFFICES ASSUME NEW k \in 0..(n + 1)
                 PROVE  g[k] = IF k = 0 THEN first ELSE step[<<g[k - 1], k>>]
      OBVIOUS
    <3>1. CASE k = n + 1
      <4>1. k # 0 /\ k - 1 = n /\ n \in 0..(n + 1) /\ n # n + 1
        BY <3>1
      <4>2. g[n] = f[n] /\ g[k] = step[<<f[n], n + 1>>]
        BY <3>1, <4>1
      <4> QED
        BY <3>1, <4>1, <4>2
    <3>2. CASE k # n + 1
      <4>1. k \in 0..n /\ (k # 0 => k - 1 \in 0..n /\ k - 1 # n + 1)
        BY <3>2
      <4>2. g[k] = f[k] /\ (k # 0 => g[k - 1] = f[k - 1])
        BY <4>1
      <4> QED
        BY <2>1, <4>1, <4>2
    <3> QED
      BY <3>1, <3>2
  <2> HIDE DEF g
  <2>4. \E e \in [0..(n + 1) -> S] : Runs(e, n + 1)
    BY <2>2, <2>3
  <2> QED
    BY <2>4
<1>3. \A n \in Nat : n \in T
    BY <1>1, <1>2, InductionOnNat
<1>4. PICK run : \A n \in Nat : run[n] \in [0..n -> S] /\ Runs(run[n], n)
  <2> DEFINE r == [n \in Nat |-> CHOOSE f \in [0..n -> S] : Runs(f, n)]
  <2>1. \A n \in Nat : r[n] \in [0..n -> S] /\ Runs(r[n], n)
    BY <1>3
  <2> HIDE DEF r, Runs
  <2> QED
    BY <2>1
<1> DEFINE h == [n \in Nat |-> run[n][n]]
<1>5. \A k \in Nat : \A n \in Nat : k <= n => run[n][k] = h[k]
  <2> DEFINE Same == {k \in Nat : \A n \in Nat : k <= n => run[n][k] = h[k]}
  <2>1. 0 \in Same
    <3>1. \A n \in Nat : 0 \in 0..n /\ run[n][0] = first
      <4> TAKE n \in Nat
      <4>1. 0 \in 0..n /\ Runs(run[n], n)
        BY <1>4
      <4> QED
        BY <4>1
    <3> QED
      BY <3>1
  <2>2. ASSUME NEW k \in Nat, k \in Same PROVE k + 1 \in Same
    <3>1. ASSUME NEW n \in Nat, k + 1 <= n PROVE run[n][k + 1] = step[<<h[k], k + 1>>]
      <4>1. k + 1 \in 0..n /\ k + 1 # 0 /\ (k + 1) - 1 = k /\ k <= n
        BY <3>1
      <4>2. run[n][k + 1] = step[<<run[n][(k + 1) - 1], k + 1>>]
        BY <1>4, <4>1
      <4> QED
        BY <2>2, <4>1, <4>2
    <3>2. h[k + 1] = step[<<h[k], k + 1>>]
      BY <3>1
    <3> QED
      BY <3>1, <3>2
  <2> HIDE DEF Same
  <2>3. \A k \in Nat : k \in Same
    BY <2>1, <2>2, InductionOnNat
  <2> QED
    BY <2>3 DEF Same
<1>6. h \in [Nat -> S]
  <2>1. \A n \in Nat : n \in 0..n /\ run[n] \in [0..n -> S]
    BY <1>4
  <2>2. \A n \in Nat : run[n][n] \in S
    BY <2>1
  <2> QED
    BY <2>2
<1>7. Recurs(h, first, step)
  <2> SUFFICES ASSUME NEW n \in Nat
               PROVE  h[n] = IF n = 0 THEN first ELSE step[<<h[n - 1], n>>]
    BY DEF Recurs
  <2>1. h[n] = IF n = 0 THEN first ELSE step[<<run[n][n - 1], n>>]
    BY <1>4
  <2>2. n # 0 => n - 1 \in Nat /\ n - 1 <= n
    OBVIOUS
  <2>3. n # 0 => run[n][n - 1] = h[n - 1]
    BY <1>5, <2>2
  <2> QED
    BY <2>1, <2>3
<1> HIDE DEF h
<1> QED
    BY <1>6, <1>7

-----------------------------------------------------------------------------
(* Places: a place at a time, and all of them.                             *)

LEMMA PlacesStep ==
    ASSUME NEW at
    PROVE  /\ Places(at, 0) = <<>>
           /\ \A n \in Nat : Places(at, n) \in Seq(Nat)
           /\ \A n \in Nat : Places(at, n + 1) = IF n + 1 \in at THEN Append(Places(at, n), n + 1)
                                                               ELSE Places(at, n)
<1> DEFINE Step(f, k) ==
             IF k = 0 THEN <<>> ELSE IF k \in at THEN Append(f[k - 1], k) ELSE f[k - 1]
           upTo == CHOOSE f : f = [k \in Nat |-> Step(f, k)]
           step == [x \in Seq(Nat) \X Nat |-> IF x[2] \in at THEN Append(x[1], x[2]) ELSE x[1]]
<1>1. <<>> \in Seq(Nat) /\ step \in [Seq(Nat) \X Nat -> Seq(Nat)]
    OBVIOUS
<1>2. PICK f \in [Nat -> Seq(Nat)] : Recurs(f, <<>>, step)
  <2> HIDE DEF step
  <2> QED
    BY <1>1, RecursionOnNat
<1>3. f = [k \in Nat |-> Step(f, k)]
  <2> SUFFICES ASSUME NEW k \in Nat PROVE f[k] = Step(f, k)
    OBVIOUS
  <2> HIDE DEF step
  <2>1. f[k] = IF k = 0 THEN <<>> ELSE step[<<f[k - 1], k>>]
    BY <1>2 DEF Recurs
  <2>2. ASSUME k # 0 PROVE step[<<f[k - 1], k>>] = IF k \in at THEN Append(f[k - 1], k) ELSE f[k - 1]
    <3>1. k - 1 \in Nat
      BY <2>2
    <3>2. f[k - 1] \in Seq(Nat)
      BY <3>1
    <3> DEFINE before == f[k - 1]
    <3> HIDE DEF before
    <3>3. <<before, k>> \in Seq(Nat) \X Nat
      BY <3>2 DEF before
    <3> QED
      BY <3>3 DEF step, before
  <2> QED
    BY <2>1, <2>2
<1>4. upTo = [k \in Nat |-> Step(upTo, k)]
  <2> HIDE DEF Step
  <2> QED
    BY <1>3
<1>5. \A n \in Nat : Places(at, n) = upTo[n]
    BY DEF Places
<1> HIDE DEF upTo, step
<1>6. upTo[0] = <<>>
    BY <1>4
<1>7. \A n \in Nat : upTo[n + 1] = IF n + 1 \in at THEN Append(upTo[n], n + 1) ELSE upTo[n]
  <2> TAKE n \in Nat
  <2>1. n + 1 \in Nat /\ n + 1 # 0 /\ (n + 1) - 1 = n
    OBVIOUS
  <2> QED
    BY <1>4, <2>1
<1>8. \A n \in Nat : upTo[n] = f[n]
  <2> DEFINE Same == {n \in Nat : upTo[n] = f[n]}
  <2>1. 0 \in Same
    BY <1>3, <1>4
  <2>2. ASSUME NEW n \in Nat, n \in Same PROVE n + 1 \in Same
    <3>1. n + 1 \in Nat /\ n + 1 # 0 /\ (n + 1) - 1 = n
      OBVIOUS
    <3>2. f[n + 1] = IF n + 1 \in at THEN Append(f[n], n + 1) ELSE f[n]
      BY <1>3, <3>1
    <3>3. upTo[n] = f[n]
      BY <2>2
    <3>4. upTo[n + 1] = IF n + 1 \in at THEN Append(upTo[n], n + 1) ELSE upTo[n]
      BY <1>7
    <3>5. upTo[n + 1] = f[n + 1]
      BY <3>2, <3>3, <3>4
    <3> QED
      BY <3>1, <3>5
  <2> HIDE DEF Same
  <2>3. \A n \in Nat : n \in Same
    BY <2>1, <2>2, InductionOnNat
  <2> QED
    BY <2>3 DEF Same
<1> HIDE DEF Step
<1> QED
  <2>1. \A n \in Nat : upTo[n] \in Seq(Nat)
    BY <1>8
  <2>2. Places(at, 0) = <<>>
    BY <1>5, <1>6
  <2>3. \A n \in Nat : n + 1 \in Nat
    OBVIOUS
  <2> QED
    BY <1>5, <1>7, <2>1, <2>2, <2>3

\* Every place up to n that is among at, once, in order.
LEMMA PlacesFacts ==
    ASSUME NEW at, NEW n \in Nat
    PROVE  LET p == Places(at, n) IN
           /\ p \in Seq(Nat)
           /\ \A i \in 1..Len(p) : p[i] \in at /\ p[i] \in 1..n
           /\ \A i, j \in 1..Len(p) : i < j => p[i] < p[j]
           /\ \A m \in 1..n : m \in at => \E i \in 1..Len(p) : p[i] = m
<1> DEFINE Good(k, p) ==
             /\ \A i \in 1..Len(p) : p[i] \in at /\ p[i] \in 1..k
             /\ \A i, j \in 1..Len(p) : i < j => p[i] < p[j]
             /\ \A m \in 1..k : m \in at => \E i \in 1..Len(p) : p[i] = m
           T == {k \in Nat : Good(k, Places(at, k))}
<1>1. \A k \in Nat : Places(at, k) \in Seq(Nat)
    BY PlacesStep
<1>2. 0 \in T
  <2>1. Places(at, 0) = <<>>
    BY PlacesStep
  <2>2. Good(0, <<>>)
    OBVIOUS
  <2> HIDE DEF Good
  <2> QED
    BY <2>1, <2>2
<1>3. ASSUME NEW k \in Nat, k \in T PROVE k + 1 \in T
  <2>1. PICK p \in Seq(Nat) : p = Places(at, k)
    BY <1>1
  <2>2. Good(k, p)
    BY <1>3, <2>1
  <2>3. CASE k + 1 \in at
    <3> DEFINE q == Append(p, k + 1)
    <3>1. Places(at, k + 1) = q
      BY <2>1, <2>3, PlacesStep
    <3>2. /\ q \in Seq(Nat) /\ Len(q) = Len(p) + 1 /\ q[Len(p) + 1] = k + 1
          /\ \A i \in 1..Len(p) : q[i] = p[i]
      OBVIOUS
    <3> HIDE DEF q
    <3>3. ASSUME NEW i \in 1..Len(q) PROVE q[i] \in at /\ q[i] \in 1..(k + 1)
      <4>1. CASE i = Len(p) + 1
        BY <2>3, <3>2, <4>1
      <4>2. CASE i \in 1..Len(p)
        <5>1. p[i] \in at /\ p[i] \in 1..k /\ q[i] = p[i]
          BY <2>2, <3>2, <4>2
        <5> QED
          BY <5>1
      <4> QED
        BY <3>2, <4>1, <4>2
    <3>4. ASSUME NEW i \in 1..Len(q), NEW j \in 1..Len(q), i < j PROVE q[i] < q[j]
      <4>1. i \in 1..Len(p) /\ q[i] = p[i] /\ p[i] \in 1..k
        BY <2>2, <3>2, <3>4
      <4>2. CASE j = Len(p) + 1
        BY <3>2, <4>1, <4>2
      <4>3. CASE j \in 1..Len(p)
        BY <2>2, <3>2, <3>4, <4>1, <4>3
      <4> QED
        BY <3>2, <4>2, <4>3
    <3>5. ASSUME NEW m \in 1..(k + 1), m \in at PROVE \E i \in 1..Len(q) : q[i] = m
      <4>1. CASE m = k + 1
        BY <3>2, <4>1
      <4>2. CASE m \in 1..k
        <5>1. PICK i \in 1..Len(p) : p[i] = m
          BY <2>2, <3>5, <4>2
        <5>2. i \in 1..Len(q) /\ q[i] = m
          BY <3>2, <5>1
        <5> QED
          BY <5>2
      <4> QED
        BY <4>1, <4>2
    <3> QED
      BY <3>1, <3>3, <3>4, <3>5
  <2>4. CASE k + 1 \notin at
    <3>1. Places(at, k + 1) = p
      BY <2>1, <2>4, PlacesStep
    <3>2. Good(k + 1, p)
      BY <2>2, <2>4
    <3> HIDE DEF Good
    <3> QED
      BY <3>1, <3>2
  <2> QED
    BY <2>3, <2>4
<1> HIDE DEF T
<1>4. \A k \in Nat : k \in T
    BY <1>2, <1>3, InductionOnNat
<1> QED
    BY <1>1, <1>4 DEF T

\* The places up to n depend only on what at has up to n.
LEMMA PlacesSame ==
    ASSUME NEW at, NEW bt, NEW n \in Nat, \A k \in 1..n : k \in at <=> k \in bt
    PROVE  Places(at, n) = Places(bt, n)
<1> DEFINE T == {m \in Nat : m <= n => Places(at, m) = Places(bt, m)}
<1>1. 0 \in T
    BY PlacesStep
<1>2. ASSUME NEW m \in Nat, m \in T PROVE m + 1 \in T
  <2> SUFFICES ASSUME m + 1 <= n PROVE Places(at, m + 1) = Places(bt, m + 1)
    OBVIOUS
  <2>1. m + 1 \in 1..n /\ Places(at, m) = Places(bt, m)
    BY <1>2
  <2> QED
    BY <2>1, PlacesStep
<1> HIDE DEF T
<1>3. \A m \in Nat : m \in T
    BY <1>1, <1>2, InductionOnNat
<1> QED
    BY <1>3 DEF T

-----------------------------------------------------------------------------
(* Pick.                                                                   *)

\* What is picked is in the list, and in the order of the list.
LEMMA PickFacts ==
    ASSUME NEW S, NEW s \in Seq(S), NEW at
    PROVE  LET p == Places(at, Len(s)) IN
           /\ Pick(s, at) \in Seq(S)
           /\ Len(Pick(s, at)) = Len(p)
           /\ \A j \in 1..Len(p) : /\ p[j] \in 1..Len(s) /\ p[j] \in at
                                   /\ Pick(s, at)[j] = s[p[j]]
<1> DEFINE p == Places(at, Len(s))
<1>1. p \in Seq(Nat) /\ \A j \in 1..Len(p) : p[j] \in at /\ p[j] \in 1..Len(s)
    BY PlacesFacts
<1>2. Pick(s, at) = [j \in 1..Len(p) |-> s[p[j]]]
    BY DEF Pick
<1> HIDE DEF p
<1>3. Pick(s, at) \in [1..Len(p) -> S]
    BY <1>1, <1>2
<1>4. Pick(s, at) \in Seq(S) /\ Len(Pick(s, at)) = Len(p)
    BY <1>1, <1>2, <1>3
<1> QED
    BY <1>1, <1>2, <1>4 DEF p

\* A list that grows: what was picked of it, and the new end if it is picked too.
LEMMA PickAppend ==
    ASSUME NEW S, NEW s \in Seq(S), NEW e \in S, NEW at, NEW bt,
           \A k \in 1..Len(s) : k \in at <=> k \in bt
    PROVE  Pick(Append(s, e), bt) = IF Len(s) + 1 \in bt THEN Append(Pick(s, at), e)
                                                       ELSE Pick(s, at)
<1> DEFINE t == Append(s, e)
           p == Places(at, Len(s))
<1>1. t \in Seq(S) /\ Len(t) = Len(s) + 1 /\ t[Len(s) + 1] = e
      /\ \A i \in 1..Len(s) : t[i] = s[i]
    OBVIOUS
<1>2. p \in Seq(Nat) /\ Places(bt, Len(s)) = p /\ \A j \in 1..Len(p) : p[j] \in 1..Len(s)
    BY PlacesFacts, PlacesSame
<1>3. Places(bt, Len(t)) = IF Len(s) + 1 \in bt THEN Append(p, Len(s) + 1) ELSE p
  <2>1. Len(s) \in Nat
    OBVIOUS
  <2>2. Places(bt, Len(s) + 1) = IF Len(s) + 1 \in bt THEN Append(Places(bt, Len(s)), Len(s) + 1)
                                                     ELSE Places(bt, Len(s))
    BY <2>1, PlacesStep
  <2> HIDE DEF p, t
  <2> QED
    BY <1>1, <1>2, <2>2
<1>4. /\ Pick(s, at) = [j \in 1..Len(p) |-> s[p[j]]]
      /\ Pick(t, bt) = [j \in 1..Len(Places(bt, Len(t))) |-> t[Places(bt, Len(t))[j]]]
    BY DEF Pick
<1> HIDE DEF p, t
<1>5. CASE Len(s) + 1 \notin bt
    BY <1>1, <1>2, <1>3, <1>4, <1>5 DEF t
<1>6. CASE Len(s) + 1 \in bt
  <2> DEFINE q == Append(p, Len(s) + 1)
  <2>1. /\ Len(q) = Len(p) + 1 /\ q[Len(p) + 1] = Len(s) + 1
        /\ \A j \in 1..Len(p) : q[j] = p[j]
    BY <1>2
  <2>2. Pick(t, bt) = [j \in 1..Len(q) |-> t[q[j]]]
    BY <1>3, <1>4, <1>6
  <2>3. Pick(s, at) \in Seq(S) /\ Len(Pick(s, at)) = Len(p)
    BY PickFacts DEF p
  <2> DEFINE r == Append(Pick(s, at), e)
  <2>4. /\ r \in Seq(S) /\ Len(r) = Len(p) + 1 /\ r[Len(p) + 1] = e
        /\ \A j \in 1..Len(p) : r[j] = Pick(s, at)[j]
    BY <2>3
  <2> HIDE DEF q, r
  <2>5. \A j \in 1..Len(q) : t[q[j]] = r[j]
    <3> TAKE j \in 1..Len(q)
    <3>1. CASE j = Len(p) + 1
      BY <1>1, <2>1, <2>4, <3>1
    <3>2. CASE j \in 1..Len(p)
      <4>1. q[j] = p[j] /\ p[j] \in 1..Len(s)
        BY <1>2, <2>1, <3>2
      <4>2. r[j] = s[p[j]]
        BY <1>4, <2>4, <3>2
      <4> QED
        BY <1>1, <4>1, <4>2
    <3> QED
      BY <1>2, <2>1, <3>1, <3>2
  <2>6. r = [j \in 1..Len(q) |-> r[j]]
    BY <1>2, <2>1, <2>4
  <2>7. Pick(t, bt) = r
    BY <2>2, <2>5, <2>6
  <2> QED
    BY <1>6, <2>7 DEF r, t
<1> QED
    BY <1>5, <1>6

-----------------------------------------------------------------------------
(* Lists whose members need no type.                                       *)

IsList(s) == \E S : s \in Seq(S)

LEMMA ListFacts ==
    ASSUME NEW s, IsList(s)
    PROVE  Len(s) \in Nat /\ DOMAIN s = 1..Len(s)
<1>1. PICK S : s \in Seq(S)
    BY DEF IsList
<1> QED
    BY <1>1

LEMMA EmptyIsList == IsList(<<>>) /\ Len(<<>>) = 0
<1>1. <<>> \in Seq({}) /\ Len(<<>>) = 0
    OBVIOUS
<1> QED
    BY <1>1 DEF IsList

LEMMA ListAppend ==
    ASSUME NEW s, IsList(s), NEW e
    PROVE  /\ IsList(Append(s, e)) /\ Len(Append(s, e)) = Len(s) + 1
           /\ DOMAIN Append(s, e) = 1..(Len(s) + 1)
           /\ Append(s, e)[Len(s) + 1] = e
           /\ \A i \in DOMAIN s : Append(s, e)[i] = s[i]
<1>1. PICK S : s \in Seq(S)
    BY DEF IsList
<1>2. s \in Seq(S \cup {e}) /\ e \in S \cup {e}
    BY <1>1
<1>3. Append(s, e) \in Seq(S \cup {e})
    BY <1>2
<1> QED
    BY <1>2, <1>3 DEF IsList

\* Where in s the members of Pick(s, at) are.
PickedFrom(s, at, p) ==
    /\ p \in Seq(Nat) /\ Len(p) = Len(Pick(s, at))
    /\ \A j \in 1..Len(p) : p[j] \in DOMAIN s /\ p[j] \in at /\ Pick(s, at)[j] = s[p[j]]
    /\ \A i, j \in 1..Len(p) : i < j => p[i] < p[j]
    /\ \A k \in at : \E j \in 1..Len(p) : p[j] = k

LEMMA ListPick ==
    ASSUME NEW s, IsList(s), NEW at \in SUBSET (DOMAIN s)
    PROVE  /\ IsList(Pick(s, at))
           /\ \E p : PickedFrom(s, at, p)
<1>1. PICK S : s \in Seq(S)
    BY DEF IsList
<1> DEFINE p == Places(at, Len(s))
<1>2. /\ Pick(s, at) \in Seq(S)
      /\ Len(Pick(s, at)) = Len(p)
      /\ \A j \in 1..Len(p) : /\ p[j] \in 1..Len(s) /\ p[j] \in at
                              /\ Pick(s, at)[j] = s[p[j]]
    BY <1>1, PickFacts
<1>3. /\ p \in Seq(Nat)
      /\ \A i, j \in 1..Len(p) : i < j => p[i] < p[j]
      /\ \A m \in 1..Len(s) : m \in at => \E i \in 1..Len(p) : p[i] = m
    BY <1>1, PlacesFacts
<1>4. DOMAIN s = 1..Len(s)
    BY <1>1
<1> HIDE DEF p
<1>5. PickedFrom(s, at, p)
    BY <1>2, <1>3, <1>4 DEF PickedFrom
<1> QED
    BY <1>2, <1>5 DEF IsList

\* What is picked at a place is there, and picked in order.
LEMMA PickedAt ==
    ASSUME NEW s, IsList(s), NEW at \in SUBSET (DOMAIN s)
    PROVE  /\ \A i \in DOMAIN Pick(s, at) : \E k \in at : Pick(s, at)[i] = s[k]
           /\ \A k \in at : \E i \in DOMAIN Pick(s, at) : Pick(s, at)[i] = s[k]
<1>1. PICK p : PickedFrom(s, at, p)
    BY ListPick
<1>2. DOMAIN Pick(s, at) = 1..Len(p)
    BY <1>1, ListPick, ListFacts DEF PickedFrom
<1> QED
    BY <1>1, <1>2 DEF PickedFrom

\* A list that grows, of which the new end is picked or not.
LEMMA ListPickAppend ==
    ASSUME NEW s, IsList(s), NEW e, NEW at, NEW bt,
           \A k \in DOMAIN s : k \in at <=> k \in bt
    PROVE  Pick(Append(s, e), bt) = IF Len(s) + 1 \in bt THEN Append(Pick(s, at), e)
                                                       ELSE Pick(s, at)
<1>1. PICK S : s \in Seq(S)
    BY DEF IsList
<1>2. s \in Seq(S \cup {e}) /\ e \in S \cup {e} /\ DOMAIN s = 1..Len(s)
    BY <1>1
<1> QED
    BY <1>2, PickAppend

\* Lists that are the same at the places picked.
LEMMA PickSame ==
    ASSUME NEW r, IsList(r), NEW t, IsList(t), Len(r) = Len(t), NEW at, NEW bt,
           \A k \in DOMAIN r : k \in at <=> k \in bt,
           \A k \in DOMAIN r : k \in at => r[k] = t[k]
    PROVE  Pick(r, at) = Pick(t, bt)
<1> DEFINE p == Places(at, Len(r))
<1>1. Len(r) \in Nat /\ DOMAIN r = 1..Len(r)
    BY ListFacts
<1>2. Places(bt, Len(t)) = p
    BY <1>1, PlacesSame
<1>3. p \in Seq(Nat) /\ \A i \in 1..Len(p) : p[i] \in at /\ p[i] \in 1..Len(r)
    BY <1>1, PlacesFacts
<1>4. /\ Pick(r, at) = [j \in 1..Len(p) |-> r[p[j]]]
      /\ Pick(t, bt) = [j \in 1..Len(p) |-> t[p[j]]]
    BY <1>2 DEF Pick
<1> HIDE DEF p
<1>5. \A j \in 1..Len(p) : r[p[j]] = t[p[j]]
    BY <1>1, <1>3
<1> QED
    BY <1>4, <1>5

\* A function of 1..n is a list.
LEMMA FunctionIsList ==
    ASSUME NEW n \in Nat, NEW f, DOMAIN f = 1..n, f = [k \in DOMAIN f |-> f[k]]
    PROVE  IsList(f) /\ Len(f) = n
<1> DEFINE S == {f[k] : k \in 1..n}
<1>1. \A k \in 1..n : f[k] \in S
    OBVIOUS
<1> HIDE DEF S
<1>2. f \in [1..n -> S]
    BY <1>1
<1>3. f \in Seq(S) /\ Len(f) = n
    BY <1>2
<1> QED
    BY <1>3 DEF IsList

-----------------------------------------------------------------------------
(* Sums over finite sets.                                                  *)

\* A finite set of one member.
LEMMA OneMember ==
    ASSUME NEW S, NEW T, T \in SUBSET S, IsFiniteSet(T)
    PROVE  Cardinality(T) = 1 <=> \E v \in S : \A u \in S : u \in T <=> u = v
<1>1. Cardinality(T) = 1 <=> \E v : T = {v}
  BY FS_Singleton
<1>2. ASSUME NEW v, T = {v} PROVE \E w \in S : \A u \in S : u \in T <=> u = w
  BY <1>2
<1>3. ASSUME NEW v \in S, \A u \in S : u \in T <=> u = v PROVE T = {v}
  BY <1>3
<1> QED
  BY <1>1, <1>2, <1>3

\* The sums of h over the subsets of S, each from that of the rest.
Sums(g, h, S) ==
    g = [T \in SUBSET S |-> IF T = {} THEN 0
                            ELSE LET x == CHOOSE y \in T : TRUE IN h[x] + g[T \ {x}]]

LEMMA SumUnfold ==
    ASSUME NEW h, NEW S
    PROVE  SumFunctionOnSet(h, S) = (CHOOSE g : Sums(g, h, S))[S]
    BY DEF SumFunctionOnSet, FoldFunctionOnSet, MapThenFoldSet, Sums

\* The sets of a size have one size less when a member is taken away.
LEMMA Smaller ==
    ASSUME NEW T, IsFiniteSet(T), NEW x \in T, NEW n \in Nat, Cardinality(T) = n + 1
    PROVE  IsFiniteSet(T \ {x}) /\ Cardinality(T \ {x}) = n
    BY FS_RemoveElement

LEMMA ChosenIsIn ==
    ASSUME NEW T, T # {}
    PROVE  (CHOOSE y \in T : TRUE) \in T
    OBVIOUS

\* There are such sums.
LEMMA SumsExist ==
    ASSUME NEW h, NEW S, IsFiniteSet(S), \A x \in S : h[x] \in Int
    PROVE  \E g \in [SUBSET S -> Int] : Sums(g, h, S)
<1> DEFINE F == [SUBSET S -> Int]
           one(T) == CHOOSE y \in T : TRUE
           more(f) == [T \in SUBSET S |-> IF T = {} THEN 0 ELSE h[one(T)] + f[T \ {one(T)}]]
           step == [z \in F \X Nat |-> more(z[1])]
           first == [T \in SUBSET S |-> 0]
<1>1. first \in F
    OBVIOUS
<1>2. \A T \in SUBSET S : T # {} => one(T) \in S
    BY ChosenIsIn
<1>3. ASSUME NEW f \in F PROVE more(f) \in F
  <2> HIDE DEF one
  <2>1. ASSUME NEW T \in SUBSET S, T # {} PROVE h[one(T)] + f[T \ {one(T)}] \in Int
    <3>1. h[one(T)] \in Int /\ T \ {one(T)} \in SUBSET S
      BY <1>2, <2>1
    <3>2. f[T \ {one(T)}] \in Int
      BY <3>1
    <3> QED
      BY <3>1, <3>2
  <2> QED
    BY <2>1
<1> HIDE DEF more
<1>4. step \in [F \X Nat -> F]
    BY <1>3
<1>5. PICK r \in [Nat -> F] : Recurs(r, first, step)
  <2> HIDE DEF step, first, F
  <2> QED
    BY <1>1, <1>4, RecursionOnNat
<1>6. \A n \in Nat : r[n + 1] = more(r[n])
  <2> TAKE n \in Nat
  <2>1. n + 1 \in Nat /\ n + 1 # 0 /\ (n + 1) - 1 = n
    OBVIOUS
  <2>2. r[n + 1] = step[<<r[n], n + 1>>]
    BY <1>5, <2>1 DEF Recurs
  <2>3. <<r[n], n + 1>> \in F \X Nat
    BY <2>1
  <2> HIDE DEF F
  <2> QED
    BY <2>2, <2>3
<1> DEFINE g == [T \in SUBSET S |-> r[Cardinality(T)][T]]
<1>7. \A T \in SUBSET S : IsFiniteSet(T) /\ Cardinality(T) \in Nat
    BY FS_Subset, FS_CardinalityType
<1>8. g \in F
    BY <1>7
<1>9. ASSUME NEW T \in SUBSET S
      PROVE  g[T] = IF T = {} THEN 0 ELSE h[one(T)] + g[T \ {one(T)}]
  <2>1. CASE T = {}
    <3>1. Cardinality(T) = 0
      BY <2>1, FS_EmptySet
    <3>2. r[0] = first
      BY <1>5 DEF Recurs
    <3> QED
      BY <2>1, <3>1, <3>2
  <2>2. CASE T # {}
    <3>1. Cardinality(T) \in Nat /\ Cardinality(T) # 0
      BY <1>7, <2>2, FS_EmptySet
    <3>2. PICK n \in Nat : Cardinality(T) = n + 1
      <4>1. Cardinality(T) - 1 \in Nat /\ Cardinality(T) = (Cardinality(T) - 1) + 1
        BY <3>1
      <4> QED
        BY <4>1
    <3>3. one(T) \in T
      BY <2>2, ChosenIsIn
    <3> HIDE DEF one
    <3>4. Cardinality(T \ {one(T)}) = n
      BY <1>7, <3>2, <3>3, Smaller
    <3>5. T \ {one(T)} \in SUBSET S
      OBVIOUS
    <3>6. g[T] = more(r[n])[T] /\ g[T \ {one(T)}] = r[n][T \ {one(T)}]
      BY <1>6, <3>2, <3>4, <3>5
    <3>7. more(r[n])[T] = h[one(T)] + r[n][T \ {one(T)}]
      BY <2>2 DEF more
    <3> QED
      BY <2>2, <3>6, <3>7
  <2> QED
    BY <2>1, <2>2
<1> HIDE DEF g
<1>10. g = [T \in SUBSET S |-> IF T = {} THEN 0 ELSE h[one(T)] + g[T \ {one(T)}]]
  <2>1. g = [T \in SUBSET S |-> g[T]]
    BY <1>8
  <2> HIDE DEF one
  <2> QED
    BY <1>9, <2>1
<1>11. Sums(g, h, S)
    BY <1>10 DEF Sums
<1> QED
    BY <1>8, <1>11

LEMMA SumsUnfold ==
    ASSUME NEW g, NEW h, NEW S, Sums(g, h, S), NEW T \in SUBSET S
    PROVE  g[T] = IF T = {} THEN 0 ELSE LET x == CHOOSE y \in T : TRUE IN h[x] + g[T \ {x}]
    BY DEF Sums

\* Sums over the subsets of two sets agree where both have them.
LEMMA SumsAgree ==
    ASSUME NEW h, NEW g, NEW S, Sums(g, h, S), NEW k, NEW R, Sums(k, h, R),
           NEW T \in SUBSET (S \cap R), IsFiniteSet(T)
    PROVE  g[T] = k[T]
<1> DEFINE N == {n \in Nat : \A U \in SUBSET (S \cap R) :
                    IsFiniteSet(U) /\ Cardinality(U) = n => g[U] = k[U]}
           one(U) == CHOOSE y \in U : TRUE
<1>1. \A U \in SUBSET (S \cap R) :
         /\ g[U] = IF U = {} THEN 0 ELSE h[one(U)] + g[U \ {one(U)}]
         /\ k[U] = IF U = {} THEN 0 ELSE h[one(U)] + k[U \ {one(U)}]
    BY SumsUnfold
<1>2. 0 \in N
    BY <1>1, FS_EmptySet
<1>3. ASSUME NEW n \in Nat, n \in N PROVE n + 1 \in N
  <2> SUFFICES ASSUME NEW U \in SUBSET (S \cap R), IsFiniteSet(U), Cardinality(U) = n + 1
               PROVE  g[U] = k[U]
    OBVIOUS
  <2>1. U # {}
    BY FS_EmptySet
  <2>2. one(U) \in U
    BY <2>1, ChosenIsIn
  <2> HIDE DEF one
  <2>3. IsFiniteSet(U \ {one(U)}) /\ Cardinality(U \ {one(U)}) = n
    BY <2>2, Smaller
  <2>4. g[U \ {one(U)}] = k[U \ {one(U)}]
    BY <1>3, <2>3
  <2> QED
    BY <1>1, <2>1, <2>4
<1> HIDE DEF N
<1>4. \A n \in Nat : n \in N
    BY <1>2, <1>3, InductionOnNat
<1> QED
    BY <1>4, FS_CardinalityType DEF N

\* A sum is that of the rest and the one chosen.
LEMMA SumChosen ==
    ASSUME NEW h, NEW T, IsFiniteSet(T), \A x \in T : h[x] \in Int
    PROVE  /\ SumFunctionOnSet(h, T) \in Int
           /\ T = {} => SumFunctionOnSet(h, T) = 0
           /\ T # {} => LET x == CHOOSE y \in T : TRUE IN
                        SumFunctionOnSet(h, T) = h[x] + SumFunctionOnSet(h, T \ {x})
<1> DEFINE one == CHOOSE y \in T : TRUE
           g == CHOOSE f : Sums(f, h, T)
<1>1. PICK f \in [SUBSET T -> Int] : Sums(f, h, T)
    BY SumsExist
<1>2. Sums(g, h, T)
    BY <1>1
<1>3. SumFunctionOnSet(h, T) = g[T]
    BY SumUnfold
<1> HIDE DEF g
<1>4. g[T] = f[T]
    BY <1>1, <1>2, SumsAgree
<1>5. f[T] \in Int
    BY <1>1
<1>6. T = {} => f[T] = 0
    BY <1>1, SumsUnfold
<1>7. ASSUME T # {} PROVE SumFunctionOnSet(h, T) = h[one] + SumFunctionOnSet(h, T \ {one})
  <2> DEFINE R == T \ {one}
             k == CHOOSE e : Sums(e, h, R)
  <2>1. f[T] = h[one] + f[R]
    BY <1>1, <1>7, SumsUnfold
  <2>2. R \in SUBSET T /\ IsFiniteSet(R)
    BY FS_Subset
  <2> HIDE DEF R
  <2>3. PICK e \in [SUBSET R -> Int] : Sums(e, h, R)
    BY <2>2, SumsExist
  <2>4. Sums(k, h, R) /\ SumFunctionOnSet(h, R) = k[R]
    BY <2>3, SumUnfold
  <2> HIDE DEF k
  <2>5. k[R] = f[R]
    BY <1>1, <2>2, <2>4, SumsAgree
  <2> HIDE DEF one
  <2>6. SumFunctionOnSet(h, T) = h[one] + SumFunctionOnSet(h, R)
    BY <1>3, <1>4, <2>1, <2>4, <2>5
  <2> QED
    BY <2>6 DEF R
<1> QED
    BY <1>3, <1>4, <1>5, <1>6, <1>7

\* And of the rest and any one of them: the order does not matter.
LEMMA SumAny ==
    ASSUME NEW h, NEW T, IsFiniteSet(T), \A y \in T : h[y] \in Int, NEW x \in T
    PROVE  SumFunctionOnSet(h, T) = h[x] + SumFunctionOnSet(h, T \ {x})
<1> DEFINE sum(U) == SumFunctionOnSet(h, U)
           N == {n \in Nat : \A U \in SUBSET T : Cardinality(U) = n =>
                    \A z \in U : sum(U) = h[z] + sum(U \ {z})}
<1>1. \A U \in SUBSET T : IsFiniteSet(U) /\ Cardinality(U) \in Nat /\ sum(U) \in Int
    BY FS_Subset, FS_CardinalityType, SumChosen
<1>2. 0 \in N
  <2>1. \A U \in SUBSET T : Cardinality(U) = 0 => U = {}
    BY <1>1, FS_EmptySet
  <2> HIDE DEF sum
  <2> QED
    BY <2>1
<1>3. ASSUME NEW n \in Nat, n \in N PROVE n + 1 \in N
  <2> SUFFICES ASSUME NEW U \in SUBSET T, Cardinality(U) = n + 1, NEW z \in U
               PROVE  sum(U) = h[z] + sum(U \ {z})
    OBVIOUS
  <2> DEFINE c == CHOOSE y \in U : TRUE
  <2>1. c \in U /\ IsFiniteSet(U) /\ \A y \in U : h[y] \in Int
    BY <1>1, ChosenIsIn
  <2>2. sum(U) = h[c] + sum(U \ {c})
    BY <2>1, SumChosen
  <2> HIDE DEF c, sum
  <2>3. CASE c = z
    BY <2>2, <2>3
  <2>4. CASE c # z
    <3>1. /\ U \ {c} \in SUBSET T /\ Cardinality(U \ {c}) = n /\ z \in U \ {c}
          /\ U \ {z} \in SUBSET T /\ Cardinality(U \ {z}) = n /\ c \in U \ {z}
      BY <2>1, <2>4, Smaller
    <3>2. sum(U \ {c}) = h[z] + sum((U \ {c}) \ {z}) /\ sum(U \ {z}) = h[c] + sum((U \ {z}) \ {c})
      BY <1>3, <3>1
    <3>3. (U \ {c}) \ {z} = (U \ {z}) \ {c}
      OBVIOUS
    <3>4. (U \ {c}) \ {z} \in SUBSET T
      BY <3>1
    <3>5. sum((U \ {c}) \ {z}) \in Int /\ h[z] \in Int /\ h[c] \in Int
      BY <1>1, <2>1, <3>4
    <3> DEFINE rest == sum((U \ {c}) \ {z})
    <3>6. sum(U) = h[c] + (h[z] + rest) /\ sum(U \ {z}) = h[c] + rest
      BY <2>2, <3>2, <3>3
    <3>7. rest \in Int
      BY <3>5
    <3> HIDE DEF rest
    <3> QED
      BY <3>5, <3>6, <3>7
  <2> QED
    BY <2>3, <2>4
<1> HIDE DEF N
<1>4. \A n \in Nat : n \in N
    BY <1>2, <1>3, InductionOnNat
<1>5. Cardinality(T) \in N
    BY <1>1, <1>4
<1> QED
    BY <1>5 DEF N

\* A sum over names of what is summed, each with one name.
LEMMA SumRenamed ==
    ASSUME NEW T, IsFiniteSet(T), NEW f, NEW h, NEW k,
           \A x \in T : h[f[x]] \in Int /\ k[x] = h[f[x]],
           \A x, y \in T : f[x] = f[y] => x = y
    PROVE  SumFunctionOnSet(k, T) = SumFunctionOnSet(h, {f[x] : x \in T})
<1> DEFINE of(U) == {f[x] : x \in U}
           N == {n \in Nat : \A U \in SUBSET T : Cardinality(U) = n =>
                    IsFiniteSet(of(U)) /\ SumFunctionOnSet(k, U) = SumFunctionOnSet(h, of(U))}
<1>1. \A U \in SUBSET T : IsFiniteSet(U) /\ Cardinality(U) \in Nat
    BY FS_Subset, FS_CardinalityType
<1>2. 0 \in N
  <2>1. \A U \in SUBSET T : Cardinality(U) = 0 => U = {} /\ of(U) = {}
    BY <1>1, FS_EmptySet
  <2>2. IsFiniteSet({}) /\ SumFunctionOnSet(k, {}) = 0 /\ SumFunctionOnSet(h, {}) = 0
    BY FS_EmptySet, SumChosen
  <2> HIDE DEF of
  <2> QED
    BY <2>1, <2>2
<1>3. ASSUME NEW n \in Nat, n \in N PROVE n + 1 \in N
  <2> SUFFICES ASSUME NEW U \in SUBSET T, Cardinality(U) = n + 1
               PROVE  IsFiniteSet(of(U)) /\ SumFunctionOnSet(k, U) = SumFunctionOnSet(h, of(U))
    OBVIOUS
  <2>1. IsFiniteSet(U) /\ U # {}
    BY <1>1, FS_EmptySet
  <2>2. PICK z \in U : TRUE
    BY <2>1
  <2> DEFINE R == U \ {z}
  <2>3. Cardinality(R) = n /\ R \in SUBSET T
    BY <2>1, Smaller
  <2>4. IsFiniteSet(of(R)) /\ SumFunctionOnSet(k, R) = SumFunctionOnSet(h, of(R))
    BY <1>3, <2>3
  <2>5. of(U) = of(R) \cup {f[z]} /\ f[z] \notin of(R)
    OBVIOUS
  <2>6. of(U) \ {f[z]} = of(R) /\ f[z] \in of(U)
    BY <2>5
  <2>7. \A y \in of(U) : h[y] \in Int
    OBVIOUS
  <2>8. \A x \in U : k[x] \in Int
    OBVIOUS
  <2> HIDE DEF of
  <2>9. IsFiniteSet(of(U))
    <3>1. IsFiniteSet(of(R) \cup {f[z]})
      BY <2>4, FS_AddElement
    <3> QED
      BY <2>5, <3>1
  <2>10. SumFunctionOnSet(h, of(U)) = h[f[z]] + SumFunctionOnSet(h, of(U) \ {f[z]})
    BY <2>6, <2>7, <2>9, SumAny
  <2>11. SumFunctionOnSet(k, U) = k[z] + SumFunctionOnSet(k, R)
    BY <2>1, <2>8, SumAny
  <2> HIDE DEF R
  <2> QED
    BY <2>4, <2>6, <2>9, <2>10, <2>11
<1> HIDE DEF N
<1>4. \A n \in Nat : n \in N
    BY <1>2, <1>3, InductionOnNat
<1>5. Cardinality(T) \in N
    BY <1>1, <1>4
<1> QED
    BY <1>5 DEF N

=============================================================================
