------------------------------ MODULE Induction ------------------------------
(***************************************************************************)
(* Induction over the naturals in first-order form, for the proofs about   *)
(* what folds, sums and searches over a sequence compute: a set of         *)
(* naturals that holds 0 and the successor of each of its members is all   *)
(* of them.  It rests on the well-founded order of the naturals.           *)
(***************************************************************************)
EXTENDS Integers, WellFoundedInduction, TLAPS

(* A nonempty set of naturals has a least member. *)
LEMMA LeastMember ==
    ASSUME NEW S \in SUBSET Nat, S # {}
    PROVE  \E n \in S : \A k \in S : n <= k
<1> DEFINE R == OpToRel(<, Nat)
<1>1. IsWellFoundedOn(R, Nat)
  BY NatLessThanWellFounded
<1>2. \A x, y \in Nat : y < x => <<y, x>> \in R
  BY DEF OpToRel
<1>3. PICK n \in S : \A k \in S : ~ (<<k, n>> \in R)
  <2> HIDE DEF R
  <2> QED BY <1>1, WFMin
<1>4. \A k \in S : ~ (k < n)
  <2> HIDE DEF R
  <2> QED BY <1>2, <1>3
<1> QED BY <1>4

(* Induction, stated with the set of the naturals for which it holds. *)
LEMMA SetInduction ==
    ASSUME NEW S \in SUBSET Nat, 0 \in S, \A n \in S : n + 1 \in S
    PROVE  S = Nat
<1> SUFFICES ASSUME Nat \ S # {}
             PROVE  FALSE
  OBVIOUS
<1>1. PICK x \in Nat \ S : \A k \in Nat \ S : x <= k
  BY LeastMember
<1>2. x - 1 \in Nat /\ ~ (x <= x - 1) /\ (x - 1) + 1 = x
  OBVIOUS
<1>3. x - 1 \in S
  BY <1>1, <1>2
<1>4. (x - 1) + 1 \in S
  BY <1>3
<1> QED BY <1>2, <1>4

(* Induction up to a bound. *)
LEMMA BoundedInduction ==
    ASSUME NEW m \in Nat, NEW S, 0 \in S, \A n \in 0 .. m - 1 : n \in S => n + 1 \in S
    PROVE  0 .. m \subseteq S
<1> DEFINE T == {n \in Nat : n <= m => n \in S}
<1>1. 0 \in T
  OBVIOUS
<1>2. ASSUME NEW n \in T
      PROVE  n + 1 \in T
  <2>1. n + 1 <= m => n \in 0 .. m - 1 /\ n \in S
    OBVIOUS
  <2> QED BY <2>1
<1>3. T = Nat
  <2> HIDE DEF T
  <2>1. T \in SUBSET Nat
    BY DEF T
  <2> QED BY <1>1, <1>2, <2>1, SetInduction
<1> QED BY <1>3

(* A nonempty set of naturals with a bound has a greatest member. *)
LEMMA GreatestMember ==
    ASSUME NEW m \in Nat, NEW S \in SUBSET (0 .. m), S # {}
    PROVE  \E n \in S : \A k \in S : k <= n
<1> DEFINE U == {u \in Nat : \A k \in S : k <= u}
<1>1. m \in U /\ U \in SUBSET Nat
  OBVIOUS
<1>2. PICK u \in U : \A v \in U : u <= v
  <2> HIDE DEF U
  <2> QED BY <1>1, LeastMember
<1>3. ASSUME u \notin S
      PROVE  FALSE
  <2>1. \A k \in S : k < u
    BY <1>2, <1>3
  <2>2. PICK k \in S : TRUE
    OBVIOUS
  <2>3. u > 0 /\ u - 1 \in Nat
    BY <2>1, <2>2
  <2>4. \A j \in S : j <= u - 1
    BY <2>1, <2>3
  <2>5. u - 1 \in U /\ ~ (u <= u - 1)
    BY <2>3, <2>4
  <2> QED BY <1>2, <2>5
<1> QED BY <1>2, <1>3

(* One of the first n values of a function is the greatest. *)
LEMMA GreatestValue ==
    ASSUME NEW n \in Nat \ {0}, NEW f, \A i \in 1 .. n : f[i] \in Int
    PROVE  \E i \in 1 .. n : \A j \in 1 .. n : f[j] <= f[i]
<1> DEFINE Best(i, k) == \A j \in 1 .. k : f[j] <= f[i]
           S == {k \in 0 .. n : k = 0 \/ \E i \in 1 .. k : Best(i, k)}
<1>1. 0 \in S
  OBVIOUS
<1>2. ASSUME NEW k \in 0 .. n - 1, k \in S
      PROVE  k + 1 \in S
  <2>1. k + 1 \in 1 .. n /\ k + 1 \in 1 .. k + 1
    OBVIOUS
  <2>2. CASE k = 0
    <3>1. Best(k + 1, k + 1)
      BY <2>1, <2>2
    <3> HIDE DEF Best
    <3> QED BY <2>1, <3>1
  <2>3. ASSUME NEW i \in 1 .. k, Best(i, k)
        PROVE  k + 1 \in S
    <3>1. i \in 1 .. k + 1 /\ f[i] \in Int /\ f[k + 1] \in Int
      BY <2>1
    <3>2. CASE f[k + 1] <= f[i]
      <4>1. Best(i, k + 1)
        BY <2>3, <3>1, <3>2
      <4> HIDE DEF Best
      <4> QED BY <2>1, <3>1, <4>1
    <3>3. CASE ~ (f[k + 1] <= f[i])
      <4>1. ASSUME NEW j \in 1 .. k + 1
            PROVE  f[j] <= f[k + 1]
        <5>1. CASE j = k + 1
          BY <3>1, <5>1
        <5>2. CASE j # k + 1
          <6>1. j \in 1 .. k /\ f[j] \in Int
            BY <5>2
          <6>2. f[j] <= f[i]
            BY <2>3, <6>1
          <6> QED BY <3>1, <3>3, <6>1, <6>2
        <5> QED BY <5>1, <5>2
      <4>2. Best(k + 1, k + 1)
        BY <4>1
      <4> HIDE DEF Best
      <4> QED BY <2>1, <4>2
    <3> QED BY <3>2, <3>3
  <2>4. k = 0 \/ \E i \in 1 .. k : Best(i, k)
    BY <1>2
  <2> QED BY <2>2, <2>3, <2>4
<1>3. 0 .. n \subseteq S
  <2> HIDE DEF S
  <2> QED BY <1>1, <1>2, BoundedInduction
<1>4. n \in S
  BY <1>3
<1> QED BY <1>4

-----------------------------------------------------------------------------
(* What a recursive definition over 0 .. m stands for: a function given by *)
(* its first value and a step exists, and there is only one.  The step is  *)
(* itself a function, of the index and of the value before.                *)
Recursion(f, a, step, m) == f[0] = a /\ \A i \in 1 .. m : f[i] = step[i][f[i - 1]]

LEMMA RecursionExists ==
    ASSUME NEW A, NEW a \in A, NEW m \in Nat, NEW step \in [1 .. m -> [A -> A]]
    PROVE  \E f \in [0 .. m -> A] : Recursion(f, a, step, m)
<1> DEFINE Good(f, n) == Recursion(f, a, step, n)
           S == {n \in 0 .. m : \E f \in [0 .. n -> A] : Good(f, n)}
<1>1. 0 \in S
  <2>1. Good([i \in 0 .. 0 |-> a], 0) /\ [i \in 0 .. 0 |-> a] \in [0 .. 0 -> A]
    BY DEF Recursion
  <2> HIDE DEF Good
  <2> QED BY <2>1
<1>2. ASSUME NEW n \in 0 .. m - 1, n \in S
      PROVE  n + 1 \in S
  <2>1. PICK f \in [0 .. n -> A] : Good(f, n)
    BY <1>2
  <2>2. n \in 0 .. n /\ n + 1 \in 1 .. m /\ f[n] \in A /\ step[n + 1] \in [A -> A]
    OBVIOUS
  <2> DEFINE g == [i \in 0 .. n + 1 |-> IF i = n + 1 THEN step[n + 1][f[n]] ELSE f[i]]
  <2>3. g \in [0 .. n + 1 -> A]
    BY <2>2
  <2>4. g[0] = a
    BY <2>1 DEF Recursion
  <2>5. ASSUME NEW i \in 1 .. n + 1
        PROVE  g[i] = step[i][g[i - 1]]
    <3>1. i - 1 \in 0 .. n /\ i - 1 # n + 1 /\ g[i - 1] = f[i - 1]
      OBVIOUS
    <3>2. CASE i = n + 1
      BY <3>1, <3>2
    <3>3. CASE i # n + 1
      <4>1. i \in 1 .. n /\ g[i] = f[i]
        BY <3>3
      <4> QED BY <2>1, <3>1, <4>1 DEF Recursion
    <3> QED BY <3>2, <3>3
  <2>6. Good(g, n + 1)
    BY <2>4, <2>5 DEF Recursion
  <2> HIDE DEF g, Good
  <2> QED BY <2>3, <2>6
<1>3. m \in S
  <2> HIDE DEF S
  <2>1. 0 .. m \subseteq S
    BY <1>1, <1>2, BoundedInduction
  <2> QED BY <2>1
<1> QED BY <1>3

Alike(f, g, m) == f[0] = g[0] /\ \A i \in 1 .. m : f[i - 1] = g[i - 1] => f[i] = g[i]

LEMMA RecursionUnique ==
    ASSUME NEW m \in Nat, NEW f, NEW g, Alike(f, g, m)
    PROVE  \A i \in 0 .. m : f[i] = g[i]
<1> DEFINE S == {n \in 0 .. m : f[n] = g[n]}
<1>1. 0 \in S
  BY DEF Alike
<1>2. ASSUME NEW n \in 0 .. m - 1, n \in S
      PROVE  n + 1 \in S
  <2>1. n + 1 \in 1 .. m /\ (n + 1) - 1 = n
    OBVIOUS
  <2> QED BY <1>2, <2>1 DEF Alike
<1>3. 0 .. m \subseteq S
  <2> HIDE DEF S
  <2> QED BY <1>1, <1>2, BoundedInduction
<1> QED BY <1>3

=============================================================================
