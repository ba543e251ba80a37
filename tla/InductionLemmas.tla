---------------------------- MODULE InductionLemmas ----------------------------
(***************************************************************************)
(* Induction and recursion over the numbers, stated of sets and functions  *)
(* instead of operators, so that the proofs of the other modules can cite  *)
(* them: what is to hold of n is a set that n is a member of.              *)
(*                                                                         *)
(*   Smallest      a set of numbers has a smallest member                  *)
(*   Induction     a set that holds 0 and n + 1 with n holds all numbers   *)
(*   Recursion     a first value and a step define a function              *)
(***************************************************************************)
EXTENDS Integers, WellFoundedInduction, TLAPS

\* Every set of numbers that is not empty has a smallest member.
LEMMA Smallest ==
  ASSUME NEW S, S \subseteq Nat, S # {}
  PROVE  \E m \in S : \A n \in S : m <= n
  <1> DEFINE R == OpToRel(<, Nat)
  <1>1. IsWellFoundedOn(R, Nat)
    BY NatLessThanWellFounded
  <1> HIDE DEF R
  <1>2. PICK k \in S : \A n \in S : ~(<<n, k>> \in R)
    BY <1>1, WFMin
  <1>3. \A n \in S : k <= n
    <2> TAKE n \in S
    <2>1. n \in Nat /\ k \in Nat /\ <<n, k>> \notin R
      BY <1>2
    <2>2. <<n, k>> \in Nat \X Nat /\ <<n, k>>[1] = n /\ <<n, k>>[2] = k
      BY <2>1
    <2>3. ~(n < k)
      BY <2>1, <2>2 DEF R, OpToRel
    <2> QED
      BY <2>1, <2>3
  <1> QED
    BY <1>3

\* The principle of induction, of the set of the numbers for which something holds.
LEMMA Induction ==
  ASSUME NEW S, 0 \in S, \A n \in Nat : n \in S => n + 1 \in S
  PROVE  \A n \in Nat : n \in S
  <1> SUFFICES ASSUME NEW k \in Nat, k \notin S PROVE FALSE
    OBVIOUS
  <1>1. PICK m \in Nat \ S : \A n \in Nat \ S : m <= n
    <2>1. Nat \ S \subseteq Nat /\ Nat \ S # {}
      OBVIOUS
    <2> QED
      BY <2>1, Smallest
  <1>2. m # 0 /\ m - 1 \in Nat
    BY <1>1
  <1>3. m - 1 \in S
    BY <1>1, <1>2
  <1>4. (m - 1) + 1 = m
    BY <1>2
  <1> QED
    BY <1>1, <1>2, <1>3, <1>4

\* h follows the step from a on, up to n.
Follow(h, a, step, n) ==
  h[0] = a /\ \A i \in Nat : i < n => h[i + 1] = step[<<h[i], i + 1>>]

\* f begins with a, and the step makes each of its values from the one before.
Recurs(f, a, step) ==
  f[0] = a /\ \A i \in Nat : f[i + 1] = step[<<f[i], i + 1>>]

\* A function of the numbers is defined by its first value and by the step that makes
\* each value from the one before.
LEMMA Recursion ==
  ASSUME NEW S, NEW a \in S, NEW step \in [S \X Nat -> S]
  PROVE  \E f \in [Nat -> S] : Recurs(f, a, step)
  <1>1. \A n \in Nat : \E h \in [Nat -> S] : Follow(h, a, step, n)
    <2> DEFINE T == {n \in Nat : \E h \in [Nat -> S] : Follow(h, a, step, n)}
    <2>1. 0 \in T
      <3>1. PICK h : h = [i \in Nat |-> a]
        OBVIOUS
      <3>2. h \in [Nat -> S] /\ h[0] = a /\ \A i \in Nat : ~(i < 0)
        BY <3>1
      <3>3. Follow(h, a, step, 0)
        BY <3>2 DEF Follow
      <3> QED
        BY <3>2, <3>3
    <2>2. ASSUME NEW n \in Nat, n \in T PROVE n + 1 \in T
      <3>1. PICK h \in [Nat -> S] : Follow(h, a, step, n)
        BY <2>2
      <3>2. PICK g : g = [h EXCEPT ![n + 1] = step[<<h[n], n + 1>>]]
        OBVIOUS
      <3>3. g \in [Nat -> S] /\ g[n + 1] = step[<<h[n], n + 1>>]
            /\ \A i \in Nat : i # n + 1 => g[i] = h[i]
        BY <3>2
      <3>4. g[0] = a
        BY <3>1, <3>3 DEF Follow
      <3>5. ASSUME NEW i \in Nat, i < n + 1 PROVE g[i + 1] = step[<<g[i], i + 1>>]
        <4>1. CASE i = n
          BY <3>3, <4>1
        <4>2. CASE i < n
          <5>1. i + 1 # n + 1 /\ i # n + 1 /\ i + 1 \in Nat
            BY <4>2
          <5> QED
            BY <3>1, <3>3, <4>2, <5>1 DEF Follow
        <4> QED
          BY <3>5, <4>1, <4>2
      <3>6. Follow(g, a, step, n + 1)
        BY <3>4, <3>5 DEF Follow
      <3> QED
        BY <3>3, <3>6
    <2> HIDE DEF T
    <2>3. \A n \in Nat : n \in T
      BY <2>1, <2>2, Induction
    <2> QED
      BY <2>3 DEF T
  <1>2. ASSUME NEW g \in [Nat -> S], NEW h \in [Nat -> S], NEW m \in Nat, NEW n \in Nat, m <= n,
               Follow(g, a, step, m), Follow(h, a, step, n)
        PROVE  g[m] = h[m]
    <2> DEFINE T == {i \in Nat : i <= m => g[i] = h[i]}
    <2>1. 0 \in T
      BY <1>2 DEF Follow
    <2>2. ASSUME NEW i \in Nat, i \in T PROVE i + 1 \in T
      <3> SUFFICES ASSUME i + 1 <= m PROVE g[i + 1] = h[i + 1]
        OBVIOUS
      <3>1. i < m /\ i < n /\ i <= m
        BY <1>2
      <3> QED
        BY <1>2, <2>2, <3>1 DEF Follow
    <2> HIDE DEF T
    <2>3. m \in T
      BY <2>1, <2>2, Induction
    <2> QED
      BY <2>3 DEF T
  <1>3. PICK H : H = [n \in Nat |-> CHOOSE h \in [Nat -> S] : Follow(h, a, step, n)]
    OBVIOUS
  <1>4. \A n \in Nat : H[n] \in [Nat -> S] /\ Follow(H[n], a, step, n)
    BY <1>1, <1>3
  <1>5. PICK f : f = [n \in Nat |-> H[n][n]]
    OBVIOUS
  <1>6. f \in [Nat -> S]
    BY <1>4, <1>5
  <1>7. f[0] = a
    BY <1>4, <1>5 DEF Follow
  <1>8. ASSUME NEW i \in Nat PROVE f[i + 1] = step[<<f[i], i + 1>>]
    <2>1. i + 1 \in Nat /\ i < i + 1 /\ i <= i + 1
      OBVIOUS
    <2>2. H[i][i] = H[i + 1][i]
      BY <1>2, <1>4, <2>1
    <2>3. H[i + 1][i + 1] = step[<<H[i + 1][i], i + 1>>]
      BY <1>4, <2>1 DEF Follow
    <2> QED
      BY <1>5, <2>1, <2>2, <2>3
  <1> QED
    BY <1>6, <1>7, <1>8 DEF Recurs
================================================================================
