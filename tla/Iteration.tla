------------------------------- MODULE Iteration -------------------------------
(* Induction over the numbers, and functions defined by recursion over     *)
(* them, without an operator for a parameter.                              *)
EXTENDS Integers, WellFoundedInduction, TLAPS

(* A set of numbers with 0 and every successor has all numbers.            *)
LEMMA SetInduction ==
  ASSUME NEW S \in SUBSET Nat, 0 \in S, \A n \in S : n + 1 \in S
  PROVE  S = Nat
<1> SUFFICES ASSUME S # Nat PROVE FALSE
  OBVIOUS
<1> DEFINE T == Nat \ S
<1>1. T \subseteq Nat /\ T # {}
  OBVIOUS
<1>2. PICK R : R = OpToRel(<, Nat)
  OBVIOUS
<1>3. IsWellFoundedOn(R, Nat)
  BY <1>2, NatLessThanWellFounded
<1>4. PICK x \in T : \A y \in T : ~ (<<y, x>> \in R)
  <2> HIDE DEF T
  <2>1. QED  BY <1>1, <1>3, WFMin
<1>5. \A y \in Nat : y < x => <<y, x>> \in R
  BY <1>2, <1>1, <1>4 DEF OpToRel
<1>6. x \in Nat /\ x # 0
  BY <1>4
<1>7. x - 1 \in Nat /\ x - 1 < x
  BY <1>6
<1>8. x - 1 \in S
  BY <1>4, <1>5, <1>7
<1>9. QED  BY <1>4, <1>6, <1>8

(* The same up to N.                                                       *)
LEMMA BoundedInduction ==
  ASSUME NEW N \in Nat, NEW P, 0 \in P, \A n \in 1..N : n - 1 \in P => n \in P
  PROVE  \A n \in 0..N : n \in P
<1> DEFINE S == {n \in Nat : n <= N => n \in P}
<1>1. 0 \in S
  OBVIOUS
<1>2. ASSUME NEW n \in S PROVE n + 1 \in S
  <2>1. n \in Nat /\ (n <= N => n \in P)
    OBVIOUS
  <2>2. SUFFICES ASSUME n + 1 <= N PROVE n + 1 \in P
    BY <2>1
  <2>3. PICK m : m = n + 1
    OBVIOUS
  <2>4. m \in 1..N /\ m - 1 = n /\ n <= N
    BY <2>1, <2>2, <2>3
  <2>5. QED  BY <2>1, <2>3, <2>4
<1>3. S \in SUBSET Nat
  OBVIOUS
<1>4. S = Nat
  <2> HIDE DEF S
  <2>1. QED  BY <1>1, <1>2, <1>3, SetInduction
<1>5. QED  BY <1>4

-----------------------------------------------------------------------------
(* Least and greatest numbers of a set.                                    *)
LEMMA LeastExists ==
  ASSUME NEW T \in SUBSET Nat, T # {}
  PROVE  \E x \in T : \A y \in T : x <= y
<1>1. PICK R : R = OpToRel(<, Nat)
  OBVIOUS
<1>2. IsWellFoundedOn(R, Nat)
  BY <1>1, NatLessThanWellFounded
<1>3. PICK x \in T : \A y \in T : ~ (<<y, x>> \in R)
  BY <1>2, WFMin
<1>4. \A y \in T : ~ (y < x)
  BY <1>1, <1>3 DEF OpToRel
<1>5. QED  BY <1>3, <1>4

LEMMA GreatestExists ==
  ASSUME NEW T \in SUBSET Nat, T # {}, NEW top \in Nat, \A y \in T : y <= top
  PROVE  \E x \in T : \A y \in T : x >= y
<1> DEFINE U == {n \in Nat : top - n \in T}
<1>1. U \in SUBSET Nat
  OBVIOUS
<1>2. \A y \in T : top - y \in U
  OBVIOUS
<1>3. U # {}
  BY <1>2
<1>4. PICK n \in U : \A m \in U : n <= m
  <2> HIDE DEF U
  <2>1. QED  BY <1>1, <1>3, LeastExists
<1>5. top - n \in T /\ n \in Nat
  BY <1>4
<1>6. \A y \in T : n <= top - y
  BY <1>2, <1>4
<1>7. \A y \in T : top - n >= y
  BY <1>5, <1>6
<1>8. QED  BY <1>5, <1>7

-----------------------------------------------------------------------------
(* step[n] leads from S to S.                                              *)
Steps(step, N, S) == \A n \in 1..N : \A x \in S : step[n][x] \in S

(* f[n] is where n steps lead from a.                                      *)
IsTable(f, N, S, a, step) ==
  /\ f \in [0..N -> S] /\ f[0] = a
  /\ \A n \in 1..N : f[n] = step[n][f[n - 1]]

(* Every iteration has its table: what a recursive function is made of.    *)
LEMMA IterationExists ==
  ASSUME NEW N \in Nat, NEW S, NEW a \in S, NEW step, Steps(step, N, S)
  PROVE  \E f : IsTable(f, N, S, a, step)
<1> DEFINE Table(k, f) == IsTable(f, k, S, a, step)
           P == {k \in 0..N : \E f : Table(k, f)}
<1>1. 0 \in P
  <2>1. PICK f : f = [n \in 0..0 |-> a]
    OBVIOUS
  <2>2. Table(0, f)
    BY <2>1 DEF IsTable
  <2>3. QED  BY <2>2
<1>2. ASSUME NEW k \in 1..N, k - 1 \in P PROVE k \in P
  <2>1. PICK j : j = k - 1
    OBVIOUS
  <2>2. j \in Nat /\ k = j + 1 /\ j \in 0..N /\ j \in 0..j
    BY <2>1
  <2>3. PICK f : Table(j, f)
    BY <1>2, <2>1
  <2>4. f[j] \in S /\ f \in [0..j -> S] /\ f[0] = a
    BY <2>2, <2>3 DEF IsTable
  <2>5. step[k][f[j]] \in S
    BY <1>2, <2>4 DEF Steps
  <2>6. PICK g : g = [n \in 0..k |-> IF n = k THEN step[k][f[j]] ELSE f[n]]
    OBVIOUS
  <2>7. \A n \in 0..j : g[n] = f[n] /\ n \in 0..k /\ n # k
    BY <2>2, <2>6
  <2>8. g[k] = step[k][g[j]]
    BY <2>2, <2>6, <2>7
  <2>9. g \in [0..k -> S]
    <3>1. \A n \in 0..k : n = k \/ n \in 0..j
      BY <2>2
    <3>2. \A n \in 0..k : g[n] \in S
      BY <2>4, <2>5, <2>6, <2>7, <3>1
    <3>3. QED  BY <2>6, <3>2
  <2>10. ASSUME NEW n \in 1..k PROVE g[n] = step[n][g[n - 1]]
    <3>1. n = k \/ (n \in 1..j /\ n \in 0..j /\ n - 1 \in 0..j)
      BY <2>2
    <3>2. CASE n = k
      BY <2>1, <2>8, <3>2
    <3>3. CASE n \in 1..j /\ n \in 0..j /\ n - 1 \in 0..j
      <4>1. f[n] = step[n][f[n - 1]]
        BY <2>3, <3>3 DEF IsTable
      <4>2. g[n] = f[n] /\ g[n - 1] = f[n - 1]
        BY <2>7, <3>3
      <4>3. QED  BY <4>1, <4>2
    <3>4. QED  BY <3>1, <3>2, <3>3
  <2>11. g[0] = a
    BY <2>2, <2>4, <2>7
  <2>12. Table(k, g)
    BY <2>9, <2>10, <2>11 DEF IsTable
  <2>13. QED  BY <2>12
<1>3. \A k \in 0..N : k \in P
  <2> HIDE DEF P
  <2>1. QED  BY <1>1, <1>2, BoundedInduction
<1>4. N \in P
  BY <1>3
<1>5. QED  BY <1>4

=============================================================================
