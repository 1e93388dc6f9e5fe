------------------------------- MODULE Induction -------------------------------
(***************************************************************************)
(* Induction over the naturals for the other proofs, about sets in the      *)
(* place of predicates, and what a recursive function of a natural is.      *)
(***************************************************************************)
EXTENDS Integers, WellFoundedInduction, TLAPS

-----------------------------------------------------------------------------
(* A set of naturals has a least element.                                   *)

LEMMA MinimalIsLeast ==
    ASSUME NEW R, IsWellFoundedOn(R, Nat), \A x, y \in Nat : y < x => <<y, x>> \in R,
           NEW T, T \subseteq Nat, T # {}
    PROVE  \E x \in T : \A y \in T : x <= y
<1>1. PICK x \in T : \A y \in T : ~(<<y, x>> \in R)
  BY WFMin
<1>2. ASSUME NEW y \in T
      PROVE  ~(y < x)
  <2>1. x \in Nat /\ y \in Nat
    OBVIOUS
  <2> QED
    BY <1>1, <2>1, Zenon
<1>3. \A y \in T : x <= y
  BY <1>2, SMT
<1> QED
  BY <1>3

LEMMA NatOrdered ==
    \E R : IsWellFoundedOn(R, Nat) /\ \A x, y \in Nat : y < x => <<y, x>> \in R
<1>1. \A x, y \in Nat : y < x => <<y, x>> \in OpToRel(<, Nat)
  BY DEF OpToRel
<1> QED
  BY <1>1, NatLessThanWellFounded, Zenon

LEMMA LeastElement ==
    ASSUME NEW T, T \subseteq Nat, T # {}
    PROVE  \E x \in T : \A y \in T : x <= y
<1>1. PICK R : IsWellFoundedOn(R, Nat) /\ \A x, y \in Nat : y < x => <<y, x>> \in R
  BY NatOrdered
<1> QED
  BY <1>1, MinimalIsLeast

-----------------------------------------------------------------------------
(* A set with 0, and with n + 1 for every n of it, has all numbers up to K.  *)

LEMMA UpTo ==
    ASSUME NEW K \in Nat, NEW T, 0 \in T, \A n \in 0 .. K - 1 : n \in T => n + 1 \in T
    PROVE  0 .. K \subseteq T
<1> DEFINE Out == {n \in 0 .. K : n \notin T}
<1> SUFFICES ASSUME Out # {} PROVE FALSE
  OBVIOUS
<1>1. PICK n \in Out : \A m \in Out : n <= m
  <2>1. Out \subseteq Nat
    OBVIOUS
  <2> HIDE DEF Out
  <2> QED
    BY <2>1, LeastElement
<1>2. n - 1 \in 0 .. K - 1 /\ n - 1 \notin Out
  BY <1>1
<1> QED
  BY <1>2

-----------------------------------------------------------------------------
(* A recursive function.  G is the step, from the argument and the value     *)
(* before to the value.                                                      *)

Follows(f, K, b, G) == f = [n \in 0 .. K |-> IF n = 0 THEN b ELSE G[n][f[n - 1]]]

LEMMA NextExists ==
    ASSUME NEW K \in Nat, NEW b, NEW G, NEW f, Follows(f, K, b, G)
    PROVE  \E g : Follows(g, K + 1, b, G)
<1> DEFINE g == [n \in 0 .. K + 1 |-> IF n = 0 THEN b ELSE G[n][f[n - 1]]]
<1>1. ASSUME NEW n \in 0 .. K + 1, n # 0
      PROVE  g[n - 1] = f[n - 1]
  <2>1. n - 1 \in 0 .. K /\ n - 1 \in 0 .. K + 1
    BY <1>1
  <2> QED
    BY <2>1 DEF Follows
<1>2. Follows(g, K + 1, b, G)
  BY <1>1 DEF Follows
<1> QED
  BY <1>2

LEMMA FunctionExists ==
    ASSUME NEW K \in Nat, NEW b, NEW G
    PROVE  \E f : Follows(f, K, b, G)
<1> DEFINE T == {n \in Nat : \E f : Follows(f, n, b, G)}
<1>1. 0 \in T
  <2> DEFINE f == [n \in 0 .. 0 |-> b]
  <2>1. Follows(f, 0, b, G)
    BY DEF Follows
  <2> QED
    BY <2>1
<1>2. \A n \in 0 .. K - 1 : n \in T => n + 1 \in T
  BY NextExists
<1>3. K \in T
  <2> HIDE DEF T
  <2>1. 0 .. K \subseteq T
    BY <1>1, <1>2, UpTo
  <2> QED
    BY <2>1
<1> QED
  BY <1>3

\* The values stay in V if the step does.
LEMMA FunctionType ==
    ASSUME NEW K \in Nat, NEW V, NEW b \in V, NEW G, NEW f, Follows(f, K, b, G),
           \A n \in 1 .. K, v \in V : G[n][v] \in V
    PROVE  f \in [0 .. K -> V]
<1> DEFINE T == {n \in 0 .. K : f[n] \in V}
<1>1. 0 \in T
  BY DEF Follows
<1>2. ASSUME NEW n \in 0 .. K - 1, n \in T
      PROVE  n + 1 \in T
  <2>1. n + 1 \in 1 .. K /\ n + 1 # 0 /\ n + 1 - 1 = n
    OBVIOUS
  <2>2. f[n + 1] = G[n + 1][f[n]]
    BY <2>1 DEF Follows
  <2> QED
    BY <1>2, <2>1, <2>2
<1>3. 0 .. K \subseteq T
  <2> HIDE DEF T
  <2> QED
    BY <1>1, <1>2, UpTo
<1>4. \A n \in 0 .. K : f[n] \in V
  BY <1>3
<1> QED
  BY <1>4 DEF Follows
=============================================================================
