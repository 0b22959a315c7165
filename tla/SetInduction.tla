---------------------------- MODULE SetInduction -----------------------------
(***************************************************************************)
(* Induction over the natural numbers, stated for sets: what is to be      *)
(* shown of every number is the membership in a set, so that no theorem    *)
(* takes an operator as a parameter.  The proof modules use it for what    *)
(* recursive functions of their models compute.                            *)
(***************************************************************************)
EXTENDS Integers, WellFoundedInduction, TLAPS

\* A non-empty set of numbers has a least element.
LEMMA LeastElement ==
  ASSUME NEW T \in SUBSET Nat, T # {}
  PROVE  \E x \in T : \A y \in T : x <= y
<1> DEFINE R == OpToRel(<, Nat)
<1>1. IsWellFoundedOn(R, Nat)
  BY NatLessThanWellFounded
<1>2. \A x, y \in Nat : <<x, y>> \in R <=> x < y
  BY DEF OpToRel
<1> HIDE DEF R
<1>3. PICK x \in T : \A y \in T : ~ (<<y, x>> \in R)
  BY <1>1, WFMin
<1>4. T \subseteq Nat /\ \A y \in T : ~ (y < x)
  BY <1>2, <1>3
<1>5. \A y \in T : x <= y
  BY <1>4
<1> QED
  BY <1>5

\* A set that contains 0, and with a number its successor, contains every number
\* up to N.
LEMMA InductionTo ==
  ASSUME NEW N \in Nat, NEW S, 0 \in S, \A n \in 0 .. N - 1 : n \in S => n + 1 \in S
  PROVE  \A n \in 0 .. N : n \in S
<1> DEFINE T == {n \in 0 .. N : n \notin S}
<1> SUFFICES ASSUME T # {} PROVE FALSE
  OBVIOUS
<1>1. PICK x \in T : \A y \in T : x <= y
  <2>1. T \in SUBSET Nat
    OBVIOUS
  <2> QED
    BY <2>1, LeastElement
<1>2. x # 0 /\ x - 1 \in 0 .. N - 1 /\ x - 1 \notin T /\ (x - 1) + 1 = x
  BY <1>1
<1> QED
  BY <1>2

\* g begins with base, and its n-th value is made from the one before it by F[n].
Follows(g, N, S, base, F) ==
  /\ g \in [0 .. N -> S]
  /\ g[0] = base
  /\ \A n \in 1 .. N : g[n] = F[n][g[n - 1]]

\* What a recursive function of a model says of itself has a solution.
LEMMA RecursionTo ==
  ASSUME NEW N \in Nat, NEW S, NEW base \in S, NEW F \in [1 .. N -> [S -> S]]
  PROVE  \E g : Follows(g, N, S, base, F)
<1> DEFINE Solves(g, m) ==
             /\ g \in [0 .. N -> S] /\ g[0] = base
             /\ \A n \in 1 .. m : g[n] = F[n][g[n - 1]]
           T == {m \in 0 .. N : \E g : Solves(g, m)}
<1>1. 0 \in T
  <2>1. Solves([n \in 0 .. N |-> base], 0)
    OBVIOUS
  <2> HIDE DEF Solves
  <2> QED
    BY <2>1
<1>2. ASSUME NEW m \in 0 .. N - 1, m \in T PROVE m + 1 \in T
  <2>1. PICK g : Solves(g, m)
    BY <1>2
  <2> DEFINE k == m + 1
             h == [g EXCEPT ![k] = F[k][g[m]]]
  <2>2. /\ k \in 1 .. N /\ k - 1 = m /\ m \in 0 .. N /\ k # 0 /\ k # m
        /\ \A n \in 1 .. k : n = k \/ n \in 1 .. m
        /\ \A n \in 1 .. m : n \in 0 .. N /\ n - 1 \in 0 .. N /\ n # k /\ n - 1 # k
    OBVIOUS
  <2>3. g \in [0 .. N -> S] /\ g[0] = base /\ \A n \in 1 .. m : g[n] = F[n][g[n - 1]]
    BY <2>1
  <2> HIDE DEF k
  <2>4. h \in [0 .. N -> S] /\ h[0] = base /\ h[k] = F[k][g[m]] /\ h[m] = g[m]
    BY <2>2, <2>3
  <2>5. ASSUME NEW n \in 1 .. m PROVE h[n] = F[n][h[n - 1]]
    <3>1. h[n] = g[n] /\ h[n - 1] = g[n - 1]
      BY <2>2, <2>3
    <3> QED
      BY <2>3, <3>1
  <2>6. h[k] = F[k][h[k - 1]]
    BY <2>2, <2>4
  <2>7. Solves(h, k)
    <3> HIDE DEF h
    <3> QED
      BY <2>2, <2>4, <2>5, <2>6
  <2> HIDE DEF Solves, h
  <2> QED
    BY <2>2, <2>7 DEF k
<1>3. N \in T
  <2> HIDE DEF T
  <2>1. \A m \in 0 .. N : m \in T
    BY <1>1, <1>2, InductionTo
  <2> QED
    BY <2>1
<1> QED
  BY <1>3 DEF Follows
=============================================================================
