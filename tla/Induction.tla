------------------------------ MODULE Induction ------------------------------
(***************************************************************************)
(* Induction over natural numbers, stated of sets and functions so that a  *)
(* proof can cite it: the least element of a set, the step from one number *)
(* to the next, and that a function defined by recursion on an interval is *)
(* what its definition says.                                               *)
(***************************************************************************)
EXTENDS Integers, FiniteSetTheorems, TLAPS

(* A set of natural numbers has a least element: it exists because the      *)
(* intervals below its elements are finite sets.                            *)
LEMMA LeastExists ==
  ASSUME NEW S, S \subseteq Nat, S # {}
  PROVE  \E m \in S : \A x \in S : m <= x
<1> DEFINE T == {0..x : x \in S}
<1>1. T \subseteq FiniteSubsetsOf(Nat) /\ T # {}
  <2>1. ASSUME NEW x \in S PROVE 0..x \in FiniteSubsetsOf(Nat)
    <3>1. IsFiniteSet(0..x)
      BY FS_Interval
    <3>2. 0..x \in SUBSET Nat
      OBVIOUS
    <3> QED BY <3>1, <3>2 DEF FiniteSubsetsOf
  <2> QED BY <2>1
<1>2. IsWellFoundedOn(StrictSubsetOrdering(Nat), FiniteSubsetsOf(Nat))
  BY FS_StrictSubsetOrderingWellFounded
<1>3. PICK a \in T : \A b \in T : ~(<<b, a>> \in StrictSubsetOrdering(Nat))
  <2> HIDE DEF T
  <2> QED BY <1>1, <1>2, WFMin
<1>4. PICK m \in S : a = 0..m
  OBVIOUS
<1>5. \A y \in S : m <= y
  <2>1. SUFFICES ASSUME NEW y \in S, y < m PROVE FALSE
    OBVIOUS
  <2>2. 0..y \subseteq 0..m /\ 0..y # 0..m
    BY <2>1
  <2>3. <<0..y, 0..m>> \in StrictSubsetOrdering(Nat)
    BY <2>2 DEF StrictSubsetOrdering
  <2> QED BY <1>3, <1>4, <2>3
<1> QED BY <1>5

(* What holds of zero, and of k + 1 when it holds of k, holds up to n.      *)
LEMMA UpTo ==
  ASSUME NEW n \in Nat, NEW P, 0 \in P, \A k \in 0..(n - 1) : k \in P => k + 1 \in P
  PROVE  0..n \subseteq P
<1> DEFINE T == {m \in 0..n : m \notin P}
<1>1. SUFFICES T = {}
  OBVIOUS
<1>2. SUFFICES ASSUME T # {} PROVE FALSE
  OBVIOUS
<1>3. PICK m \in T : \A x \in T : m <= x
  <2>1. T \subseteq Nat
    OBVIOUS
  <2> HIDE DEF T
  <2> QED BY <1>2, <2>1, LeastExists
<1>4. m \in 0..n /\ m \notin P /\ m # 0
  BY <1>3
<1>5. m - 1 \in 0..(n - 1) /\ m - 1 \notin T
  BY <1>3, <1>4
<1>6. m - 1 \in P /\ m - 1 + 1 = m
  BY <1>4, <1>5
<1> QED BY <1>4, <1>5, <1>6

-----------------------------------------------------------------------------
(* A recursion over 1..n from base with step G, and what solves it.         *)
StepFunctions(n, S) == [(1..n) \X S -> S]
SolvesRecursion(f, n, base, G) ==
  f[0] = base /\ \A k \in 1..n : f[k] = G[<<k, f[k - 1]>>]

(* Every recursion has a solution, ...                                      *)
LEMMA RecursionSolved ==
  ASSUME NEW n \in Nat, NEW S, NEW base \in S, NEW G \in StepFunctions(n, S)
  PROVE  \E f \in [0..n -> S] : SolvesRecursion(f, n, base, G)
<1> USE DEF StepFunctions
<1> DEFINE Solves(f, m) == f[0] = base /\ \A k \in 1..m : f[k] = G[<<k, f[k - 1]>>]
           P == {m \in 0..n : \E f \in [0..m -> S] : Solves(f, m)}
<1>1. 0 \in P
  <2> DEFINE g == [k \in 0..0 |-> base]
  <2>1. g \in [0..0 -> S] /\ g[0] = base
    OBVIOUS
  <2> HIDE DEF g
  <2>2. Solves(g, 0)
    BY <2>1
  <2>3. \E f \in [0..0 -> S] : Solves(f, 0)
    BY <2>1, <2>2
  <2> QED BY <2>3
<1>2. ASSUME NEW m \in 0..(n - 1), m \in P PROVE m + 1 \in P
  <2>1. PICK f \in [0..m -> S] : Solves(f, m)
    BY <1>2
  <2> DEFINE g == [k \in 0..(m + 1) |-> IF k = m + 1 THEN G[<<m + 1, f[m]>>] ELSE f[k]]
  <2>2. f[m] \in S /\ <<m + 1, f[m]>> \in (1..n) \X S
    BY <1>2
  <2>3. G[<<m + 1, f[m]>>] \in S
    BY <2>2
  <2>4. g \in [0..(m + 1) -> S]
    BY <2>3
  <2>5. g[0] = base
    BY <2>1
  <2>6. ASSUME NEW k \in 1..(m + 1) PROVE g[k] = G[<<k, g[k - 1]>>]
    <3>1. g[k - 1] = f[k - 1]
      OBVIOUS
    <3>2. CASE k = m + 1
      <4>1. g[m + 1] = G[<<m + 1, f[m]>>] /\ k - 1 = m
        BY <3>2
      <4> HIDE DEF g
      <4> QED BY <3>1, <3>2, <4>1
    <3>3. CASE k # m + 1
      <4>1. k \in 1..m /\ g[k] = f[k]
        BY <3>3
      <4> QED BY <2>1, <3>1, <4>1
    <3> QED BY <3>2, <3>3
  <2>7. m + 1 \in 0..n
    BY <1>2
  <2> HIDE DEF g
  <2> QED BY <2>4, <2>5, <2>6, <2>7
<1>3. 0..n \subseteq P
  <2> HIDE DEF P
  <2> QED BY <1>1, <1>2, UpTo
<1>4. PICK f \in [0..n -> S] : Solves(f, n)
  <2>1. n \in P
    BY <1>3
  <2> QED BY <2>1
<1> QED BY <1>4 DEF SolvesRecursion

(* ... and takes its values where the recursion does.                       *)
LEMMA RecursionTyped ==
  ASSUME NEW n \in Nat, NEW S, NEW base \in S, NEW G \in StepFunctions(n, S), NEW f,
         SolvesRecursion(f, n, base, G)
  PROVE  \A k \in 0..n : f[k] \in S
<1> DEFINE P == {k \in 0..n : f[k] \in S}
<1>1. 0 \in P
  BY DEF SolvesRecursion
<1>2. ASSUME NEW k \in 0..(n - 1), k \in P PROVE k + 1 \in P
  <2>1. k + 1 \in 1..n /\ k + 1 - 1 = k /\ f[k] \in S
    BY <1>2
  <2>2. f[k + 1] = G[<<k + 1, f[k]>>]
    BY <2>1 DEF SolvesRecursion
  <2>3. <<k + 1, f[k]>> \in (1..n) \X S
    BY <2>1
  <2>4. f[k + 1] \in S
    BY <2>2, <2>3 DEF StepFunctions
  <2> QED BY <2>1, <2>4
<1>3. 0..n \subseteq P
  <2> HIDE DEF P
  <2> QED BY <1>1, <1>2, UpTo
<1> QED BY <1>3
=============================================================================
