--------------------------- MODULE NaturalNumbers ---------------------------
(***************************************************************************)
(* Induction and recursion over the natural numbers, with sets and         *)
(* functions where the library's theorems have operators.                  *)
(***************************************************************************)
EXTENDS Integers, FiniteSetTheorems, WellFoundedInduction, TLAPS

\* The least number of a set, found as the smallest of the intervals below its
\* members: strict inclusion of finite sets is well founded.
LEMMA LeastOf ==
  ASSUME NEW T, T \subseteq Nat, T # {}
  PROVE  \E x \in T : \A y \in T : x <= y
<1> DEFINE Below(x) == 0..(x - 1)
           Segments == {Below(x) : x \in T}
           Smaller  == StrictSubsetOrdering(Nat)
<1>1. Segments \subseteq FiniteSubsetsOf(Nat) /\ Segments # {}
  <2>1. \A x \in T : IsFiniteSet(Below(x)) /\ Below(x) \in SUBSET Nat
    BY FS_Interval
  <2> QED BY <2>1 DEF FiniteSubsetsOf
<1>2. IsWellFoundedOn(Smaller, FiniteSubsetsOf(Nat))
  BY FS_StrictSubsetOrderingWellFounded
<1> HIDE DEF Smaller, Segments
<1>3. PICK s \in Segments : \A t \in Segments : ~(<<t, s>> \in Smaller)
  BY <1>1, <1>2, WFMin
<1>4. PICK x \in T : s = Below(x)
  BY <1>3 DEF Segments
<1>5. ASSUME NEW y \in T, y < x
      PROVE  FALSE
  <2>1. Below(y) \in Segments
    BY DEF Segments
  <2>2. Below(y) \subseteq Below(x) /\ Below(y) # Below(x)
    <3>1. y \in Below(x) /\ y \notin Below(y)
      BY <1>5
    <3>2. Below(y) \subseteq Below(x)
      BY <1>5
    <3> QED BY <3>1, <3>2
  <2>3. Below(y) \in SUBSET Nat /\ Below(x) \in SUBSET Nat
    OBVIOUS
  <2> HIDE DEF Below
  <2>4. <<Below(y), Below(x)>> \in Smaller
    BY <2>2, <2>3 DEF Smaller, StrictSubsetOrdering
  <2> QED BY <1>3, <1>4, <2>1, <2>4
<1>6. \A y \in T : x <= y
  BY <1>5
<1> QED BY <1>6

\* A set with 0 and with the successor of each of its members has all numbers.
LEMMA Induction ==
  ASSUME NEW T, 0 \in T, \A n \in T : n \in Nat => n + 1 \in T
  PROVE  Nat \subseteq T
<1> DEFINE R == Nat \ T
<1>1. SUFFICES ASSUME R # {} PROVE FALSE
  OBVIOUS
<1>2. PICK x \in R : \A y \in R : x <= y
  <2>1. R \subseteq Nat
    OBVIOUS
  <2> HIDE DEF R
  <2> QED BY <1>1, <2>1, LeastOf
<1>3. x \in Nat /\ x # 0
  OBVIOUS
<1>4. x - 1 \in Nat /\ ~(x <= x - 1) /\ (x - 1) + 1 = x
  BY <1>3
<1>5. x - 1 \in T
  BY <1>2, <1>4
<1>6. x \in T
  BY <1>4, <1>5
<1> QED BY <1>6

\* f begins with a value and goes on by steps.
Iterates(f, S, first, step) ==
  /\ f \in [Nat -> S]
  /\ f[0] = first
  /\ \A n \in Nat : f[n + 1] = step[<<f[n], n>>]

\* There is such a function.
LEMMA Recursion ==
  ASSUME NEW S, NEW first \in S, NEW step \in [S \X Nat -> S]
  PROVE  \E f : Iterates(f, S, first, step)
<1> DEFINE Solves(f, m) == /\ f \in [0..m -> S] /\ f[0] = first
                           /\ \A k \in 0..(m - 1) : f[k + 1] = step[<<f[k], k>>]
           F(m) == CHOOSE f : Solves(f, m)
           h == [m \in Nat |-> F(m)[m]]
<1>1. \A m \in Nat : \E f : Solves(f, m)
  <2> DEFINE T == {m \in Nat : \E f : Solves(f, m)}
  <2>1. 0 \in T
    <3>1. Solves([k \in 0..0 |-> first], 0)
      OBVIOUS
    <3> QED BY <3>1
  <2>2. ASSUME NEW m \in T PROVE m + 1 \in T
    <3>1. PICK f : Solves(f, m)
      OBVIOUS
    <3>2. m \in Nat
      OBVIOUS
    <3> DEFINE g == [k \in 0..(m + 1) |-> IF k = m + 1 THEN step[<<f[m], m>>] ELSE f[k]]
    <3>3. f \in [0..m -> S] /\ step[<<f[m], m>>] \in S
      BY <3>1, <3>2
    <3>4. g \in [0..(m + 1) -> S]
      BY <3>2, <3>3
    <3>5. g[0] = first
      BY <3>1, <3>2
    <3>6. \A k \in 0..((m + 1) - 1) : g[k + 1] = step[<<g[k], k>>]
      <4> TAKE k \in 0..((m + 1) - 1)
      <4>1. k \in 0..m /\ k + 1 \in 0..(m + 1) /\ k \in 0..(m + 1) /\ k # m + 1
        BY <3>2
      <4>2. CASE k = m
        BY <4>1, <4>2
      <4>3. CASE k # m
        <5>1. k \in 0..(m - 1) /\ k + 1 # m + 1
          BY <3>2, <4>1, <4>3
        <5> QED BY <3>1, <4>1, <5>1
      <4> QED BY <4>2, <4>3
    <3>7. Solves(g, m + 1)
      BY <3>4, <3>5, <3>6
    <3> HIDE DEF Solves
    <3> QED BY <3>2, <3>7
  <2> HIDE DEF T
  <2>3. Nat \subseteq T
    BY <2>1, <2>2, Induction
  <2> QED BY <2>3 DEF T
<1>2. ASSUME NEW m \in Nat, NEW f, NEW g, Solves(f, m), Solves(g, m + 1)
      PROVE  f[m] = g[m]
  <2> DEFINE T == {k \in Nat : k \in 0..m => f[k] = g[k]}
  <2>1. 0 \in T
    BY <1>2
  <2>2. ASSUME NEW k \in T PROVE k + 1 \in T
    <3> SUFFICES ASSUME k + 1 \in 0..m PROVE f[k + 1] = g[k + 1]
      OBVIOUS
    <3>1. k \in 0..(m - 1) /\ k \in 0..((m + 1) - 1) /\ k \in 0..m
      OBVIOUS
    <3> QED BY <1>2, <3>1
  <2> HIDE DEF T
  <2>3. Nat \subseteq T
    BY <2>1, <2>2, Induction
  <2> QED BY <2>3 DEF T
<1>3. \A m \in Nat : Solves(F(m), m)
  <2> HIDE DEF Solves
  <2> QED BY <1>1
<1> HIDE DEF F
<1>4. h \in [Nat -> S]
  <2>1. \A m \in Nat : F(m) \in [0..m -> S] /\ m \in 0..m
    BY <1>3
  <2> QED BY <2>1
<1>5. h[0] = first
  BY <1>3
<1>6. \A n \in Nat : h[n + 1] = step[<<h[n], n>>]
  <2> TAKE n \in Nat
  <2>1. Solves(F(n), n) /\ Solves(F(n + 1), n + 1)
    BY <1>3
  <2>2. F(n)[n] = F(n + 1)[n]
    <3> HIDE DEF Solves
    <3> QED BY <1>2, <2>1
  <2>3. F(n + 1)[n + 1] = step[<<F(n + 1)[n], n>>]
    BY <2>1
  <2> QED BY <2>2, <2>3
<1> QED BY <1>4, <1>5, <1>6 DEF Iterates

\* The same as a recursive function is defined.
Follows(f, S, first, step) ==
  /\ f \in [Nat -> S]
  /\ \A n \in Nat : f[n] = IF n = 0 THEN first ELSE step[<<f[n - 1], n - 1>>]

LEMMA Defined ==
  ASSUME NEW S, NEW first \in S, NEW step \in [S \X Nat -> S]
  PROVE  \E f : Follows(f, S, first, step)
<1>1. PICK f : Iterates(f, S, first, step)
  BY Recursion
<1>2. ASSUME NEW n \in Nat
      PROVE  f[n] = IF n = 0 THEN first ELSE step[<<f[n - 1], n - 1>>]
  <2>1. CASE n = 0
    BY <1>1, <2>1 DEF Iterates
  <2>2. CASE n # 0
    <3>1. n - 1 \in Nat /\ (n - 1) + 1 = n
      BY <2>2
    <3> QED BY <1>1, <2>2, <3>1 DEF Iterates
  <2> QED BY <2>1, <2>2
<1>3. Follows(f, S, first, step)
  BY <1>1, <1>2 DEF Iterates, Follows
<1> QED BY <1>3
=============================================================================
