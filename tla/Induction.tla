----------------------------- MODULE Induction -----------------------------
(***************************************************************************)
(* Induction over the naturals without an operator for a parameter: a      *)
(* least counterexample, and the sequence of values a recursion runs       *)
(* through.                                                                *)
(***************************************************************************)
EXTENDS Integers, WellFoundedInduction, NaturalsInduction, TLAPS

\* Among numbers there is a least one.
LEMMA LeastNat ==
    ASSUME NEW T \in SUBSET Nat, T # {}
    PROVE  \E n \in T : \A m \in T : n <= m
<1> DEFINE Less == {p \in Nat \X Nat : p[1] < p[2]}
<1>1. IsWellFoundedOn(Less, Nat)
  BY NatLessThanWellFounded DEF OpToRel
<1> HIDE DEF Less
<1>2. PICK x \in T : \A y \in T : ~(<<y, x>> \in Less)
  BY <1>1, WFMin
<1>3. \A y \in T : ~(y < x)
  BY <1>2 DEF Less
<1> QED BY <1>3

\* A set of numbers up to n that has 0, and the next number with each, has them all.
LEMMA UpTo ==
    ASSUME NEW n \in Nat, NEW T, 0 \in T, \A k \in 1 .. n : k - 1 \in T => k \in T
    PROVE  0 .. n \subseteq T
<1> DEFINE Missing == {k \in 0 .. n : k \notin T}
<1>1. SUFFICES ASSUME Missing # {} PROVE FALSE
  OBVIOUS
<1>2. PICK k \in Missing : \A m \in Missing : k <= m
  <2>1. Missing \in SUBSET Nat
    OBVIOUS
  <2> HIDE DEF Missing
  <2> QED BY <1>1, <2>1, LeastNat
<1>3. k \in 1 .. n /\ k - 1 \in 0 .. n /\ k - 1 \notin Missing
  BY <1>2
<1> QED BY <1>2, <1>3

\* f takes the values of the recursion that begins with start and makes the k-th value
\* of the one before it by step[k].
Runs(f, n, S, start, step) ==
    f \in [0 .. n -> S] /\ f[0] = start /\ \A k \in 1 .. n : f[k] = step[k][f[k - 1]]

\* Such a recursion has a value at each number up to n.
LEMMA Recursion ==
    ASSUME NEW n \in Nat, NEW S, NEW start \in S, NEW step \in [1 .. n -> [S -> S]]
    PROVE  \E f : Runs(f, n, S, start, step)
<1> DEFINE T == {m \in 0 .. n : \E f : Runs(f, m, S, start, step)}
<1>1. 0 \in T
  <2> DEFINE f == [k \in 0 .. 0 |-> start]
  <2>1. f \in [0 .. 0 -> S] /\ f[0] = start
    OBVIOUS
  <2>2. Runs(f, 0, S, start, step)
    <3> HIDE DEF f
    <3> QED BY <2>1 DEF Runs
  <2> HIDE DEF f
  <2> QED BY <2>2
<1>2. ASSUME NEW m \in 1 .. n, m - 1 \in T PROVE m \in T
  <2>1. PICK f : Runs(f, m - 1, S, start, step)
    BY <1>2
  <2>2. m \in Nat /\ m - 1 \in 0 .. m - 1 /\ \A k \in 0 .. m : k = m \/ k \in 0 .. m - 1
    BY <1>2
  <2> DEFINE x == step[m][f[m - 1]]
             g == [k \in 0 .. m |-> IF k = m THEN x ELSE f[k]]
  <2>3. /\ f \in [0 .. m - 1 -> S] /\ f[0] = start
        /\ \A k \in 1 .. m - 1 : f[k] = step[k][f[k - 1]]
        /\ f[m - 1] \in S /\ step[m] \in [S -> S]
    BY <1>2, <2>1, <2>2 DEF Runs
  <2>4. x \in S
    BY <2>3
  <2> HIDE DEF x
  <2>5. g \in [0 .. m -> S] /\ g[m] = x /\ \A k \in 0 .. m - 1 : g[k] = f[k]
    <3>1. ASSUME NEW k \in 0 .. m PROVE (IF k = m THEN x ELSE f[k]) \in S
      BY <2>2, <2>3, <2>4
    <3>2. m \in 0 .. m /\ \A k \in 0 .. m - 1 : k \in 0 .. m /\ k # m
      BY <2>2
    <3> QED BY <3>1, <3>2
  <2> HIDE DEF g
  <2>6. ASSUME NEW k \in 1 .. m PROVE g[k] = step[k][g[k - 1]]
    <3>1. k - 1 \in 0 .. m - 1 /\ g[k - 1] = f[k - 1]
      <4>1. k - 1 \in 0 .. m - 1
        BY <2>2, <2>6
      <4> QED BY <4>1, <2>5
    <3>2. CASE k = m
      BY <2>5, <3>1, <3>2 DEF x
    <3>3. CASE k # m
      <4>1. k \in 1 .. m - 1 /\ k \in 0 .. m - 1
        BY <2>2, <2>6, <3>3
      <4> QED BY <2>3, <2>5, <3>1, <4>1
    <3> QED BY <3>2, <3>3
  <2>7. g[0] = start
    <3>1. 0 \in 0 .. m - 1
      BY <1>2
    <3> QED BY <2>3, <2>5, <3>1
  <2>8. Runs(g, m, S, start, step)
    BY <2>5, <2>6, <2>7 DEF Runs
  <2> QED BY <1>2, <2>2, <2>8
<1>3. n \in T
  <2> HIDE DEF T
  <2>1. 0 .. n \subseteq T
    BY <1>1, <1>2, UpTo
  <2> QED BY <2>1
<1> QED BY <1>3
=============================================================================
