----------------------------- MODULE Iteration -----------------------------
(***************************************************************************)
(* Induction on numbers, and what a recursive function on 0 .. N is that   *)
(* takes one step after another: the loops over lines, path and queues.    *)
(* Both rest on the least element of a set of numbers (WFMin), not on the  *)
(* theorems with an operator as a parameter.                               *)
(***************************************************************************)
EXTENDS Integers, WellFoundedInduction, TLAPS

CONSTANT Step(_, _, _)   \* of what the loop runs on, its state, and the turn

LEMMA Least ==
  ASSUME NEW T \in SUBSET Nat, T # {}
  PROVE  \E m \in T : \A n \in T : m <= n
<1>. DEFINE R == OpToRel(<, Nat)
<1>1. IsWellFoundedOn(R, Nat)
  BY NatLessThanWellFounded
<1>2. \A m, n \in Nat : n < m => <<n, m>> \in R
  BY DEF OpToRel
<1>. HIDE DEF R
<1>3. PICK m \in T : \A n \in T : <<n, m>> \notin R
  BY <1>1, WFMin
<1>4. ASSUME NEW n \in T PROVE m <= n
  <2>1. m \in Nat /\ n \in Nat /\ <<n, m>> \notin R
    BY <1>3
  <2>2. ~(n < m)
    BY <1>2, <2>1
  <2>. QED  BY <2>1, <2>2
<1>. QED  BY <1>4

\* What holds of 0 and is passed on up to N holds of all numbers up to N: T is
\* the set of those it holds of.
LEMMA Induction ==
  ASSUME NEW N \in Nat, NEW T, 0 \in T, \A n \in 0 .. N - 1 : n \in T => n + 1 \in T
  PROVE  \A n \in 0 .. N : n \in T
<1>. DEFINE U == (0 .. N) \ T
<1>. SUFFICES ASSUME U # {} PROVE FALSE
  OBVIOUS
<1>1. U \in SUBSET Nat /\ \A n \in 0 .. N : n \in U <=> n \notin T
  OBVIOUS
<1>. HIDE DEF U
<1>2. PICK m \in U : \A n \in U : m <= n
  BY <1>1, Least
<1>3. m \in 0 .. N /\ m \notin T
  BY <1>1, <1>2 DEF U
<1>4. m - 1 \in 0 .. N - 1 /\ m - 1 \in T
  <2>1. m # 0 /\ m - 1 \in 0 .. N - 1 /\ ~(m <= m - 1) /\ m - 1 \in 0 .. N
    BY <1>3
  <2>. QED  BY <1>1, <1>2, <2>1
<1>. QED  BY <1>3, <1>4

-----------------------------------------------------------------------------

\* The states of a loop that runs on p: the first, and that after each turn.
IsLoop(f, p, first, N) ==
  f = [n \in 0 .. N |-> IF n = 0 THEN first ELSE Step(p, f[n - 1], n)]

\* There are such states: what a recursive definition stands for is a loop.
LEMMA LoopExists == ASSUME NEW p, NEW first, NEW N \in Nat PROVE \E f : IsLoop(f, p, first, N)
<1>. DEFINE T == {m \in Nat : \E f : IsLoop(f, p, first, m)}
<1>1. 0 \in T
  <2>1. IsLoop([n \in 0 .. 0 |-> first], p, first, 0)
    BY DEF IsLoop
  <2>. QED  BY <2>1
<1>2. ASSUME NEW m \in 0 .. N - 1, m \in T PROVE m + 1 \in T
  <2>1. PICK f : IsLoop(f, p, first, m)
    BY <1>2
  <2>2. \A n \in 0 .. m : f[n] = IF n = 0 THEN first ELSE Step(p, f[n - 1], n)
    BY <2>1 DEF IsLoop
  <2>3. /\ m \in Nat /\ m + 1 \in Nat /\ m + 1 # 0
        /\ \A n \in 0 .. m : n # m + 1 /\ (n = 0 \/ n - 1 \in 0 .. m)
        /\ \A n \in 0 .. m + 1 : n = m + 1 \/ n \in 0 .. m
    BY <1>2
  <2>. DEFINE g == [n \in 0 .. m + 1 |-> IF n = m + 1 THEN Step(p, f[m], m + 1) ELSE f[n]]
  <2>4. g[m + 1] = Step(p, f[m], m + 1) /\ \A n \in 0 .. m : g[n] = f[n]
    BY <2>3
  <2>5. g = [n \in 0 .. m + 1 |-> g[n]]
    OBVIOUS
  <2>. HIDE DEF g
  <2>6. ASSUME NEW n \in 0 .. m + 1 PROVE g[n] = IF n = 0 THEN first ELSE Step(p, g[n - 1], n)
    <3>1. CASE n = m + 1
      <4>1. n - 1 = m /\ m \in 0 .. m
        BY <2>3, <3>1
      <4>. QED  BY <2>3, <2>4, <3>1, <4>1
    <3>2. CASE n \in 0 .. m
      BY <2>2, <2>3, <2>4, <3>2
    <3>. QED  BY <2>3, <3>1, <3>2
  <2>7. IsLoop(g, p, first, m + 1)
    BY <2>5, <2>6 DEF IsLoop
  <2>. QED  BY <2>3, <2>7
<1>. HIDE DEF T
<1>3. N \in T
  BY <1>1, <1>2, Induction
<1>. QED  BY <1>3 DEF T

\* The first state is as given, and each other comes from the one before.
Unrolls(f, p, first, N) == f[0] = first /\ \A n \in 1 .. N : f[n] = Step(p, f[n - 1], n)

LEMMA LoopUnrolls ==
  ASSUME NEW p, NEW first, NEW N \in Nat, NEW f, IsLoop(f, p, first, N)
  PROVE  Unrolls(f, p, first, N)
<1>1. \A n \in 0 .. N : f[n] = IF n = 0 THEN first ELSE Step(p, f[n - 1], n)
  BY DEF IsLoop
<1>2. 0 \in 0 .. N /\ \A n \in 1 .. N : n \in 0 .. N /\ n # 0
  OBVIOUS
<1>. QED  BY <1>1, <1>2 DEF Unrolls
=============================================================================
