-------------------------- MODULE IntervalTheorems --------------------------
(***************************************************************************)
(* Facts about intervals of integers that the library has no theorem for.  *)
(***************************************************************************)
EXTENDS Integers, TLAPS, FiniteSetTheorems, WellFoundedInduction

\* Every set of numbers from 1 to n that is not empty has a least element:
\* strict inclusion of the intervals 1 .. x is well founded.
LEMMA LeastElement ==
    ASSUME NEW n \in Nat, NEW T \in SUBSET (1 .. n), T # {}
    PROVE  \E x \in T : \A y \in T : x <= y
<1> DEFINE S == 1 .. n
           R == StrictSubsetOrdering(S)
           F == {1 .. x : x \in T}
<1>1. IsFiniteSet(S)
  BY FS_Interval
<1>2. IsWellFoundedOn(R, SUBSET S)
  <2> HIDE DEF S
  <2> QED BY <1>1, FS_FiniteSubsetsOfFinite, FS_StrictSubsetOrderingWellFounded, Zenon
<1>3. F \subseteq SUBSET S /\ F # {}
  <2>1. \A x \in T : 1 .. x \in SUBSET S OBVIOUS
  <2>2. F # {} OBVIOUS
  <2> HIDE DEF S
  <2> QED BY <2>1, <2>2
<1>4. \A x, y \in T : y < x => <<1 .. y, 1 .. x>> \in R
  <2> SUFFICES ASSUME NEW x \in T, NEW y \in T, y < x
               PROVE  <<1 .. y, 1 .. x>> \in R
    OBVIOUS
  <2>1. 1 .. y \subseteq 1 .. x /\ x \in 1 .. x /\ x \notin 1 .. y OBVIOUS
  <2>2. 1 .. y \in SUBSET S /\ 1 .. x \in SUBSET S OBVIOUS
  <2> QED BY <2>1, <2>2 DEF StrictSubsetOrdering
<1>5. \E X \in F : \A Y \in F : ~ (<<Y, X>> \in R)
  <2> HIDE DEF F, R
  <2> QED BY <1>2, <1>3, WFMin, Zenon
<1>6. \E x \in T : \A y \in T : ~ (<<1 .. y, 1 .. x>> \in R)
  <2> HIDE DEF R
  <2> QED BY <1>5
<1>7. \A x, y \in T : x <= y \/ y < x OBVIOUS
<1> HIDE DEF R, S, F
<1> QED BY <1>4, <1>6, <1>7

\* Induction from 0 to n.
LEMMA BoundedInduction ==
    ASSUME NEW n \in Nat, NEW T, 0 \in T, \A i \in 1 .. n : i - 1 \in T => i \in T
    PROVE  0 .. n \subseteq T
<1> SUFFICES ASSUME NEW m \in 0 .. n, m \notin T PROVE FALSE
  OBVIOUS
<1> DEFINE F == {i \in 1 .. n : i \notin T}
<1>1. m \in F
  OBVIOUS
<1>2. PICK x \in F : \A y \in F : x <= y
  <2>1. F \in SUBSET (1 .. n) /\ F # {}
    BY <1>1
  <2> HIDE DEF F
  <2> QED BY <2>1, LeastElement
<1>3. x - 1 \in 0 .. n /\ x - 1 \notin F
  BY <1>2
<1>4. x - 1 \in T
  BY <1>3
<1> QED BY <1>2, <1>4

\* A function of 0 .. n is given by its first value and a step.
Iterates(f, n, start, step) == f[0] = start /\ \A i \in 1 .. n : f[i] = step[i][f[i - 1]]

LEMMA BoundedRecursion ==
    ASSUME NEW n \in Nat, NEW S, NEW start \in S, NEW step \in [1 .. n -> [S -> S]]
    PROVE  \E f \in [0 .. n -> S] : Iterates(f, n, start, step)
<1> USE DEF Iterates
<1> DEFINE P(m, f) == f[0] = start /\ \A i \in 1 .. m : f[i] = step[i][f[i - 1]]
           T == {m \in 0 .. n : \E f \in [0 .. m -> S] : P(m, f)}
<1>1. 0 \in T
  <2> DEFINE f == [i \in 0 .. 0 |-> start]
  <2>1. f \in [0 .. 0 -> S] /\ P(0, f)
    OBVIOUS
  <2> HIDE DEF f
  <2> QED BY <2>1
<1>2. ASSUME NEW m \in 1 .. n, m - 1 \in T PROVE m \in T
  <2>1. PICK f \in [0 .. m - 1 -> S] : P(m - 1, f)
    BY <1>2
  <2> DEFINE g == [i \in 0 .. m |-> IF i = m THEN step[m][f[m - 1]] ELSE f[i]]
  <2>2. step[m][f[m - 1]] \in S
    OBVIOUS
  <2>3. g \in [0 .. m -> S]
    BY <2>2
  <2>4. g[m] = step[m][f[m - 1]] /\ \A i \in 0 .. m - 1 : g[i] = f[i]
    OBVIOUS
  <2>5. ASSUME NEW i \in 1 .. m PROVE g[i] = step[i][g[i - 1]]
    <3>1. i - 1 \in 0 .. m - 1
      OBVIOUS
    <3> HIDE DEF g
    <3>2. CASE i = m
      BY <2>4, <3>1, <3>2
    <3>3. CASE i \in 1 .. m - 1
      BY <2>1, <2>4, <3>1, <3>3
    <3> QED BY <3>2, <3>3
  <2>6. P(m, g)
    <3>1. g[0] = start
      BY <2>1, <2>4
    <3> HIDE DEF g
    <3> QED BY <2>5, <3>1
  <2> HIDE DEF g, P
  <2> QED BY <2>3, <2>6
<1>3. 0 .. n \subseteq T
  <2> HIDE DEF T
  <2> QED BY <1>1, <1>2, BoundedInduction
<1>4. n \in T
  <2> HIDE DEF T
  <2> QED BY <1>3
<1> QED BY <1>4

\* The remainder of a number that lies up to one divisor away from it.
LEMMA RemainderNear ==
    ASSUME NEW n \in Nat \ {0}, NEW m \in 0 .. n - 1
    PROVE  m % n = m /\ (m + n) % n = m /\ (m - n) % n = m
  OBVIOUS
=============================================================================
