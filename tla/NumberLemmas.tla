----------------------------- MODULE NumberLemmas -----------------------------
(* What the proofs about several components need of natural numbers:          *)
(* induction, loops written as recursive functions, and division.             *)
EXTENDS Integers, WellFoundedInduction, TLAPS

-----------------------------------------------------------------------------
(* Induction.                                                                 *)

\* Induction, of a set: a set that could be instantiated for a predicate that the
\* provers cannot.
LEMMA SetInduction ==
    ASSUME NEW S, 0 \in S, \A n \in Nat : n \in S => n + 1 \in S
    PROVE  Nat \subseteq S
<1> DEFINE T == Nat \ S
           R == OpToRel(<, Nat)
<1>1. SUFFICES ASSUME T # {} PROVE FALSE
  OBVIOUS
<1>2. T \subseteq Nat
  OBVIOUS
<1>3. IsWellFoundedOn(R, Nat)
  BY NatLessThanWellFounded, Zenon
<1> HIDE DEF T, R
<1>4. PICK x \in T : \A y \in T : ~ (<<y, x>> \in R)
  BY <1>1, <1>2, <1>3, WFMin
<1>5. \A y \in Nat : y < x => y \notin T
  BY <1>2, <1>4, Zenon DEF R, OpToRel
<1>6. x # 0 /\ x \in Nat
  BY DEF T
<1>7. x - 1 \in Nat /\ x - 1 < x /\ (x - 1) + 1 = x
  BY <1>6
<1>8. x - 1 \in S
  BY <1>5, <1>7 DEF T
<1> QED
  BY <1>7, <1>8 DEF T

\* n steps on the values of S, and the values f they go through.
StepsOn(S, n) == [1 .. n -> [S -> S]]
Iterates(f, S, n, next, first) ==
    /\ f \in [0 .. n -> S]
    /\ f[0] = first
    /\ \A i \in 1 .. n : f[i] = next[i][f[i - 1]]

\* Steps taken one after the other from a first value give a function.
LEMMA Iteration ==
    ASSUME NEW S, NEW n \in Nat, NEW next \in StepsOn(S, n), NEW first \in S
    PROVE  \E f : Iterates(f, S, n, next, first)
<1> DEFINE Steps(f, k) == f[0] = first /\ \A i \in 1 .. k : f[i] = next[i][f[i - 1]]
           T == {k \in Nat : k <= n => \E f \in [0 .. k -> S] : Steps(f, k)}
<1> USE DEF StepsOn
<1>1. 0 \in T
  <2> DEFINE f == [i \in 0 .. 0 |-> first]
  <2>1. f \in [0 .. 0 -> S] /\ Steps(f, 0)
    OBVIOUS
  <2> QED
    BY <2>1
<1>2. ASSUME NEW k \in Nat, k \in T
      PROVE  k + 1 \in T
  <2>1. SUFFICES ASSUME k + 1 <= n
                 PROVE  \E f \in [0 .. k + 1 -> S] : Steps(f, k + 1)
    OBVIOUS
  <2>2. PICK f \in [0 .. k -> S] : Steps(f, k)
    BY <1>2, <2>1
  <2> DEFINE g == [i \in 0 .. k + 1 |-> IF i = k + 1 THEN next[k + 1][f[k]] ELSE f[i]]
  <2>3. f[k] \in S /\ next[k + 1] \in [S -> S]
    BY <2>1
  <2>4. g \in [0 .. k + 1 -> S]
    BY <2>3
  <2>5. \A i \in 0 .. k : g[i] = f[i]
    OBVIOUS
  <2>6. g[k + 1] = next[k + 1][g[k]]
    OBVIOUS
  <2>7. \A i \in 1 .. k : g[i] = next[i][g[i - 1]]
    <3> TAKE i \in 1 .. k
    <3>1. i \in 0 .. k /\ i - 1 \in 0 .. k
      OBVIOUS
    <3> QED
      BY <2>2, <2>5, <3>1
  <2>8. Steps(g, k + 1)
    <3> HIDE DEF g
    <3>1. \A i \in 1 .. k + 1 : i \in 1 .. k \/ (i = k + 1 /\ i - 1 = k)
      OBVIOUS
    <3>2. g[0] = first
      BY <2>2, <2>5
    <3> QED
      BY <2>6, <2>7, <3>1, <3>2
  <2> QED
    BY <2>4, <2>8
<1>3. n \in T
  <2> HIDE DEF T
  <2> QED
    BY <1>1, <1>2, SetInduction
<1> QED
  BY <1>3 DEF Iterates

\* The same step again and again.
Repeats(f, S, n, next, first) ==
    /\ f \in [0 .. n -> S]
    /\ f[0] = first
    /\ \A i \in 1 .. n : f[i] = next[f[i - 1]]

\* A loop that repeats one step on a set has a history, as a function of its rounds.
LEMMA Repetition ==
    ASSUME NEW S, NEW n \in Nat, NEW first \in S, NEW next \in [S -> S]
    PROVE  \E f : Repeats(f, S, n, next, first)
<1> DEFINE steps == [i \in 1 .. n |-> next]
<1>1. steps \in StepsOn(S, n)
  BY DEF StepsOn
<1>2. PICK f : Iterates(f, S, n, steps, first)
  <2> HIDE DEF steps
  <2> QED BY <1>1, Iteration
<1> QED BY <1>2 DEF Iterates, Repeats

\* What holds at first, and after a step if it held before, holds all along.
LEMMA LoopInvariant ==
    ASSUME NEW n \in Nat, NEW f, NEW S, f[0] \in S,
           \A i \in 1 .. n : f[i - 1] \in S => f[i] \in S
    PROVE  \A i \in 0 .. n : f[i] \in S
<1> DEFINE T == {k \in Nat : k <= n => f[k] \in S}
<1>1. 0 \in T
  OBVIOUS
<1>2. ASSUME NEW k \in Nat, k \in T
      PROVE  k + 1 \in T
  <2>1. CASE k + 1 <= n
    <3>1. k + 1 \in 1 .. n /\ (k + 1) - 1 = k
      BY <2>1
    <3> QED
      BY <1>2, <2>1, <3>1
  <2> QED
    BY <2>1
<1>3. Nat \subseteq T
  <2> HIDE DEF T
  <2> QED
    BY <1>1, <1>2, SetInduction
<1> QED
  BY <1>3
-----------------------------------------------------------------------------
(* Division.                                                                  *)

\* Multiples of d are at least d apart.
LEMMA Multiples ==
    ASSUME NEW d \in Nat, NEW p \in Nat, NEW q \in Nat, p > q
    PROVE  d * p \in Nat /\ d * q \in Nat /\ d * p >= d * q + d
<1>1. PICK k \in Nat : p = q + 1 + k BY SMT
<1>2. d * p = d * q + d + d * k /\ d * k \in Nat /\ d * q \in Nat BY <1>1, SMT
<1> QED BY <1>2, SMT

\* Division with remainder.
LEMMA Remainder ==
    ASSUME NEW n \in Nat, NEW d \in Nat \ {0}
    PROVE  /\ n \div d \in Nat
           /\ n % d \in 0 .. d - 1
           /\ n = d * (n \div d) + (n % d)
BY SMT

\* It is unique.
LEMMA RemainderUnique ==
    ASSUME NEW d \in Nat \ {0}, NEW q \in Nat, NEW r \in 0 .. d - 1
    PROVE  (d * q + r) % d = r
<1> DEFINE n == d * q + r
           p == n \div d
           m == n % d
<1>1. n \in Nat BY SMT
<1>2. p \in Nat /\ m \in 0 .. d - 1 /\ n = d * p + m BY <1>1, Remainder
<1>3. n = d * q + r OBVIOUS
<1> HIDE DEF n, p, m
<1>4. ~(p > q)
  <2>1. SUFFICES ASSUME p > q PROVE FALSE OBVIOUS
  <2>2. PICK k \in Nat : p = q + 1 + k BY <1>2, <2>1, SMT
  <2>3. d * p = d * q + d + d * k /\ d * k \in Nat /\ d * q \in Nat BY <2>2, SMT
  <2> QED BY <1>2, <1>3, <2>3, SMT
<1>5. ~(q > p)
  <2>1. SUFFICES ASSUME q > p PROVE FALSE OBVIOUS
  <2>2. PICK k \in Nat : q = p + 1 + k BY <1>2, <2>1, SMT
  <2>3. d * q = d * p + d + d * k /\ d * k \in Nat /\ d * p \in Nat BY <1>2, <2>2, SMT
  <2> QED BY <1>2, <1>3, <2>3, SMT
<1>6. p = q BY <1>2, <1>4, <1>5, SMT
<1>7. m = r
  <2>1. d * q \in Nat BY SMT
  <2> QED BY <1>2, <1>3, <1>6, <2>1, SMT
<1> QED BY <1>7 DEF m, n

\* A quotient and a remainder are those of the number they make.
LEMMA QuotientUnique ==
    ASSUME NEW d \in Nat \ {0}, NEW q \in Nat, NEW r \in 0 .. d - 1
    PROVE  (d * q + r) \div d = q /\ (d * q + r) % d = r
<1> DEFINE n == d * q + r
           p == n \div d
           m == n % d
<1>1. n \in Nat BY SMT
<1>2. p \in Nat /\ m \in 0 .. d - 1 /\ n = d * p + m BY <1>1, Remainder
<1>3. m = r BY RemainderUnique
<1>4. n = d * q + r OBVIOUS
<1> HIDE DEF n, p, m
<1>5. d * p = d * q /\ d * p \in Nat /\ d * q \in Nat BY <1>2, <1>3, <1>4, SMT
<1>6. ~(p > q) BY <1>2, <1>5, Multiples, SMT
<1>7. ~(q > p) BY <1>2, <1>5, Multiples, SMT
<1>8. p = q BY <1>2, <1>6, <1>7, SMT
<1> QED BY <1>3, <1>8 DEF n, p, m

\* Division keeps the order.
LEMMA QuotientGrows ==
    ASSUME NEW d \in Nat \ {0}, NEW n \in Nat, NEW m \in Nat, n <= m
    PROVE  n \div d <= m \div d
<1> DEFINE p == n \div d
           q == m \div d
<1>1. /\ p \in Nat /\ n % d \in 0 .. d - 1 /\ n = d * p + (n % d)
      /\ q \in Nat /\ m % d \in 0 .. d - 1 /\ m = d * q + (m % d)
  BY Remainder
<1> HIDE DEF p, q
<1>2. ~(p > q)
  <2>1. SUFFICES ASSUME p > q PROVE FALSE OBVIOUS
  <2>2. d * p \in Nat /\ d * q \in Nat /\ d * p >= d * q + d BY <1>1, <2>1, Multiples
  <2> QED BY <1>1, <2>2, SMT
<1> QED BY <1>1, <1>2, SMT DEF p, q

\* Numbers k multiples of d apart have quotients k apart at most.
LEMMA QuotientsNear ==
    ASSUME NEW d \in Nat \ {0}, NEW k \in Nat, NEW n \in Nat, NEW m \in Nat, m - n <= k * d
    PROVE  m \div d - n \div d <= k
<1> DEFINE p == n \div d
           q == m \div d
<1>1. /\ p \in Nat /\ n % d \in 0 .. d - 1 /\ n = d * p + (n % d)
      /\ q \in Nat /\ m % d \in 0 .. d - 1 /\ m = d * q + (m % d)
  BY Remainder
<1> HIDE DEF p, q
<1>2. ~(q > p + k)
  <2>1. SUFFICES ASSUME q > p + k PROVE FALSE OBVIOUS
  <2>2. d * q \in Nat /\ d * (p + k) \in Nat /\ d * q >= d * (p + k) + d
    BY <1>1, <2>1, Multiples
  <2>3. d * (p + k) = d * p + k * d /\ d * p \in Nat /\ k * d \in Nat BY <1>1, SMT
  <2> QED BY <1>1, <2>2, <2>3, SMT
<1> QED BY <1>1, <1>2, SMT DEF p, q

\* Numbers whose quotients are less than k apart are less than k multiples of d
\* apart.
LEMMA NumbersNear ==
    ASSUME NEW d \in Nat \ {0}, NEW k \in Nat, NEW n \in Nat, NEW m \in Nat,
           m \div d - n \div d < k
    PROVE  m - n < k * d
<1> DEFINE p == n \div d
           q == m \div d
<1>1. /\ p \in Nat /\ n % d \in 0 .. d - 1 /\ n = d * p + (n % d)
      /\ q \in Nat /\ m % d \in 0 .. d - 1 /\ m = d * q + (m % d)
      /\ q - p < k
  BY Remainder
<1> HIDE DEF p, q
<1>2. d * (p + k) = d * p + k * d /\ d * p \in Nat /\ k * d \in Nat /\ d * q \in Nat
  BY <1>1, SMT
<1>3. d * (p + k) >= d * q + d
  <2>1. p + k \in Nat /\ p + k > q BY <1>1
  <2> QED BY <1>1, <2>1, Multiples
<1> QED BY <1>1, <1>2, <1>3, SMT

\* Larger factors, larger product.
LEMMA ProductGrows ==
    ASSUME NEW a \in Nat, NEW p \in Nat, NEW q \in Nat, p <= q
    PROVE  a * p \in Nat /\ a * q \in Nat /\ a * p <= a * q
<1>1. PICK k \in Nat : q = p + k BY SMT
<1>2. a * q = a * p + a * k /\ a * p \in Nat /\ a * k \in Nat BY <1>1, SMT
<1> QED BY <1>2, SMT

\* Bounds of a quotient and of a remainder.
LEMMA QuotientBounds ==
    ASSUME NEW n \in Nat, NEW d \in Nat \ {0}
    PROVE  /\ n \div d \in Nat /\ d * (n \div d) <= n /\ n \div d <= n
           /\ n % d \in Nat /\ n % d <= n /\ n % d < d
           /\ n < d => n % d = n
           /\ \A q \in Nat : n <= d * q => n \div d <= q
<1> DEFINE p == n \div d
           m == n % d
<1>1. p \in Nat /\ m \in 0 .. d - 1 /\ n = d * p + m BY Remainder
<1> HIDE DEF p, m
<1>2. d * p \in Nat BY <1>1, SMT
<1>3. p <= d * p
  <2>1. p * 1 \in Nat /\ p * d \in Nat /\ p * 1 <= p * d BY <1>1, ProductGrows
  <2>2. p * 1 = p /\ p * d = d * p BY <1>1, SMT
  <2> QED BY <2>1, <2>2
<1>4. ASSUME n < d PROVE m = n
  <2>1. ~(p > 0)
    <3>1. SUFFICES ASSUME p > 0 PROVE FALSE OBVIOUS
    <3>2. d * 0 \in Nat /\ d * p >= d * 0 + d BY <1>1, <3>1, Multiples
    <3> QED BY <1>1, <1>2, <1>4, <3>2, SMT
  <2>2. d * p = 0 BY <1>1, <2>1, SMT
  <2> QED BY <1>1, <2>2
<1>5. ASSUME NEW q \in Nat, n <= d * q PROVE p <= q
  <2>1. SUFFICES ASSUME p > q PROVE FALSE BY <1>1
  <2>2. d * q \in Nat /\ d * p >= d * q + d BY <1>1, <2>1, Multiples
  <2> QED BY <1>1, <1>2, <1>5, <2>2
<1> QED BY <1>1, <1>2, <1>3, <1>4, <1>5, SMT DEF p, m

-----------------------------------------------------------------------------
(* The least and the greatest.                                                *)

\* Natural numbers have a least.
LEMMA Least ==
    ASSUME NEW T, T \subseteq Nat, T # {}
    PROVE  \E x \in T : \A y \in T : x <= y
<1> DEFINE R == OpToRel(<, Nat)
<1>1. IsWellFoundedOn(R, Nat)
  BY NatLessThanWellFounded, Zenon
<1> HIDE DEF R
<1>2. PICK x \in T : \A y \in T : ~ (<<y, x>> \in R)
  BY <1>1, WFMin
<1>3. \A y \in T : ~ (y < x)
  BY <1>2, Zenon DEF R, OpToRel
<1>4. \A y \in T : x <= y
  BY <1>3
<1> QED BY <1>4

\* Natural numbers that are bounded have a greatest.
LEMMA Greatest ==
    ASSUME NEW n \in Nat, NEW T, T \subseteq 0 .. n, T # {}
    PROVE  \E x \in T : \A y \in T : y <= x
<1> DEFINE U == {k \in 0 .. n : n - k \in T}
<1>1. U \subseteq Nat
  OBVIOUS
<1>2. \A y \in T : n - y \in 0 .. n /\ n - (n - y) = y /\ n - y \in U
  OBVIOUS
<1>3. U # {}
  BY <1>2
<1> HIDE DEF U
<1>4. PICK k \in U : \A l \in U : k <= l
  BY <1>1, <1>3, Least
<1>5. n - k \in T /\ k \in 0 .. n
  BY DEF U
<1>6. \A y \in T : y <= n - k
  BY <1>2, <1>4, <1>5
<1> QED BY <1>5, <1>6
=============================================================================
