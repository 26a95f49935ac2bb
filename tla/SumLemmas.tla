------------------------------ MODULE SumLemmas ------------------------------
(* What the proofs need of the sums over finite sets that the community       *)
(* modules define.                                                            *)
EXTENDS NumberLemmas, Functions, FiniteSets, FiniteSetTheorems

\* The size of a set without one of its elements, and of the empty set.
LEMMA OneLess ==
    ASSUME NEW S, IsFiniteSet(S), NEW x \in S, NEW n \in Nat
    PROVE  /\ Cardinality(S) = n + 1 => Cardinality(S \ {x}) = n
           /\ Cardinality(S) <= n + 1 => Cardinality(S \ {x}) <= n
<1>1. Cardinality(S \ {x}) = Cardinality(S) - 1 /\ Cardinality(S) \in Nat
  BY FS_RemoveElement, FS_CardinalityType
<1> QED BY <1>1

\* The empty set is finite and has no elements.
LEMMA NoElements == IsFiniteSet({}) /\ Cardinality({}) = 0
BY FS_EmptySet

\* Induction over the subsets of a finite set.
LEMMA SubsetInduction ==
    ASSUME NEW S, IsFiniteSet(S), NEW T, {} \in T,
           \A s \in SUBSET S : \A x \in S \ s : s \in T => s \cup {x} \in T
    PROVE  S \in T
<1> DEFINE U == {n \in Nat : \A s \in SUBSET S : Cardinality(s) = n => s \in T}
<1>1. 0 \in U
  <2>1. \A s \in SUBSET S : Cardinality(s) = 0 => s = {}
    BY FS_Subset, FS_EmptySet
  <2> QED BY <2>1
<1>2. ASSUME NEW n \in Nat, n \in U
      PROVE  n + 1 \in U
  <2>1. SUFFICES ASSUME NEW s \in SUBSET S, Cardinality(s) = n + 1
                 PROVE  s \in T
    OBVIOUS
  <2>2. IsFiniteSet(s)
    BY FS_Subset
  <2>3. s # {}
    BY <2>1, NoElements
  <2>4. PICK x \in s : TRUE
    BY <2>3
  <2>5. Cardinality(s \ {x}) = n
    BY <2>1, <2>2, <2>4, OneLess
  <2>6. s \ {x} \in T
    BY <1>2, <2>5
  <2>7. (s \ {x}) \cup {x} = s
    BY <2>4
  <2>8. s \ {x} \in SUBSET S /\ x \in S \ (s \ {x})
    BY <2>4
  <2> QED BY <2>6, <2>7, <2>8
<1>3. Nat \subseteq U
  <2> HIDE DEF U
  <2> QED BY <1>1, <1>2, SetInduction
<1>4. Cardinality(S) \in Nat
  BY FS_CardinalityType
<1> QED BY <1>3, <1>4

\* The function that a sum is the last value of.
SumsOver(f, S, g) ==
    g = [s \in SUBSET S |-> IF s = {} THEN 0
                            ELSE LET x == CHOOSE x \in s : TRUE IN f[x] + g[s \ {x}]]

\* There is one.
LEMMA SumsExist ==
    ASSUME NEW f, NEW S, IsFiniteSet(S)
    PROVE  \E g : SumsOver(f, S, g)
<1> DEFINE Small(n) == {s \in SUBSET S : Cardinality(s) <= n}
           Sums(g, n) == g = [s \in Small(n) |->
                                 IF s = {} THEN 0
                                 ELSE LET x == CHOOSE x \in s : TRUE IN f[x] + g[s \ {x}]]
           U == {n \in Nat : \E g : Sums(g, n)}
<1>0. \A s \in SUBSET S : IsFiniteSet(s) /\ Cardinality(s) \in Nat
  BY FS_Subset, FS_CardinalityType
<1>1. 0 \in U
  <2> DEFINE g == [s \in Small(0) |-> 0]
  <2>1. \A s \in Small(0) : s = {}
    <3> TAKE s \in Small(0)
    <3>1. IsFiniteSet(s) /\ Cardinality(s) = 0
      BY <1>0
    <3> QED BY <3>1, FS_EmptySet
  <2>2. Sums(g, 0)
    BY <2>1
  <2> QED BY <2>2
<1>2. ASSUME NEW n \in Nat, n \in U
      PROVE  n + 1 \in U
  <2>1. PICK g : Sums(g, n)
    BY <1>2
  <2> DEFINE Value(s, x) == f[x] + g[s \ {x}]
             h == [s \in Small(n + 1) |->
                      IF s = {} THEN 0 ELSE Value(s, CHOOSE x \in s : TRUE)]
  <2>2. \A s \in Small(n) : s \in Small(n + 1) /\ h[s] = g[s]
    <3> TAKE s \in Small(n)
    <3>1. s \in Small(n + 1)
      BY <1>0
    <3>2. g[s] = IF s = {} THEN 0 ELSE Value(s, CHOOSE x \in s : TRUE)
      BY <2>1
    <3> QED BY <3>1, <3>2
  <2>3. \A s \in Small(n + 1) : s # {} => s \ {CHOOSE x \in s : TRUE} \in Small(n)
    <3> TAKE s \in Small(n + 1)
    <3>1. SUFFICES ASSUME s # {} PROVE s \ {CHOOSE x \in s : TRUE} \in Small(n)
      OBVIOUS
    <3> DEFINE x == CHOOSE x \in s : TRUE
    <3>2. x \in s
      BY <3>1
    <3> HIDE DEF x
    <3>3. IsFiniteSet(s) /\ Cardinality(s) \in Nat /\ Cardinality(s) <= n + 1
      BY <1>0
    <3>4. Cardinality(s \ {x}) <= n
      BY <1>2, <3>2, <3>3, OneLess
    <3> QED BY <3>4 DEF x
  <2>4. \A s \in Small(n + 1) : s # {} =>
           h[s] = f[CHOOSE x \in s : TRUE] + h[s \ {CHOOSE x \in s : TRUE}]
    BY <2>2, <2>3
  <2>5. h = [s \in Small(n + 1) |->
                IF s = {} THEN 0
                ELSE LET x == CHOOSE x \in s : TRUE IN f[x] + h[s \ {x}]]
    BY <2>4
  <2>6. Sums(h, n + 1)
    BY <2>5
  <2> HIDE DEF h, Sums
  <2> QED BY <2>6
<1>3. Nat \subseteq U
  <2> HIDE DEF U
  <2> QED BY <1>1, <1>2, SetInduction
<1>4. Cardinality(S) \in Nat
  BY FS_CardinalityType
<1>5. PICK g : Sums(g, Cardinality(S))
  BY <1>3, <1>4
<1>6. Small(Cardinality(S)) = SUBSET S
  BY FS_Subset
<1> HIDE DEF Small
<1>7. SumsOver(f, S, g)
  BY <1>5, <1>6 DEF SumsOver
<1> QED BY <1>7

\* A sum, as the library defines it.
LEMMA SumIs ==
    ASSUME NEW f, NEW S, IsFiniteSet(S)
    PROVE  \E g : SumsOver(f, S, g) /\ SumFunctionOnSet(f, S) = g[S]
<1> DEFINE iter[s \in SUBSET S] ==
              IF s = {} THEN 0 ELSE LET x == CHOOSE x \in s : TRUE IN f[x] + iter[s \ {x}]
<1>1. PICK g : SumsOver(f, S, g)
  BY SumsExist
<1>2. SumsOver(f, S, iter)
  BY <1>1, Zenon DEF SumsOver, iter
<1>3. SumFunctionOnSet(f, S) = iter[S]
  BY Zenon DEF SumFunctionOnSet, FoldFunctionOnSet, MapThenFoldSet
<1> HIDE DEF iter
<1> QED BY <1>2, <1>3

\* It is the same, of whatever larger set it is taken for a part.
LEMMA SumsUnique ==
    ASSUME NEW f, NEW S, NEW g, SumsOver(f, S, g), NEW T, NEW h, SumsOver(f, T, h),
           NEW r, IsFiniteSet(r), r \subseteq S, r \subseteq T
    PROVE  g[r] = h[r]
<1> DEFINE U == {n \in Nat : \A s \in SUBSET r : Cardinality(s) = n => g[s] = h[s]}
<1>0. \A s \in SUBSET r : IsFiniteSet(s) /\ Cardinality(s) \in Nat
  BY FS_Subset, FS_CardinalityType
<1>1. 0 \in U
  <2>1. \A s \in SUBSET r : Cardinality(s) = 0 => s = {}
    BY <1>0, FS_EmptySet
  <2>2. g[{}] = 0 /\ h[{}] = 0
    <3>1. {} \in SUBSET S /\ {} \in SUBSET T
      OBVIOUS
    <3> QED BY <3>1 DEF SumsOver
  <2> QED BY <2>1, <2>2
<1>2. ASSUME NEW n \in Nat, n \in U
      PROVE  n + 1 \in U
  <2>1. SUFFICES ASSUME NEW s \in SUBSET r, Cardinality(s) = n + 1
                 PROVE  g[s] = h[s]
    OBVIOUS
  <2>2. IsFiniteSet(s) /\ s # {}
    BY <1>0, <2>1, FS_EmptySet
  <2> DEFINE x == CHOOSE x \in s : TRUE
  <2>3. x \in s
    BY <2>2
  <2>4. s \in SUBSET S /\ s \in SUBSET T
    OBVIOUS
  <2>5. g[s] = f[x] + g[s \ {x}] /\ h[s] = f[x] + h[s \ {x}]
    BY <2>2, <2>4 DEF SumsOver
  <2> HIDE DEF x
  <2>6. Cardinality(s \ {x}) = n
    BY <2>1, <2>2, <2>3, OneLess
  <2>7. g[s \ {x}] = h[s \ {x}]
    BY <1>2, <2>6
  <2> QED BY <2>5, <2>7
<1>3. Nat \subseteq U
  <2> HIDE DEF U
  <2> QED BY <1>1, <1>2, SetInduction
<1> QED BY <1>0, <1>3

\* The sum of nothing is 0; any other is that of some element and the rest.
LEMMA SumFirst ==
    ASSUME NEW f, NEW S, IsFiniteSet(S)
    PROVE  /\ S = {} => SumFunctionOnSet(f, S) = 0
           /\ S # {} => LET x == CHOOSE x \in S : TRUE IN
                        SumFunctionOnSet(f, S) = f[x] + SumFunctionOnSet(f, S \ {x})
<1>1. PICK g : SumsOver(f, S, g) /\ SumFunctionOnSet(f, S) = g[S]
  BY SumIs
<1>2. S \in SUBSET S
  OBVIOUS
<1>3. ASSUME S # {}
      PROVE  LET x == CHOOSE x \in S : TRUE IN
             SumFunctionOnSet(f, S) = f[x] + SumFunctionOnSet(f, S \ {x})
  <2> DEFINE x == CHOOSE x \in S : TRUE
             r == S \ {x}
  <2>1. g[S] = f[x] + g[r]
    BY <1>1, <1>2, <1>3 DEF SumsOver
  <2>2. IsFiniteSet(r)
    BY FS_RemoveElement
  <2> HIDE DEF r
  <2>3. PICK h : SumsOver(f, r, h) /\ SumFunctionOnSet(f, r) = h[r]
    BY <2>2, SumIs
  <2>4. r \subseteq S
    BY DEF r
  <2>5. g[r] = h[r]
    BY <1>1, <2>2, <2>3, <2>4, SumsUnique
  <2> HIDE DEF x
  <2> QED BY <1>1, <2>1, <2>3, <2>5 DEF r, x
<1>4. ASSUME S = {}
      PROVE  SumFunctionOnSet(f, S) = 0
  BY <1>1, <1>2, <1>4 DEF SumsOver
<1> QED BY <1>3, <1>4

\* The sum over no elements is 0.
LEMMA SumNothing == ASSUME NEW f PROVE SumFunctionOnSet(f, {}) = 0
BY SumFirst, NoElements

\* A sum of integers is an integer.
LEMMA SumInt ==
    ASSUME NEW f, NEW S, IsFiniteSet(S), \A x \in S : f[x] \in Int
    PROVE  SumFunctionOnSet(f, S) \in Int
<1> DEFINE U == {n \in Nat : \A s \in SUBSET S :
                    Cardinality(s) = n => SumFunctionOnSet(f, s) \in Int}
<1>0. \A s \in SUBSET S : IsFiniteSet(s) /\ Cardinality(s) \in Nat
  BY FS_Subset, FS_CardinalityType
<1>1. 0 \in U
  <2>1. \A s \in SUBSET S : Cardinality(s) = 0 => s = {}
    BY <1>0, FS_EmptySet
  <2>2. SumFunctionOnSet(f, {}) = 0
    BY SumNothing
  <2> QED BY <2>1, <2>2
<1>2. ASSUME NEW n \in Nat, n \in U
      PROVE  n + 1 \in U
  <2>1. SUFFICES ASSUME NEW s \in SUBSET S, Cardinality(s) = n + 1
                 PROVE  SumFunctionOnSet(f, s) \in Int
    OBVIOUS
  <2>2. IsFiniteSet(s) /\ s # {}
    BY <1>0, <2>1, FS_EmptySet
  <2> DEFINE c == CHOOSE x \in s : TRUE
  <2>3. c \in s
    BY <2>2
  <2>4. SumFunctionOnSet(f, s) = f[c] + SumFunctionOnSet(f, s \ {c})
    BY <2>2, SumFirst
  <2> HIDE DEF c
  <2>5. Cardinality(s \ {c}) = n
    BY <2>1, <2>2, <2>3, OneLess
  <2>6. SumFunctionOnSet(f, s \ {c}) \in Int /\ f[c] \in Int
    BY <1>2, <2>3, <2>5
  <2> QED BY <2>4, <2>6
<1>3. Nat \subseteq U
  <2> HIDE DEF U
  <2> QED BY <1>1, <1>2, SetInduction
<1> QED BY <1>0, <1>3

\* Any element may be the first.
LEMMA SumStep ==
    ASSUME NEW f, NEW S, IsFiniteSet(S), \A x \in S : f[x] \in Int
    PROVE  \A x \in S : SumFunctionOnSet(f, S) = f[x] + SumFunctionOnSet(f, S \ {x})
<1> DEFINE Sum(s) == SumFunctionOnSet(f, s)
           Good(s) == \A x \in s : Sum(s) = f[x] + Sum(s \ {x})
           U == {n \in Nat : \A s \in SUBSET S : Cardinality(s) = n => Good(s)}
<1>0. \A s \in SUBSET S : IsFiniteSet(s) /\ Cardinality(s) \in Nat /\ Sum(s) \in Int
  BY FS_Subset, FS_CardinalityType, SumInt
<1>1. 0 \in U
  <2>1. \A s \in SUBSET S : Cardinality(s) = 0 => s = {}
    BY <1>0, FS_EmptySet
  <2> HIDE DEF Sum
  <2> QED BY <2>1
<1>2. ASSUME NEW n \in Nat, n \in U
      PROVE  n + 1 \in U
  <2>1. SUFFICES ASSUME NEW s \in SUBSET S, Cardinality(s) = n + 1, NEW x \in s
                 PROVE  Sum(s) = f[x] + Sum(s \ {x})
    OBVIOUS
  <2>2. IsFiniteSet(s) /\ s # {}
    BY <1>0, <2>1, FS_EmptySet
  <2> DEFINE c == CHOOSE y \in s : TRUE
  <2>3. c \in s
    BY <2>2
  <2>4. Sum(s) = f[c] + Sum(s \ {c})
    BY <2>2, SumFirst
  <2> HIDE DEF c, Sum
  <2>5. \A y \in s : Cardinality(s \ {y}) = n
    BY <2>1, <2>2, OneLess
  <2>6. \A y \in s : Good(s \ {y})
    BY <1>2, <2>5
  <2>7. CASE x = c
    BY <2>4, <2>7
  <2>8. CASE x # c
    <3> DEFINE r == (s \ {c}) \ {x}
    <3>1. Sum(s \ {c}) = f[x] + Sum(r)
      BY <2>3, <2>6, <2>8
    <3>2. Sum(s \ {x}) = f[c] + Sum((s \ {x}) \ {c})
      BY <2>3, <2>6, <2>8
    <3>3. (s \ {x}) \ {c} = r /\ r \in SUBSET S
      OBVIOUS
    <3> HIDE DEF r
    <3>4. Sum(r) \in Int /\ f[x] \in Int /\ f[c] \in Int
      BY <1>0, <2>3, <3>3
    <3> HIDE DEF Good
    <3>5. Sum((s \ {x}) \ {c}) = Sum(r)
      BY <3>3
    <3> QED BY <2>4, <3>1, <3>2, <3>4, <3>5
  <2> QED BY <2>7, <2>8
<1>3. Nat \subseteq U
  <2> HIDE DEF U
  <2> QED BY <1>1, <1>2, SetInduction
<1>4. Good(S)
  BY <1>0, <1>3
<1> QED BY <1>4

\* The sum with one more element.
LEMMA SumMore ==
    ASSUME NEW f, NEW S, IsFiniteSet(S), NEW x, x \notin S,
           \A y \in S \cup {x} : f[y] \in Int
    PROVE  /\ SumFunctionOnSet(f, S \cup {x}) = f[x] + SumFunctionOnSet(f, S)
           /\ SumFunctionOnSet(f, S) \in Int
<1>1. IsFiniteSet(S \cup {x}) /\ (S \cup {x}) \ {x} = S /\ x \in S \cup {x}
  BY FS_AddElement
<1> QED BY <1>1, SumStep, SumInt

\* The sum over two sets that have nothing in common.
LEMMA SumUnion ==
    ASSUME NEW f, NEW R, NEW S, IsFiniteSet(R), IsFiniteSet(S), R \cap S = {},
           \A x \in R \cup S : f[x] \in Int
    PROVE  SumFunctionOnSet(f, R \cup S) = SumFunctionOnSet(f, R) + SumFunctionOnSet(f, S)
<1> DEFINE Sum(s) == SumFunctionOnSet(f, s)
           T == {s \in SUBSET S : Sum(R \cup s) = Sum(R) + Sum(s)}
<1>1. {} \in T
  <2>1. Sum({}) = 0 /\ Sum(R) \in Int /\ R \cup {} = R
    BY SumNothing, SumInt
  <2> HIDE DEF Sum
  <2> QED BY <2>1
<1>2. ASSUME NEW s \in SUBSET S, NEW x \in S \ s, s \in T
      PROVE  s \cup {x} \in T
  <2>1. IsFiniteSet(s) /\ IsFiniteSet(R \cup s)
    BY FS_Subset, FS_Union
  <2>2. Sum(s \cup {x}) = f[x] + Sum(s) /\ Sum(s) \in Int
    BY <2>1, SumMore
  <2>3. Sum((R \cup s) \cup {x}) = f[x] + Sum(R \cup s)
    BY <2>1, SumMore
  <2>4. Sum(R) \in Int /\ f[x] \in Int
    BY SumInt
  <2>5. (R \cup s) \cup {x} = R \cup (s \cup {x})
    OBVIOUS
  <2>6. Sum(R \cup s) = Sum(R) + Sum(s)
    BY <1>2
  <2> HIDE DEF Sum, T
  <2>7. \A a, b, c \in Int : a + (b + c) = b + (a + c)
    OBVIOUS
  <2>8. f[x] + (Sum(R) + Sum(s)) = Sum(R) + (f[x] + Sum(s))
    BY <2>2, <2>4, <2>7
  <2>9. Sum(R \cup (s \cup {x})) = Sum(R) + Sum(s \cup {x})
    BY <2>2, <2>3, <2>5, <2>6, <2>8, Zenon
  <2> QED BY <2>9 DEF T
<1>3. S \in T
  <2> HIDE DEF T
  <2> QED BY <1>1, <1>2, SubsetInduction
<1> QED BY <1>3

\* Larger terms, larger sum.
LEMMA SumLess ==
    ASSUME NEW f, NEW g, NEW S, IsFiniteSet(S),
           \A x \in S : f[x] \in Int /\ g[x] \in Int /\ f[x] <= g[x]
    PROVE  SumFunctionOnSet(f, S) <= SumFunctionOnSet(g, S)
<1> DEFINE F(s) == SumFunctionOnSet(f, s)
           G(s) == SumFunctionOnSet(g, s)
           T == {s \in SUBSET S : F(s) <= G(s)}
<1>1. {} \in T
  <2>1. F({}) = 0 /\ G({}) = 0
    BY SumNothing
  <2> HIDE DEF F, G
  <2> QED BY <2>1
<1>2. ASSUME NEW s \in SUBSET S, NEW x \in S \ s, s \in T
      PROVE  s \cup {x} \in T
  <2>1. IsFiniteSet(s)
    BY FS_Subset
  <2>2. F(s \cup {x}) = f[x] + F(s) /\ F(s) \in Int
    BY <2>1, SumMore
  <2>3. G(s \cup {x}) = g[x] + G(s) /\ G(s) \in Int
    BY <2>1, SumMore
  <2> HIDE DEF F, G
  <2>4. F(s \cup {x}) <= G(s \cup {x})
    BY <1>2, <2>2, <2>3
  <2> QED BY <2>4
<1>3. S \in T
  <2> HIDE DEF T
  <2> QED BY <1>1, <1>2, SubsetInduction
<1> QED BY <1>3

\* Equal terms, equal sum.
LEMMA SumSame ==
    ASSUME NEW f, NEW g, NEW S, IsFiniteSet(S),
           \A x \in S : f[x] \in Int /\ g[x] = f[x]
    PROVE  SumFunctionOnSet(f, S) = SumFunctionOnSet(g, S)
<1>1. SumFunctionOnSet(f, S) <= SumFunctionOnSet(g, S)
  BY SumLess
<1>2. SumFunctionOnSet(g, S) <= SumFunctionOnSet(f, S)
  BY SumLess
<1>3. SumFunctionOnSet(f, S) \in Int /\ SumFunctionOnSet(g, S) \in Int
  BY SumInt
<1> QED BY <1>1, <1>2, <1>3

\* A sum of numbers is one.
LEMMA SumNat ==
    ASSUME NEW f, NEW S, IsFiniteSet(S), \A x \in S : f[x] \in Nat
    PROVE  SumFunctionOnSet(f, S) \in Nat
<1> DEFINE T == {s \in SUBSET S : SumFunctionOnSet(f, s) \in Nat}
<1>1. {} \in T
  BY SumNothing
<1>2. ASSUME NEW s \in SUBSET S, NEW x \in S \ s, s \in T
      PROVE  s \cup {x} \in T
  <2>1. SumFunctionOnSet(f, s \cup {x}) = f[x] + SumFunctionOnSet(f, s)
    BY FS_Subset, SumMore
  <2>2. f[x] \in Nat /\ SumFunctionOnSet(f, s) \in Nat
    BY <1>2
  <2> QED BY <2>1, <2>2
<1>3. S \in T
  <2> HIDE DEF T
  <2> QED BY <1>1, <1>2, SubsetInduction
<1> QED BY <1>3

\* The sum over a part is no larger.
LEMMA SumPart ==
    ASSUME NEW f, NEW R, NEW S, IsFiniteSet(S), R \subseteq S, \A x \in S : f[x] \in Nat
    PROVE  SumFunctionOnSet(f, R) <= SumFunctionOnSet(f, S)
<1>1. IsFiniteSet(R) /\ IsFiniteSet(S \ R) /\ R \cup (S \ R) = S
  BY FS_Subset
<1>2. SumFunctionOnSet(f, S) = SumFunctionOnSet(f, R) + SumFunctionOnSet(f, S \ R)
  BY <1>1, SumUnion
<1>3. SumFunctionOnSet(f, R) \in Nat /\ SumFunctionOnSet(f, S \ R) \in Nat
  BY <1>1, SumNat
<1> QED BY <1>2, <1>3

\* The sum of equal terms.
LEMMA SumEqual ==
    ASSUME NEW f, NEW S, IsFiniteSet(S), NEW c \in Int, \A x \in S : f[x] = c
    PROVE  SumFunctionOnSet(f, S) = c * Cardinality(S)
<1> DEFINE T == {s \in SUBSET S : SumFunctionOnSet(f, s) = c * Cardinality(s)}
<1>1. {} \in T
  <2>1. Cardinality({}) = 0 /\ c * 0 = 0 /\ SumFunctionOnSet(f, {}) = 0
    BY SumNothing, NoElements
  <2> QED BY <2>1
<1>2. ASSUME NEW s \in SUBSET S, NEW x \in S \ s, s \in T
      PROVE  s \cup {x} \in T
  <2>1. IsFiniteSet(s) /\ \A y \in s \cup {x} : f[y] \in Int
    BY FS_Subset
  <2>2. SumFunctionOnSet(f, s \cup {x}) = c + c * Cardinality(s)
    BY <1>2, <2>1, SumMore
  <2>3. Cardinality(s \cup {x}) = Cardinality(s) + 1 /\ Cardinality(s) \in Nat
    BY <2>1, FS_AddElement, FS_CardinalityType
  <2>4. \A n \in Nat : c + c * n = c * (n + 1)
    BY SMT
  <2> QED BY <2>2, <2>3, <2>4
<1>3. S \in T
  <2> HIDE DEF T
  <2> QED BY <1>1, <1>2, SubsetInduction
<1> QED BY <1>3

\* The sum of multiples.
LEMMA SumTimes ==
    ASSUME NEW f, NEW g, NEW S, IsFiniteSet(S), NEW c \in Int,
           \A x \in S : f[x] \in Int /\ g[x] = c * f[x]
    PROVE  SumFunctionOnSet(g, S) = c * SumFunctionOnSet(f, S)
<1> DEFINE F(s) == SumFunctionOnSet(f, s)
           G(s) == SumFunctionOnSet(g, s)
           T == {s \in SUBSET S : G(s) = c * F(s)}
<1>1. {} \in T
  <2>1. F({}) = 0 /\ G({}) = 0 /\ c * 0 = 0
    BY SumNothing
  <2> HIDE DEF F, G
  <2> QED BY <2>1
<1>0. \A a, b \in Int : c * a \in Int /\ c * (a + b) = c * a + c * b
  BY SMT
<1>2. ASSUME NEW s \in SUBSET S, NEW x \in S \ s, s \in T
      PROVE  s \cup {x} \in T
  <2>1. IsFiniteSet(s) /\ \A y \in S : g[y] \in Int
    BY <1>0, FS_Subset
  <2>2. F(s \cup {x}) = f[x] + F(s) /\ F(s) \in Int
    BY <2>1, SumMore
  <2>3. G(s \cup {x}) = g[x] + G(s) /\ G(s) \in Int
    BY <2>1, SumMore
  <2> HIDE DEF F, G
  <2>4. G(s \cup {x}) = c * F(s \cup {x})
    BY <1>0, <1>2, <2>2, <2>3
  <2> QED BY <2>4
<1>3. S \in T
  <2> HIDE DEF T
  <2> QED BY <1>1, <1>2, SubsetInduction
<1> QED BY <1>3
==============================================================================
