-------------------------- MODULE Portfolio_proofs --------------------------
(***************************************************************************)
(* Proofs about Portfolio, for every day of any legs, any prices, any caps *)
(* and any limits of the risk engine: that the walk's decisions are those  *)
(* of an account that knows only what has happened by then, and that the   *)
(* reports agree with the books.                                           *)
(***************************************************************************)
EXTENDS Portfolio, FiniteSetTheorems, WellFoundedInduction, TLAPS

-----------------------------------------------------------------------------
(* The least of some naturals.                                             *)

IsMin(x, S) == x \in S /\ \A y \in S : x <= y

LEMMA LeastNatural ==
  ASSUME NEW T, T \subseteq Nat, T # {}
  PROVE  \E x \in T : IsMin(x, T)
<1>1. PICK x \in T : \A y \in T : <<y, x>> \notin OpToRel(<, Nat)
  BY NatLessThanWellFounded, WFMin
<1>2. ASSUME NEW y \in T PROVE x <= y
  <2>1. ~(y < x)
    BY <1>1 DEF OpToRel
  <2> QED BY <2>1
<1> QED BY <1>2 DEF IsMin

-----------------------------------------------------------------------------
(* Sums over finite sets: the fold of the library takes the elements in an *)
(* order of its own, and that order does not matter.                       *)

Sum(f, S) == SumFunctionOnSet(f, S)

Pick(S)       == CHOOSE x \in S : TRUE
Plus(f, g, S) == IF S = {} THEN 0 ELSE f[Pick(S)] + g[S \ {Pick(S)}]
Sums(f, S, g) == g = [T \in SUBSET S |-> Plus(f, g, T)]

(* f has integers on the finite set S.                                     *)
Summable(f, S) == IsFiniteSet(S) /\ \A x \in S : f[x] \in Int

LEMMA SumIs ==
  ASSUME NEW f, NEW S
  PROVE  Sum(f, S) = (CHOOSE g : Sums(f, S, g))[S]
BY DEF Sum, SumFunctionOnSet, FoldFunctionOnSet, MapThenFoldSet, Sums, Plus, Pick

(* A set without one of its elements is smaller.                           *)
LEMMA OneLess ==
  ASSUME NEW S, IsFiniteSet(S), NEW x \in S
  PROVE  /\ IsFiniteSet(S \ {x}) /\ Cardinality(S) \in Nat /\ Cardinality(S \ {x}) \in Nat
         /\ Cardinality(S \ {x}) = Cardinality(S) - 1
<1>1. IsFiniteSet(S \ {x}) /\ Cardinality(S \ {x}) = Cardinality(S) - 1
  BY FS_RemoveElement
<1> QED BY <1>1, FS_CardinalityType

LEMMA SummableIn ==
  ASSUME NEW f, NEW S, Summable(f, S), NEW T \in SUBSET S
  PROVE  Summable(f, T)
<1>1. IsFiniteSet(T)
  BY FS_Subset DEF Summable
<1> QED BY <1>1 DEF Summable

LEMMA PickIn ==
  ASSUME NEW S, S # {}
  PROVE  Pick(S) \in S
BY DEF Pick

(* A property of finite sets that fails somewhere fails for a smallest one.*)
LEMMA Smallest ==
  ASSUME NEW B, \A S \in B : IsFiniteSet(S), B # {}
  PROVE  \E S \in B : \A T \in B : Cardinality(S) <= Cardinality(T)
<1> DEFINE K == {Cardinality(S) : S \in B}
<1>1. K \subseteq Nat /\ K # {}
  BY FS_CardinalityType
<1>2. PICK n \in K : IsMin(n, K)
  <2> HIDE DEF K
  <2> QED BY <1>1, LeastNatural
<1>3. PICK S \in B : Cardinality(S) = n
  OBVIOUS
<1> QED BY <1>2, <1>3 DEF IsMin

(* The function that the fold is defined by exists, level by level.        *)
SumsTo(f, S, g, n) == \A T \in SUBSET S :
                        Cardinality(T) <= n => g[T] \in Int /\ g[T] = Plus(f, g, T)

LEMMA SumsToExist ==
  ASSUME NEW f, NEW S, Summable(f, S), NEW n \in Nat
  PROVE  \E g : SumsTo(f, S, g, n)
<1> DEFINE K == {k \in Nat : ~\E g : SumsTo(f, S, g, k)}
<1>1. SUFFICES ASSUME K # {} PROVE FALSE
  OBVIOUS
<1>2. PICK m \in K : IsMin(m, K)
  <2>1. K \subseteq Nat
    OBVIOUS
  <2> HIDE DEF K
  <2> QED BY <1>1, <2>1, LeastNatural
<1>a. \A T \in SUBSET S : IsFiniteSet(T) /\ Cardinality(T) \in Nat
  BY FS_Subset, FS_CardinalityType DEF Summable
<1>3. CASE m = 0
  <2> DEFINE h == [T \in SUBSET S |-> 0]
  <2>1. ASSUME NEW T \in SUBSET S, Cardinality(T) <= 0
        PROVE  h[T] \in Int /\ h[T] = Plus(f, h, T)
    <3>1. T = {}
      BY <1>a, <2>1, FS_EmptySet
    <3> QED BY <3>1 DEF Plus
  <2>2. SumsTo(f, S, h, 0)
    BY <2>1 DEF SumsTo
  <2> QED BY <1>3, <2>2
<1>4. CASE m # 0
  <2>1. m - 1 \in Nat /\ m - 1 \notin K
    BY <1>2, <1>4 DEF IsMin
  <2>2. PICK g : SumsTo(f, S, g, m - 1)
    BY <2>1
  <2> DEFINE h == [T \in SUBSET S |-> Plus(f, g, T)]
  <2>3. ASSUME NEW T \in SUBSET S, Cardinality(T) <= m - 1
        PROVE  h[T] = g[T] /\ g[T] \in Int
    BY <2>2, <2>3 DEF SumsTo
  <2>4. ASSUME NEW T \in SUBSET S, Cardinality(T) <= m
        PROVE  h[T] \in Int /\ h[T] = Plus(f, h, T)
    <3>1. CASE T = {}
      BY <3>1 DEF Plus
    <3>2. CASE T # {}
      <4>1. PICK x \in S, U \in SUBSET S : x = Pick(T) /\ U = T \ {x} /\ x \in T
        <5>1. Pick(T) \in T
          BY <3>2, PickIn
        <5> QED BY <5>1
      <4>2. Cardinality(U) <= m - 1
        <5>1. Cardinality(U) = Cardinality(T) - 1 /\ Cardinality(T) \in Nat
          BY <1>a, <4>1, OneLess
        <5> QED BY <2>4, <5>1
      <4>3. h[U] = g[U] /\ g[U] \in Int
        BY <2>3, <4>2
      <4>4. h[T] = f[x] + g[U]
        BY <3>2, <4>1 DEF Plus
      <4>5. f[x] \in Int
        BY DEF Summable
      <4> HIDE DEF h
      <4>6. Plus(f, h, T) = f[x] + h[U]
        BY <3>2, <4>1 DEF Plus
      <4> QED BY <4>3, <4>4, <4>5, <4>6
    <3> QED BY <3>1, <3>2
  <2>5. SumsTo(f, S, h, m)
    <3> HIDE DEF h
    <3> QED BY <2>4 DEF SumsTo
  <2> QED BY <2>5
<1> QED BY <1>3, <1>4

LEMMA SumsExist ==
  ASSUME NEW f, NEW S, Summable(f, S)
  PROVE  \E g : Sums(f, S, g) /\ \A T \in SUBSET S : g[T] \in Int
<1>1. PICK n \in Nat : n = Cardinality(S)
  BY FS_CardinalityType DEF Summable
<1>2. PICK g : SumsTo(f, S, g, n)
  BY <1>1, SumsToExist
<1> DEFINE h == [T \in SUBSET S |-> g[T]]
<1>3. ASSUME NEW T \in SUBSET S PROVE h[T] \in Int /\ h[T] = Plus(f, h, T)
  <2>1. Cardinality(T) <= n
    BY <1>1, FS_Subset DEF Summable
  <2>2. g[T] \in Int /\ h[T] = Plus(f, g, T)
    BY <1>2, <2>1 DEF SumsTo
  <2>3. T # {} => T \ {Pick(T)} \in SUBSET S
    OBVIOUS
  <2> QED BY <2>2, <2>3 DEF Plus
<1>4. h = [T \in SUBSET S |-> h[T]]
  OBVIOUS
<1> HIDE DEF h
<1>5. Sums(f, S, h)
  BY <1>3, <1>4 DEF Sums
<1> QED BY <1>3, <1>5

(* There is one such function.                                             *)
Recurs(f, S, g) == \A T \in SUBSET S : g[T] = Plus(f, g, T)

LEMMA SumsAgree ==
  ASSUME NEW f, NEW S, IsFiniteSet(S), NEW g, NEW h, Recurs(f, S, g), Recurs(f, S, h)
  PROVE  g[S] = h[S]
<1> DEFINE B == {T \in SUBSET S : g[T] # h[T]}
<1>1. SUFFICES ASSUME B # {} PROVE FALSE
  OBVIOUS
<1>2. \A T \in B : IsFiniteSet(T)
  BY FS_Subset
<1>3. PICK T \in B : \A U \in B : Cardinality(T) <= Cardinality(U)
  <2> HIDE DEF B
  <2> QED BY <1>1, <1>2, Smallest
<1>a. g[T] = Plus(f, g, T) /\ h[T] = Plus(f, h, T)
  BY DEF Recurs
<1>4. T # {}
  BY <1>a DEF Plus
<1>5. PICK U : U = T \ {Pick(T)}
  OBVIOUS
<1>6. Cardinality(U) = Cardinality(T) - 1 /\ Cardinality(T) \in Nat /\ U \in SUBSET S
  BY <1>2, <1>4, <1>5, PickIn, OneLess
<1>7. U \notin B
  BY <1>3, <1>6
<1>8. g[U] = h[U]
  BY <1>6, <1>7
<1> QED BY <1>4, <1>5, <1>8, <1>a DEF Plus

(* A sum is the element picked and the sum of the others.                  *)
LEMMA SumPicks ==
  ASSUME NEW f, NEW S, Summable(f, S)
  PROVE  /\ Sum(f, S) \in Int
         /\ S = {} => Sum(f, S) = 0
         /\ S # {} => Sum(f, S) = f[Pick(S)] + Sum(f, S \ {Pick(S)})
<1>1. PICK g : Sums(f, S, g) /\ \A T \in SUBSET S : g[T] \in Int
  BY SumsExist
<1>2. Recurs(f, S, g)
  BY <1>1 DEF Sums, Recurs
<1>3. ASSUME NEW T \in SUBSET S PROVE Sum(f, T) = g[T]
  <2>1. PICK c : c = CHOOSE w : Sums(f, T, w)
    OBVIOUS
  <2>2. Sums(f, T, c)
    BY <2>1, SumsExist, SummableIn
  <2>3. Recurs(f, T, c) /\ Recurs(f, T, g)
    BY <1>2, <2>2 DEF Sums, Recurs
  <2>4. IsFiniteSet(T)
    BY FS_Subset DEF Summable
  <2>5. g[T] = c[T]
    BY <2>3, <2>4, SumsAgree
  <2> QED BY <2>1, <2>5, SumIs
<1>4. Sum(f, S) = g[S] /\ Sum(f, S \ {Pick(S)}) = g[S \ {Pick(S)}]
  BY <1>3
<1>5. g[S] = Plus(f, g, S)
  BY <1>2 DEF Recurs
<1> QED BY <1>1, <1>4, <1>5 DEF Plus

LEMMA SumInt ==
  ASSUME NEW f, NEW S, Summable(f, S)
  PROVE  Sum(f, S) \in Int
BY SumPicks

LEMMA SumEmpty ==
  ASSUME NEW f
  PROVE  Sum(f, {}) = 0
<1>1. Summable(f, {})
  BY FS_EmptySet DEF Summable
<1> QED BY <1>1, SumPicks

(* ... and so for any of its elements.                                     *)
LEMMA SumWithout ==
  ASSUME NEW f, NEW S, Summable(f, S), NEW x \in S
  PROVE  Sum(f, S) = f[x] + Sum(f, S \ {x})
<1> DEFINE B == {T \in SUBSET S : \E y \in T : Sum(f, T) # f[y] + Sum(f, T \ {y})}
<1>1. SUFFICES ASSUME B # {} PROVE FALSE
  OBVIOUS
<1>2. \A T \in SUBSET S : IsFiniteSet(T) /\ Summable(f, T) /\ Sum(f, T) \in Int
  BY FS_Subset, SummableIn, SumInt DEF Summable
<1>3. PICK T \in B : \A U \in B : Cardinality(T) <= Cardinality(U)
  <2>1. \A T \in B : IsFiniteSet(T)
    BY <1>2
  <2> HIDE DEF B
  <2> QED BY <1>1, <2>1, Smallest
<1>4. PICK y \in T : Sum(f, T) # f[y] + Sum(f, T \ {y})
  OBVIOUS
<1>5. PICK p \in T : p = Pick(T) /\ Sum(f, T) = f[p] + Sum(f, T \ {p})
  BY <1>2, PickIn, SumPicks
<1>6. y # p
  BY <1>4, <1>5
<1>7. ASSUME NEW z \in T PROVE T \ {z} \notin B
  <2>1. Cardinality(T \ {z}) = Cardinality(T) - 1 /\ Cardinality(T) \in Nat
    BY <1>2, OneLess
  <2> HIDE DEF B
  <2> QED BY <1>3, <2>1
<1>8. Sum(f, T \ {p}) = f[y] + Sum(f, (T \ {p}) \ {y})
  BY <1>6, <1>7
<1>9. Sum(f, T \ {y}) = f[p] + Sum(f, (T \ {y}) \ {p})
  BY <1>6, <1>7
<1>10. Sum(f, (T \ {y}) \ {p}) = Sum(f, (T \ {p}) \ {y})
  <2>1. (T \ {y}) \ {p} = (T \ {p}) \ {y}
    OBVIOUS
  <2> QED BY <2>1, Zenon
<1>11. f[y] \in Int /\ f[p] \in Int /\ Sum(f, (T \ {p}) \ {y}) \in Int
  BY <1>2 DEF Summable
<1> HIDE DEF B
<1> QED BY <1>4, <1>5, <1>8, <1>9, <1>10, <1>11

(* What grows with each element by its value is the sum.                   *)
Grows(f, S, g) ==
  g[{}] = 0 /\ \A T \in SUBSET S : \A x \in T : g[T] = f[x] + g[T \ {x}]

LEMMA SumIsThe ==
  ASSUME NEW f, NEW S, Summable(f, S), NEW g, Grows(f, S, g)
  PROVE  g[S] = Sum(f, S)
<1>0. PICK h : h = [T \in SUBSET S |-> Sum(f, T)]
  OBVIOUS
<1>a. \A T \in SUBSET S : h[T] = Sum(f, T)
  BY <1>0
<1>1. ASSUME NEW T \in SUBSET S
      PROVE  g[T] = Plus(f, g, T) /\ h[T] = Plus(f, h, T)
  <2>1. CASE T = {}
    BY <1>a, <2>1, SumEmpty DEF Plus, Grows
  <2>2. CASE T # {}
    <3>1. PICK x \in T : x = Pick(T)
      BY <2>2, PickIn
    <3>2. h[T] = f[x] + h[T \ {x}]
      BY <1>a, SummableIn, SumWithout
    <3>3. g[T] = f[x] + g[T \ {x}]
      BY DEF Grows
    <3> QED BY <2>2, <3>1, <3>2, <3>3 DEF Plus
  <2> QED BY <2>1, <2>2
<1>2. IsFiniteSet(S) /\ h[S] = Sum(f, S)
  BY <1>a DEF Summable
<1>3. Recurs(f, S, g) /\ Recurs(f, S, h)
  BY <1>1 DEF Recurs
<1>4. g[S] = h[S]
  BY <1>2, <1>3, SumsAgree
<1> QED BY <1>2, <1>4

-----------------------------------------------------------------------------
(* Two sums.                                                               *)

LEMMA SumSame ==
  ASSUME NEW f, NEW h, NEW S, Summable(f, S), \A x \in S : h[x] = f[x]
  PROVE  Sum(h, S) = Sum(f, S)
<1> DEFINE g == [T \in SUBSET S |-> Sum(h, T)]
<1>1. Summable(h, S)
  BY DEF Summable
<1>2. ASSUME NEW T \in SUBSET S, NEW x \in T PROVE g[T] = f[x] + g[T \ {x}]
  BY <1>1, SumWithout, SummableIn
<1>3. g[{}] = 0 /\ g[S] = Sum(h, S)
  BY SumEmpty
<1> HIDE DEF g
<1> QED BY <1>2, <1>3, SumIsThe DEF Grows

LEMMA SumAdds ==
  ASSUME NEW f, NEW h, NEW e, NEW S, Summable(f, S), Summable(h, S),
         \A x \in S : e[x] = f[x] + h[x]
  PROVE  Sum(e, S) = Sum(f, S) + Sum(h, S)
<1> DEFINE g == [T \in SUBSET S |-> Sum(f, T) + Sum(h, T)]
<1>1. Summable(e, S)
  BY DEF Summable
<1>2. ASSUME NEW T \in SUBSET S, NEW x \in T PROVE g[T] = e[x] + g[T \ {x}]
  <2>1. Sum(f, T) = f[x] + Sum(f, T \ {x}) /\ Sum(h, T) = h[x] + Sum(h, T \ {x})
    BY SumWithout, SummableIn
  <2>2. /\ f[x] \in Int /\ h[x] \in Int /\ e[x] = f[x] + h[x]
        /\ Sum(f, T \ {x}) \in Int /\ Sum(h, T \ {x}) \in Int
    BY SumInt, SummableIn DEF Summable
  <2> QED BY <2>1, <2>2
<1>3. g[{}] = 0 /\ g[S] = Sum(f, S) + Sum(h, S)
  BY SumEmpty
<1> HIDE DEF g
<1> QED BY <1>1, <1>2, <1>3, SumIsThe DEF Grows

(* Two parts of a set.                                                     *)
LEMMA SumSplits ==
  ASSUME NEW f, NEW S, Summable(f, S), NEW A, NEW C, S = A \cup C, A \cap C = {}
  PROVE  Sum(f, S) = Sum(f, A) + Sum(f, C)
<1> DEFINE g == [T \in SUBSET S |-> Sum(f, T \cap A) + Sum(f, T \cap C)]
<1>1. ASSUME NEW T \in SUBSET S PROVE Summable(f, T \cap A) /\ Summable(f, T \cap C)
  BY SummableIn
<1>2. ASSUME NEW T \in SUBSET S, NEW x \in T PROVE g[T] = f[x] + g[T \ {x}]
  <2>1. /\ Sum(f, T \cap A) \in Int /\ Sum(f, T \cap C) \in Int /\ f[x] \in Int
        /\ Sum(f, (T \ {x}) \cap A) \in Int /\ Sum(f, (T \ {x}) \cap C) \in Int
    BY <1>1, SumInt DEF Summable
  <2>2. g[T] = Sum(f, T \cap A) + Sum(f, T \cap C)
        /\ g[T \ {x}] = Sum(f, (T \ {x}) \cap A) + Sum(f, (T \ {x}) \cap C)
    OBVIOUS
  <2> HIDE DEF g
  <2>3. CASE x \in A
    <3>1. /\ Sum(f, (T \ {x}) \cap A) = Sum(f, (T \cap A) \ {x})
          /\ Sum(f, (T \ {x}) \cap C) = Sum(f, T \cap C)
      <4>1. (T \ {x}) \cap A = (T \cap A) \ {x} /\ (T \ {x}) \cap C = T \cap C
        BY <2>3
      <4> QED BY <4>1, Zenon
    <3>2. Sum(f, T \cap A) = f[x] + Sum(f, (T \cap A) \ {x})
      <4>1. x \in T \cap A /\ Summable(f, T \cap A)
        BY <1>1, <2>3
      <4> QED BY <4>1, SumWithout
    <3> QED BY <2>1, <2>2, <3>1, <3>2
  <2>4. CASE x \in C
    <3>1. /\ Sum(f, (T \ {x}) \cap C) = Sum(f, (T \cap C) \ {x})
          /\ Sum(f, (T \ {x}) \cap A) = Sum(f, T \cap A)
      <4>1. (T \ {x}) \cap C = (T \cap C) \ {x} /\ (T \ {x}) \cap A = T \cap A
        BY <2>4
      <4> QED BY <4>1, Zenon
    <3>2. Sum(f, T \cap C) = f[x] + Sum(f, (T \cap C) \ {x})
      <4>1. x \in T \cap C /\ Summable(f, T \cap C)
        BY <1>1, <2>4
      <4> QED BY <4>1, SumWithout
    <3> QED BY <2>1, <2>2, <3>1, <3>2
  <2> QED BY <2>3, <2>4
<1>3. g[{}] = 0 /\ g[S] = Sum(f, A) + Sum(f, C)
  <2>1. {} \cap A = {} /\ {} \cap C = {} /\ S \cap A = A /\ S \cap C = C
    OBVIOUS
  <2> QED BY <2>1, SumEmpty
<1> HIDE DEF g
<1> QED BY <1>2, <1>3, SumIsThe DEF Grows


-----------------------------------------------------------------------------
(* Sets in order: one without repetition and in the order of a relation R  *)
(* that is total on it.                                                    *)

Orders(R, S) ==
  /\ \A x, y \in S : x # y => <<x, y>> \in R \/ <<y, x>> \in R
  /\ \A x, y, z \in S : <<x, y>> \in R /\ <<y, z>> \in R => <<x, z>> \in R
  /\ \A x \in S : <<x, x>> \notin R

UpTo(R, S, x) == {y \in S : y = x \/ <<y, x>> \in R}

InOrderOf(R, q) == \A j, k \in DOMAIN q : j < k => <<q[j], q[k]>> \in R

LEMMA RanksRise ==
  ASSUME NEW S, IsFiniteSet(S), NEW R, Orders(R, S), NEW x \in S, NEW y \in S,
         <<x, y>> \in R
  PROVE  Cardinality(UpTo(R, S, x)) < Cardinality(UpTo(R, S, y))
<1>1. PICK A, C : A = UpTo(R, S, x) /\ C = UpTo(R, S, y)
  OBVIOUS
<1>2. A \subseteq S /\ C \subseteq S /\ A \subseteq C
  BY <1>1 DEF UpTo, Orders
<1>3. y \in C /\ y \notin A
  <2>1. y # x /\ <<y, x>> \notin R
    BY DEF Orders
  <2> QED BY <1>1, <2>1 DEF UpTo
<1>4. IsFiniteSet(C) /\ IsFiniteSet(A)
  BY <1>2, FS_Subset
<1>5. Cardinality(A) <= Cardinality(C) /\ Cardinality(A) # Cardinality(C)
  BY <1>2, <1>3, <1>4, FS_Subset
<1> QED BY <1>1, <1>4, <1>5, FS_CardinalityType

LEMMA InOrderExists ==
  ASSUME NEW S, IsFiniteSet(S), NEW R, Orders(R, S)
  PROVE  \E q \in SetToSeqs(S) : InOrderOf(R, q)
<1> DEFINE n    == Cardinality(S)
           rank == [x \in S |-> Cardinality(UpTo(R, S, x))]
<1>1. n \in Nat
  BY FS_CardinalityType
<1>2. ASSUME NEW x \in S PROVE rank[x] \in 1 .. n
  <2>1. UpTo(R, S, x) \in SUBSET S /\ x \in UpTo(R, S, x)
    BY DEF UpTo
  <2>2. IsFiniteSet(UpTo(R, S, x)) /\ Cardinality(UpTo(R, S, x)) <= n
    BY <2>1, FS_Subset
  <2>3. Cardinality(UpTo(R, S, x)) # 0
    BY <2>1, <2>2, FS_EmptySet
  <2> QED BY <1>1, <2>2, <2>3, FS_CardinalityType
<1>3. ASSUME NEW x \in S, NEW y \in S, <<x, y>> \in R PROVE rank[x] < rank[y]
  BY <1>3, RanksRise
<1> HIDE DEF rank
<1>4. \A x, y \in S : rank[x] = rank[y] => x = y
  <2> TAKE x, y \in S
  <2>1. HAVE rank[x] = rank[y]
  <2>2. rank[x] \in Int
    BY <1>2
  <2>3. <<x, y>> \notin R /\ <<y, x>> \notin R
    BY <1>3, <2>1, <2>2
  <2> QED BY <2>3 DEF Orders
<1>5. rank \in Injection(S, 1 .. n)
  <2>1. rank \in [S -> 1 .. n]
    <3>1. rank = [x \in S |-> rank[x]]
      BY DEF rank
    <3> QED BY <1>2, <3>1
  <2> QED BY <1>4, <2>1 DEF Injection, IsInjective
<1>6. IsFiniteSet(1 .. n) /\ Cardinality(1 .. n) = n
  BY <1>1, FS_Interval
<1>7. rank \in Surjection(S, 1 .. n)
  BY <1>5, <1>6, FS_Injection
<1>8. \A i \in 1 .. n : \E x \in S : rank[x] = i
  BY <1>7 DEF Surjection
<1> DEFINE q == [i \in 1 .. n |-> CHOOSE x \in S : rank[x] = i]
<1>9. \A i \in 1 .. n : q[i] \in S /\ rank[q[i]] = i
  <2> TAKE i \in 1 .. n
  <2>1. q[i] = CHOOSE x \in S : rank[x] = i
    OBVIOUS
  <2> HIDE DEF q
  <2> QED BY <1>8, <2>1
<1>10. q \in SetToSeqs(S)
  <2>1. q = [i \in 1 .. n |-> q[i]]
    OBVIOUS
  <2> HIDE DEF q
  <2>2. q \in [1 .. n -> S] /\ \A i, j \in 1 .. n : i # j => q[i] # q[j]
    BY <1>9, <2>1
  <2> QED BY <2>2 DEF SetToSeqs
<1>11. InOrderOf(R, q)
  <2>1. DOMAIN q = 1 .. n
    OBVIOUS
  <2> HIDE DEF q
  <2>2. ASSUME NEW j \in 1 .. n, NEW k \in 1 .. n, j < k PROVE <<q[j], q[k]>> \in R
    <3>1. q[j] \in S /\ q[k] \in S /\ q[j] # q[k]
      BY <1>9, <2>2
    <3>2. <<q[k], q[j]>> \notin R
      BY <1>3, <1>9, <2>2
    <3> QED BY <3>1, <3>2 DEF Orders
  <2> QED BY <2>1, <2>2 DEF InOrderOf
<1> QED BY <1>10, <1>11

(* A sequence without repetition has every element of its set.             *)
LEMMA SeqOfAll ==
  ASSUME NEW S, IsFiniteSet(S), NEW q \in SetToSeqs(S)
  PROVE  /\ Cardinality(S) \in Nat /\ q \in [1 .. Cardinality(S) -> S]
         /\ q \in Seq(S) /\ Len(q) = Cardinality(S) /\ ToSet(q) = S
<1>1. PICK n \in Nat : n = Cardinality(S)
  BY FS_CardinalityType
<1>2. q \in [1 .. n -> S] /\ \A i, j \in 1 .. n : i # j => q[i] # q[j]
  BY <1>1 DEF SetToSeqs
<1>3. q \in Injection(1 .. n, S)
  BY <1>2 DEF Injection, IsInjective
<1>4. IsFiniteSet(1 .. n) /\ Cardinality(1 .. n) = n
  BY FS_Interval
<1>5. q \in Surjection(1 .. n, S)
  BY <1>1, <1>3, <1>4, FS_Injection
<1>6. ToSet(q) = S
  BY <1>2, <1>5 DEF ToSet, Surjection
<1> QED BY <1>1, <1>2, <1>6

-----------------------------------------------------------------------------
(* Trades, and what a set of them made: a list grows at its end, and what  *)
(* is said of earlier trades stays true of them.                           *)

Trade == [leg : Legs, day : Nat, tod : Nat, exitTod : Nat,
          notional : Nat \ {0}, pnl : Int]

PnlIn(t, S)      == SumFunction([i \in S |-> t[i].pnl])
NotionalIn(t, S) == SumFunction([i \in S |-> t[i].notional])

Pnls(t)      == [i \in DOMAIN t |-> t[i].pnl]
Notionals(t) == [i \in DOMAIN t |-> t[i].notional]

Extends(t, x, u) == t \in Seq(Trade) /\ x \in Trade /\ u = Append(t, x)

LEMMA TradesAre ==
  ASSUME NEW t \in Seq(Trade)
  PROVE  /\ DOMAIN t = 1 .. Len(t) /\ Len(t) \in Nat /\ IsFiniteSet(DOMAIN t)
         /\ \A i \in DOMAIN t : /\ t[i] \in Trade /\ t[i].leg \in Legs
                                /\ t[i].day \in Nat /\ t[i].tod \in Nat
                                /\ t[i].exitTod \in Nat /\ t[i].pnl \in Int
                                /\ t[i].notional \in Nat \ {0}
<1>1. DOMAIN t = 1 .. Len(t) /\ Len(t) \in Nat /\ \A i \in DOMAIN t : t[i] \in Trade
  OBVIOUS
<1>2. IsFiniteSet(DOMAIN t)
  BY <1>1, FS_Interval
<1> QED BY <1>1, <1>2 DEF Trade

Longer(t, x, u) ==
  /\ u \in Seq(Trade) /\ Len(u) = Len(t) + 1 /\ Len(t) \in Nat
  /\ DOMAIN u = (DOMAIN t) \cup {Len(u)} /\ Len(u) \notin DOMAIN t
  /\ DOMAIN t = 1 .. Len(t)
  /\ u[Len(u)] = x /\ \A i \in DOMAIN t : u[i] = t[i]

LEMMA ListGrows ==
  ASSUME NEW t, NEW x, NEW u, Extends(t, x, u)
  PROVE  Longer(t, x, u)
BY DEF Extends, Longer

LEMMA PnlIs ==
  ASSUME NEW t \in Seq(Trade), NEW S \in SUBSET DOMAIN t
  PROVE  /\ IsFiniteSet(S) /\ Summable(Pnls(t), S) /\ Summable(Notionals(t), S)
         /\ PnlIn(t, S) = Sum(Pnls(t), S) /\ PnlIn(t, S) \in Int
         /\ NotionalIn(t, S) = Sum(Notionals(t), S) /\ NotionalIn(t, S) \in Int
<1>1. IsFiniteSet(S)
  BY TradesAre, FS_Subset
<1>2. Summable(Pnls(t), S) /\ Summable(Notionals(t), S)
  BY <1>1, TradesAre DEF Summable, Pnls, Notionals
<1>3. PICK f : f = [i \in S |-> t[i].pnl]
  OBVIOUS
<1>7. PICK h : h = [i \in S |-> t[i].notional]
  OBVIOUS
<1>4. PnlIn(t, S) = Sum(f, S) /\ NotionalIn(t, S) = Sum(h, S)
  <2>1. DOMAIN f = S /\ DOMAIN h = S
    BY <1>3, <1>7
  <2> QED BY <1>3, <1>7, <2>1 DEF PnlIn, NotionalIn, SumFunction, Sum
<1>5. Sum(f, S) = Sum(Pnls(t), S)
  <2>1. \A i \in S : f[i] = Pnls(t)[i]
    BY <1>3 DEF Pnls
  <2> QED BY <1>2, <2>1, SumSame
<1>6. Sum(h, S) = Sum(Notionals(t), S)
  <2>1. \A i \in S : h[i] = Notionals(t)[i]
    BY <1>7 DEF Notionals
  <2> QED BY <1>2, <2>1, SumSame
<1> QED BY <1>1, <1>2, <1>4, <1>5, <1>6, SumInt

LEMMA PnlSplits ==
  ASSUME NEW t \in Seq(Trade), NEW A \in SUBSET DOMAIN t, NEW C \in SUBSET DOMAIN t,
         A \cap C = {}, NEW S, S = A \cup C
  PROVE  PnlIn(t, S) = PnlIn(t, A) + PnlIn(t, C)
<1>1. /\ Summable(Pnls(t), S) /\ PnlIn(t, S) = Sum(Pnls(t), S)
      /\ PnlIn(t, A) = Sum(Pnls(t), A) /\ PnlIn(t, C) = Sum(Pnls(t), C)
  BY PnlIs
<1> QED BY <1>1, SumSplits

LEMMA NotionalOneMore ==
  ASSUME NEW t \in Seq(Trade), NEW A \in SUBSET DOMAIN t, NEW i \in DOMAIN t, i \notin A
  PROVE  NotionalIn(t, A \cup {i}) = NotionalIn(t, A) + t[i].notional
<1>1. PICK S : S = A \cup {i}
  OBVIOUS
<1>2. /\ Summable(Notionals(t), S) /\ NotionalIn(t, S) = Sum(Notionals(t), S)
      /\ NotionalIn(t, A) = Sum(Notionals(t), A) /\ NotionalIn(t, A) \in Int
  BY <1>1, PnlIs
<1>3. Sum(Notionals(t), S) = Notionals(t)[i] + Sum(Notionals(t), S \ {i})
  BY <1>1, <1>2, SumWithout
<1>4. S \ {i} = A
  BY <1>1
<1>5. Sum(Notionals(t), S \ {i}) = Sum(Notionals(t), A)
  BY <1>4, Zenon
<1>6. Notionals(t)[i] = t[i].notional /\ t[i].notional \in Int
  BY TradesAre DEF Notionals
<1> QED BY <1>1, <1>2, <1>3, <1>5, <1>6

LEMMA PnlStays ==
  ASSUME NEW t, NEW x, NEW u, Extends(t, x, u), NEW S \in SUBSET DOMAIN t
  PROVE  PnlIn(u, S) = PnlIn(t, S) /\ NotionalIn(u, S) = NotionalIn(t, S)
<1>1. \A i \in S : u[i] = t[i]
  <2>1. Longer(t, x, u)
    BY ListGrows
  <2> QED BY <2>1 DEF Longer
<1>2. [i \in S |-> u[i].pnl] = [i \in S |-> t[i].pnl]
  BY <1>1
<1>3. [i \in S |-> u[i].notional] = [i \in S |-> t[i].notional]
  BY <1>1
<1>4. PnlIn(u, S) = PnlIn(t, S)
  BY <1>2, Zenon DEF PnlIn
<1>5. NotionalIn(u, S) = NotionalIn(t, S)
  BY <1>3, Zenon DEF NotionalIn
<1> QED BY <1>4, <1>5

LEMMA PnlNone == \A t : PnlIn(t, {}) = 0
<1> TAKE t
<1>1. PICK f : f = [i \in {} |-> t[i].pnl] /\ DOMAIN f = {}
  OBVIOUS
<1>2. PnlIn(t, {}) = Sum(f, {})
  BY <1>1 DEF PnlIn, SumFunction, Sum
<1> QED BY <1>2, SumEmpty

-----------------------------------------------------------------------------
(* The view of an account at the entry of trade i of a list t, as in       *)
(* HeldAt, MadeToday and EquityAt.                                         *)

HeldIn(t, i) ==
  {j \in DOMAIN t : /\ j < i /\ t[j].day = t[i].day /\ t[j].exitTod > t[i].tod}
EndedIn(t, i) ==
  {j \in DOMAIN t : /\ t[j].day = t[i].day /\ t[j].exitTod <= t[i].tod}
EarlierIn(t, i) == {j \in DOMAIN t : t[j].day < t[i].day}

MadeIn(t, i)   == PnlIn(t, EndedIn(t, i))
EquityIn(t, i) == Equity + PnlIn(t, EarlierIn(t, i)) + MadeIn(t, i)

MeansIn(t, i) ==
  /\ Cardinality(HeldIn(t, i)) < MaxConcurrent
  /\ 100 * NotionalIn(t, HeldIn(t, i) \cup {i}) <= EquityIn(t, i) * MaxGrossPct

BreakerIn(c, t, i) ==
  ~LossLimitHit(IF c THEN EquityIn(t, i) ELSE Equity, MadeIn(t, i))

(* A trade entered after all of a list, and over after its entry.          *)
Follows(t, x) ==
  /\ x.tod < x.exitTod
  /\ \A i \in DOMAIN t : /\ t[i].day <= x.day
                         /\ t[i].day = x.day => t[i].tod <= x.tod

(* The trades open, over today and over before, at the entry of x.         *)
OpenAt(t, x)   == {j \in DOMAIN t : t[j].day = x.day /\ t[j].exitTod > x.tod}
OverAt(t, x)   == {j \in DOMAIN t : t[j].day = x.day /\ t[j].exitTod <= x.tod}
BeforeAt(t, x) == {j \in DOMAIN t : t[j].day < x.day}

(* A later trade changes nothing in the view of an earlier one: it is not  *)
(* over by then.                                                           *)
LEMMA ViewStays ==
  ASSUME NEW t, NEW x, NEW u, Extends(t, x, u), Follows(t, x), NEW i \in DOMAIN t,
         NEW c
  PROVE  MeansIn(u, i) = MeansIn(t, i) /\ BreakerIn(c, u, i) = BreakerIn(c, t, i)
<1>0. Longer(t, x, u)
  BY ListGrows
<1>1. PICK n \in Nat : /\ n = Len(u) /\ u[n] = x /\ n = Len(t) + 1 /\ Len(t) \in Nat
                       /\ DOMAIN u = (DOMAIN t) \cup {n} /\ DOMAIN t = 1 .. Len(t)
  BY <1>0 DEF Longer
<1>2. u[i] = t[i] /\ \A j \in DOMAIN t : u[j] = t[j]
  BY <1>0 DEF Longer
<1>3. /\ i \in 1 .. Len(t) /\ t[i].day <= x.day /\ x.day \in Nat /\ t[i].day \in Nat
      /\ x.tod \in Nat /\ x.exitTod \in Nat /\ t[i].tod \in Nat /\ x.tod < x.exitTod
      /\ t[i].day = x.day => t[i].tod <= x.tod
  BY <1>1, TradesAre DEF Follows, Extends, Trade
<1>4. HeldIn(u, i) = HeldIn(t, i)
  BY <1>1, <1>2, <1>3 DEF HeldIn
<1>5. EndedIn(u, i) = EndedIn(t, i)
  BY <1>1, <1>2, <1>3 DEF EndedIn
<1>6. EarlierIn(u, i) = EarlierIn(t, i)
  BY <1>1, <1>2, <1>3 DEF EarlierIn
<1>7. MadeIn(u, i) = MadeIn(t, i)
  <2>1. EndedIn(t, i) \in SUBSET DOMAIN t
    BY DEF EndedIn
  <2>2. PnlIn(u, EndedIn(t, i)) = PnlIn(t, EndedIn(t, i))
    BY <2>1, PnlStays
  <2> QED BY <1>5, <2>2, Zenon DEF MadeIn
<1>8. EquityIn(u, i) = EquityIn(t, i)
  <2>1. EarlierIn(t, i) \in SUBSET DOMAIN t
    BY DEF EarlierIn
  <2>2. PnlIn(u, EarlierIn(t, i)) = PnlIn(t, EarlierIn(t, i))
    BY <2>1, PnlStays
  <2> QED BY <1>6, <1>7, <2>2, Zenon DEF EquityIn
<1>9. NotionalIn(u, HeldIn(u, i) \cup {i}) = NotionalIn(t, HeldIn(t, i) \cup {i})
  <2>1. HeldIn(t, i) \cup {i} \in SUBSET DOMAIN t
    BY DEF HeldIn
  <2>2. NotionalIn(u, HeldIn(t, i) \cup {i}) = NotionalIn(t, HeldIn(t, i) \cup {i})
    BY <2>1, PnlStays
  <2> QED BY <1>4, <2>2, Zenon
<1>10. MeansIn(u, i) = MeansIn(t, i)
  BY <1>4, <1>8, <1>9, Zenon DEF MeansIn
<1>11. BreakerIn(c, u, i) = BreakerIn(c, t, i)
  BY <1>7, <1>8, Zenon DEF BreakerIn
<1> QED BY <1>10, <1>11

ViewIs(t, x, u, n) ==
  /\ HeldIn(u, n) = OpenAt(t, x) /\ MadeIn(u, n) = PnlIn(t, OverAt(t, x))
  /\ EquityIn(u, n) = Equity + PnlIn(t, BeforeAt(t, x)) + PnlIn(t, OverAt(t, x))
  /\ NotionalIn(u, HeldIn(u, n) \cup {n}) = NotionalIn(t, OpenAt(t, x)) + x.notional

(* The view of the trade that is added is that of the list it is added to. *)
LEMMA ViewOfNew ==
  ASSUME NEW t, NEW x, NEW u, Extends(t, x, u), Follows(t, x), NEW n, n = Len(u)
  PROVE  ViewIs(t, x, u, n)
<1>1. /\ n \in Nat /\ u[n] = x /\ n = Len(t) + 1 /\ Len(t) \in Nat
      /\ DOMAIN u = (DOMAIN t) \cup {n} /\ DOMAIN t = 1 .. Len(t) /\ u \in Seq(Trade)
  <2>1. Longer(t, x, u)
    BY ListGrows
  <2> QED BY <2>1 DEF Longer
<1>2. \A j \in DOMAIN t : u[j] = t[j]
  <2>1. Longer(t, x, u)
    BY ListGrows
  <2> QED BY <2>1 DEF Longer
<1>3. x.day \in Nat /\ x.tod \in Nat /\ x.exitTod \in Nat /\ x.tod < x.exitTod
  BY DEF Follows, Extends, Trade
<1>4. HeldIn(u, n) = OpenAt(t, x)
  BY <1>1, <1>2, <1>3 DEF HeldIn, OpenAt
<1>5. EndedIn(u, n) = OverAt(t, x)
  BY <1>1, <1>2, <1>3 DEF EndedIn, OverAt
<1>6. EarlierIn(u, n) = BeforeAt(t, x)
  BY <1>1, <1>2, <1>3 DEF EarlierIn, BeforeAt
<1>7. /\ OpenAt(t, x) \in SUBSET DOMAIN t /\ OverAt(t, x) \in SUBSET DOMAIN t
      /\ BeforeAt(t, x) \in SUBSET DOMAIN t
  BY DEF OpenAt, OverAt, BeforeAt
<1>8. /\ PnlIn(u, OverAt(t, x)) = PnlIn(t, OverAt(t, x))
      /\ PnlIn(u, BeforeAt(t, x)) = PnlIn(t, BeforeAt(t, x))
      /\ NotionalIn(u, OpenAt(t, x)) = NotionalIn(t, OpenAt(t, x))
  BY <1>7, PnlStays
<1>9. MadeIn(u, n) = PnlIn(t, OverAt(t, x))
  BY <1>5, <1>8, Zenon DEF MadeIn
<1>10. EquityIn(u, n) = Equity + PnlIn(t, BeforeAt(t, x)) + PnlIn(t, OverAt(t, x))
  BY <1>6, <1>8, <1>9, Zenon DEF EquityIn
<1>11. NotionalIn(u, OpenAt(t, x) \cup {n}) = NotionalIn(u, OpenAt(t, x)) + u[n].notional
  <2>1. OpenAt(t, x) \in SUBSET DOMAIN u /\ n \in DOMAIN u /\ n \notin OpenAt(t, x)
    BY <1>1, <1>7
  <2> QED BY <1>1, <2>1, NotionalOneMore
<1>12. NotionalIn(u, HeldIn(u, n) \cup {n}) = NotionalIn(t, OpenAt(t, x)) + x.notional
  BY <1>1, <1>4, <1>8, <1>11, Zenon
<1> QED BY <1>4, <1>9, <1>10, <1>12 DEF ViewIs

-----------------------------------------------------------------------------
(* The invariant: the type; where the walk is among its trades; and the    *)
(* sums that it keeps.                                                     *)

TypeInv ==
  /\ compound \in BOOLEAN
  /\ day \in 0 .. MaxDay + 1 /\ now \in Tods \cup {0}
  /\ equity \in Int /\ live \in Int /\ realized \in Int
  /\ trades \in Seq(Trade)
  /\ open \subseteq DOMAIN trades /\ Cardinality(open) <= MaxConcurrent
  /\ legPnl \in [Legs -> Int]
  /\ pots \in 0 .. MaxPots

WalkInv ==
  /\ \A i \in DOMAIN trades :
       /\ trades[i].day <= day
       /\ trades[i].day = day => trades[i].tod <= now
  /\ \A i \in open : trades[i].day = day /\ trades[i].exitTod > now
  /\ \A i \in (DOMAIN trades) \ open :
       trades[i].day = day => trades[i].exitTod <= now

Today == {i \in (DOMAIN trades) \ open : trades[i].day = day}

SumInv ==
  /\ equity = Equity + PnlIn(trades, (DOMAIN trades) \ open)
  /\ realized = PnlIn(trades, Today)
  /\ live = IF compound THEN equity ELSE Equity

LEMMA Naturals ==
  /\ Equity \in Nat /\ MaxConcurrent \in Nat /\ MaxGrossPct \in Nat
  /\ CommissionMin \in Nat /\ CommissionPerShare \in Nat
  /\ MaxPots \in Nat /\ MaxDay \in Nat /\ IsFiniteSet(Legs)
  /\ RiskPct \in Nat /\ LossPct \in Nat /\ PositionPct \in Nat
  /\ VolumePct \in Nat /\ MinStopPct \in Nat
BY PortfolioAssumption, RiskAssumption

LEMMA Prices ==
  /\ Tods \subseteq Nat /\ Entries \subseteq Nat \ {0} /\ Volumes \subseteq Nat
  /\ StopPct \subseteq Int /\ Moves \subseteq Int
<1>1. 1 .. 100 \subseteq Int
  OBVIOUS
<1> QED BY <1>1, PortfolioAssumption

LEMMA MaxOfTwo ==
  ASSUME NEW a \in Int, NEW b \in Int
  PROVE  /\ Max({a, b}) \in {a, b} /\ Max({a, b}) >= a /\ Max({a, b}) >= b
         /\ Max({a, b}) \in Int
<1> DEFINE m == CHOOSE x \in {a, b} : \A y \in {a, b} : x >= y
<1>1. \E x \in {a, b} : \A y \in {a, b} : x >= y
  OBVIOUS
<1>2. m \in {a, b} /\ \A y \in {a, b} : m >= y
  <2> HIDE DEF m
  <2> QED BY <1>1 DEF m
<1>3. Max({a, b}) = m
  BY DEF Max
<1> HIDE DEF m
<1> QED BY <1>2, <1>3

LEMMA MinOfTwo ==
  ASSUME NEW a \in Int, NEW b \in Int
  PROVE  Min({a, b}) \in Int
<1> DEFINE m == CHOOSE x \in {a, b} : \A y \in {a, b} : x =< y
<1>1. \E x \in {a, b} : \A y \in {a, b} : x =< y
  OBVIOUS
<1>2. m \in {a, b}
  <2> HIDE DEF m
  <2> QED BY <1>1 DEF m
<1>3. Min({a, b}) = m
  BY DEF Min
<1> HIDE DEF m
<1> QED BY <1>2, <1>3

(* RiskRules.Plan: whole shares, and none once the limit is hit.           *)
LEMMA PlanIs ==
  ASSUME NEW side, NEW entry \in Nat \ {0}, NEW stop \in Int, NEW volume \in Nat,
         NEW capital \in Int, NEW made \in Int, NEW qty,
         qty = Plan(side, entry, stop, volume, capital, made)
  PROVE  qty \in Int /\ (qty > 0 => ~LossLimitHit(capital, made))
<1>1. PICK dist : dist = StopDistance(side, entry, stop)
  OBVIOUS
<1>2. dist \in Int
  BY <1>1 DEF StopDistance
<1>3. PICK sized : sized = SharesAtRisk(capital, dist)
  OBVIOUS
<1>4. PICK booked : booked = IF 100 * sized * entry > capital * PositionPct
                             THEN SharesInBook(capital, entry) ELSE sized
  OBVIOUS
<1>5. PICK tape : tape = SharesOfTape(volume)
  OBVIOUS
<1>6. qty = IF \/ LossLimitHit(capital, made)
               \/ dist <= 0
               \/ 100 * dist < MinStopPct * entry
            THEN 0
            ELSE IF tape > 0 THEN Min({booked, tape}) ELSE booked
  BY <1>1, <1>3, <1>4, <1>5 DEF Plan
<1>7. ASSUME ~(dist <= 0) PROVE sized \in Int /\ booked \in Int /\ tape \in Int
  <2>1. capital * RiskPct \in Int /\ capital * PositionPct \in Int /\ volume * VolumePct \in Int
    BY Naturals
  <2>2. 100 * dist \in Nat \ {0} /\ 100 * entry \in Nat \ {0}
    BY <1>2, <1>7
  <2>3. sized \in Int
    BY <1>3, <2>1, <2>2 DEF SharesAtRisk
  <2>4. SharesInBook(capital, entry) \in Int
    BY <2>1, <2>2 DEF SharesInBook
  <2>5. tape \in Int
    BY <1>5, <2>1 DEF SharesOfTape
  <2> QED BY <1>4, <2>3, <2>4, <2>5
<1>8. CASE qty = 0
  BY <1>8
<1>9. CASE qty # 0
  <2>1. /\ ~LossLimitHit(capital, made) /\ ~(dist <= 0)
        /\ qty = IF tape > 0 THEN Min({booked, tape}) ELSE booked
    BY <1>6, <1>9
  <2>2. booked \in Int /\ tape \in Int
    BY <1>7, <2>1
  <2>3. Min({booked, tape}) \in Int
    BY <2>2, MinOfTwo
  <2> QED BY <2>1, <2>2, <2>3
<1> QED BY <1>8, <1>9

-----------------------------------------------------------------------------
(* One turn of the walk.                                                   *)

LEMMA Initially == Init => TypeInv /\ WalkInv /\ SumInv
<1> SUFFICES ASSUME Init PROVE TypeInv /\ WalkInv /\ SumInv
  OBVIOUS
<1>1. /\ DOMAIN trades = {} /\ trades \in Seq(Trade) /\ open = {}
      /\ legPnl \in [Legs -> Int] /\ day = 0 /\ now = 0 /\ pots = 0
      /\ equity = Equity /\ live = Equity /\ realized = 0 /\ compound \in BOOLEAN
  BY DEF Init
<1>2. Cardinality(open) = 0
  BY <1>1, FS_EmptySet
<1>3. TypeInv
  BY <1>1, <1>2, Naturals DEF TypeInv
<1>4. WalkInv
  BY <1>1 DEF WalkInv
<1>5. SumInv
  <2>1. (DOMAIN trades) \ open = {} /\ Today = {}
    BY <1>1 DEF Today
  <2>2. PnlIn(trades, (DOMAIN trades) \ open) = 0 /\ PnlIn(trades, Today) = 0
    BY <2>1, PnlNone, Zenon
  <2> QED BY <1>1, <2>2, Naturals DEF SumInv
<1> QED BY <1>3, <1>4, <1>5

(* What is known once some open positions are booked.                      *)
LEMMA BookedIs ==
  ASSUME TypeInv, WalkInv, SumInv, NEW S \in SUBSET open, NEW b, b = Booked(S)
  PROVE  /\ b.equity \in Int /\ b.live \in Int /\ b.realized \in Int
         /\ b.equity = Equity + PnlIn(trades, ((DOMAIN trades) \ open) \cup S)
         /\ b.realized = PnlIn(trades, Today \cup S)
         /\ b.live = IF compound THEN b.equity ELSE Equity
<1>1. /\ trades \in Seq(Trade) /\ open \subseteq DOMAIN trades /\ S \in SUBSET DOMAIN trades
      /\ equity \in Int /\ live \in Int /\ realized \in Int
  BY DEF TypeInv
<1>2. PICK a : a = PnlIn(trades, S)
  OBVIOUS
<1>3. a \in Int /\ Pnl(S) = a
  BY <1>1, <1>2, PnlIs DEF Pnl, PnlIn
<1>4. /\ b.equity = equity + a /\ b.realized = realized + a
      /\ b.live = IF compound /\ S # {} THEN equity + a ELSE live
  BY <1>3 DEF Booked
<1>5. PnlIn(trades, ((DOMAIN trades) \ open) \cup S) = PnlIn(trades, (DOMAIN trades) \ open) + a
  <2>1. /\ (DOMAIN trades) \ open \in SUBSET DOMAIN trades
        /\ ((DOMAIN trades) \ open) \cap S = {}
    OBVIOUS
  <2> QED BY <1>1, <1>2, <2>1, PnlSplits
<1>6. PnlIn(trades, Today \cup S) = PnlIn(trades, Today) + a
  <2>1. Today \in SUBSET DOMAIN trades /\ Today \cap S = {}
    BY DEF Today
  <2> QED BY <1>1, <1>2, <2>1, PnlSplits
<1>7. S = {} => a = 0
  BY <1>2, PnlNone
<1>8. PnlIn(trades, (DOMAIN trades) \ open) \in Int
  BY <1>1, PnlIs
<1>9. /\ equity = Equity + PnlIn(trades, (DOMAIN trades) \ open)
      /\ realized = PnlIn(trades, Today)
      /\ live = IF compound THEN equity ELSE Equity
  BY DEF SumInv
<1>10. b.equity = Equity + PnlIn(trades, ((DOMAIN trades) \ open) \cup S)
  BY <1>3, <1>4, <1>5, <1>8, <1>9, Naturals
<1>11. b.realized = PnlIn(trades, Today \cup S)
  BY <1>4, <1>6, <1>9
<1>12. compound \in BOOLEAN
  BY DEF TypeInv
<1>13. b.live = IF compound THEN b.equity ELSE Equity
  <2>1. CASE compound
    <3>1. live = equity /\ b.live = IF S # {} THEN equity + a ELSE live
      BY <1>4, <1>9, <2>1
    <3>2. b.live = b.equity
      BY <1>1, <1>3, <1>4, <1>7, <3>1
    <3> QED BY <2>1, <3>2
  <2>2. CASE ~compound
    BY <1>4, <1>9, <2>2
  <2> QED BY <2>1, <2>2
<1>14. b.equity \in Int /\ b.realized \in Int
  BY <1>1, <1>3, <1>4
<1>15. b.live \in Int
  BY <1>13, <1>14, Naturals
<1> QED BY <1>10, <1>11, <1>13, <1>14, <1>15

(* What a trade is that is taken, and when it is.                          *)
Taken(x, p, due, b) ==
  /\ Extends(trades, x, trades') /\ Follows(trades, x)
  /\ x.day = day /\ x.tod = p.tod
  /\ ~LossLimitHit(b.live, b.realized)
  /\ Cardinality(open \ due) < MaxConcurrent
  /\ 100 * (NotionalIn(trades, open \ due) + x.notional) <= b.equity * MaxGrossPct
  /\ open' = (open \ due) \cup {Len(trades')}

LEMMA ResultIs ==
  ASSUME NEW p \in Pot, NEW qty \in Int
  PROVE  /\ p.leg \in Legs /\ p.tod \in Nat /\ p.exitTod \in Nat /\ p.volume \in Nat
         /\ p.entry \in Nat \ {0} /\ StopOf(p) \in Int
         /\ Result(p, qty) \in Int /\ qty * p.entry \in Int
<1>1. /\ p.leg \in Legs /\ p.tod \in Nat /\ p.exitTod \in Nat /\ p.volume \in Nat
      /\ p.entry \in Nat \ {0} /\ p.stopPct \in Int /\ p.movePct \in Int
  <2>1. /\ p.leg \in Legs /\ p.tod \in Tods /\ p.exitTod \in Tods /\ p.volume \in Volumes
        /\ p.entry \in Entries /\ p.stopPct \in StopPct /\ p.movePct \in Moves
    BY DEF Pot
  <2> QED BY <2>1, Prices
<1>2. PICK e \in Nat \ {0}, s \in Int, m \in Int :
        e = p.entry /\ s = p.stopPct /\ m = p.movePct
  BY <1>1
<1>3. /\ e * (100 + s) \in Int /\ e * (100 - s) \in Int /\ e * m \in Int
      /\ qty * e \in Int /\ qty * CommissionPerShare \in Int
  BY Naturals
<1>4. StopOf(p) \in Int
  BY <1>2, <1>3 DEF StopOf
<1>5. Commission(qty) \in Int
  <2>1. Max({CommissionMin, qty * CommissionPerShare}) \in Int
    <3>1. CommissionMin \in Int /\ qty * CommissionPerShare \in Int
      BY <1>3, Naturals
    <3> QED BY <3>1, MaxOfTwo
  <2> QED BY <2>1 DEF Commission
<1>6. PICK v \in Int : v = (e * m) \div 100
  BY <1>3
<1>7. qty * v \in Int /\ (-1) * qty * v \in Int /\ 1 * qty * v \in Int
  OBVIOUS
<1>8. Result(p, qty) = (IF p.leg \in Short THEN -1 ELSE 1) * qty * v - Commission(qty)
  BY <1>2, <1>6 DEF Result
<1>9. Result(p, qty) \in Int
  BY <1>5, <1>7, <1>8
<1> QED BY <1>1, <1>2, <1>3, <1>4, <1>9

LEMMA ProposeIs ==
  ASSUME TypeInv, WalkInv, SumInv, NEW p \in Pot, day <= MaxDay, Propose(p),
         NEW due, due = Due(p.tod), NEW b, b = Booked(due)
  PROVE  /\ due \in SUBSET open
         /\ \A i \in open : i \in due <=> trades[i].exitTod <= p.tod
         /\ p.tod \in Tods /\ p.tod >= now /\ now' = p.tod
         /\ pots < MaxPots /\ pots' = pots + 1 /\ day' = day /\ compound' = compound
         /\ equity' = b.equity /\ live' = b.live /\ realized' = b.realized
         /\ \/ trades' = trades /\ open' = open \ due
            \/ \E x : Taken(x, p, due, b)
<1>1. PICK qty : qty = PlanOf(p, b)
  OBVIOUS
<1>2. /\ pots < MaxPots /\ p.tod >= now /\ p.exitTod > p.tod
      /\ now' = p.tod /\ pots' = pots + 1 /\ day' = day /\ compound' = compound
      /\ Book(due, b.realized)
  BY DEF Propose
<1>3. equity' = b.equity /\ live' = b.live /\ realized' = b.realized
  BY <1>2 DEF Book
<1>4. due \in SUBSET open /\ \A i \in open : i \in due <=> trades[i].exitTod <= p.tod
  BY DEF Due
<1>5. p.tod \in Tods
  BY DEF Pot
<1>6. /\ b.equity \in Int /\ b.live \in Int /\ b.realized \in Int
  BY <1>4, BookedIs
<1>7. qty \in Int /\ (qty > 0 => ~LossLimitHit(b.live, b.realized))
  <2>1. p.entry \in Nat \ {0} /\ StopOf(p) \in Int /\ p.volume \in Nat
    BY ResultIs
  <2> QED BY <1>1, <1>6, <2>1, PlanIs DEF PlanOf
<1>8. PICK x : x = [leg |-> p.leg, day |-> day, tod |-> p.tod, exitTod |-> p.exitTod,
                    notional |-> qty * p.entry, pnl |-> Result(p, qty)]
  OBVIOUS
<1>9. \/ /\ qty > 0 /\ Fits(p, qty, due, b)
         /\ trades' = Append(trades, x) /\ open' = (open \ due) \cup {Len(trades')}
      \/ trades' = trades /\ open' = open \ due
  BY <1>1, <1>8 DEF Propose
<1>10. CASE /\ qty > 0 /\ Fits(p, qty, due, b)
            /\ trades' = Append(trades, x) /\ open' = (open \ due) \cup {Len(trades')}
  <2>1. x \in Trade
    <3>1. /\ p.leg \in Legs /\ p.tod \in Nat /\ p.exitTod \in Nat
          /\ p.entry \in Nat \ {0} /\ Result(p, qty) \in Int
      BY <1>7, ResultIs
    <3>2. qty * p.entry \in Nat \ {0}
      <4>1. PICK e \in Nat \ {0}, n \in Nat \ {0} : e = p.entry /\ n = qty
        BY <1>7, <1>10, <3>1
      <4>2. n * e \in Nat \ {0}
        OBVIOUS
      <4> QED BY <4>1, <4>2
    <3>3. day \in Nat
      BY Naturals DEF TypeInv
    <3> QED BY <1>8, <3>1, <3>2, <3>3 DEF Trade
  <2>2. Extends(trades, x, trades')
    BY <1>10, <2>1 DEF Extends, TypeInv
  <2>3. Follows(trades, x)
    <3>1. x.day = day /\ x.tod = p.tod /\ x.exitTod = p.exitTod
      BY <1>8
    <3>2. \A i \in DOMAIN trades : trades[i].tod \in Nat
      BY TradesAre DEF TypeInv
    <3>3. now \in Nat /\ p.tod \in Nat
      <4>1. now \in Tods \cup {0}
        BY DEF TypeInv
      <4>2. Tods \subseteq Nat
        BY Prices
      <4>3. now \in Nat
        <5>1. 0 \in Nat
          OBVIOUS
        <5> QED BY <4>1, <4>2, <5>1, Zenon
      <4>4. p.tod \in Nat
        BY ResultIs
      <4> QED BY <4>3, <4>4
    <3> QED BY <1>2, <3>1, <3>2, <3>3 DEF Follows, WalkInv
  <2>4. /\ Cardinality(open \ due) < MaxConcurrent
        /\ 100 * (NotionalIn(trades, open \ due) + x.notional) <= b.equity * MaxGrossPct
    <3>1. Notional(open \ due) = NotionalIn(trades, open \ due) /\ x.notional = qty * p.entry
      BY <1>8 DEF Notional, NotionalIn
    <3> QED BY <1>10, <3>1 DEF Fits
  <2>5. Taken(x, p, due, b)
    BY <1>7, <1>8, <1>10, <2>2, <2>3, <2>4 DEF Taken
  <2> QED BY <1>2, <1>3, <1>4, <1>5, <2>5
<1> QED BY <1>2, <1>3, <1>4, <1>5, <1>9, <1>10

LEMMA TypeStep == TypeInv /\ WalkInv /\ SumInv /\ [Next]_vars => TypeInv'
<1> SUFFICES ASSUME TypeInv, WalkInv, SumInv, [Next]_vars PROVE TypeInv'
  OBVIOUS
<1>1. /\ trades \in Seq(Trade) /\ open \subseteq DOMAIN trades /\ IsFiniteSet(open)
      /\ Cardinality(open) <= MaxConcurrent
  <2>1. trades \in Seq(Trade) /\ open \subseteq DOMAIN trades
        /\ Cardinality(open) <= MaxConcurrent
    BY DEF TypeInv
  <2> QED BY <2>1, TradesAre, FS_Subset
<1>2. ASSUME NEW S \in SUBSET open, NEW n, Book(S, n) PROVE legPnl' \in [Legs -> Int]
  <2>1. PICK h : h = [g \in Legs |-> Pnl({i \in S : trades[i].leg = g})]
    OBVIOUS
  <2>2. ASSUME NEW g \in Legs PROVE h[g] \in Int
    <3>1. {i \in S : trades[i].leg = g} \in SUBSET DOMAIN trades
      BY <1>1
    <3>2. Pnl({i \in S : trades[i].leg = g}) = PnlIn(trades, {i \in S : trades[i].leg = g})
      BY DEF Pnl, PnlIn
    <3> QED BY <1>1, <2>1, <3>1, <3>2, PnlIs
  <2>3. legPnl' = [g \in Legs |-> legPnl[g] + h[g]]
    BY <1>2, <2>1 DEF Book
  <2>4. legPnl \in [Legs -> Int]
    BY DEF TypeInv
  <2> QED BY <2>2, <2>3, <2>4
<1>3. ASSUME day <= MaxDay, NEW p \in Pot, Propose(p) PROVE TypeInv'
  <2>1. PICK due : due = Due(p.tod)
    OBVIOUS
  <2>2. PICK b : b = Booked(due)
    OBVIOUS
  <2>3. /\ due \in SUBSET open /\ p.tod \in Tods /\ now' = p.tod
        /\ pots < MaxPots /\ pots' = pots + 1 /\ day' = day /\ compound' = compound
        /\ equity' = b.equity /\ live' = b.live /\ realized' = b.realized
    BY <1>3, <2>1, <2>2, ProposeIs
  <2>4. b.equity \in Int /\ b.live \in Int /\ b.realized \in Int
    BY <2>2, <2>3, BookedIs
  <2>5. legPnl' \in [Legs -> Int]
    BY <1>2, <1>3, <2>1, <2>3 DEF Propose
  <2>6. pots' \in 0 .. MaxPots
    BY <2>3, Naturals DEF TypeInv
  <2>7. /\ trades' \in Seq(Trade) /\ open' \subseteq DOMAIN trades'
        /\ Cardinality(open') <= MaxConcurrent
    <3>1. \/ trades' = trades /\ open' = open \ due
          \/ \E x : Taken(x, p, due, b)
      BY <1>3, <2>1, <2>2, ProposeIs
    <3>2. IsFiniteSet(open \ due) /\ Cardinality(open \ due) <= Cardinality(open)
          /\ Cardinality(open \ due) \in Nat /\ Cardinality(open) \in Nat
      BY <1>1, FS_Subset, FS_CardinalityType
    <3>3. CASE trades' = trades /\ open' = open \ due
      BY <1>1, <3>2, <3>3, Naturals
    <3>4. ASSUME NEW x, Taken(x, p, due, b)
          PROVE  /\ trades' \in Seq(Trade) /\ open' \subseteq DOMAIN trades'
                 /\ Cardinality(open') <= MaxConcurrent
      <4>1. /\ Extends(trades, x, trades') /\ Cardinality(open \ due) < MaxConcurrent
            /\ open' = (open \ due) \cup {Len(trades')}
        BY <3>4 DEF Taken
      <4>2. Longer(trades, x, trades')
        BY <4>1, ListGrows
      <4>3. Cardinality(open') <= Cardinality(open \ due) + 1 /\ Cardinality(open') \in Int
        <5>1. PICK A, n : A = open \ due /\ n = Len(trades') /\ open' = A \cup {n}
          BY <4>1
        <5>2. IsFiniteSet(A) /\ Cardinality(A) \in Nat
          BY <3>2, <5>1
        <5>3. IsFiniteSet(A \cup {n})
              /\ Cardinality(A \cup {n}) = IF n \in A THEN Cardinality(A) ELSE Cardinality(A) + 1
          BY <5>2, FS_AddElement
        <5> QED BY <5>1, <5>2, <5>3
      <4> QED BY <1>1, <3>2, <4>1, <4>2, <4>3, Naturals DEF Longer
    <3> QED BY <3>1, <3>3, <3>4
  <2>8. compound' \in BOOLEAN /\ day' \in 0 .. MaxDay + 1 /\ now' \in Tods \cup {0}
    BY <2>3 DEF TypeInv
  <2> QED BY <2>3, <2>4, <2>5, <2>6, <2>7, <2>8 DEF TypeInv
<1>4. CASE EndOfDay
  <2>1. PICK b : b = Booked(open)
    OBVIOUS
  <2>2. b.equity \in Int /\ b.live \in Int
    BY <2>1, BookedIs
  <2>3. equity' = b.equity /\ live' = b.live /\ realized' = 0
    BY <1>4, <2>1 DEF EndOfDay, Book
  <2>4. legPnl' \in [Legs -> Int]
    BY <1>2, <1>4 DEF EndOfDay
  <2>5. /\ day <= MaxDay /\ open' = {} /\ day' = day + 1 /\ now' = 0
        /\ trades' = trades /\ pots' = pots /\ compound' = compound
    BY <1>4 DEF EndOfDay
  <2>6. Cardinality(open') <= MaxConcurrent
    BY <2>5, FS_EmptySet, Naturals
  <2>7. compound' \in BOOLEAN /\ day' \in 0 .. MaxDay + 1 /\ pots' \in 0 .. MaxPots
    BY <2>5, Naturals DEF TypeInv
  <2> QED BY <1>1, <2>2, <2>3, <2>4, <2>5, <2>6, <2>7 DEF TypeInv
<1>5. CASE UNCHANGED vars
  BY <1>5 DEF vars, bookVars, TypeInv
<1> QED BY <1>3, <1>4, <1>5 DEF Next

LEMMA WalkStep == TypeInv /\ WalkInv /\ SumInv /\ [Next]_vars => WalkInv'
<1> SUFFICES ASSUME TypeInv, WalkInv, SumInv, [Next]_vars PROVE WalkInv'
  OBVIOUS
<1>1. /\ trades \in Seq(Trade) /\ open \subseteq DOMAIN trades
      /\ now \in Nat /\ day \in Nat
  <2>1. now \in Tods \/ now = 0
    BY DEF TypeInv
  <2>2. Tods \subseteq Nat /\ MaxDay \in Nat
    BY Prices, Naturals
  <2> QED BY <2>1, <2>2 DEF TypeInv
<1>2. \A i \in DOMAIN trades : /\ trades[i].day \in Nat /\ trades[i].tod \in Nat
                               /\ trades[i].exitTod \in Nat
  BY <1>1, TradesAre
<1>3. ASSUME day <= MaxDay, NEW p \in Pot, Propose(p) PROVE WalkInv'
  <2>1. PICK due : due = Due(p.tod)
    OBVIOUS
  <2>2. PICK b : b = Booked(due)
    OBVIOUS
  <2>3. /\ due \in SUBSET open /\ p.tod \in Nat /\ now' = p.tod /\ p.tod >= now /\ day' = day
        /\ \A i \in open : i \in due <=> trades[i].exitTod <= p.tod
    <3>1. p.tod \in Nat
      BY ResultIs
    <3> QED BY <1>3, <2>1, <2>2, <3>1, ProposeIs
  <2>4. \/ trades' = trades /\ open' = open \ due
        \/ \E x : Taken(x, p, due, b)
    BY <1>3, <2>1, <2>2, ProposeIs
  <2>5. CASE trades' = trades /\ open' = open \ due
    BY <1>1, <1>2, <2>3, <2>5 DEF WalkInv
  <2>6. ASSUME NEW x, Taken(x, p, due, b) PROVE WalkInv'
    <3>1. /\ Extends(trades, x, trades') /\ Follows(trades, x)
          /\ x.day = day /\ x.tod = p.tod
          /\ open' = (open \ due) \cup {Len(trades')}
      BY <2>6 DEF Taken
    <3>2. Longer(trades, x, trades')
      BY <3>1, ListGrows
    <3>3. PICK n : /\ n = Len(trades') /\ DOMAIN trades' = (DOMAIN trades) \cup {n}
                   /\ n \notin DOMAIN trades /\ trades'[n] = x
                   /\ open' = (open \ due) \cup {n}
                   /\ \A i \in DOMAIN trades : trades'[i] = trades[i]
      BY <3>1, <3>2 DEF Longer
    <3>4. x.exitTod > p.tod
      BY <3>1 DEF Follows, Extends, Trade
    <3>5. \A i \in DOMAIN trades' : /\ trades'[i].day <= day'
                                    /\ trades'[i].day = day' => trades'[i].tod <= now'
      BY <1>1, <1>2, <2>3, <3>1, <3>3 DEF WalkInv
    <3>6. \A i \in open' : trades'[i].day = day' /\ trades'[i].exitTod > now'
      BY <1>1, <1>2, <2>3, <3>1, <3>3, <3>4 DEF WalkInv
    <3>7. \A i \in (DOMAIN trades') \ open' :
            trades'[i].day = day' => trades'[i].exitTod <= now'
      BY <1>1, <1>2, <2>3, <3>3 DEF WalkInv
    <3> QED BY <3>5, <3>6, <3>7 DEF WalkInv
  <2> QED BY <2>4, <2>5, <2>6
<1>4. CASE EndOfDay
  <2>1. open' = {} /\ day' = day + 1 /\ now' = 0 /\ trades' = trades
    BY <1>4 DEF EndOfDay
  <2>2. \A i \in DOMAIN trades : trades[i].day <= day
    BY DEF WalkInv
  <2> QED BY <1>1, <1>2, <2>1, <2>2 DEF WalkInv
<1>5. CASE UNCHANGED vars
  BY <1>5 DEF vars, bookVars, WalkInv
<1> QED BY <1>3, <1>4, <1>5 DEF Next

LEMMA SumStep == TypeInv /\ WalkInv /\ SumInv /\ [Next]_vars => SumInv'
<1> SUFFICES ASSUME TypeInv, WalkInv, SumInv, [Next]_vars PROVE SumInv'
  OBVIOUS
<1>1. trades \in Seq(Trade) /\ open \subseteq DOMAIN trades
  BY DEF TypeInv
<1>2. \A i \in open : trades[i].day = day
  BY DEF WalkInv
<1>3. ASSUME day <= MaxDay, NEW p \in Pot, Propose(p) PROVE SumInv'
  <2>1. PICK due : due = Due(p.tod)
    OBVIOUS
  <2>2. PICK b : b = Booked(due)
    OBVIOUS
  <2>3. /\ due \in SUBSET open /\ day' = day /\ compound' = compound
        /\ equity' = b.equity /\ live' = b.live /\ realized' = b.realized
    BY <1>3, <2>1, <2>2, ProposeIs
  <2>4. /\ b.equity = Equity + PnlIn(trades, ((DOMAIN trades) \ open) \cup due)
        /\ b.realized = PnlIn(trades, Today \cup due)
        /\ b.live = IF compound THEN b.equity ELSE Equity
    BY <2>2, <2>3, BookedIs
  <2>5. /\ (DOMAIN trades') \ open' = ((DOMAIN trades) \ open) \cup due
        /\ Today' = Today \cup due
        /\ \A S \in SUBSET DOMAIN trades : PnlIn(trades', S) = PnlIn(trades, S)
    <3>1. \/ trades' = trades /\ open' = open \ due
          \/ \E x : Taken(x, p, due, b)
      BY <1>3, <2>1, <2>2, ProposeIs
    <3>2. CASE trades' = trades /\ open' = open \ due
      <4>1. (DOMAIN trades') \ open' = ((DOMAIN trades) \ open) \cup due
        BY <1>1, <2>3, <3>2
      <4>2. Today' = Today \cup due
        BY <1>1, <1>2, <2>3, <3>2 DEF Today
      <4> QED BY <3>2, <4>1, <4>2
    <3>3. ASSUME NEW x, Taken(x, p, due, b)
          PROVE  /\ (DOMAIN trades') \ open' = ((DOMAIN trades) \ open) \cup due
                 /\ Today' = Today \cup due
                 /\ \A S \in SUBSET DOMAIN trades : PnlIn(trades', S) = PnlIn(trades, S)
      <4>1. Extends(trades, x, trades') /\ open' = (open \ due) \cup {Len(trades')}
        BY <3>3 DEF Taken
      <4>2. Longer(trades, x, trades')
        BY <4>1, ListGrows
      <4>3. PICK n : /\ n = Len(trades') /\ DOMAIN trades' = (DOMAIN trades) \cup {n}
                     /\ n \notin DOMAIN trades
                     /\ open' = (open \ due) \cup {n}
                     /\ \A i \in DOMAIN trades : trades'[i] = trades[i]
        BY <4>1, <4>2 DEF Longer
      <4>4. (DOMAIN trades') \ open' = ((DOMAIN trades) \ open) \cup due
        BY <1>1, <2>3, <4>3
      <4>5. Today' = Today \cup due
        BY <1>1, <1>2, <2>3, <4>3 DEF Today
      <4>6. \A S \in SUBSET DOMAIN trades : PnlIn(trades', S) = PnlIn(trades, S)
        BY <4>1, PnlStays
      <4> QED BY <4>4, <4>5, <4>6
    <3> QED BY <3>1, <3>2, <3>3
  <2>6. PnlIn(trades', (DOMAIN trades') \ open')
          = PnlIn(trades, ((DOMAIN trades) \ open) \cup due)
    <3>1. ((DOMAIN trades) \ open) \cup due \in SUBSET DOMAIN trades
      BY <1>1, <2>3
    <3>2. PnlIn(trades', ((DOMAIN trades) \ open) \cup due)
            = PnlIn(trades, ((DOMAIN trades) \ open) \cup due)
      BY <2>5, <3>1
    <3> QED BY <2>5, <3>2, Zenon
  <2>7. PnlIn(trades', Today') = PnlIn(trades, Today \cup due)
    <3>1. Today \cup due \in SUBSET DOMAIN trades
      BY <1>1, <2>3 DEF Today
    <3>2. PnlIn(trades', Today \cup due) = PnlIn(trades, Today \cup due)
      BY <2>5, <3>1
    <3> QED BY <2>5, <3>2, Zenon
  <2>8. equity' = Equity + PnlIn(trades', (DOMAIN trades') \ open')
    BY <2>3, <2>4, <2>6, Zenon
  <2>9. realized' = PnlIn(trades', Today')
    BY <2>3, <2>4, <2>7, Zenon
  <2>10. live' = IF compound' THEN equity' ELSE Equity
    BY <2>3, <2>4, Zenon
  <2> QED BY <2>8, <2>9, <2>10 DEF SumInv
<1>4. CASE EndOfDay
  <2>1. PICK b : b = Booked(open)
    OBVIOUS
  <2>2. /\ b.equity = Equity + PnlIn(trades, ((DOMAIN trades) \ open) \cup open)
        /\ b.live = IF compound THEN b.equity ELSE Equity
    BY <2>1, BookedIs
  <2>3. /\ equity' = b.equity /\ live' = b.live /\ realized' = 0 /\ compound' = compound
        /\ open' = {} /\ day' = day + 1 /\ trades' = trades
    BY <1>4, <2>1 DEF EndOfDay, Book
  <2>4. (DOMAIN trades') \ open' = ((DOMAIN trades) \ open) \cup open
    BY <1>1, <2>3
  <2>5. Today' = {}
    <3>1. \A i \in DOMAIN trades : trades[i].day <= day /\ trades[i].day \in Nat
      BY <1>1, TradesAre DEF WalkInv
    <3>2. day \in Nat
      BY Naturals DEF TypeInv
    <3> QED BY <2>3, <3>1, <3>2 DEF Today
  <2>6. equity' = Equity + PnlIn(trades', (DOMAIN trades') \ open')
    BY <2>2, <2>3, <2>4, Zenon
  <2>7. realized' = PnlIn(trades', Today')
    <3>1. PnlIn(trades', {}) = 0
      BY PnlNone
    <3> QED BY <2>3, <2>5, <3>1, Zenon
  <2>8. live' = IF compound' THEN equity' ELSE Equity
    BY <2>2, <2>3, Zenon
  <2> QED BY <2>6, <2>7, <2>8 DEF SumInv
<1>5. CASE UNCHANGED vars
  <2>1. /\ trades' = trades /\ open' = open /\ day' = day /\ equity' = equity
        /\ live' = live /\ realized' = realized /\ compound' = compound
    BY <1>5 DEF vars, bookVars
  <2> QED BY <2>1 DEF SumInv, Today
<1> QED BY <1>3, <1>4, <1>5 DEF Next

-----------------------------------------------------------------------------
(* WithinMeans and HonoursBreaker.                                         *)

MeansInv   == \A i \in DOMAIN trades : MeansIn(trades, i)
BreakerInv == \A i \in DOMAIN trades : BreakerIn(compound, trades, i)

(* What the walk keeps is the view that the account of the properties has. *)
LEMMA ViewOfWalk ==
  ASSUME TypeInv, WalkInv, SumInv, NEW p \in Pot, day <= MaxDay, Propose(p),
         NEW due, due = Due(p.tod), NEW b, b = Booked(due), NEW x, Taken(x, p, due, b)
  PROVE  /\ OpenAt(trades, x) = open \ due
         /\ PnlIn(trades, OverAt(trades, x)) = b.realized
         /\ Equity + PnlIn(trades, BeforeAt(trades, x)) + PnlIn(trades, OverAt(trades, x))
              = b.equity
<1>1. /\ trades \in Seq(Trade) /\ open \subseteq DOMAIN trades /\ day \in Nat
  BY Naturals DEF TypeInv
<1>2. \A i \in DOMAIN trades : trades[i].day \in Nat /\ trades[i].exitTod \in Nat
  BY <1>1, TradesAre
<1>3. x.day = day /\ x.tod = p.tod
  BY DEF Taken
<1>4. /\ due \in SUBSET open /\ p.tod >= now
      /\ \A i \in open : i \in due <=> trades[i].exitTod <= p.tod
  BY ProposeIs
<1>5. p.tod \in Nat /\ now \in Nat
  <2>1. 0 \in Nat /\ Tods \subseteq Nat
    BY Prices
  <2>2. now \in Tods \cup {0}
    BY DEF TypeInv
  <2>3. now \in Nat
    BY <2>1, <2>2, Zenon
  <2> QED BY <2>3, ResultIs
<1>6. /\ \A i \in open : trades[i].day = day
      /\ \A i \in DOMAIN trades : trades[i].day <= day
      /\ \A i \in (DOMAIN trades) \ open :
           trades[i].day = day => trades[i].exitTod <= now
  BY DEF WalkInv
<1>7. OpenAt(trades, x) = open \ due
  BY <1>1, <1>2, <1>3, <1>4, <1>5, <1>6 DEF OpenAt
<1>8. OverAt(trades, x) = Today \cup due
  BY <1>1, <1>2, <1>3, <1>4, <1>5, <1>6 DEF OverAt, Today
<1>9. /\ b.equity = Equity + PnlIn(trades, ((DOMAIN trades) \ open) \cup due)
      /\ b.realized = PnlIn(trades, Today \cup due)
  BY <1>4, BookedIs
<1>10. PnlIn(trades, OverAt(trades, x)) = b.realized
  BY <1>8, <1>9, Zenon
<1>11. PnlIn(trades, ((DOMAIN trades) \ open) \cup due)
         = PnlIn(trades, BeforeAt(trades, x)) + PnlIn(trades, OverAt(trades, x))
  <2>1. PICK S : S = ((DOMAIN trades) \ open) \cup due
    OBVIOUS
  <2>2. /\ BeforeAt(trades, x) \in SUBSET DOMAIN trades
        /\ OverAt(trades, x) \in SUBSET DOMAIN trades
    BY DEF BeforeAt, OverAt
  <2>3. S = BeforeAt(trades, x) \cup OverAt(trades, x)
    BY <1>1, <1>2, <1>3, <1>4, <1>6, <1>8, <2>1 DEF BeforeAt, Today
  <2>4. BeforeAt(trades, x) \cap OverAt(trades, x) = {}
    BY <1>2, <1>1, <1>3 DEF BeforeAt, OverAt
  <2>5. PnlIn(trades, S) = PnlIn(trades, BeforeAt(trades, x)) + PnlIn(trades, OverAt(trades, x))
    BY <1>1, <2>2, <2>3, <2>4, PnlSplits
  <2> QED BY <2>1, <2>5
<1>12. /\ PnlIn(trades, BeforeAt(trades, x)) \in Int
       /\ PnlIn(trades, OverAt(trades, x)) \in Int
  <2>1. /\ BeforeAt(trades, x) \in SUBSET DOMAIN trades
        /\ OverAt(trades, x) \in SUBSET DOMAIN trades
    BY DEF BeforeAt, OverAt
  <2> QED BY <1>1, <2>1, PnlIs
<1>13. Equity + PnlIn(trades, BeforeAt(trades, x)) + PnlIn(trades, OverAt(trades, x)) = b.equity
  BY <1>9, <1>11, <1>12, Naturals
<1> QED BY <1>7, <1>10, <1>13

(* A trade that is taken is within the means, and before the breaker.      *)
LEMMA NewIsWithin ==
  ASSUME TypeInv, WalkInv, SumInv, NEW p \in Pot, day <= MaxDay, Propose(p),
         NEW due, due = Due(p.tod), NEW b, b = Booked(due), NEW x, Taken(x, p, due, b)
  PROVE  MeansIn(trades', Len(trades')) /\ BreakerIn(compound, trades', Len(trades'))
<1>1. PICK u : u = trades'
  OBVIOUS
<1>2. PICK n : n = Len(u)
  OBVIOUS
<1>3. Extends(trades, x, u) /\ Follows(trades, x)
  BY <1>1 DEF Taken
<1>4. /\ HeldIn(u, n) = OpenAt(trades, x)
      /\ MadeIn(u, n) = PnlIn(trades, OverAt(trades, x))
      /\ EquityIn(u, n) = Equity + PnlIn(trades, BeforeAt(trades, x)) + PnlIn(trades, OverAt(trades, x))
      /\ NotionalIn(u, HeldIn(u, n) \cup {n})
           = NotionalIn(trades, OpenAt(trades, x)) + x.notional
  <2>1. ViewIs(trades, x, u, n)
    BY <1>2, <1>3, ViewOfNew
  <2> QED BY <2>1 DEF ViewIs
<1>5. /\ OpenAt(trades, x) = open \ due
      /\ PnlIn(trades, OverAt(trades, x)) = b.realized
      /\ Equity + PnlIn(trades, BeforeAt(trades, x)) + PnlIn(trades, OverAt(trades, x)) = b.equity
  BY ViewOfWalk
<1>6. /\ HeldIn(u, n) = open \ due /\ MadeIn(u, n) = b.realized /\ EquityIn(u, n) = b.equity
      /\ NotionalIn(u, HeldIn(u, n) \cup {n}) = NotionalIn(trades, open \ due) + x.notional
  BY <1>4, <1>5, Zenon
<1>7. /\ ~LossLimitHit(b.live, b.realized)
      /\ Cardinality(open \ due) < MaxConcurrent
      /\ 100 * (NotionalIn(trades, open \ due) + x.notional) <= b.equity * MaxGrossPct
  BY DEF Taken
<1>8. MeansIn(u, n)
  BY <1>6, <1>7 DEF MeansIn
<1>9. BreakerIn(compound, u, n)
  <2>1. due \in SUBSET open
    BY ProposeIs
  <2>2. b.live = IF compound THEN b.equity ELSE Equity
    BY <2>1, BookedIs
  <2>3. b.live = IF compound THEN EquityIn(u, n) ELSE Equity
    BY <1>6, <2>2, Zenon
  <2> QED BY <1>6, <1>7, <2>3, Zenon DEF BreakerIn
<1> QED BY <1>1, <1>2, <1>8, <1>9

LEMMA ViewStep ==
  TypeInv /\ WalkInv /\ SumInv /\ MeansInv /\ BreakerInv /\ [Next]_vars
    => MeansInv' /\ BreakerInv'
<1> SUFFICES ASSUME TypeInv, WalkInv, SumInv, MeansInv, BreakerInv, [Next]_vars
             PROVE  MeansInv' /\ BreakerInv'
  OBVIOUS
<1>1. ASSUME trades' = trades, compound' = compound PROVE MeansInv' /\ BreakerInv'
  BY <1>1 DEF MeansInv, BreakerInv
<1>2. ASSUME day <= MaxDay, NEW p \in Pot, Propose(p) PROVE MeansInv' /\ BreakerInv'
  <2>1. PICK due : due = Due(p.tod)
    OBVIOUS
  <2>2. PICK b : b = Booked(due)
    OBVIOUS
  <2>3. compound' = compound /\ (trades' = trades \/ \E x : Taken(x, p, due, b))
    BY <1>2, <2>1, <2>2, ProposeIs
  <2>4. ASSUME NEW x, Taken(x, p, due, b) PROVE MeansInv' /\ BreakerInv'
    <3>1. PICK u : u = trades'
      OBVIOUS
    <3>2. Extends(trades, x, u) /\ Follows(trades, x)
      BY <2>4, <3>1 DEF Taken
    <3>3. DOMAIN u = (DOMAIN trades) \cup {Len(u)}
      <4>1. Longer(trades, x, u)
        BY <3>2, ListGrows
      <4> QED BY <4>1 DEF Longer
    <3>4. MeansIn(u, Len(u)) /\ BreakerIn(compound, u, Len(u))
      BY <1>2, <2>1, <2>2, <2>4, <3>1, NewIsWithin
    <3>5. ASSUME NEW i \in DOMAIN trades PROVE MeansIn(u, i) /\ BreakerIn(compound, u, i)
      <4>1. MeansIn(u, i) = MeansIn(trades, i)
            /\ BreakerIn(compound, u, i) = BreakerIn(compound, trades, i)
        BY <3>2, ViewStays
      <4>2. MeansIn(trades, i) /\ BreakerIn(compound, trades, i)
        BY DEF MeansInv, BreakerInv
      <4> QED BY <4>1, <4>2, Zenon
    <3>6. \A i \in DOMAIN u : MeansIn(u, i) /\ BreakerIn(compound, u, i)
      BY <3>3, <3>4, <3>5, Zenon
    <3> QED BY <2>3, <3>1, <3>6, Zenon DEF MeansInv, BreakerInv
  <2> QED BY <1>1, <2>3, <2>4
<1>3. CASE EndOfDay
  BY <1>1, <1>3 DEF EndOfDay
<1>4. CASE UNCHANGED vars
  BY <1>1, <1>4 DEF vars
<1> QED BY <1>2, <1>3, <1>4 DEF Next

LEMMA MeansAre == MeansInv => WithinMeans
BY DEF MeansInv, MeansIn, HeldIn, EquityIn, EarlierIn, EndedIn, MadeIn, PnlIn, NotionalIn,
       WithinMeans, HeldAt, EquityAt, MadeBefore, MadeToday, Pnl, Notional

LEMMA BreakerIs == BreakerInv => HonoursBreaker
BY DEF BreakerInv, BreakerIn, EquityIn, EarlierIn, EndedIn, MadeIn, PnlIn,
       HonoursBreaker, EquityAt, MadeBefore, MadeToday, Pnl

WalkedInv == TypeInv /\ WalkInv /\ SumInv /\ MeansInv /\ BreakerInv

LEMMA Walked == Spec => []WalkedInv
<1>1. Init => WalkedInv
  <2>1. Init => MeansInv /\ BreakerInv
    BY DEF Init, MeansInv, BreakerInv
  <2> QED BY <2>1, Initially DEF WalkedInv
<1>2. WalkedInv /\ [Next]_vars => WalkedInv'
  BY TypeStep, WalkStep, SumStep, ViewStep DEF WalkedInv
<1> QED BY <1>1, <1>2, PTL DEF Spec

(* portfolio.py, run_simulation: at each entry the account has a free slot *)
(* and its equity covers what it holds and the new trade.                  *)
THEOREM MeansCorrect == Spec => []WithinMeans
<1>1. WalkedInv => WithinMeans
  BY MeansAre DEF WalkedInv
<1> QED BY <1>1, Walked, PTL

(* portfolio.py, run_simulation: no trade is entered at a minute at which  *)
(* the day's closed trades have lost the limit.                            *)
THEOREM BreakerCorrect == Spec => []HonoursBreaker
<1>1. WalkedInv => HonoursBreaker
  BY BreakerIs DEF WalkedInv
<1> QED BY <1>1, Walked, PTL

-----------------------------------------------------------------------------
(* The reports.  The pass over the curve is a recursive function: there is *)
(* one, and it finds the deepest of all falls.                             *)

WalkAt(e, w, k) ==
  IF k = 0 THEN [peak |-> e[0], drawdown |-> 0]
  ELSE LET peak == Max({w[k - 1].peak, e[k]})
       IN [peak |-> peak, drawdown |-> Max({w[k - 1].drawdown, peak - e[k]})]

IsWalk(e, n, w) == w = [k \in 0 .. n |-> WalkAt(e, w, k)]

LEMMA WalkIs == Walk = CHOOSE w : IsWalk(EquityCurve, Len(curve), w)
BY DEF Walk, IsWalk, WalkAt

WalksTo(e, w, m) == \A k \in 0 .. m : w[k] = WalkAt(e, w, k)

LEMMA WalkExists ==
  ASSUME NEW e, NEW n \in Nat
  PROVE  \E w : IsWalk(e, n, w)
<1> DEFINE K == {m \in Nat : ~\E w : WalksTo(e, w, m)}
<1>1. K = {}
  <2>1. SUFFICES ASSUME K # {} PROVE FALSE
    OBVIOUS
  <2>2. PICK m \in K : IsMin(m, K)
    <3>1. K \subseteq Nat
      OBVIOUS
    <3> HIDE DEF K
    <3> QED BY <2>1, <3>1, LeastNatural
  <2>3. m \in Nat
    OBVIOUS
  <2>4. CASE m = 0
    <3>1. PICK w : w = [k \in 0 .. 0 |-> WalkAt(e, e, 0)]
      OBVIOUS
    <3>2. WalkAt(e, w, 0) = WalkAt(e, e, 0)
      BY DEF WalkAt
    <3>3. WalksTo(e, w, 0)
      BY <3>1, <3>2 DEF WalksTo
    <3> QED BY <2>4, <3>3
  <2>5. CASE m # 0
    <3>1. m - 1 \in Nat /\ m - 1 \notin K
      BY <2>2, <2>3, <2>5 DEF IsMin
    <3>2. PICK v : WalksTo(e, v, m - 1)
      BY <3>1
    <3>3. PICK w : w = [k \in 0 .. m |-> IF k = m THEN WalkAt(e, v, m) ELSE v[k]]
      OBVIOUS
    <3>4. ASSUME NEW k \in 0 .. m PROVE w[k] = WalkAt(e, w, k)
      <4>1. k = 0 \/ (k - 1 \in 0 .. m /\ k - 1 # m)
        BY <2>3
      <4>2. k # 0 => w[k - 1] = v[k - 1]
        BY <3>3, <4>1
      <4>3. WalkAt(e, w, k) = WalkAt(e, v, k)
        BY <4>2 DEF WalkAt
      <4>4. CASE k = m
        BY <3>3, <4>3, <4>4
      <4>5. CASE k # m
        <5>1. k \in 0 .. (m - 1)
          BY <2>3, <4>5
        <5>2. v[k] = WalkAt(e, v, k)
          BY <3>2, <5>1 DEF WalksTo
        <5> QED BY <3>3, <4>3, <4>5, <5>2
      <4> QED BY <4>4, <4>5
    <3>5. WalksTo(e, w, m)
      BY <3>4 DEF WalksTo
    <3> QED BY <3>5
  <2> QED BY <2>4, <2>5
<1>2. PICK v : WalksTo(e, v, n)
  BY <1>1
<1>3. PICK w : w = [k \in 0 .. n |-> v[k]]
  OBVIOUS
<1>4. ASSUME NEW k \in 0 .. n PROVE w[k] = WalkAt(e, w, k)
  <2>1. k = 0 \/ k - 1 \in 0 .. n
    OBVIOUS
  <2>2. k # 0 => w[k - 1] = v[k - 1]
    BY <1>3, <2>1
  <2>3. WalkAt(e, w, k) = WalkAt(e, v, k)
    BY <2>2 DEF WalkAt
  <2>4. v[k] = WalkAt(e, v, k)
    BY <1>2 DEF WalksTo
  <2> QED BY <1>3, <2>3, <2>4
<1>5. w = [k \in 0 .. n |-> w[k]]
  BY <1>3
<1>6. IsWalk(e, n, w)
  BY <1>4, <1>5 DEF IsWalk
<1> QED BY <1>6

(* The highest point of the curve so far, and the deepest fall so far.     *)
Highest(e, k, p) == /\ p \in Int /\ \A j \in 0 .. k : e[j] <= p
                    /\ \E j \in 0 .. k : e[j] = p
Fallen(e, k, d)  == /\ d \in Int
                    /\ \A i, j \in 0 .. k : i <= j => e[i] - e[j] <= d
                    /\ \E i, j \in 0 .. k : i <= j /\ e[i] - e[j] = d

LEMMA HighestNext ==
  ASSUME NEW e, NEW k \in Nat \ {0}, \A j \in 0 .. k : e[j] \in Int, NEW p,
         Highest(e, k - 1, p), NEW q, q = Max({p, e[k]})
  PROVE  Highest(e, k, q)
<1>1. p \in Int /\ e[k] \in Int
  BY DEF Highest
<1>2. q \in {p, e[k]} /\ q >= p /\ q >= e[k] /\ q \in Int
  BY <1>1, MaxOfTwo
<1>3. \A j \in 0 .. k : e[j] <= q
  <2> TAKE j \in 0 .. k
  <2>1. j \in 0 .. (k - 1) \/ j = k
    OBVIOUS
  <2>2. e[j] \in Int
    OBVIOUS
  <2> QED BY <1>1, <1>2, <2>1, <2>2 DEF Highest
<1>4. \E j \in 0 .. k : e[j] = q
  <2>1. CASE q = e[k]
    BY <2>1
  <2>2. CASE q = p
    <3>1. PICK j \in 0 .. (k - 1) : e[j] = p
      BY DEF Highest
    <3> QED BY <2>2, <3>1
  <2> QED BY <1>2, <2>1, <2>2
<1> QED BY <1>2, <1>3, <1>4 DEF Highest

LEMMA FallenNext ==
  ASSUME NEW e, NEW k \in Nat \ {0}, \A j \in 0 .. k : e[j] \in Int, NEW p,
         Highest(e, k, p), NEW d, Fallen(e, k - 1, d), NEW f, f = Max({d, p - e[k]})
  PROVE  Fallen(e, k, f)
<1>1. p \in Int /\ e[k] \in Int /\ d \in Int /\ p - e[k] \in Int
  BY DEF Highest, Fallen
<1>2. f \in {d, p - e[k]} /\ f >= d /\ f >= p - e[k] /\ f \in Int
  BY <1>1, MaxOfTwo
<1>3. ASSUME NEW i \in 0 .. k, NEW j \in 0 .. k, i <= j PROVE e[i] - e[j] <= f
  <2>1. e[i] \in Int /\ e[j] \in Int
    OBVIOUS
  <2>2. CASE j = k
    <3>1. e[i] <= p
      BY DEF Highest
    <3> QED BY <1>1, <1>2, <2>1, <2>2, <3>1
  <2>3. CASE j # k
    <3>1. i \in 0 .. (k - 1) /\ j \in 0 .. (k - 1)
      BY <1>3, <2>3
    <3>2. e[i] - e[j] <= d
      BY <1>3, <3>1 DEF Fallen
    <3> QED BY <1>1, <1>2, <2>1, <3>2
  <2> QED BY <2>2, <2>3
<1>4. \E i, j \in 0 .. k : i <= j /\ e[i] - e[j] = f
  <2>1. CASE f = p - e[k]
    <3>1. PICK i \in 0 .. k : e[i] = p
      BY DEF Highest
    <3> QED BY <2>1, <3>1
  <2>2. CASE f = d
    <3>1. PICK i, j \in 0 .. (k - 1) : i <= j /\ e[i] - e[j] = d
      BY DEF Fallen
    <3> QED BY <2>2, <3>1
  <2> QED BY <1>2, <2>1, <2>2
<1> QED BY <1>2, <1>3, <1>4 DEF Fallen

LEMMA WalkFinds ==
  ASSUME NEW e, NEW n \in Nat, \A k \in 0 .. n : e[k] \in Int, NEW w, IsWalk(e, n, w)
  PROVE  Fallen(e, n, w[n].drawdown)
<1> DEFINE K == {k \in 0 .. n : ~(Highest(e, k, w[k].peak) /\ Fallen(e, k, w[k].drawdown))}
<1>1. \A k \in 0 .. n : w[k] = WalkAt(e, w, k)
  BY DEF IsWalk
<1>2. K = {}
  <2>1. SUFFICES ASSUME K # {} PROVE FALSE
    OBVIOUS
  <2>2. PICK m \in K : IsMin(m, K)
    <3>1. K \subseteq Nat
      OBVIOUS
    <3> HIDE DEF K
    <3> QED BY <2>1, <3>1, LeastNatural
  <2>3. m \in 0 .. n /\ ~(Highest(e, m, w[m].peak) /\ Fallen(e, m, w[m].drawdown))
    OBVIOUS
  <2>4. CASE m = 0
    <3>1. w[0].peak = e[0] /\ w[0].drawdown = 0 /\ e[0] \in Int
      <4>1. w[0] = WalkAt(e, w, 0) /\ e[0] \in Int
        BY <1>1
      <4>2. WalkAt(e, w, 0) = [peak |-> e[0], drawdown |-> 0]
        BY DEF WalkAt
      <4> QED BY <4>1, <4>2
    <3>2. \A j \in 0 .. 0 : j = 0
      OBVIOUS
    <3>3. Highest(e, 0, w[0].peak)
      BY <3>1, <3>2 DEF Highest
    <3>4. Fallen(e, 0, w[0].drawdown)
      <4>1. 0 \in 0 .. 0 /\ e[0] - e[0] = 0
        BY <3>1
      <4> QED BY <3>1, <3>2, <4>1 DEF Fallen
    <3> QED BY <2>3, <2>4, <3>3, <3>4
  <2>5. CASE m # 0
    <3>1. m - 1 \in 0 .. n /\ m \in Nat \ {0}
      BY <2>3, <2>5
    <3>2. m - 1 \notin K
      <4> HIDE DEF K
      <4> QED BY <2>2, <3>1 DEF IsMin
    <3>3. Highest(e, m - 1, w[m - 1].peak) /\ Fallen(e, m - 1, w[m - 1].drawdown)
      BY <3>1, <3>2
    <3>4. PICK q : q = Max({w[m - 1].peak, e[m]})
      OBVIOUS
    <3>5. w[m].peak = q /\ w[m].drawdown = Max({w[m - 1].drawdown, q - e[m]})
      <4>1. w[m] = WalkAt(e, w, m)
        BY <1>1, <2>3
      <4>2. WalkAt(e, w, m) = [peak |-> q, drawdown |-> Max({w[m - 1].drawdown, q - e[m]})]
        BY <2>5, <3>4 DEF WalkAt
      <4> QED BY <4>1, <4>2
    <3>6. \A j \in 0 .. m : e[j] \in Int
      BY <2>3
    <3>7. Highest(e, m, w[m].peak)
      BY <3>1, <3>3, <3>4, <3>5, <3>6, HighestNext
    <3>8. Fallen(e, m, w[m].drawdown)
      BY <3>1, <3>3, <3>5, <3>6, <3>7, FallenNext
    <3> QED BY <2>3, <3>7, <3>8
  <2> QED BY <2>4, <2>5
<1>3. n \in 0 .. n
  OBVIOUS
<1> QED BY <1>2, <1>3

-----------------------------------------------------------------------------
(* The curve: every booked trade once, in the order of the exits.          *)

NotAfter(t, i, j) ==
  t[i].day < t[j].day \/ (t[i].day = t[j].day /\ t[i].exitTod <= t[j].exitTod)

InTurn(t, c) == \A j, k \in DOMAIN c : j < k => NotAfter(t, c[j], c[k])

(* c is a list of all of B, each once, in order.                           *)
CurveOf(t, B, c) ==
  /\ c \in Seq(DOMAIN t) /\ ToSet(c) = B /\ Len(c) = Cardinality(B) /\ InTurn(t, c)

CurveInv == CurveOf(trades, (DOMAIN trades) \ open, curve)

LEMMA ByExitIs ==
  ASSUME TypeInv, WalkInv, NEW S \in SUBSET open, NEW q, q = ByExit(S)
  PROVE  CurveOf(trades, S, q)
<1>1. /\ trades \in Seq(Trade) /\ open \subseteq DOMAIN trades
      /\ DOMAIN trades \subseteq Nat /\ IsFiniteSet(S)
  <2>1. trades \in Seq(Trade) /\ open \subseteq DOMAIN trades
    BY DEF TypeInv
  <2>2. DOMAIN trades = 1 .. Len(trades) /\ IsFiniteSet(DOMAIN trades)
    BY <2>1, TradesAre
  <2> QED BY <2>1, <2>2, FS_Subset
<1>2. \A i \in S : i \in Nat /\ trades[i].exitTod \in Nat /\ trades[i].day = day
  BY <1>1, TradesAre DEF WalkInv
<1> DEFINE R == {x \in S \X S : Sooner(x[1], x[2])}
<1>3. \A i, j \in S : <<i, j>> \in R <=> Sooner(i, j)
  OBVIOUS
<1> HIDE DEF R
<1>4. Orders(R, S)
  <2>1. \A i, j \in S : i # j => Sooner(i, j) \/ Sooner(j, i)
    BY <1>2 DEF Sooner
  <2>2. \A i, j, k \in S : Sooner(i, j) /\ Sooner(j, k) => Sooner(i, k)
    BY <1>2 DEF Sooner
  <2>3. \A i \in S : ~Sooner(i, i)
    BY <1>2 DEF Sooner
  <2> QED BY <1>3, <2>1, <2>2, <2>3 DEF Orders
<1>5. \E c \in SetToSeqs(S) : \A j, k \in DOMAIN c : j < k => Sooner(c[j], c[k])
  <2>1. PICK c \in SetToSeqs(S) : InOrderOf(R, c)
    BY <1>1, <1>4, InOrderExists
  <2>2. c \in [1 .. Cardinality(S) -> S]
    BY <1>1, SeqOfAll
  <2>3. \A j \in DOMAIN c : c[j] \in S
    BY <2>2
  <2> QED BY <1>3, <2>1, <2>3 DEF InOrderOf
<1>6. q \in SetToSeqs(S) /\ \A j, k \in DOMAIN q : j < k => Sooner(q[j], q[k])
  BY <1>5 DEF ByExit
<1>7. q \in [1 .. Cardinality(S) -> S] /\ q \in Seq(S) /\ Len(q) = Cardinality(S) /\ ToSet(q) = S
  BY <1>1, <1>6, SeqOfAll
<1>8. q \in Seq(DOMAIN trades)
  <2>1. S \subseteq DOMAIN trades
    BY <1>1
  <2> QED BY <1>7, <2>1
<1>9. InTurn(trades, q)
  <2>1. \A j \in DOMAIN q : q[j] \in S
    BY <1>7
  <2>2. \A i, j \in S : Sooner(i, j) => NotAfter(trades, i, j)
    BY <1>2 DEF Sooner, NotAfter
  <2> QED BY <1>6, <2>1, <2>2 DEF InTurn
<1> QED BY <1>7, <1>8, <1>9 DEF CurveOf

(* One list after another, when nothing of the second goes before.         *)
LEMMA CurvesJoin ==
  ASSUME NEW t \in Seq(Trade), NEW A, NEW C, A \cap C = {}, IsFiniteSet(A), IsFiniteSet(C),
         NEW c, CurveOf(t, A, c), NEW q, CurveOf(t, C, q),
         \A i \in A : \A j \in C : NotAfter(t, i, j)
  PROVE  CurveOf(t, A \cup C, c \o q)
<1>1. /\ c \in Seq(DOMAIN t) /\ ToSet(c) = A /\ Len(c) = Cardinality(A) /\ InTurn(t, c)
      /\ q \in Seq(DOMAIN t) /\ ToSet(q) = C /\ Len(q) = Cardinality(C) /\ InTurn(t, q)
  BY DEF CurveOf
<1>2. PICK m \in Nat, n \in Nat : m = Len(c) /\ n = Len(q)
  BY <1>1
<1>3. PICK d : d = c \o q
  OBVIOUS
<1>4. /\ d \in Seq(DOMAIN t) /\ Len(d) = m + n /\ DOMAIN d = 1 .. (m + n)
      /\ DOMAIN c = 1 .. m /\ DOMAIN q = 1 .. n
      /\ \A j \in 1 .. m : d[j] = c[j]
      /\ \A j \in 1 .. n : d[m + j] = q[j]
  <2>1. d \in Seq(DOMAIN t) /\ Len(d) = m + n
    BY <1>1, <1>2, <1>3
  <2>2. DOMAIN d = 1 .. (m + n) /\ DOMAIN c = 1 .. m /\ DOMAIN q = 1 .. n
    BY <1>1, <1>2, <2>1
  <2>3. \A k \in 1 .. (m + n) : d[k] = IF k <= m THEN c[k] ELSE q[k - m]
    BY <1>1, <1>2, <1>3
  <2>4. \A j \in 1 .. m : d[j] = c[j]
    BY <2>3
  <2>5. ASSUME NEW j \in 1 .. n PROVE d[m + j] = q[j]
    <3>1. m + j \in 1 .. (m + n) /\ ~(m + j <= m) /\ (m + j) - m = j
      OBVIOUS
    <3> QED BY <2>3, <3>1
  <2> QED BY <2>1, <2>2, <2>4, <2>5
<1>5. \A k \in (m + 1) .. (m + n) : k - m \in 1 .. n /\ d[k] = q[k - m]
  <2> TAKE k \in (m + 1) .. (m + n)
  <2>1. k - m \in 1 .. n /\ m + (k - m) = k
    OBVIOUS
  <2> QED BY <1>4, <2>1
<1>6. \A k \in 1 .. (m + n) : k \in 1 .. m \/ k \in (m + 1) .. (m + n)
  OBVIOUS
<1>a. /\ \A j \in 1 .. m : c[j] \in A
      /\ \A j \in 1 .. n : q[j] \in C
      /\ \A i \in A : \E j \in 1 .. m : c[j] = i
      /\ \A i \in C : \E j \in 1 .. n : q[j] = i
  BY <1>1, <1>4 DEF ToSet
<1>7. ToSet(d) = A \cup C
  <2>1. ASSUME NEW k \in 1 .. (m + n) PROVE d[k] \in A \cup C
    BY <1>4, <1>5, <1>6, <1>a
  <2>2. ASSUME NEW i \in A PROVE \E k \in 1 .. (m + n) : d[k] = i
    <3>1. PICK j \in 1 .. m : c[j] = i
      BY <1>a
    <3> QED BY <1>4, <3>1
  <2>3. ASSUME NEW i \in C PROVE \E k \in 1 .. (m + n) : d[k] = i
    <3>1. PICK j \in 1 .. n : q[j] = i
      BY <1>a
    <3>2. m + j \in 1 .. (m + n) /\ d[m + j] = i
      BY <1>4, <3>1
    <3> QED BY <3>2
  <2>4. ToSet(d) = {d[k] : k \in 1 .. (m + n)}
    BY <1>4 DEF ToSet
  <2> QED BY <2>1, <2>2, <2>3, <2>4
<1>8. Cardinality(A \cup C) = m + n
  <2>1. Cardinality(A \cup C)
          = Cardinality(A) + Cardinality(C) - Cardinality(A \cap C)
    BY FS_Union
  <2>2. Cardinality(A \cap C) = 0
    BY FS_EmptySet, Zenon
  <2> QED BY <1>1, <1>2, <2>1, <2>2
<1>9. ASSUME NEW j \in 1 .. (m + n), NEW k \in 1 .. (m + n), j < k
      PROVE  NotAfter(t, d[j], d[k])
  <2>1. CASE j \in 1 .. m /\ k \in 1 .. m
    <3>1. NotAfter(t, c[j], c[k])
      BY <1>1, <1>4, <1>9, <2>1 DEF InTurn
    <3> QED BY <1>4, <2>1, <3>1
  <2>2. CASE j \in 1 .. m /\ k \in (m + 1) .. (m + n)
    <3>1. d[j] \in A /\ d[k] \in C
      BY <1>4, <1>5, <1>a, <2>2
    <3> QED BY <3>1
  <2>3. CASE j \in (m + 1) .. (m + n)
    <3>1. k \in (m + 1) .. (m + n)
      BY <1>9, <2>3
    <3>2. j - m \in 1 .. n /\ k - m \in 1 .. n /\ j - m < k - m
          /\ d[j] = q[j - m] /\ d[k] = q[k - m]
      BY <1>5, <1>9, <2>3, <3>1
    <3>3. NotAfter(t, q[j - m], q[k - m])
      BY <1>1, <1>4, <3>2 DEF InTurn
    <3> QED BY <3>2, <3>3
  <2> QED BY <1>6, <2>1, <2>2, <2>3
<1>10. InTurn(t, d)
  BY <1>4, <1>9 DEF InTurn
<1> QED BY <1>3, <1>4, <1>7, <1>8, <1>10 DEF CurveOf

(* The curve after a booking.                                              *)
LEMMA BookAdds ==
  ASSUME TypeInv, WalkInv, CurveInv, NEW S \in SUBSET open, NEW n, Book(S, n)
  PROVE  CurveOf(trades, ((DOMAIN trades) \ open) \cup S, curve')
<1>1. trades \in Seq(Trade) /\ open \subseteq DOMAIN trades
  BY DEF TypeInv
<1>2. PICK A : A = (DOMAIN trades) \ open
  OBVIOUS
<1>3. A \cap S = {} /\ IsFiniteSet(A) /\ IsFiniteSet(S)
  BY <1>1, <1>2, TradesAre, FS_Subset
<1>4. PICK q : q = ByExit(S)
  OBVIOUS
<1>5. CurveOf(trades, A, curve) /\ CurveOf(trades, S, q)
  BY <1>2, <1>4, ByExitIs DEF CurveInv
<1>6. \A i \in A : \A j \in S : NotAfter(trades, i, j)
  <2>1. /\ \A i \in A : /\ i \in DOMAIN trades /\ trades[i].day <= day
                        /\ trades[i].day = day => trades[i].exitTod <= now
        /\ \A j \in S : trades[j].day = day /\ trades[j].exitTod > now
    BY <1>1, <1>2 DEF WalkInv
  <2>2. \A i \in DOMAIN trades : trades[i].day \in Nat /\ trades[i].exitTod \in Nat
    BY <1>1, TradesAre
  <2>3. now \in Nat /\ day \in Nat
    <3>1. 0 \in Nat /\ Tods \subseteq Nat /\ now \in Tods \cup {0}
      BY Prices DEF TypeInv
    <3>2. now \in Nat
      BY <3>1, Zenon
    <3> QED BY <3>2, Naturals DEF TypeInv
  <2> QED BY <1>1, <2>1, <2>2, <2>3 DEF NotAfter
<1>7. CurveOf(trades, A \cup S, curve \o q)
  BY <1>1, <1>3, <1>5, <1>6, CurvesJoin
<1>8. curve' = curve \o q
  BY <1>4 DEF Book
<1> QED BY <1>2, <1>7, <1>8, Zenon

(* ... and with one more trade in the list, that is not in it.             *)
LEMMA CurveStays ==
  ASSUME NEW t, NEW x, NEW u, Extends(t, x, u), NEW B, NEW c, CurveOf(t, B, c)
  PROVE  CurveOf(u, B, c)
<1>1. /\ c \in Seq(DOMAIN t) /\ ToSet(c) = B /\ Len(c) = Cardinality(B) /\ InTurn(t, c)
  BY DEF CurveOf
<1>2. Longer(t, x, u)
  BY ListGrows
<1>3. DOMAIN t \subseteq DOMAIN u /\ \A i \in DOMAIN t : u[i] = t[i]
  BY <1>2 DEF Longer
<1>4. c \in Seq(DOMAIN u)
  BY <1>1, <1>3
<1>5. \A j \in DOMAIN c : c[j] \in DOMAIN t
  BY <1>1
<1>6. InTurn(u, c)
  <2>1. \A i, j \in DOMAIN t : NotAfter(t, i, j) => NotAfter(u, i, j)
    BY <1>3 DEF NotAfter
  <2> QED BY <1>1, <1>5, <2>1 DEF InTurn
<1> QED BY <1>1, <1>4, <1>6 DEF CurveOf

(* What is booked after a turn of the walk.                                *)
LEMMA BookedThen ==
  ASSUME TypeInv, WalkInv, SumInv, NEW p \in Pot, day <= MaxDay, Propose(p),
         NEW due, due = Due(p.tod)
  PROVE  /\ due \in SUBSET open
         /\ (DOMAIN trades') \ open' = ((DOMAIN trades) \ open) \cup due
         /\ trades' = trades \/ \E x : Extends(trades, x, trades')
<1>1. open \subseteq DOMAIN trades
  BY DEF TypeInv
<1>2. PICK b : b = Booked(due)
  OBVIOUS
<1>3. /\ due \in SUBSET open
      /\ \/ trades' = trades /\ open' = open \ due
         \/ \E x : Taken(x, p, due, b)
  BY <1>2, ProposeIs
<1>4. CASE trades' = trades /\ open' = open \ due
  BY <1>1, <1>3, <1>4
<1>5. ASSUME NEW x, Taken(x, p, due, b)
      PROVE  /\ (DOMAIN trades') \ open' = ((DOMAIN trades) \ open) \cup due
             /\ Extends(trades, x, trades')
  <2>1. Extends(trades, x, trades') /\ open' = (open \ due) \cup {Len(trades')}
    BY <1>5 DEF Taken
  <2>2. Longer(trades, x, trades')
    BY <2>1, ListGrows
  <2>3. PICK n : /\ n = Len(trades') /\ DOMAIN trades' = (DOMAIN trades) \cup {n}
                 /\ n \notin DOMAIN trades /\ open' = (open \ due) \cup {n}
    BY <2>1, <2>2 DEF Longer
  <2> QED BY <1>1, <1>3, <2>1, <2>3
<1> QED BY <1>3, <1>4, <1>5

LEMMA CurveInit == Init => CurveInv
<1> SUFFICES ASSUME Init PROVE CurveInv
  OBVIOUS
<1>1. curve = <<>> /\ trades = <<>> /\ open = {}
  BY DEF Init
<1>2. (DOMAIN trades) \ open = {} /\ curve \in Seq(DOMAIN trades) /\ ToSet(curve) = {}
      /\ Len(curve) = 0 /\ DOMAIN curve = {}
  BY <1>1 DEF ToSet
<1>3. Cardinality({}) = 0
  BY FS_EmptySet
<1> QED BY <1>2, <1>3 DEF CurveInv, CurveOf, InTurn

LEMMA CurveStep ==
  TypeInv /\ WalkInv /\ SumInv /\ CurveInv /\ [Next]_vars => CurveInv'
<1> SUFFICES ASSUME TypeInv, WalkInv, SumInv, CurveInv, [Next]_vars PROVE CurveInv'
  OBVIOUS
<1>1. ASSUME day <= MaxDay, NEW p \in Pot, Propose(p) PROVE CurveInv'
  <2>1. PICK due : due = Due(p.tod)
    OBVIOUS
  <2>2. /\ due \in SUBSET open
        /\ (DOMAIN trades') \ open' = ((DOMAIN trades) \ open) \cup due
        /\ trades' = trades \/ \E x : Extends(trades, x, trades')
    BY <1>1, <2>1, BookedThen
  <2>3. PICK n : Book(due, n)
    BY <1>1, <2>1 DEF Propose
  <2>4. CurveOf(trades, ((DOMAIN trades) \ open) \cup due, curve')
    BY <2>2, <2>3, BookAdds
  <2>5. PICK u, c, B : /\ u = trades' /\ c = curve' /\ B = (DOMAIN trades') \ open'
    OBVIOUS
  <2>6. CurveOf(trades, B, c)
    BY <2>2, <2>4, <2>5, Zenon
  <2>7. CurveOf(u, B, c)
    <3>1. CASE trades' = trades
      BY <2>5, <2>6, <3>1, Zenon
    <3>2. ASSUME NEW x, Extends(trades, x, trades') PROVE CurveOf(u, B, c)
      <4>1. Extends(trades, x, u)
        BY <2>5, <3>2, Zenon
      <4> QED BY <2>6, <4>1, CurveStays
    <3> QED BY <2>2, <3>1, <3>2
  <2> QED BY <2>5, <2>7, Zenon DEF CurveInv
<1>2. CASE EndOfDay
  <2>1. Book(open, 0) /\ open' = {} /\ trades' = trades
    BY <1>2 DEF EndOfDay
  <2>2. CurveOf(trades, ((DOMAIN trades) \ open) \cup open, curve')
    BY <2>1, BookAdds
  <2>3. (DOMAIN trades') \ open' = ((DOMAIN trades) \ open) \cup open
    BY <2>1 DEF TypeInv
  <2> QED BY <2>1, <2>2, <2>3, Zenon DEF CurveInv
<1>3. CASE UNCHANGED vars
  <2>1. curve' = curve /\ trades' = trades /\ open' = open
    BY <1>3 DEF vars, bookVars
  <2> QED BY <2>1 DEF CurveInv
<1> QED BY <1>1, <1>2, <1>3 DEF Next

-----------------------------------------------------------------------------
(* The legs' attributions add up to what the booked trades made.           *)

OfLegs(t, S, G) == {i \in S : t[i].leg \in G}
OfLeg(t, S, g)  == {i \in S : t[i].leg = g}

PnlByLeg(t, S) == [g \in Legs |-> PnlIn(t, OfLeg(t, S, g))]

LegInv == Sum(legPnl, Legs) = PnlIn(trades, (DOMAIN trades) \ open)

LEMMA LegsShare ==
  ASSUME NEW t \in Seq(Trade), NEW S \in SUBSET DOMAIN t
  PROVE  Summable(PnlByLeg(t, S), Legs) /\ Sum(PnlByLeg(t, S), Legs) = PnlIn(t, S)
<1>1. PICK f : f = PnlByLeg(t, S)
  OBVIOUS
<1>2. \A g \in Legs : f[g] = PnlIn(t, OfLeg(t, S, g)) /\ f[g] \in Int
  <2> TAKE g \in Legs
  <2>1. OfLeg(t, S, g) \in SUBSET DOMAIN t
    BY DEF OfLeg
  <2> QED BY <1>1, <2>1, PnlIs DEF PnlByLeg
<1>3. Summable(f, Legs)
  BY <1>2, Naturals DEF Summable
<1> DEFINE h == [G \in SUBSET Legs |-> PnlIn(t, OfLegs(t, S, G))]
<1>4. \A G \in SUBSET Legs : h[G] = PnlIn(t, OfLegs(t, S, G))
  OBVIOUS
<1> HIDE DEF h
<1>5. ASSUME NEW G \in SUBSET Legs, NEW g \in G PROVE h[G] = f[g] + h[G \ {g}]
  <2>1. PICK A, C, D : /\ A = OfLeg(t, S, g) /\ C = OfLegs(t, S, G \ {g})
                       /\ D = OfLegs(t, S, G)
    OBVIOUS
  <2>2. A \in SUBSET DOMAIN t /\ C \in SUBSET DOMAIN t /\ A \cap C = {} /\ D = A \cup C
    BY <2>1 DEF OfLeg, OfLegs
  <2>3. PnlIn(t, D) = PnlIn(t, A) + PnlIn(t, C)
    BY <2>2, PnlSplits
  <2>4. h[G] = PnlIn(t, D) /\ h[G \ {g}] = PnlIn(t, C) /\ f[g] = PnlIn(t, A)
    BY <1>2, <1>4, <2>1
  <2> QED BY <2>3, <2>4
<1>6. h[{}] = 0
  <2>1. OfLegs(t, S, {}) = {}
    BY DEF OfLegs
  <2>2. PnlIn(t, OfLegs(t, S, {})) = 0
    BY <2>1, PnlNone, Zenon
  <2> QED BY <1>4, <2>2
<1>7. h[Legs] = PnlIn(t, S)
  <2>1. OfLegs(t, S, Legs) = S
    BY TradesAre DEF OfLegs
  <2>2. PnlIn(t, OfLegs(t, S, Legs)) = PnlIn(t, S)
    BY <2>1, Zenon
  <2> QED BY <1>4, <2>2
<1>8. Grows(f, Legs, h)
  BY <1>5, <1>6 DEF Grows
<1>9. h[Legs] = Sum(f, Legs)
  BY <1>3, <1>8, SumIsThe
<1> QED BY <1>1, <1>3, <1>7, <1>9

LEMMA BookShares ==
  ASSUME TypeInv, LegInv, NEW S \in SUBSET open, NEW n, Book(S, n)
  PROVE  Sum(legPnl', Legs) = PnlIn(trades, ((DOMAIN trades) \ open) \cup S)
<1>1. trades \in Seq(Trade) /\ open \subseteq DOMAIN trades /\ legPnl \in [Legs -> Int]
  BY DEF TypeInv
<1>2. S \in SUBSET DOMAIN trades
  BY <1>1
<1>3. PICK h : h = PnlByLeg(trades, S)
  OBVIOUS
<1>4. Summable(h, Legs) /\ Sum(h, Legs) = PnlIn(trades, S)
  BY <1>1, <1>2, <1>3, LegsShare
<1>5. Summable(legPnl, Legs)
  BY <1>1, Naturals DEF Summable
<1>6. PICK e : e = legPnl'
  OBVIOUS
<1>7. \A g \in Legs : e[g] = legPnl[g] + h[g]
  <2> TAKE g \in Legs
  <2>1. e[g] = legPnl[g] + Pnl({i \in S : trades[i].leg = g})
    BY <1>6 DEF Book
  <2>2. h[g] = PnlIn(trades, {i \in S : trades[i].leg = g})
    BY <1>3 DEF PnlByLeg, OfLeg
  <2>3. Pnl({i \in S : trades[i].leg = g}) = PnlIn(trades, {i \in S : trades[i].leg = g})
    BY DEF Pnl, PnlIn
  <2> QED BY <2>1, <2>2, <2>3, Zenon
<1>8. Sum(e, Legs) = Sum(legPnl, Legs) + Sum(h, Legs)
  BY <1>4, <1>5, <1>7, SumAdds
<1>9. PnlIn(trades, ((DOMAIN trades) \ open) \cup S)
        = PnlIn(trades, (DOMAIN trades) \ open) + PnlIn(trades, S)
  <2>1. PICK A : A = (DOMAIN trades) \ open
    OBVIOUS
  <2>2. A \in SUBSET DOMAIN trades /\ A \cap S = {}
    BY <2>1
  <2>3. PnlIn(trades, A \cup S) = PnlIn(trades, A) + PnlIn(trades, S)
    BY <1>1, <1>2, <2>2, PnlSplits
  <2> QED BY <2>1, <2>3
<1> QED BY <1>4, <1>6, <1>8, <1>9 DEF LegInv

LEMMA LegInit == Init => LegInv
<1> SUFFICES ASSUME Init PROVE LegInv
  OBVIOUS
<1>1. legPnl = [g \in Legs |-> 0] /\ (DOMAIN trades) \ open = {}
  BY DEF Init
<1>2. PnlIn(trades, (DOMAIN trades) \ open) = 0
  BY <1>1, PnlNone, Zenon
<1>3. PICK h : h = [G \in SUBSET Legs |-> 0]
  OBVIOUS
<1>4. Grows(legPnl, Legs, h) /\ h[Legs] = 0
  BY <1>1, <1>3 DEF Grows
<1>5. Summable(legPnl, Legs)
  BY <1>1, Naturals DEF Summable
<1>6. Sum(legPnl, Legs) = 0
  BY <1>4, <1>5, SumIsThe
<1> QED BY <1>2, <1>6 DEF LegInv

LEMMA LegStep ==
  TypeInv /\ WalkInv /\ SumInv /\ LegInv /\ [Next]_vars => LegInv'
<1> SUFFICES ASSUME TypeInv, WalkInv, SumInv, LegInv, [Next]_vars PROVE LegInv'
  OBVIOUS
<1>1. ASSUME day <= MaxDay, NEW p \in Pot, Propose(p) PROVE LegInv'
  <2>1. PICK due : due = Due(p.tod)
    OBVIOUS
  <2>2. /\ due \in SUBSET open
        /\ (DOMAIN trades') \ open' = ((DOMAIN trades) \ open) \cup due
        /\ trades' = trades \/ \E x : Extends(trades, x, trades')
    BY <1>1, <2>1, BookedThen
  <2>3. PICK n : Book(due, n)
    BY <1>1, <2>1 DEF Propose
  <2>4. Sum(legPnl', Legs) = PnlIn(trades, ((DOMAIN trades) \ open) \cup due)
    BY <2>2, <2>3, BookShares
  <2>5. PICK B : B = ((DOMAIN trades) \ open) \cup due
    OBVIOUS
  <2>6. B \in SUBSET DOMAIN trades
    BY <2>2, <2>5 DEF TypeInv
  <2>7. PnlIn(trades', B) = PnlIn(trades, B)
    <3>1. CASE trades' = trades
      BY <3>1
    <3>2. ASSUME NEW x, Extends(trades, x, trades')
          PROVE  PnlIn(trades', B) = PnlIn(trades, B)
      BY <2>6, <3>2, PnlStays
    <3> QED BY <2>2, <3>1, <3>2
  <2>8. Sum(legPnl', Legs) = PnlIn(trades', (DOMAIN trades') \ open')
    BY <2>2, <2>4, <2>5, <2>7, Zenon
  <2> QED BY <2>8 DEF LegInv
<1>2. CASE EndOfDay
  <2>1. Book(open, 0) /\ open' = {} /\ trades' = trades
    BY <1>2 DEF EndOfDay
  <2>2. Sum(legPnl', Legs) = PnlIn(trades, ((DOMAIN trades) \ open) \cup open)
    BY <2>1, BookShares
  <2>3. (DOMAIN trades') \ open' = ((DOMAIN trades) \ open) \cup open
    BY <2>1 DEF TypeInv
  <2>4. Sum(legPnl', Legs) = PnlIn(trades', (DOMAIN trades') \ open')
    BY <2>1, <2>2, <2>3, Zenon
  <2> QED BY <2>4 DEF LegInv
<1>3. CASE UNCHANGED vars
  <2>1. legPnl' = legPnl /\ trades' = trades /\ open' = open
    BY <1>3 DEF vars, bookVars
  <2> QED BY <2>1 DEF LegInv
<1> QED BY <1>1, <1>2, <1>3 DEF Next

-----------------------------------------------------------------------------
(* The months with a trade, in order: all of them.                         *)

MonthsOf(t)    == {Month(t[i].day) : i \in DOMAIN t}
InMonth(t, m)  == {i \in DOMAIN t : Month(t[i].day) = m}
Ascending(q)   == \A j, k \in DOMAIN q : j < k => q[j] < q[k]
Months(t)      == CHOOSE q \in SetToSeqs(MonthsOf(t)) : Ascending(q)
UpToMonth(t, q, k) == UNION {InMonth(t, q[j]) : j \in 1 .. k}

LEMMA MonthsAre ==
  ASSUME TypeInv, WalkInv, NEW q, q = Months(trades), NEW n, n = Len(q)
  PROVE  /\ n \in Nat /\ DOMAIN q = 1 .. n
         /\ \A i \in DOMAIN trades : \E k \in 1 .. n : q[k] = Month(trades[i].day)
<1>1. trades \in Seq(Trade) /\ day \in Nat
  BY Naturals DEF TypeInv
<1>2. PICK M : M = MonthsOf(trades)
  OBVIOUS
<1>3. M \subseteq Nat /\ \A m \in M : m <= day
  <2>1. ASSUME NEW i \in DOMAIN trades
        PROVE  Month(trades[i].day) \in Nat /\ Month(trades[i].day) <= day
    <3>1. PICK d \in Nat : d = trades[i].day /\ d <= day
      BY <1>1, TradesAre DEF WalkInv
    <3>2. PICK k \in Nat \ {0} : k = DaysPerMonth
      BY PortfolioAssumption
    <3>3. d \div k \in Nat /\ d \div k <= d
      OBVIOUS
    <3> QED BY <1>1, <3>1, <3>2, <3>3 DEF Month
  <2> QED BY <1>2, <2>1 DEF MonthsOf
<1>4. IsFiniteSet(M)
  BY <1>1, <1>3, FS_BoundedSetOfNaturals
<1> DEFINE R == {x \in M \X M : x[1] < x[2]}
<1>5. \A i, j \in M : <<i, j>> \in R <=> i < j
  OBVIOUS
<1> HIDE DEF R
<1>6. Orders(R, M)
  <2>1. /\ \A i, j \in M : i # j => i < j \/ j < i
        /\ \A i, j, k \in M : i < j /\ j < k => i < k
        /\ \A i \in M : ~(i < i)
    BY <1>3
  <2> QED BY <1>5, <2>1 DEF Orders
<1>7. \E c \in SetToSeqs(M) : Ascending(c)
  <2>1. PICK c \in SetToSeqs(M) : InOrderOf(R, c)
    BY <1>4, <1>6, InOrderExists
  <2>2. c \in [1 .. Cardinality(M) -> M]
    BY <1>4, SeqOfAll
  <2>3. \A j \in DOMAIN c : c[j] \in M
    BY <2>2
  <2> QED BY <1>5, <2>1, <2>3 DEF InOrderOf, Ascending
<1>8. q \in SetToSeqs(M)
  BY <1>2, <1>7 DEF Months
<1>9. q \in Seq(M) /\ ToSet(q) = M
  BY <1>4, <1>8, SeqOfAll
<1>10. n \in Nat /\ DOMAIN q = 1 .. n
  BY <1>9
<1>11. ASSUME NEW i \in DOMAIN trades
       PROVE  \E k \in 1 .. n : q[k] = Month(trades[i].day)
  <2>1. Month(trades[i].day) \in ToSet(q)
    BY <1>2, <1>9 DEF MonthsOf
  <2> QED BY <1>10, <2>1 DEF ToSet
<1> QED BY <1>10, <1>11

MonthRow(t, k) ==
  [pnl |-> PnlIn(t, InMonth(t, Months(t)[k])), cum |-> PnlIn(t, UpToMonth(t, Months(t), k))]

LEMMA MonthlyIs == Monthly = [k \in DOMAIN Months(trades) |-> MonthRow(trades, k)]
BY Zenon DEF Monthly, Months, MonthsOf, Ascending, InMonth, UpToMonth, MonthRow, Pnl, PnlIn

LEMMA MonthlyEnds ==
  ASSUME TypeInv, WalkInv, trades # <<>>
  PROVE  Monthly[Len(Monthly)].cum = PnlIn(trades, DOMAIN trades)
<1>1. PICK q : q = Months(trades)
  OBVIOUS
<1>2. PICK n : n = Len(q)
  OBVIOUS
<1>3. /\ n \in Nat /\ DOMAIN q = 1 .. n
      /\ \A i \in DOMAIN trades : \E k \in 1 .. n : q[k] = Month(trades[i].day)
  BY <1>1, <1>2, MonthsAre
<1>4. PICK r : r = [k \in 1 .. n |-> MonthRow(trades, k)]
  OBVIOUS
<1>5. Monthly = r
  <2>1. DOMAIN Months(trades) = 1 .. n
    BY <1>1, <1>3
  <2> QED BY <1>4, <2>1, MonthlyIs
<1>6. Len(r) = n
  BY <1>3, <1>4
<1>7. 1 \in DOMAIN trades
  <2>1. trades \in Seq(Trade)
    BY DEF TypeInv
  <2> QED BY <2>1
<1>8. n \in 1 .. n
  BY <1>3, <1>7
<1>9. r[n].cum = PnlIn(trades, UpToMonth(trades, q, n))
  BY <1>1, <1>4, <1>8 DEF MonthRow
<1>10. UpToMonth(trades, q, n) = DOMAIN trades
  BY <1>3 DEF UpToMonth, InMonth
<1> QED BY <1>5, <1>6, <1>9, <1>10, Zenon

-----------------------------------------------------------------------------
(* Accounts.                                                               *)

LEMMA DrawdownIs ==
  ASSUME TypeInv, CurveInv
  PROVE  Deepest(Metrics.drawdown)
<1>1. trades \in Seq(Trade) /\ curve \in Seq(DOMAIN trades)
  BY DEF TypeInv, CurveInv, CurveOf
<1>2. PICK n \in Nat : n = Len(curve) /\ DOMAIN curve = 1 .. n
  BY <1>1
<1>3. PICK e : e = EquityCurve
  OBVIOUS
<1>4. ASSUME NEW k \in 0 .. n PROVE e[k] \in Int
  <2>1. PICK S : S = {curve[j] : j \in 1 .. k}
    OBVIOUS
  <2>2. S \in SUBSET DOMAIN trades
    BY <1>1, <1>2, <2>1
  <2>3. PnlIn(trades, S) \in Int
    BY <1>1, <2>2, PnlIs
  <2>4. e[k] = Equity + PnlIn(trades, S)
    BY <1>2, <1>3, <2>1 DEF EquityCurve, Pnl, PnlIn
  <2> QED BY <2>3, <2>4, Naturals
<1>5. PICK w : w = Walk
  OBVIOUS
<1>6. IsWalk(e, n, w)
  <2>1. w = CHOOSE v : IsWalk(e, n, v)
    BY <1>2, <1>3, <1>5, WalkIs
  <2> QED BY <2>1, WalkExists
<1>7. Fallen(e, n, w[n].drawdown)
  BY <1>4, <1>6, WalkFinds
<1>8. Metrics.drawdown = w[n].drawdown
  BY <1>2, <1>5 DEF Metrics
<1> QED BY <1>2, <1>3, <1>7, <1>8 DEF Deepest, Fallen

AccountInv == WalkedInv /\ CurveInv /\ LegInv

LEMMA AccountsAre == AccountInv => Accounts
<1> SUFFICES ASSUME AccountInv PROVE Accounts
  OBVIOUS
<1>1. TypeInv /\ WalkInv /\ SumInv /\ CurveInv /\ LegInv
  BY DEF AccountInv, WalkedInv
<1>2. /\ trades \in Seq(Trade) /\ open \subseteq DOMAIN trades /\ equity \in Int
      /\ legPnl \in [Legs -> Int]
  BY <1>1 DEF TypeInv
<1>3. PICK B : B = (DOMAIN trades) \ open
  OBVIOUS
<1>4. /\ curve \in Seq(DOMAIN trades) /\ ToSet(curve) = B /\ Len(curve) = Cardinality(B)
      /\ InTurn(trades, curve)
  BY <1>1, <1>3 DEF CurveInv, CurveOf
<1>5. TypeOK
  <2>1. \A i \in DOMAIN trades : trades[i].notional > 0
    BY <1>2, TradesAre
  <2> QED BY <1>1, <1>4, <2>1 DEF TypeInv, TypeOK
<1>6. \A S : Pnl(S) = PnlIn(trades, S)
  BY DEF Pnl, PnlIn
<1>7. equity = Equity + Pnl(B) /\ live = IF compound THEN equity ELSE Equity
  <2>1. equity = Equity + PnlIn(trades, B)
    BY <1>1, <1>3 DEF SumInv
  <2> QED BY <1>1, <1>6, <2>1 DEF SumInv
<1>8. equity = Equity + SumFunction(legPnl)
  <2>1. SumFunction(legPnl) = Sum(legPnl, Legs)
    BY <1>2 DEF SumFunction, Sum
  <2>2. Sum(legPnl, Legs) = PnlIn(trades, B)
    BY <1>1, <1>3 DEF LegInv
  <2> QED BY <1>6, <1>7, <2>1, <2>2
<1>9. \A j, k \in DOMAIN curve :
        j < k => \/ trades[curve[j]].day < trades[curve[k]].day
                 \/ /\ trades[curve[j]].day = trades[curve[k]].day
                    /\ trades[curve[j]].exitTod <= trades[curve[k]].exitTod
  BY <1>4 DEF InTurn, NotAfter
<1>10. ASSUME open = {}, trades # <<>>
       PROVE  /\ Metrics.total = equity - Equity
              /\ Monthly[Len(Monthly)].cum = equity - Equity
              /\ Deepest(Metrics.drawdown)
  <2>1. B = DOMAIN trades
    BY <1>3, <1>10
  <2>2. PnlIn(trades, DOMAIN trades) \in Int
    BY <1>2, PnlIs
  <2>3. equity - Equity = PnlIn(trades, DOMAIN trades)
    BY <1>6, <1>7, <2>1, <2>2, Naturals
  <2>4. Metrics.total = PnlIn(trades, DOMAIN trades)
    BY DEF Metrics, Pnl, PnlIn
  <2>5. Monthly[Len(Monthly)].cum = PnlIn(trades, DOMAIN trades)
    BY <1>1, <1>10, MonthlyEnds
  <2> QED BY <1>1, <2>3, <2>4, <2>5, DrawdownIs
<1> QED BY <1>3, <1>4, <1>5, <1>7, <1>8, <1>9, <1>10 DEF Accounts

(* run_combo, _monthly and compute_metrics: every trade is booked once, in *)
(* the order of the exits, the equity and the legs' shares of it are what  *)
(* the booked trades made, and the reports of a finished run agree.        *)
THEOREM AccountsCorrect == Spec => []Accounts
<1>1. Init => CurveInv /\ LegInv
  BY CurveInit, LegInit
<1>2. WalkedInv /\ CurveInv /\ LegInv /\ [Next]_vars => CurveInv' /\ LegInv'
  BY CurveStep, LegStep DEF WalkedInv
<1>3. WalkedInv /\ CurveInv /\ LegInv => Accounts
  BY AccountsAre DEF AccountInv
<1> QED BY <1>1, <1>2, <1>3, Walked, PTL DEF Spec

=============================================================================
