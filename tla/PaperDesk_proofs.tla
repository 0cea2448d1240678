-------------------------- MODULE PaperDesk_proofs --------------------------
(***************************************************************************)
(* Proofs about PaperDesk, for every number of symbols, every prices, and  *)
(* every limit of the risk engine: that the desk's book and the broker's   *)
(* agree, and how much the desk can lose.                                  *)
(***************************************************************************)
EXTENDS PaperDesk, FiniteSetTheorems, WellFoundedInduction, TLAPS

-----------------------------------------------------------------------------
(* The least of some naturals.                                             *)

IsMin(x, S) == x \in S /\ \A y \in S : x <= y

LEMMA LeastNatural ==
  ASSUME NEW T, T \subseteq Nat, T # {}
  PROVE  \E x \in T : IsMin(x, T)
<1>1. PICK x \in T : \A y \in T : <<y, x>> \notin OpToRel(<, Nat)
  BY NatLessThanWellFounded, WFMin
<1>2. ASSUME NEW y \in T PROVE x <= y
  <2>1. ~(y < x)
    BY <1>1 DEF OpToRel
  <2> QED BY <2>1
<1> QED BY <1>2 DEF IsMin


-----------------------------------------------------------------------------
(* Sums over finite sets: the fold of the library takes the elements in an *)
(* order of its own, and that order does not matter.                       *)

Sum(f, S) == SumFunctionOnSet(f, S)

Pick(S)       == CHOOSE x \in S : TRUE
Plus(f, g, S) == IF S = {} THEN 0 ELSE f[Pick(S)] + g[S \ {Pick(S)}]
Sums(f, S, g) == g = [T \in SUBSET S |-> Plus(f, g, T)]

(* f has integers on the finite set S.                                     *)
Summable(f, S) == IsFiniteSet(S) /\ \A x \in S : f[x] \in Int

LEMMA SumIs ==
  ASSUME NEW f, NEW S
  PROVE  Sum(f, S) = (CHOOSE g : Sums(f, S, g))[S]
BY DEF Sum, SumFunctionOnSet, FoldFunctionOnSet, MapThenFoldSet, Sums, Plus, Pick

(* A set without one of its elements is smaller.                           *)
LEMMA OneLess ==
  ASSUME NEW S, IsFiniteSet(S), NEW x \in S
  PROVE  /\ IsFiniteSet(S \ {x}) /\ Cardinality(S) \in Nat /\ Cardinality(S \ {x}) \in Nat
         /\ Cardinality(S \ {x}) = Cardinality(S) - 1
<1>1. IsFiniteSet(S \ {x}) /\ Cardinality(S \ {x}) = Cardinality(S) - 1
  BY FS_RemoveElement
<1> QED BY <1>1, FS_CardinalityType

LEMMA SummableIn ==
  ASSUME NEW f, NEW S, Summable(f, S), NEW T \in SUBSET S
  PROVE  Summable(f, T)
<1>1. IsFiniteSet(T)
  BY FS_Subset DEF Summable
<1> QED BY <1>1 DEF Summable

LEMMA PickIn ==
  ASSUME NEW S, S # {}
  PROVE  Pick(S) \in S
BY DEF Pick

(* A property of finite sets that fails somewhere fails for a smallest one.*)
LEMMA Smallest ==
  ASSUME NEW B, \A S \in B : IsFiniteSet(S), B # {}
  PROVE  \E S \in B : \A T \in B : Cardinality(S) <= Cardinality(T)
<1> DEFINE K == {Cardinality(S) : S \in B}
<1>1. K \subseteq Nat /\ K # {}
  BY FS_CardinalityType
<1>2. PICK n \in K : IsMin(n, K)
  <2> HIDE DEF K
  <2> QED BY <1>1, LeastNatural
<1>3. PICK S \in B : Cardinality(S) = n
  OBVIOUS
<1> QED BY <1>2, <1>3 DEF IsMin

(* The function that the fold is defined by exists, level by level.        *)
SumsTo(f, S, g, n) == \A T \in SUBSET S :
                        Cardinality(T) <= n => g[T] \in Int /\ g[T] = Plus(f, g, T)

LEMMA SumsToExist ==
  ASSUME NEW f, NEW S, Summable(f, S), NEW n \in Nat
  PROVE  \E g : SumsTo(f, S, g, n)
<1> DEFINE K == {k \in Nat : ~\E g : SumsTo(f, S, g, k)}
<1>1. SUFFICES ASSUME K # {} PROVE FALSE
  OBVIOUS
<1>2. PICK m \in K : IsMin(m, K)
  <2>1. K \subseteq Nat
    OBVIOUS
  <2> HIDE DEF K
  <2> QED BY <1>1, <2>1, LeastNatural
<1>a. \A T \in SUBSET S : IsFiniteSet(T) /\ Cardinality(T) \in Nat
  BY FS_Subset, FS_CardinalityType DEF Summable
<1>3. CASE m = 0
  <2> DEFINE h == [T \in SUBSET S |-> 0]
  <2>1. ASSUME NEW T \in SUBSET S, Cardinality(T) <= 0
        PROVE  h[T] \in Int /\ h[T] = Plus(f, h, T)
    <3>1. T = {}
      BY <1>a, <2>1, FS_EmptySet
    <3> QED BY <3>1 DEF Plus
  <2>2. SumsTo(f, S, h, 0)
    BY <2>1 DEF SumsTo
  <2> QED BY <1>3, <2>2
<1>4. CASE m # 0
  <2>1. m - 1 \in Nat /\ m - 1 \notin K
    BY <1>2, <1>4 DEF IsMin
  <2>2. PICK g : SumsTo(f, S, g, m - 1)
    BY <2>1
  <2> DEFINE h == [T \in SUBSET S |-> Plus(f, g, T)]
  <2>3. ASSUME NEW T \in SUBSET S, Cardinality(T) <= m - 1
        PROVE  h[T] = g[T] /\ g[T] \in Int
    BY <2>2, <2>3 DEF SumsTo
  <2>4. ASSUME NEW T \in SUBSET S, Cardinality(T) <= m
        PROVE  h[T] \in Int /\ h[T] = Plus(f, h, T)
    <3>1. CASE T = {}
      BY <3>1 DEF Plus
    <3>2. CASE T # {}
      <4>1. PICK x \in S, U \in SUBSET S : x = Pick(T) /\ U = T \ {x} /\ x \in T
        <5>1. Pick(T) \in T
          BY <3>2, PickIn
        <5> QED BY <5>1
      <4>2. Cardinality(U) <= m - 1
        <5>1. Cardinality(U) = Cardinality(T) - 1 /\ Cardinality(T) \in Nat
          BY <1>a, <4>1, OneLess
        <5> QED BY <2>4, <5>1
      <4>3. h[U] = g[U] /\ g[U] \in Int
        BY <2>3, <4>2
      <4>4. h[T] = f[x] + g[U]
        BY <3>2, <4>1 DEF Plus
      <4>5. f[x] \in Int
        BY DEF Summable
      <4> HIDE DEF h
      <4>6. Plus(f, h, T) = f[x] + h[U]
        BY <3>2, <4>1 DEF Plus
      <4> QED BY <4>3, <4>4, <4>5, <4>6
    <3> QED BY <3>1, <3>2
  <2>5. SumsTo(f, S, h, m)
    <3> HIDE DEF h
    <3> QED BY <2>4 DEF SumsTo
  <2> QED BY <2>5
<1> QED BY <1>3, <1>4

LEMMA SumsExist ==
  ASSUME NEW f, NEW S, Summable(f, S)
  PROVE  \E g : Sums(f, S, g) /\ \A T \in SUBSET S : g[T] \in Int
<1>1. PICK n \in Nat : n = Cardinality(S)
  BY FS_CardinalityType DEF Summable
<1>2. PICK g : SumsTo(f, S, g, n)
  BY <1>1, SumsToExist
<1> DEFINE h == [T \in SUBSET S |-> g[T]]
<1>3. ASSUME NEW T \in SUBSET S PROVE h[T] \in Int /\ h[T] = Plus(f, h, T)
  <2>1. Cardinality(T) <= n
    BY <1>1, FS_Subset DEF Summable
  <2>2. g[T] \in Int /\ h[T] = Plus(f, g, T)
    BY <1>2, <2>1 DEF SumsTo
  <2>3. T # {} => T \ {Pick(T)} \in SUBSET S
    OBVIOUS
  <2> QED BY <2>2, <2>3 DEF Plus
<1>4. h = [T \in SUBSET S |-> h[T]]
  OBVIOUS
<1> HIDE DEF h
<1>5. Sums(f, S, h)
  BY <1>3, <1>4 DEF Sums
<1> QED BY <1>3, <1>5

(* There is one such function.                                             *)
Recurs(f, S, g) == \A T \in SUBSET S : g[T] = Plus(f, g, T)

LEMMA SumsAgree ==
  ASSUME NEW f, NEW S, IsFiniteSet(S), NEW g, NEW h, Recurs(f, S, g), Recurs(f, S, h)
  PROVE  g[S] = h[S]
<1> DEFINE B == {T \in SUBSET S : g[T] # h[T]}
<1>1. SUFFICES ASSUME B # {} PROVE FALSE
  OBVIOUS
<1>2. \A T \in B : IsFiniteSet(T)
  BY FS_Subset
<1>3. PICK T \in B : \A U \in B : Cardinality(T) <= Cardinality(U)
  <2> HIDE DEF B
  <2> QED BY <1>1, <1>2, Smallest
<1>a. g[T] = Plus(f, g, T) /\ h[T] = Plus(f, h, T)
  BY DEF Recurs
<1>4. T # {}
  BY <1>a DEF Plus
<1>5. PICK U : U = T \ {Pick(T)}
  OBVIOUS
<1>6. Cardinality(U) = Cardinality(T) - 1 /\ Cardinality(T) \in Nat /\ U \in SUBSET S
  BY <1>2, <1>4, <1>5, PickIn, OneLess
<1>7. U \notin B
  BY <1>3, <1>6
<1>8. g[U] = h[U]
  BY <1>6, <1>7
<1> QED BY <1>4, <1>5, <1>8, <1>a DEF Plus

(* A sum is the element picked and the sum of the others.                  *)
LEMMA SumPicks ==
  ASSUME NEW f, NEW S, Summable(f, S)
  PROVE  /\ Sum(f, S) \in Int
         /\ S = {} => Sum(f, S) = 0
         /\ S # {} => Sum(f, S) = f[Pick(S)] + Sum(f, S \ {Pick(S)})
<1>1. PICK g : Sums(f, S, g) /\ \A T \in SUBSET S : g[T] \in Int
  BY SumsExist
<1>2. Recurs(f, S, g)
  BY <1>1 DEF Sums, Recurs
<1>3. ASSUME NEW T \in SUBSET S PROVE Sum(f, T) = g[T]
  <2>1. PICK c : c = CHOOSE w : Sums(f, T, w)
    OBVIOUS
  <2>2. Sums(f, T, c)
    BY <2>1, SumsExist, SummableIn
  <2>3. Recurs(f, T, c) /\ Recurs(f, T, g)
    BY <1>2, <2>2 DEF Sums, Recurs
  <2>4. IsFiniteSet(T)
    BY FS_Subset DEF Summable
  <2>5. g[T] = c[T]
    BY <2>3, <2>4, SumsAgree
  <2> QED BY <2>1, <2>5, SumIs
<1>4. Sum(f, S) = g[S] /\ Sum(f, S \ {Pick(S)}) = g[S \ {Pick(S)}]
  BY <1>3
<1>5. g[S] = Plus(f, g, S)
  BY <1>2 DEF Recurs
<1> QED BY <1>1, <1>4, <1>5 DEF Plus

LEMMA SumInt ==
  ASSUME NEW f, NEW S, Summable(f, S)
  PROVE  Sum(f, S) \in Int
BY SumPicks

LEMMA SumEmpty ==
  ASSUME NEW f
  PROVE  Sum(f, {}) = 0
<1>1. Summable(f, {})
  BY FS_EmptySet DEF Summable
<1> QED BY <1>1, SumPicks

(* ... and so for any of its elements.                                     *)
LEMMA SumWithout ==
  ASSUME NEW f, NEW S, Summable(f, S), NEW x \in S
  PROVE  Sum(f, S) = f[x] + Sum(f, S \ {x})
<1> DEFINE B == {T \in SUBSET S : \E y \in T : Sum(f, T) # f[y] + Sum(f, T \ {y})}
<1>1. SUFFICES ASSUME B # {} PROVE FALSE
  OBVIOUS
<1>2. \A T \in SUBSET S : IsFiniteSet(T) /\ Summable(f, T) /\ Sum(f, T) \in Int
  BY FS_Subset, SummableIn, SumInt DEF Summable
<1>3. PICK T \in B : \A U \in B : Cardinality(T) <= Cardinality(U)
  <2>1. \A T \in B : IsFiniteSet(T)
    BY <1>2
  <2> HIDE DEF B
  <2> QED BY <1>1, <2>1, Smallest
<1>4. PICK y \in T : Sum(f, T) # f[y] + Sum(f, T \ {y})
  OBVIOUS
<1>5. PICK p \in T : p = Pick(T) /\ Sum(f, T) = f[p] + Sum(f, T \ {p})
  BY <1>2, PickIn, SumPicks
<1>6. y # p
  BY <1>4, <1>5
<1>7. ASSUME NEW z \in T PROVE T \ {z} \notin B
  <2>1. Cardinality(T \ {z}) = Cardinality(T) - 1 /\ Cardinality(T) \in Nat
    BY <1>2, OneLess
  <2> HIDE DEF B
  <2> QED BY <1>3, <2>1
<1>8. Sum(f, T \ {p}) = f[y] + Sum(f, (T \ {p}) \ {y})
  BY <1>6, <1>7
<1>9. Sum(f, T \ {y}) = f[p] + Sum(f, (T \ {y}) \ {p})
  BY <1>6, <1>7
<1>10. Sum(f, (T \ {y}) \ {p}) = Sum(f, (T \ {p}) \ {y})
  <2>1. (T \ {y}) \ {p} = (T \ {p}) \ {y}
    OBVIOUS
  <2> QED BY <2>1, Zenon
<1>11. f[y] \in Int /\ f[p] \in Int /\ Sum(f, (T \ {p}) \ {y}) \in Int
  BY <1>2 DEF Summable
<1> HIDE DEF B
<1> QED BY <1>4, <1>5, <1>8, <1>9, <1>10, <1>11

(* What grows with each element by its value is the sum.                   *)
Grows(f, S, g) ==
  g[{}] = 0 /\ \A T \in SUBSET S : \A x \in T : g[T] = f[x] + g[T \ {x}]

LEMMA SumIsThe ==
  ASSUME NEW f, NEW S, Summable(f, S), NEW g, Grows(f, S, g)
  PROVE  g[S] = Sum(f, S)
<1>0. PICK h : h = [T \in SUBSET S |-> Sum(f, T)]
  OBVIOUS
<1>a. \A T \in SUBSET S : h[T] = Sum(f, T)
  BY <1>0
<1>1. ASSUME NEW T \in SUBSET S
      PROVE  g[T] = Plus(f, g, T) /\ h[T] = Plus(f, h, T)
  <2>1. CASE T = {}
    BY <1>a, <2>1, SumEmpty DEF Plus, Grows
  <2>2. CASE T # {}
    <3>1. PICK x \in T : x = Pick(T)
      BY <2>2, PickIn
    <3>2. h[T] = f[x] + h[T \ {x}]
      BY <1>a, SummableIn, SumWithout
    <3>3. g[T] = f[x] + g[T \ {x}]
      BY DEF Grows
    <3> QED BY <2>2, <3>1, <3>2, <3>3 DEF Plus
  <2> QED BY <2>1, <2>2
<1>2. IsFiniteSet(S) /\ h[S] = Sum(f, S)
  BY <1>a DEF Summable
<1>3. Recurs(f, S, g) /\ Recurs(f, S, h)
  BY <1>1 DEF Recurs
<1>4. g[S] = h[S]
  BY <1>2, <1>3, SumsAgree
<1> QED BY <1>2, <1>4

-----------------------------------------------------------------------------
(* Two sums.                                                               *)

LEMMA SumSame ==
  ASSUME NEW f, NEW h, NEW S, Summable(f, S), \A x \in S : h[x] = f[x]
  PROVE  Sum(h, S) = Sum(f, S)
<1> DEFINE g == [T \in SUBSET S |-> Sum(h, T)]
<1>1. Summable(h, S)
  BY DEF Summable
<1>2. ASSUME NEW T \in SUBSET S, NEW x \in T PROVE g[T] = f[x] + g[T \ {x}]
  BY <1>1, SumWithout, SummableIn
<1>3. g[{}] = 0 /\ g[S] = Sum(h, S)
  BY SumEmpty
<1> HIDE DEF g
<1> QED BY <1>2, <1>3, SumIsThe DEF Grows

LEMMA SumAdds ==
  ASSUME NEW f, NEW h, NEW e, NEW S, Summable(f, S), Summable(h, S),
         \A x \in S : e[x] = f[x] + h[x]
  PROVE  Sum(e, S) = Sum(f, S) + Sum(h, S)
<1> DEFINE g == [T \in SUBSET S |-> Sum(f, T) + Sum(h, T)]
<1>1. Summable(e, S)
  BY DEF Summable
<1>2. ASSUME NEW T \in SUBSET S, NEW x \in T PROVE g[T] = e[x] + g[T \ {x}]
  <2>1. Sum(f, T) = f[x] + Sum(f, T \ {x}) /\ Sum(h, T) = h[x] + Sum(h, T \ {x})
    BY SumWithout, SummableIn
  <2>2. /\ f[x] \in Int /\ h[x] \in Int /\ e[x] = f[x] + h[x]
        /\ Sum(f, T \ {x}) \in Int /\ Sum(h, T \ {x}) \in Int
    BY SumInt, SummableIn DEF Summable
  <2> QED BY <2>1, <2>2
<1>3. g[{}] = 0 /\ g[S] = Sum(f, S) + Sum(h, S)
  BY SumEmpty
<1> HIDE DEF g
<1> QED BY <1>1, <1>2, <1>3, SumIsThe DEF Grows

(* Two parts of a set.                                                     *)
LEMMA SumSplits ==
  ASSUME NEW f, NEW S, Summable(f, S), NEW A, NEW C, S = A \cup C, A \cap C = {}
  PROVE  Sum(f, S) = Sum(f, A) + Sum(f, C)
<1> DEFINE g == [T \in SUBSET S |-> Sum(f, T \cap A) + Sum(f, T \cap C)]
<1>1. ASSUME NEW T \in SUBSET S PROVE Summable(f, T \cap A) /\ Summable(f, T \cap C)
  BY SummableIn
<1>2. ASSUME NEW T \in SUBSET S, NEW x \in T PROVE g[T] = f[x] + g[T \ {x}]
  <2>1. /\ Sum(f, T \cap A) \in Int /\ Sum(f, T \cap C) \in Int /\ f[x] \in Int
        /\ Sum(f, (T \ {x}) \cap A) \in Int /\ Sum(f, (T \ {x}) \cap C) \in Int
    BY <1>1, SumInt DEF Summable
  <2>2. g[T] = Sum(f, T \cap A) + Sum(f, T \cap C)
        /\ g[T \ {x}] = Sum(f, (T \ {x}) \cap A) + Sum(f, (T \ {x}) \cap C)
    OBVIOUS
  <2> HIDE DEF g
  <2>3. CASE x \in A
    <3>1. /\ Sum(f, (T \ {x}) \cap A) = Sum(f, (T \cap A) \ {x})
          /\ Sum(f, (T \ {x}) \cap C) = Sum(f, T \cap C)
      <4>1. (T \ {x}) \cap A = (T \cap A) \ {x} /\ (T \ {x}) \cap C = T \cap C
        BY <2>3
      <4> QED BY <4>1, Zenon
    <3>2. Sum(f, T \cap A) = f[x] + Sum(f, (T \cap A) \ {x})
      <4>1. x \in T \cap A /\ Summable(f, T \cap A)
        BY <1>1, <2>3
      <4> QED BY <4>1, SumWithout
    <3> QED BY <2>1, <2>2, <3>1, <3>2
  <2>4. CASE x \in C
    <3>1. /\ Sum(f, (T \ {x}) \cap C) = Sum(f, (T \cap C) \ {x})
          /\ Sum(f, (T \ {x}) \cap A) = Sum(f, T \cap A)
      <4>1. (T \ {x}) \cap C = (T \cap C) \ {x} /\ (T \ {x}) \cap A = T \cap A
        BY <2>4
      <4> QED BY <4>1, Zenon
    <3>2. Sum(f, T \cap C) = f[x] + Sum(f, (T \cap C) \ {x})
      <4>1. x \in T \cap C /\ Summable(f, T \cap C)
        BY <1>1, <2>4
      <4> QED BY <4>1, SumWithout
    <3> QED BY <2>1, <2>2, <3>1, <3>2
  <2> QED BY <2>3, <2>4
<1>3. g[{}] = 0 /\ g[S] = Sum(f, A) + Sum(f, C)
  <2>1. {} \cap A = {} /\ {} \cap C = {} /\ S \cap A = A /\ S \cap C = C
    OBVIOUS
  <2> QED BY <2>1, SumEmpty
<1> HIDE DEF g
<1> QED BY <1>2, <1>3, SumIsThe DEF Grows

(* A sum of what is not negative.                                          *)
LEMMA SumNat ==
  ASSUME NEW f, NEW S, IsFiniteSet(S), \A x \in S : f[x] \in Nat
  PROVE  Sum(f, S) \in Nat
<1> DEFINE B == {T \in SUBSET S : Sum(f, T) \notin Nat}
<1>0. Summable(f, S)
  BY DEF Summable
<1>1. SUFFICES ASSUME B # {} PROVE FALSE
  OBVIOUS
<1>2. PICK T \in B : \A U \in B : Cardinality(T) <= Cardinality(U)
  <2>1. \A T \in B : IsFiniteSet(T)
    BY FS_Subset
  <2> HIDE DEF B
  <2> QED BY <1>1, <2>1, Smallest
<1>3. T # {}
  BY SumEmpty
<1>4. PICK x \in T : TRUE
  BY <1>3
<1>5. Cardinality(T \ {x}) = Cardinality(T) - 1 /\ Cardinality(T) \in Nat
  BY FS_Subset, OneLess
<1>6. T \ {x} \notin B
  <2> HIDE DEF B
  <2> QED BY <1>2, <1>5
<1>7. Sum(f, T) = f[x] + Sum(f, T \ {x})
  BY <1>0, SummableIn, SumWithout
<1> QED BY <1>6, <1>7

(* A sum is at most another, and at most its number of times a bound.      *)
LEMMA SumAtMost ==
  ASSUME NEW f, NEW h, NEW S, Summable(f, S), Summable(h, S),
         \A x \in S : f[x] <= h[x]
  PROVE  Sum(f, S) <= Sum(h, S)
<1>1. PICK e : e = [x \in S |-> h[x] - f[x]]
  OBVIOUS
<1>2. \A x \in S : e[x] \in Nat /\ h[x] = f[x] + e[x]
  BY <1>1 DEF Summable
<1>3. Summable(e, S) /\ Sum(e, S) \in Nat
  BY <1>2, SumNat DEF Summable
<1>4. Sum(h, S) = Sum(f, S) + Sum(e, S)
  BY <1>2, <1>3, SumAdds
<1> QED BY <1>3, <1>4, SumInt

LEMMA SumBounded ==
  ASSUME NEW f, NEW S, Summable(f, S), NEW c \in Nat, \A x \in S : f[x] <= c
  PROVE  Sum(f, S) <= Cardinality(S) * c
<1>1. PICK h : h = [x \in S |-> c]
  OBVIOUS
<1>2. Summable(h, S)
  BY <1>1 DEF Summable
<1> DEFINE g == [T \in SUBSET S |-> Cardinality(T) * c]
<1>3. ASSUME NEW T \in SUBSET S, NEW x \in T PROVE g[T] = h[x] + g[T \ {x}]
  <2>1. PICK n \in Nat : n = Cardinality(T) /\ Cardinality(T \ {x}) = n - 1
    BY OneLess, FS_Subset DEF Summable
  <2>2. n * c = c + (n - 1) * c
    OBVIOUS
  <2> QED BY <1>1, <2>1, <2>2
<1>4. g[{}] = 0 /\ g[S] = Cardinality(S) * c
  BY FS_EmptySet
<1> HIDE DEF g
<1>5. g[S] = Sum(h, S)
  BY <1>2, <1>3, <1>4, SumIsThe DEF Grows
<1>6. Sum(f, S) <= Sum(h, S)
  BY <1>1, <1>2, SumAtMost
<1> QED BY <1>4, <1>5, <1>6

-----------------------------------------------------------------------------
(* Whole shares.                                                           *)

LEMMA MinOfTwo ==
  ASSUME NEW a \in Int, NEW b \in Int
  PROVE  /\ Min({a, b}) \in {a, b} /\ Min({a, b}) <= a /\ Min({a, b}) <= b
<1> DEFINE m == CHOOSE x \in {a, b} : \A y \in {a, b} : x <= y
<1>1. \E x \in {a, b} : \A y \in {a, b} : x <= y
  OBVIOUS
<1>2. m \in {a, b} /\ \A y \in {a, b} : m <= y
  <2> HIDE DEF m
  <2> QED BY <1>1 DEF m
<1>3. Min({a, b}) = m
  BY DEF Min
<1> HIDE DEF m
<1> QED BY <1>2, <1>3

LEMMA MaxOfTwo ==
  ASSUME NEW a \in Int, NEW b \in Int
  PROVE  /\ Max({a, b}) \in {a, b} /\ Max({a, b}) >= a /\ Max({a, b}) >= b
<1> DEFINE m == CHOOSE x \in {a, b} : \A y \in {a, b} : x >= y
<1>1. \E x \in {a, b} : \A y \in {a, b} : x >= y
  OBVIOUS
<1>2. m \in {a, b} /\ \A y \in {a, b} : m >= y
  <2> HIDE DEF m
  <2> QED BY <1>1 DEF m
<1>3. Max({a, b}) = m
  BY DEF Max
<1> HIDE DEF m
<1> QED BY <1>2, <1>3

LEMMA DivIs ==
  ASSUME NEW a \in Nat, NEW b \in Nat \ {0}
  PROVE  a \div b \in Nat /\ b * (a \div b) <= a
OBVIOUS

LEMMA DivMost ==
  ASSUME NEW a \in Nat, NEW b \in Nat \ {0}, NEW c \in Int, b * c <= a
  PROVE  c <= a \div b
OBVIOUS

LEMMA DivSame ==
  ASSUME NEW a \in Nat, NEW b \in Nat \ {0}
  PROVE  (a * b) \div b = a
OBVIOUS

LEMMA TimesLess ==
  ASSUME NEW a \in Int, NEW b \in Int, NEW k \in Nat \ {0}, k * a < k * b
  PROVE  a < b
OBVIOUS

LEMMA TimesAtMost ==
  ASSUME NEW a \in Int, NEW b \in Int, NEW k \in Nat, a <= b
  PROVE  k * a <= k * b
OBVIOUS

LEMMA TimesAtLeast ==
  ASSUME NEW a \in Nat, NEW k \in Nat \ {0}
  PROVE  a <= k * a
OBVIOUS

(* The commission of more shares is not less.                              *)
LEMMA CommissionIs ==
  ASSUME NEW n \in Nat, NEW m \in Nat, n <= m
  PROVE  /\ Commission(n) \in Nat /\ Commission(m) \in Nat
         /\ Commission(n) <= Commission(m)
<1>1. CommissionMin \in Nat /\ CommissionPerShare \in Nat
  BY DeskAssumption
<1>2. /\ n * CommissionPerShare \in Nat /\ m * CommissionPerShare \in Nat
      /\ n * CommissionPerShare <= m * CommissionPerShare
  BY <1>1
<1>3. PICK a, b : a = n * CommissionPerShare /\ b = m * CommissionPerShare
  OBVIOUS
<1>4. a \in Nat /\ b \in Nat /\ a <= b
  BY <1>2, <1>3
<1>5. /\ Max({CommissionMin, a}) \in {CommissionMin, a}
      /\ Max({CommissionMin, b}) \in {CommissionMin, b}
      /\ Max({CommissionMin, b}) >= CommissionMin /\ Max({CommissionMin, b}) >= b
  BY <1>1, <1>4, MaxOfTwo
<1>6. Commission(n) = Max({CommissionMin, a}) /\ Commission(m) = Max({CommissionMin, b})
  BY <1>3 DEF Commission
<1> QED BY <1>1, <1>4, <1>5, <1>6

(* RiskRules.Plan: a trade is planned only while the limit is not hit; it  *)
(* risks no more than its share of the equity, at a stop below its entry,  *)
(* and holds no more than its share of it.                                 *)
LEMMA PlanIs ==
  ASSUME NEW entry \in Nat \ {0}, NEW stop \in Nat, NEW volume \in Nat,
         NEW equity \in Nat, NEW made \in Int, NEW qty,
         qty = Plan("long", entry, stop, volume, equity, made), qty > 0
  PROVE  /\ qty \in Nat \ {0} /\ stop < entry
         /\ ~LossLimitHit(equity, made)
         /\ qty * (entry - stop) <= (equity * RiskPct) \div 100
         /\ qty <= (equity * PositionPct) \div 100
<1> DEFINE dist   == entry - stop
           sized  == SharesAtRisk(equity, dist)
           booked == IF 100 * sized * entry > equity * PositionPct
                     THEN SharesInBook(equity, entry) ELSE sized
           tape   == SharesOfTape(volume)
<1>1. StopDistance("long", entry, stop) = dist
  BY DEF StopDistance
<1>2. /\ ~LossLimitHit(equity, made) /\ ~(dist <= 0)
      /\ qty = IF tape > 0 THEN Min({booked, tape}) ELSE booked
  BY <1>1 DEF Plan
<1>3. dist \in Nat \ {0} /\ stop < entry
  BY <1>2
<1>4. RiskPct \in Nat /\ PositionPct \in Nat /\ VolumePct \in Nat
  BY RiskAssumption
<1>5. equity * RiskPct \in Nat /\ equity * PositionPct \in Nat
  BY <1>4
<1>6. sized \in Nat /\ (100 * dist) * sized <= equity * RiskPct
  <2> HIDE DEF dist
  <2>1. 100 * dist \in Nat \ {0}
    BY <1>3
  <2> QED BY <1>5, <2>1, DivIs DEF SharesAtRisk
<1>7. tape \in Int
  <2>1. volume * VolumePct \in Nat
    BY <1>4
  <2> QED BY <2>1 DEF SharesOfTape
<1>8. PICK cap \in Nat : cap = SharesInBook(equity, entry)
                         /\ (100 * entry) * cap <= equity * PositionPct
  <2>1. 100 * entry \in Nat \ {0}
    OBVIOUS
  <2> QED BY <1>5, <2>1, DivIs DEF SharesInBook
<1> HIDE DEF dist, sized, tape
<1>9. /\ booked \in Nat /\ booked <= sized
      /\ (100 * entry) * booked <= equity * PositionPct
  <2>1. CASE 100 * sized * entry > equity * PositionPct
    <3>1. booked = cap
      BY <1>8, <2>1
    <3>2. (100 * entry) * sized = 100 * sized * entry
      BY <1>6
    <3>3. (100 * entry) * cap < (100 * entry) * sized
      BY <1>5, <1>6, <1>8, <2>1, <3>2
    <3>4. cap < sized
      <4>1. 100 * entry \in Nat \ {0}
        OBVIOUS
      <4> QED BY <1>6, <1>8, <3>3, <4>1, TimesLess
    <3> QED BY <1>6, <1>8, <3>1, <3>4
  <2>2. CASE ~(100 * sized * entry > equity * PositionPct)
    <3>1. booked = sized
      BY <2>2
    <3>2. (100 * entry) * sized = 100 * sized * entry
      BY <1>6
    <3> QED BY <1>5, <1>6, <2>2, <3>1, <3>2
  <2> QED BY <2>1, <2>2
<1> HIDE DEF booked
<1>10. qty \in Nat \ {0} /\ qty <= booked
  <2>1. CASE tape > 0
    <3>1. Min({booked, tape}) \in {booked, tape} /\ Min({booked, tape}) <= booked
      <4>1. booked \in Int /\ tape \in Int
        BY <1>7, <1>9
      <4> QED BY <4>1, MinOfTwo
    <3> QED BY <1>2, <1>7, <1>9, <2>1, <3>1
  <2>2. CASE ~(tape > 0)
    BY <1>2, <1>9, <2>2
  <2> QED BY <2>1, <2>2
<1>11. qty * dist <= (equity * RiskPct) \div 100
  <2>1. dist * qty <= dist * sized
    <3>1. qty <= sized /\ qty \in Int /\ dist \in Nat
      BY <1>3, <1>6, <1>9, <1>10
    <3> QED BY <1>6, <3>1, TimesAtMost
  <2>2. dist * qty \in Int /\ dist * sized \in Int /\ qty * dist = dist * qty
    BY <1>3, <1>6, <1>10
  <2>3. (100 * dist) * sized = 100 * (dist * sized)
    BY <1>3, <1>6
  <2>4. 100 * (dist * qty) <= equity * RiskPct
    BY <1>5, <1>6, <2>1, <2>2, <2>3
  <2> QED BY <1>5, <2>2, <2>4, DivMost
<1>12. qty <= (equity * PositionPct) \div 100
  <2>1. booked <= entry * booked /\ entry * booked \in Nat
    BY <1>9, TimesAtLeast
  <2>2. (100 * entry) * booked = 100 * (entry * booked)
    BY <1>9
  <2>3. 100 * qty <= equity * PositionPct
    BY <1>5, <1>9, <1>10, <2>1, <2>2
  <2> QED BY <1>5, <1>10, <2>3, DivMost
<1> QED BY <1>2, <1>3, <1>10, <1>11, <1>12 DEF dist

-----------------------------------------------------------------------------
(* The invariant.                                                          *)

Position == [qty : Nat \ {0}, entry : Nat \ {0}, stop : Nat, initStop : Nat,
             target : Nat, highWater : Nat]

(* TypeOK, with the shape of the records; a position's stop never comes    *)
(* under its first one.                                                    *)
TypeInv ==
  /\ lastPrice \in [Symbols -> Prices \cup {0}]
  /\ open \in [Symbols -> Position \cup {Flat}]
  /\ \A s \in Open :
       /\ open[s].initStop < open[s].entry /\ open[s].entry <= open[s].target
       /\ open[s].initStop <= open[s].stop
       /\ open[s].entry <= open[s].highWater
  /\ banked \in Int /\ realized \in Int /\ brokerPnl \in Int /\ fees \in Nat
  /\ shares \in [Symbols -> Int] /\ avg \in [Symbols -> Nat]
  /\ opened \in 0 .. MaxTrades /\ gapped \in BOOLEAN

BookInv ==
  /\ \A s \in Symbols : /\ shares[s] = open[s].qty
                        /\ s \in Open => avg[s] = open[s].entry
  /\ banked = brokerPnl - fees
  /\ realized = banked

PerTrade == (Equity * RiskPct) \div 100
              + 2 * Commission((Equity * PositionPct) \div 100)

(* Each position was sized by the plan.                                    *)
PlanInv == \A s \in Open : Planned(open[s]) <= PerTrade

LEMMA FlatIs == Flat \notin Position /\ Flat.qty = 0
BY DEF Flat, Position

LEMMA OpenIs ==
  ASSUME TypeInv
  PROVE  /\ IsFiniteSet(Open) /\ Open \subseteq Symbols
         /\ \A s \in Open :
              /\ open[s] \in Position /\ open[s] # Flat
              /\ open[s].qty \in Nat \ {0} /\ open[s].entry \in Nat \ {0}
              /\ open[s].stop \in Nat /\ open[s].initStop \in Nat
              /\ open[s].target \in Nat /\ open[s].highWater \in Nat
         /\ \A s \in Symbols \ Open : open[s] = Flat
<1>1. IsFiniteSet(Open) /\ Open \subseteq Symbols
  BY DeskAssumption, FS_Subset DEF Open
<1>2. \A s \in Open : open[s] \in Position /\ open[s] # Flat
  BY DEF TypeInv, Open
<1>3. \A p \in Position : /\ p.qty \in Nat \ {0} /\ p.entry \in Nat \ {0}
                          /\ p.stop \in Nat /\ p.initStop \in Nat
                          /\ p.target \in Nat /\ p.highWater \in Nat
  BY DEF Position
<1> QED BY <1>1, <1>2, <1>3 DEF Open

LEMMA PlannedIs ==
  ASSUME TypeInv, NEW s \in Open
  PROVE  Planned(open[s]) \in Nat
<1>1. /\ open[s].qty \in Nat /\ open[s].entry \in Nat /\ open[s].initStop \in Nat
      /\ open[s].initStop < open[s].entry
  BY OpenIs DEF TypeInv
<1>2. Commission(open[s].qty) \in Nat
  BY <1>1, CommissionIs
<1>3. open[s].entry - open[s].initStop \in Nat
  BY <1>1
<1> QED BY <1>1, <1>2, <1>3 DEF Planned

-----------------------------------------------------------------------------
(* close_position: what a set of exits makes of the two books.             *)

Fee(s) == 2 * Commission(open[s].qty)

LEMMA CloseKeeps ==
  ASSUME TypeInv, BookInv, NEW S \in SUBSET Open, NEW price, NEW book,
         \A s \in S : price[s] \in Nat, Close(S, price, book)
  PROVE  /\ banked' \in Int /\ realized' \in Int /\ brokerPnl' \in Int /\ fees' \in Nat
         /\ shares' = [s \in Symbols |-> IF s \in S THEN 0 ELSE shares[s]]
         /\ avg' = [s \in Symbols |-> IF s \in S THEN 0 ELSE avg[s]]
         /\ banked' = brokerPnl' - fees' /\ realized' = banked'
         /\ realized' = realized +
              Sum([s \in S |-> (price[s] - open[s].entry) * open[s].qty - Fee(s)], S)
<1> DEFINE signed == [s \in Symbols |-> IF s \in S THEN -open[s].qty ELSE 0]
<1>1. PICK fee, pnl, gain :
        /\ fee = [s \in S |-> Fee(s)]
        /\ pnl = [s \in S |-> (price[s] - open[s].entry) * open[s].qty - Fee(s)]
        /\ gain = [s \in S |-> (price[s] - open[s].entry) * open[s].qty]
  OBVIOUS
<1>2. /\ IsFiniteSet(S) /\ S \subseteq Symbols
      /\ \A s \in S : /\ open[s].qty \in Nat \ {0} /\ open[s].entry \in Nat
                      /\ shares[s] = open[s].qty /\ avg[s] = open[s].entry
                      /\ Fee(s) \in Nat
  <2>1. IsFiniteSet(S) /\ S \subseteq Symbols
    BY OpenIs, FS_Subset
  <2>2. \A s \in S : open[s].qty \in Nat \ {0} /\ open[s].entry \in Nat
    BY OpenIs
  <2>3. \A s \in S : Fee(s) \in Nat
    BY <2>2, CommissionIs DEF Fee
  <2> QED BY <2>1, <2>2, <2>3 DEF BookInv
<1>3. /\ \A s \in S : fee[s] \in Nat /\ pnl[s] \in Int /\ gain[s] \in Int
      /\ \A s \in S : gain[s] = pnl[s] + fee[s]
  <2> SUFFICES ASSUME NEW s \in S
               PROVE  fee[s] \in Nat /\ pnl[s] \in Int /\ gain[s] \in Int
                      /\ gain[s] = pnl[s] + fee[s]
    OBVIOUS
  <2>1. (price[s] - open[s].entry) * open[s].qty \in Int
    BY <1>2
  <2> QED BY <1>1, <1>2, <2>1
<1>4. /\ Summable(fee, S) /\ Summable(pnl, S) /\ Summable(gain, S)
  BY <1>2, <1>3 DEF Summable
<1>5. Sum(gain, S) = Sum(pnl, S) + Sum(fee, S)
  BY <1>3, <1>4, SumAdds
<1>6. Sum(fee, S) \in Nat /\ Sum(pnl, S) \in Int /\ Sum(gain, S) \in Int
  BY <1>2, <1>3, <1>4, SumNat, SumInt
<1>7. {r \in Symbols : signed[r] # 0} = S
  BY <1>2
<1>8. [s \in S |-> Gain(s, signed[s], price[s])] = gain
  <2>1. ASSUME NEW s \in S
        PROVE  Gain(s, signed[s], price[s]) = (price[s] - open[s].entry) * open[s].qty
    <3>1. PICK n \in Nat \ {0} : n = open[s].qty /\ shares[s] = n /\ signed[s] = -n
      BY <1>2
    <3>2. ~Adds(s, signed[s])
      BY <3>1 DEF Adds
    <3>3. -(signed[s]) = n /\ Min({n, n}) = n
      <4>1. n \in Int /\ -(-n) = n
        BY <3>1
      <4>2. Min({n, n}) \in {n, n}
        BY <4>1, MinOfTwo
      <4> QED BY <3>1, <4>1, <4>2
    <3> HIDE DEF signed
    <3>4. Gain(s, signed[s], price[s]) = (price[s] - avg[s]) * Min({-signed[s], shares[s]})
      BY <3>1, <3>2 DEF Gain
    <3>5. Gain(s, signed[s], price[s]) = (price[s] - avg[s]) * n
      BY <3>1, <3>3, <3>4
    <3> QED BY <1>2, <3>1, <3>5
  <2> HIDE DEF signed
  <2> QED BY <1>1, <2>1
<1>9. /\ fees' = fees + Sum(fee, S)
      /\ banked' = banked + Sum(pnl, S) /\ realized' = realized + Sum(pnl, S)
      /\ PlaceOrders(signed, price)
  <2>1. DOMAIN fee = S /\ DOMAIN pnl = S
    BY <1>1
  <2>2. SumFunction(fee) = Sum(fee, S) /\ SumFunction(pnl) = Sum(pnl, S)
    BY <2>1 DEF SumFunction, Sum
  <2>3. /\ fee = [s \in S |-> 2 * Commission(open[s].qty)]
        /\ pnl = [s \in S |-> (price[s] - open[s].entry) * open[s].qty - fee[s]]
    BY <1>1 DEF Fee
  <2> QED BY <2>2, <2>3 DEF Close
<1>10. brokerPnl' = brokerPnl + Sum(gain, S)
  <2>1. brokerPnl' = brokerPnl + SumFunction([s \in {r \in Symbols : signed[r] # 0} |->
                                                Gain(s, signed[s], price[s])])
    BY <1>9 DEF PlaceOrders
  <2>2. brokerPnl' = brokerPnl + SumFunction(gain)
    <3> HIDE DEF signed
    <3> QED BY <1>7, <1>8, <2>1
  <2>3. DOMAIN gain = S
    BY <1>1
  <2> QED BY <2>2, <2>3 DEF SumFunction, Sum
<1>11. /\ shares' = [s \in Symbols |-> IF s \in S THEN 0 ELSE shares[s]]
       /\ avg' = [s \in Symbols |-> IF s \in S THEN 0 ELSE avg[s]]
  <2>1. ASSUME NEW s \in Symbols
        PROVE  /\ shares[s] + signed[s] = IF s \in S THEN 0 ELSE shares[s]
               /\ (IF signed[s] = 0 THEN avg[s] ELSE NewAvg(s, signed[s], price[s])) =
                    IF s \in S THEN 0 ELSE avg[s]
    <3>0. shares[s] \in Int
      BY DEF TypeInv
    <3>1. CASE s \in S
      <4>1. shares[s] + signed[s] = 0 /\ signed[s] # 0
        BY <1>2, <3>1
      <4> HIDE DEF signed
      <4> QED BY <3>1, <4>1 DEF NewAvg
    <3>2. CASE s \notin S
      BY <3>0, <3>2
    <3> QED BY <3>1, <3>2
  <2> HIDE DEF signed
  <2> QED BY <1>9, <2>1 DEF PlaceOrders
<1>12. banked = brokerPnl - fees /\ realized = banked
       /\ banked \in Int /\ brokerPnl \in Int /\ fees \in Nat
  BY DEF TypeInv, BookInv
<1> QED BY <1>1, <1>5, <1>6, <1>9, <1>10, <1>11, <1>12

-----------------------------------------------------------------------------
(* Closing positions: the exits of a scan, and the one of a request.       *)

(* A position after a scan: only its stop and its high-water mark move.    *)
Follows(p, q) ==
  /\ q \in Position
  /\ q.qty = p.qty /\ q.entry = p.entry /\ q.initStop = p.initStop /\ q.target = p.target
  /\ q.initStop <= q.stop /\ q.entry <= q.highWater

Exits(S, price, book) ==
  /\ S \subseteq Open
  /\ \A s \in S : price[s] \in Nat
  /\ \A s \in Open : Follows(open[s], book[s])
  /\ \A s \in Symbols \ Open : book[s] = Flat
  /\ Close(S, price, book)
  /\ lastPrice' \in [Symbols -> Prices \cup {0}]
  /\ opened' = opened /\ gapped' \in BOOLEAN

LEMMA FollowsSelf ==
  ASSUME TypeInv, NEW s \in Open
  PROVE  Follows(open[s], open[s])
BY OpenIs DEF TypeInv, Follows

LEMMA TrailFollows ==
  ASSUME TypeInv, NEW s \in Open, NEW price \in Nat
  PROVE  Follows(open[s], Trail(open[s], price))
<1> DEFINE water == Max({open[s].highWater, price})
           trail == (water * (100 - TrailPct)) \div 100
           stop  == Max({open[s].stop, trail})
<1>1. /\ open[s] \in Position /\ open[s].stop \in Nat /\ open[s].highWater \in Nat
      /\ open[s].initStop \in Nat /\ open[s].entry \in Nat
      /\ open[s].initStop <= open[s].stop /\ open[s].entry <= open[s].highWater
  BY OpenIs DEF TypeInv
<1>2. water \in {open[s].highWater, price} /\ water >= open[s].highWater
  <2>1. open[s].highWater \in Int /\ price \in Int
    BY <1>1
  <2> QED BY <2>1, MaxOfTwo
<1>3. water \in Nat
  BY <1>1, <1>2
<1> HIDE DEF water
<1>4. trail \in Nat
  <2>1. 100 - TrailPct \in Nat
    BY DeskAssumption
  <2>2. water * (100 - TrailPct) \in Nat
    BY <1>3, <2>1
  <2> QED BY <2>2, DivIs
<1> HIDE DEF trail
<1>5. stop \in {open[s].stop, trail} /\ stop >= open[s].stop
  <2>1. open[s].stop \in Int /\ trail \in Int
    BY <1>1, <1>4
  <2> QED BY <2>1, MaxOfTwo
<1>6. stop \in Nat /\ open[s].initStop <= stop /\ open[s].entry <= water
  BY <1>1, <1>2, <1>3, <1>4, <1>5
<1> HIDE DEF stop
<1>7. Trail(open[s], price) = [open[s] EXCEPT !.highWater = water, !.stop = stop]
  BY DEF Trail, water, trail, stop
<1>8. PICK p \in Position : p = open[s]
  BY <1>1
<1>9. Follows(p, [p EXCEPT !.highWater = water, !.stop = stop])
  BY <1>1, <1>3, <1>6, <1>8 DEF Follows, Position
<1> QED BY <1>7, <1>8, <1>9

LEMMA PricesAre == \A x \in Prices \cup {0} : x \in Nat
BY DeskAssumption

(* What a scan that shows these prices looks at.                           *)
LastOf(shown) ==
  [s \in Symbols |-> IF shown[s] = 0 THEN lastPrice[s] ELSE shown[s]]

TrailedAt(last) ==
  [s \in Symbols |-> IF open[s] = Flat \/ last[s] = 0 THEN open[s]
                     ELSE Trail(open[s], last[s])]

ExitsAt(last, trailed) ==
  {s \in Open : /\ last[s] # 0
                /\ \/ last[s] <= trailed[s].stop
                   \/ last[s] >= trailed[s].target}

PricesOf(exits, trailed, last) ==
  [s \in Symbols |-> IF s \in exits THEN ExitPrice(trailed[s], last[s]) ELSE 0]

LEMMA ScanExits ==
  ASSUME TypeInv, Scan
  PROVE  \E S, price, book : /\ Exits(S, price, book) /\ gapped' = gapped
                             /\ \A s \in S : price[s] >= open[s].initStop
<1>0. PICK shown \in [Symbols -> Prices \cup {0}] :
        LET last == LastOf(shown)
            trailed == TrailedAt(last)
            exits == ExitsAt(last, trailed)
        IN /\ lastPrice' = last
           /\ Close(exits, PricesOf(exits, trailed, last), trailed)
           /\ UNCHANGED <<opened, gapped>>
  BY DEF Scan, LastOf, TrailedAt, ExitsAt, PricesOf
<1>1. PICK last, trailed, exits, price :
        /\ last = LastOf(shown) /\ trailed = TrailedAt(last)
        /\ exits = ExitsAt(last, trailed) /\ price = PricesOf(exits, trailed, last)
        /\ lastPrice' = last /\ Close(exits, price, trailed)
        /\ UNCHANGED <<opened, gapped>>
  BY <1>0
<1>a. /\ last = [s \in Symbols |-> IF shown[s] = 0 THEN lastPrice[s] ELSE shown[s]]
      /\ trailed = [s \in Symbols |-> IF open[s] = Flat \/ last[s] = 0 THEN open[s]
                                      ELSE Trail(open[s], last[s])]
      /\ exits = {s \in Open : /\ last[s] # 0
                               /\ \/ last[s] <= trailed[s].stop
                                  \/ last[s] >= trailed[s].target}
      /\ price = [s \in Symbols |-> IF s \in exits THEN ExitPrice(trailed[s], last[s])
                                    ELSE 0]
  BY <1>1 DEF LastOf, TrailedAt, ExitsAt, PricesOf
<1>2. last \in [Symbols -> Prices \cup {0}] /\ \A s \in Symbols : last[s] \in Nat
  <2>1. \A s \in Symbols : last[s] \in Prices \cup {0}
    BY <1>a DEF TypeInv
  <2>2. \A x \in Prices \cup {0} : x \in Nat
    BY PricesAre
  <2>3. last \in [Symbols -> Prices \cup {0}]
    BY <1>a, <2>1
  <2> QED BY <2>1, <2>2, <2>3
<1>3. ASSUME NEW s \in Open PROVE Follows(open[s], trailed[s])
  <2>1. s \in Symbols /\ open[s] # Flat
    BY OpenIs
  <2>2. CASE last[s] = 0
    BY <1>a, <2>1, <2>2, FollowsSelf
  <2>3. CASE last[s] # 0
    BY <1>a, <1>2, <2>1, <2>3, TrailFollows
  <2> QED BY <2>2, <2>3
<1>4. \A s \in Symbols \ Open : trailed[s] = Flat
  BY <1>a, OpenIs
<1>5. ASSUME NEW s \in exits PROVE price[s] \in Nat /\ price[s] >= open[s].initStop
  <2>1. s \in Open /\ s \in Symbols
    BY <1>a, OpenIs
  <2>2. Follows(open[s], trailed[s])
    BY <1>3, <2>1
  <2>3. price[s] = trailed[s].stop \/ price[s] = trailed[s].target
    BY <1>a, <2>1 DEF ExitPrice
  <2>4. /\ trailed[s].stop \in Nat /\ trailed[s].initStop = open[s].initStop
        /\ trailed[s].initStop <= trailed[s].stop /\ trailed[s].target = open[s].target
    BY <2>2 DEF Follows, Position
  <2>5. /\ open[s].target \in Nat /\ open[s].entry \in Nat /\ open[s].initStop \in Nat
        /\ open[s].initStop < open[s].entry /\ open[s].entry <= open[s].target
    BY <2>1, OpenIs DEF TypeInv
  <2> QED BY <2>3, <2>4, <2>5
<1>6. gapped' \in BOOLEAN /\ opened' = opened /\ gapped' = gapped
  BY <1>1 DEF TypeInv
<1>7. exits \subseteq Open
  BY <1>a
<1>8. Exits(exits, price, trailed)
  BY <1>1, <1>2, <1>3, <1>4, <1>5, <1>6, <1>7 DEF Exits
<1> QED BY <1>5, <1>6, <1>8

LEMMA SellExits ==
  ASSUME TypeInv, NEW s \in Symbols, Sell(s)
  PROVE  \E S, price, book :
           /\ Exits(S, price, book)
           /\ gapped' \/ (~gapped /\ \A r \in S : price[r] >= open[r].initStop)
<1>1. s \in Open /\ Close({s}, lastPrice, open) /\ UNCHANGED <<lastPrice, opened>>
      /\ gapped' = (gapped \/ lastPrice[s] < open[s].initStop)
  BY DEF Sell
<1>2. lastPrice[s] \in Nat /\ gapped' \in BOOLEAN
  <2>1. lastPrice[s] \in Prices \cup {0}
    BY DEF TypeInv
  <2>2. \A x \in Prices \cup {0} : x \in Nat
    BY PricesAre
  <2> QED BY <1>1, <2>1, <2>2 DEF TypeInv
<1>3. Exits({s}, lastPrice, open)
  <2>1. \A r \in Open : Follows(open[r], open[r])
    BY FollowsSelf
  <2>2. \A r \in Symbols \ Open : open[r] = Flat
    BY OpenIs
  <2>3. lastPrice' \in [Symbols -> Prices \cup {0}]
    BY <1>1 DEF TypeInv
  <2> QED BY <1>1, <1>2, <2>1, <2>2, <2>3 DEF Exits
<1>4. open[s].initStop \in Nat
  BY <1>1, OpenIs
<1>5. gapped' \/ (~gapped /\ \A r \in {s} : lastPrice[r] >= open[r].initStop)
  <2>1. CASE gapped'
    BY <2>1
  <2>2. CASE ~gapped'
    <3>1. ~gapped /\ ~(lastPrice[s] < open[s].initStop)
      BY <1>1, <2>2
    <3>2. lastPrice[s] >= open[s].initStop
      BY <1>2, <1>4, <3>1
    <3> QED BY <3>1, <3>2
  <2> QED BY <2>1, <2>2
<1> QED BY <1>3, <1>5

(* What is left open is what was open and is not closed.                   *)
LEMMA StillOpen ==
  ASSUME TypeInv, NEW S, NEW price, NEW book, Exits(S, price, book)
  PROVE  /\ Open' = Open \ S
         /\ open' \in [Symbols -> Position \cup {Flat}]
         /\ \A s \in Open \ S : open'[s] = book[s] /\ Follows(open[s], open'[s])
         /\ \A s \in Symbols \ (Open \ S) : open'[s] = Flat
<1>1. open' = [s \in Symbols |-> IF s \in S THEN Flat ELSE book[s]] /\ S \subseteq Open
      /\ Open \subseteq Symbols
  BY OpenIs DEF Exits, Close
<1>2. \A s \in Open \ S : open'[s] = book[s] /\ Follows(open[s], book[s])
  BY <1>1 DEF Exits
<1>3. \A s \in Symbols \ (Open \ S) : open'[s] = Flat
  BY <1>1 DEF Exits
<1>4. \A s \in Open \ S : open'[s] \in Position /\ open'[s] # Flat
  BY <1>2, FlatIs DEF Follows
<1>5. Open' = Open \ S
  BY <1>1, <1>3, <1>4 DEF Open
<1>6. open' \in [Symbols -> Position \cup {Flat}]
  BY <1>1, <1>3, <1>4
<1> QED BY <1>2, <1>3, <1>5, <1>6

LEMMA ExitsKeep ==
  ASSUME TypeInv, BookInv, PlanInv, NEW S, NEW price, NEW book, Exits(S, price, book)
  PROVE  TypeInv' /\ BookInv' /\ PlanInv'
<1>1. S \in SUBSET Open /\ (\A s \in S : price[s] \in Nat) /\ Close(S, price, book)
      /\ Open \subseteq Symbols
  BY OpenIs DEF Exits
<1>2. /\ banked' \in Int /\ realized' \in Int /\ brokerPnl' \in Int /\ fees' \in Nat
      /\ shares' = [s \in Symbols |-> IF s \in S THEN 0 ELSE shares[s]]
      /\ avg' = [s \in Symbols |-> IF s \in S THEN 0 ELSE avg[s]]
      /\ banked' = brokerPnl' - fees' /\ realized' = banked'
  BY <1>1, CloseKeeps
<1>3. /\ Open' = Open \ S
      /\ open' \in [Symbols -> Position \cup {Flat}]
      /\ \A s \in Open \ S : Follows(open[s], open'[s])
      /\ \A s \in Symbols \ (Open \ S) : open'[s] = Flat
  BY StillOpen
<1>4. ASSUME NEW s \in Open'
      PROVE  /\ open'[s].initStop < open'[s].entry /\ open'[s].entry <= open'[s].target
             /\ open'[s].initStop <= open'[s].stop /\ open'[s].entry <= open'[s].highWater
             /\ open'[s].qty = open[s].qty /\ open'[s].entry = open[s].entry
             /\ Planned(open[s])' = Planned(open[s])
  BY <1>3 DEF TypeInv, Follows, Planned
<1>5. TypeInv'
  <2>1. shares' \in [Symbols -> Int] /\ avg' \in [Symbols -> Nat]
    BY <1>2 DEF TypeInv
  <2>2. /\ lastPrice' \in [Symbols -> Prices \cup {0}] /\ opened' \in 0 .. MaxTrades
        /\ gapped' \in BOOLEAN
    BY DEF Exits, TypeInv
  <2> QED BY <1>2, <1>3, <1>4, <2>1, <2>2 DEF TypeInv
<1>6. ASSUME NEW s \in Symbols
      PROVE  shares'[s] = open'[s].qty /\ (s \in Open' => avg'[s] = open'[s].entry)
  <2>1. CASE s \in Open'
    <3>1. s \notin S /\ s \in Open
      BY <1>3, <2>1
    <3>2. shares'[s] = shares[s] /\ avg'[s] = avg[s]
      BY <1>2, <3>1
    <3> QED BY <1>4, <2>1, <3>1, <3>2 DEF BookInv
  <2>2. CASE s \notin Open'
    <3>1. open'[s] = Flat
      BY <1>3, <2>2
    <3>2. CASE s \in S
      BY <1>2, <2>2, <3>1, <3>2, FlatIs
    <3>3. CASE s \notin S
      <4>1. open[s] = Flat
        BY <1>3, <2>2, <3>3, OpenIs
      <4>2. shares'[s] = shares[s]
        BY <1>2, <3>3
      <4> QED BY <2>2, <3>1, <4>1, <4>2 DEF BookInv
    <3> QED BY <3>2, <3>3
  <2> QED BY <2>1, <2>2
<1>7. BookInv'
  BY <1>2, <1>6 DEF BookInv
<1>8. PlanInv'
  BY <1>3, <1>4 DEF PlanInv, PerTrade, Commission
<1> QED BY <1>5, <1>7, <1>8

(* Exits at the first stop or better lose no more than was planned.        *)
PlannedSum == Sum([s \in Open |-> Planned(open[s])], Open)

LEMMA WorstIs == WorstCase = realized - PlannedSum
<1>1. DOMAIN [s \in Open |-> Planned(open[s])] = Open
  OBVIOUS
<1> QED BY <1>1 DEF WorstCase, PlannedSum, SumFunction, Sum

LEMMA ExitsLose ==
  ASSUME TypeInv, BookInv, NEW S, NEW price, NEW book, Exits(S, price, book),
         \A s \in S : price[s] >= open[s].initStop
  PROVE  WorstCase' >= WorstCase
<1>1. PICK f, g, pnl :
        /\ f = [s \in Open |-> Planned(open[s])]
        /\ g = [s \in Open' |-> Planned(open[s])']
        /\ pnl = [s \in S |-> (price[s] - open[s].entry) * open[s].qty - Fee(s)]
  OBVIOUS
<1>2. S \in SUBSET Open /\ (\A s \in S : price[s] \in Nat) /\ Close(S, price, book)
      /\ IsFiniteSet(Open)
  BY OpenIs DEF Exits
<1>3. Summable(f, Open) /\ Summable(f, S) /\ Summable(f, Open \ S)
  <2>1. \A s \in Open : f[s] \in Int
    BY <1>1, PlannedIs
  <2>2. Summable(f, Open)
    BY <1>2, <2>1 DEF Summable
  <2> QED BY <1>2, <2>2, SummableIn
<1>4. Sum(f, Open) = Sum(f, Open \ S) + Sum(f, S)
  <2>1. Open = (Open \ S) \cup S /\ (Open \ S) \cap S = {}
    BY <1>2
  <2> QED BY <1>3, <2>1, SumSplits
<1>5. PlannedSum' = Sum(f, Open \ S)
  <2>1. Open' = Open \ S /\ \A s \in Open \ S : Follows(open[s], open'[s])
    BY StillOpen
  <2>2. \A s \in Open \ S : g[s] = f[s]
    BY <1>1, <2>1 DEF Follows, Planned, Commission
  <2>3. Sum(g, Open \ S) = Sum(f, Open \ S)
    BY <1>3, <2>2, SumSame
  <2>4. PlannedSum' = Sum(g, Open')
    BY <1>1 DEF PlannedSum
  <2> QED BY <2>1, <2>3, <2>4
<1>6. ASSUME NEW s \in S
      PROVE  pnl[s] \in Int /\ pnl[s] + f[s] \in Nat
  <2>1. PICK q, e, i, x, c \in Nat :
          /\ q = open[s].qty /\ e = open[s].entry /\ i = open[s].initStop
          /\ x = price[s] /\ c = Fee(s) /\ x >= i
    <3>1. /\ open[s].qty \in Nat /\ open[s].entry \in Nat /\ open[s].initStop \in Nat
      BY <1>2, OpenIs
    <3>2. Fee(s) \in Nat
      BY <3>1, CommissionIs DEF Fee
    <3> QED BY <1>2, <3>1, <3>2
  <2>2. pnl[s] = (x - e) * q - c /\ f[s] = q * (e - i) + c
    BY <1>1, <1>2, <2>1 DEF Planned, Fee
  <2>3. (x - e) * q + q * (e - i) = (x - i) * q /\ (x - i) * q \in Nat
    BY <2>1
  <2>4. (x - e) * q \in Int /\ q * (e - i) \in Int
    BY <2>1
  <2> QED BY <2>1, <2>2, <2>3, <2>4
<1>7. Sum(pnl, S) + Sum(f, S) \in Nat
  <2>1. PICK h : h = [s \in S |-> pnl[s] + f[s]]
    OBVIOUS
  <2>2. \A s \in S : h[s] \in Nat /\ h[s] = pnl[s] + f[s]
    BY <1>6, <2>1
  <2>3. Summable(pnl, S)
    BY <1>3, <1>6 DEF Summable
  <2>4. Sum(h, S) = Sum(pnl, S) + Sum(f, S)
    BY <1>3, <2>2, <2>3, SumAdds
  <2>5. Sum(h, S) \in Nat
    BY <1>3, <2>2, SumNat DEF Summable
  <2> QED BY <2>4, <2>5
<1>8. Sum(pnl, S) \in Int /\ Sum(f, S) \in Int /\ Sum(f, Open \ S) \in Int
  <2>1. Summable(pnl, S)
    BY <1>3, <1>6 DEF Summable
  <2> QED BY <1>3, <2>1, SumInt
<1>9. realized' = realized + Sum(pnl, S) /\ realized \in Int
  BY <1>1, <1>2, CloseKeeps DEF TypeInv
<1>10. WorstCase = realized - Sum(f, Open)
  BY <1>1, WorstIs DEF PlannedSum
<1>11. WorstCase' = realized' - PlannedSum'
  <2>1. DOMAIN [s \in Open' |-> Planned(open[s])'] = Open'
    OBVIOUS
  <2> QED BY <2>1 DEF WorstCase, PlannedSum, SumFunction, Sum
<1> QED BY <1>4, <1>5, <1>7, <1>8, <1>9, <1>10, <1>11

-----------------------------------------------------------------------------
(* open_position: the plan's shares, at the request's price.               *)

LEMMA StopIs ==
  ASSUME NEW price \in Nat
  PROVE  StopFor(price) \in Nat
<1>1. price * 95 \in Nat
  OBVIOUS
<1> QED BY <1>1 DEF StopFor

LEMMA BuyIs ==
  ASSUME TypeInv, BookInv, NEW s \in Symbols, Buy(s)
  PROVE  \E p \in Position :
           /\ s \notin Open
           /\ open' = [open EXCEPT ![s] = p]
           /\ p.initStop < p.entry /\ p.entry <= p.target
           /\ p.initStop <= p.stop /\ p.entry <= p.highWater
           /\ Planned(p) <= PerTrade /\ ~LossLimitHit(Equity, realized)
           /\ shares' = [shares EXCEPT ![s] = p.qty]
           /\ avg' = [avg EXCEPT ![s] = p.entry]
           /\ brokerPnl' = brokerPnl
           /\ opened' \in 0 .. MaxTrades
           /\ UNCHANGED <<lastPrice, banked, realized, fees, gapped>>
<1>1. PICK price \in Prices, volume \in Volumes :
        OpenPosition(s, price, StopFor(price), volume)
  BY DEF Buy
<1>2. PICK stop, qty :
        stop = StopFor(price) /\ qty = Plan("long", price, stop, volume, Equity, realized)
  OBVIOUS
<1>3. /\ price \in Nat \ {0} /\ volume \in Nat /\ Equity \in Nat /\ TargetR \in Nat
      /\ stop \in Nat /\ realized \in Int
  <2>1. price \in Nat \ {0} /\ volume \in Nat /\ Equity \in Nat /\ TargetR \in Nat
    BY DeskAssumption
  <2> QED BY <1>2, <2>1, StopIs DEF TypeInv
<1>4. PICK p : p = [qty |-> qty, entry |-> price, stop |-> stop, initStop |-> stop,
                    target |-> price + TargetR * (price - stop), highWater |-> price]
  OBVIOUS
<1>5. /\ s \notin Open /\ qty > 0
      /\ open' = [open EXCEPT ![s] = p]
      /\ PlaceOrders([r \in Symbols |-> IF r = s THEN qty ELSE 0], [r \in Symbols |-> price])
  BY <1>1, <1>2, <1>4 DEF OpenPosition
<1>6. /\ qty \in Nat \ {0} /\ stop < price
      /\ ~LossLimitHit(Equity, realized)
      /\ qty * (price - stop) <= (Equity * RiskPct) \div 100
      /\ qty <= (Equity * PositionPct) \div 100
  BY <1>2, <1>3, <1>5, PlanIs
<1>7. price - stop \in Nat /\ TargetR * (price - stop) \in Nat
  <2>1. price - stop \in Nat
    BY <1>3, <1>6
  <2> QED BY <1>3, <2>1
<1>8. /\ p \in Position /\ p.qty = qty /\ p.entry = price /\ p.stop = stop
      /\ p.initStop = stop /\ p.highWater = price /\ p.entry <= p.target
      /\ p.initStop < p.entry /\ p.initStop <= p.stop /\ p.entry <= p.highWater
  BY <1>3, <1>4, <1>6, <1>7 DEF Position
<1>9. Planned(p) <= PerTrade
  <2>1. (Equity * RiskPct) \div 100 \in Nat /\ (Equity * PositionPct) \div 100 \in Nat
    <3>1. Equity * RiskPct \in Nat /\ Equity * PositionPct \in Nat
      BY <1>3, RiskAssumption
    <3> QED BY <3>1
  <2>2. /\ Commission(qty) <= Commission((Equity * PositionPct) \div 100)
        /\ Commission(qty) \in Nat /\ Commission((Equity * PositionPct) \div 100) \in Nat
    BY <1>6, <2>1, CommissionIs
  <2>3. qty * (price - stop) \in Nat
    BY <1>6, <1>7
  <2>4. Planned(p) = qty * (price - stop) + 2 * Commission(qty)
    BY <1>8 DEF Planned
  <2> QED BY <1>6, <2>1, <2>2, <2>3, <2>4 DEF PerTrade
<1>10. shares[s] = 0 /\ shares \in [Symbols -> Int] /\ avg \in [Symbols -> Nat]
  <2>1. open[s] = Flat
    BY <1>5 DEF Open
  <2> QED BY <2>1, FlatIs DEF TypeInv, BookInv
<1>11. PICK signed, at : signed = [r \in Symbols |-> IF r = s THEN qty ELSE 0]
                         /\ at = [r \in Symbols |-> price]
  OBVIOUS
<1>12. /\ signed[s] = qty /\ at[s] = price
       /\ \A r \in Symbols \ {s} : signed[r] = 0
  BY <1>11
<1>13. Adds(s, qty) /\ Gain(s, qty, price) = 0
  BY <1>10 DEF Adds, Gain
<1>14. shares' = [shares EXCEPT ![s] = p.qty] /\ avg' = [avg EXCEPT ![s] = p.entry]
  <2>1. shares' = [r \in Symbols |-> shares[r] + signed[r]]
        /\ avg' = [r \in Symbols |-> IF signed[r] = 0 THEN avg[r]
                                     ELSE NewAvg(r, signed[r], at[r])]
    BY <1>5, <1>11 DEF PlaceOrders
  <2>2. NewAvg(s, qty, price) = price
    <3>1. shares[s] + qty = qty /\ qty # 0
      BY <1>6, <1>10
    <3>2. avg[s] * shares[s] + price * qty = price * qty
      <4>1. avg[s] \in Nat
        BY <1>10
      <4> QED BY <1>3, <1>6, <1>10, <4>1
    <3>3. (price * qty) \div qty = price
      BY <1>3, <1>6, DivSame
    <3> QED BY <1>13, <3>1, <3>2, <3>3 DEF NewAvg
  <2>3. \A r \in Symbols : shares[r] + signed[r] = IF r = s THEN p.qty ELSE shares[r]
    BY <1>6, <1>8, <1>10, <1>12
  <2>4. \A r \in Symbols : (IF signed[r] = 0 THEN avg[r] ELSE NewAvg(r, signed[r], at[r]))
                             = IF r = s THEN p.entry ELSE avg[r]
    BY <1>6, <1>8, <1>12, <2>2
  <2>5. shares' = [r \in Symbols |-> IF r = s THEN p.qty ELSE shares[r]]
        /\ avg' = [r \in Symbols |-> IF r = s THEN p.entry ELSE avg[r]]
    BY <2>1, <2>3, <2>4
  <2> QED BY <1>10, <2>5
<1>15. brokerPnl' = brokerPnl
  <2>1. {r \in Symbols : signed[r] # 0} = {s}
    BY <1>6, <1>12
  <2>2. PICK f : f = [r \in {s} |-> Gain(r, signed[r], at[r])]
    OBVIOUS
  <2>3. brokerPnl' = brokerPnl + SumFunction(f)
    <3>1. brokerPnl' = brokerPnl + SumFunction([r \in {t \in Symbols : signed[t] # 0} |->
                                                  Gain(r, signed[r], at[r])])
      BY <1>5, <1>11 DEF PlaceOrders
    <3> QED BY <2>1, <2>2, <3>1
  <2>4. DOMAIN f = {s} /\ f[s] = 0
    BY <1>12, <1>13, <2>2
  <2>5. Summable(f, {s})
    BY <2>4, FS_Singleton DEF Summable
  <2>6. Sum(f, {s}) = f[s] + Sum(f, {s} \ {s})
    BY <2>5, SumWithout
  <2>7. {s} \ {s} = {}
    OBVIOUS
  <2>8. Sum(f, {s}) = 0
    BY <2>4, <2>6, <2>7, SumEmpty
  <2> QED BY <2>3, <2>4, <2>8 DEF SumFunction, Sum, TypeInv
<1>16. opened' \in 0 .. MaxTrades
       /\ UNCHANGED <<lastPrice, banked, realized, fees, gapped>>
  BY DeskAssumption DEF Buy, TypeInv
<1> QED BY <1>5, <1>6, <1>8, <1>9, <1>14, <1>15, <1>16

LEMMA BuyKeeps ==
  ASSUME TypeInv, BookInv, PlanInv, NEW s \in Symbols, Buy(s)
  PROVE  TypeInv' /\ BookInv' /\ PlanInv'
<1>1. PICK p \in Position :
        /\ s \notin Open
        /\ open' = [open EXCEPT ![s] = p]
        /\ p.initStop < p.entry /\ p.entry <= p.target
        /\ p.initStop <= p.stop /\ p.entry <= p.highWater
        /\ Planned(p) <= PerTrade
        /\ shares' = [shares EXCEPT ![s] = p.qty]
        /\ avg' = [avg EXCEPT ![s] = p.entry]
        /\ brokerPnl' = brokerPnl
        /\ opened' \in 0 .. MaxTrades
        /\ UNCHANGED <<lastPrice, banked, realized, fees, gapped>>
  BY BuyIs
<1>2. p # Flat /\ p.qty \in Nat \ {0} /\ p.entry \in Nat
  BY FlatIs DEF Position
<1>3. /\ open' \in [Symbols -> Position \cup {Flat}] /\ open'[s] = p
      /\ \A r \in Symbols \ {s} : open'[r] = open[r]
      /\ shares' \in [Symbols -> Int] /\ shares'[s] = p.qty
      /\ \A r \in Symbols \ {s} : shares'[r] = shares[r]
      /\ avg' \in [Symbols -> Nat] /\ avg'[s] = p.entry
      /\ \A r \in Symbols \ {s} : avg'[r] = avg[r]
  BY <1>1, <1>2 DEF TypeInv
<1>4. Open' = Open \cup {s} /\ s \notin Open /\ Open \subseteq Symbols
  BY <1>1, <1>2, <1>3, OpenIs DEF Open
<1>5. \A r \in Open : open'[r] = open[r] /\ r \in Symbols \ {s}
  BY <1>3, <1>4
<1>6. TypeInv'
  <2>1. \A r \in Open' :
          /\ open'[r].initStop < open'[r].entry /\ open'[r].entry <= open'[r].target
          /\ open'[r].initStop <= open'[r].stop /\ open'[r].entry <= open'[r].highWater
    BY <1>1, <1>3, <1>4, <1>5 DEF TypeInv
  <2> QED BY <1>1, <1>3, <2>1 DEF TypeInv
<1>7. BookInv'
  <2>1. \A r \in Symbols : shares'[r] = open'[r].qty /\ (r \in Open' => avg'[r] = open'[r].entry)
    BY <1>3, <1>4, <1>5 DEF BookInv
  <2> QED BY <1>1, <2>1 DEF BookInv
<1>8. PlanInv'
  <2>1. \A r \in Open' : Planned(open'[r]) <= PerTrade
    BY <1>1, <1>3, <1>4, <1>5 DEF PlanInv
  <2> QED BY <2>1 DEF PlanInv
<1> QED BY <1>6, <1>7, <1>8

-----------------------------------------------------------------------------
(* The books agree.                                                        *)

DeskInv == TypeInv /\ BookInv /\ PlanInv

LEMMA DeskInit == Init => DeskInv
<1> SUFFICES ASSUME Init PROVE DeskInv
  OBVIOUS
<1>1. Open = {}
  BY DEF Init, Open
<1>2. BookInv /\ PlanInv
  BY <1>1, FlatIs DEF Init, BookInv, PlanInv
<1>3. TypeInv
  <2>1. /\ lastPrice \in [Symbols -> Prices \cup {0}]
        /\ open \in [Symbols -> Position \cup {Flat}]
        /\ shares \in [Symbols -> Int] /\ avg \in [Symbols -> Nat]
    <3>1. 0 \in Prices \cup {0} /\ 0 \in Int /\ 0 \in Nat /\ Flat \in Position \cup {Flat}
      OBVIOUS
    <3> QED BY <3>1 DEF Init
  <2>2. /\ banked \in Int /\ realized \in Int /\ brokerPnl \in Int /\ fees \in Nat
        /\ gapped \in BOOLEAN
    <3>1. banked = 0 /\ realized = 0 /\ brokerPnl = 0 /\ fees = 0 /\ gapped = FALSE
      BY DEF Init
    <3>2. banked \in Int /\ realized \in Int /\ brokerPnl \in Int /\ fees \in Nat
      BY <3>1
    <3>3. gapped \in BOOLEAN
      BY <3>1, Zenon
    <3> QED BY <3>2, <3>3
  <2>3. opened \in 0 .. MaxTrades
    BY DeskAssumption DEF Init
  <2> QED BY <1>1, <2>1, <2>2, <2>3 DEF TypeInv
<1> QED BY <1>2, <1>3 DEF DeskInv

LEMMA DeskStep == DeskInv /\ [Next]_vars => DeskInv'
<1> SUFFICES ASSUME TypeInv, BookInv, PlanInv, [Next]_vars PROVE DeskInv'
  BY DEF DeskInv
<1>1. CASE Scan
  BY <1>1, ScanExits, ExitsKeep DEF DeskInv
<1>2. ASSUME NEW s \in Symbols, Buy(s) PROVE DeskInv'
  BY <1>2, BuyKeeps DEF DeskInv
<1>3. ASSUME NEW s \in Symbols, Sell(s) PROVE DeskInv'
  BY <1>3, SellExits, ExitsKeep DEF DeskInv
<1>4. CASE UNCHANGED vars
  BY <1>4 DEF vars, deskVars, brokerVars, DeskInv, TypeInv, BookInv, PlanInv, Open
<1> QED BY <1>1, <1>2, <1>3, <1>4 DEF Next

LEMMA DeskCorrect == Spec => []DeskInv
BY DeskInit, DeskStep, PTL DEF Spec

(* The desk's book and the broker's agree on what is held, on what it cost *)
(* and on what was made (paper.py's PaperDesk against broker/sim.py's      *)
(* SimBroker, whose answers it never reads).                               *)
THEOREM BooksCorrect == Spec => []BooksAgree
<1>1. DeskInv => BooksAgree
  <2> SUFFICES ASSUME TypeInv, BookInv PROVE BooksAgree
    BY DEF DeskInv
  <2>1. TypeOK
    BY OpenIs DEF TypeInv, TypeOK
  <2> QED BY <2>1 DEF BookInv, BooksAgree
<1> QED BY <1>1, DeskCorrect, PTL

-----------------------------------------------------------------------------
(* What the desk can lose.                                                 *)

Limit == (Equity * LossPct) \div 100

LossInv ==
  gapped \/ WorstCase >= -Limit - Cardinality(Symbols) * PerTrade

LEMMA BoundsAre ==
  Limit \in Nat /\ PerTrade \in Nat /\ Cardinality(Symbols) \in Nat
<1>1. Equity * LossPct \in Nat /\ Equity * RiskPct \in Nat /\ Equity * PositionPct \in Nat
  BY DeskAssumption, RiskAssumption
<1>2. Limit \in Nat /\ (Equity * RiskPct) \div 100 \in Nat
      /\ (Equity * PositionPct) \div 100 \in Nat
  BY <1>1 DEF Limit
<1>3. Commission((Equity * PositionPct) \div 100) \in Nat
  BY <1>2, CommissionIs
<1> QED BY <1>2, <1>3, DeskAssumption, FS_CardinalityType DEF PerTrade

(* However many positions are open, their plans are bounded.               *)
PlansBounded == PlannedSum \in Int /\ PlannedSum <= Cardinality(Symbols) * PerTrade

LEMMA PlansAre == DeskInv => PlansBounded
<1> SUFFICES ASSUME TypeInv, PlanInv
             PROVE  PlannedSum \in Int /\ PlannedSum <= Cardinality(Symbols) * PerTrade
  BY DEF DeskInv, PlansBounded
<1>1. PICK f : f = [s \in Open |-> Planned(open[s])]
  OBVIOUS
<1>2. IsFiniteSet(Open) /\ Open \subseteq Symbols
  BY OpenIs
<1>3. \A s \in Open : f[s] \in Int /\ f[s] <= PerTrade
  BY <1>1, PlannedIs DEF PlanInv
<1>4. Summable(f, Open)
  BY <1>2, <1>3 DEF Summable
<1>5. Sum(f, Open) <= Cardinality(Open) * PerTrade
  BY <1>3, <1>4, BoundsAre, SumBounded
<1>6. Cardinality(Open) <= Cardinality(Symbols) /\ Cardinality(Open) \in Nat
  BY <1>2, DeskAssumption, FS_Subset, FS_CardinalityType
<1>7. Cardinality(Open) * PerTrade <= Cardinality(Symbols) * PerTrade
  <2>1. PICK a, b, c \in Nat : a = Cardinality(Open) /\ b = Cardinality(Symbols) /\ c = PerTrade
    BY <1>6, BoundsAre
  <2>2. a * c <= b * c
    BY <1>6, <2>1
  <2> QED BY <2>1, <2>2
<1>8. Sum(f, Open) \in Int
  BY <1>4, SumInt
<1>9. Cardinality(Open) * PerTrade \in Int /\ Cardinality(Symbols) * PerTrade \in Int
  BY <1>6, BoundsAre
<1> QED BY <1>1, <1>5, <1>7, <1>8, <1>9 DEF PlannedSum

LEMMA LossInit == Init => LossInv
<1> SUFFICES ASSUME Init PROVE LossInv
  OBVIOUS
<1>1. Open = {} /\ realized = 0
  BY DEF Init, Open
<1>2. PlannedSum = 0
  <2>1. PICK f : f = [s \in Open |-> Planned(open[s])]
    OBVIOUS
  <2>2. PlannedSum = Sum(f, {})
    BY <1>1, <2>1 DEF PlannedSum
  <2> QED BY <2>2, SumEmpty
<1>3. WorstCase = 0
  BY <1>1, <1>2, WorstIs
<1>4. Cardinality(Symbols) * PerTrade \in Nat
  BY BoundsAre
<1> QED BY <1>3, <1>4, BoundsAre DEF LossInv

LEMMA LossStep ==
  DeskInv /\ DeskInv' /\ PlansBounded /\ PlansBounded' /\ LossInv /\ [Next]_vars => LossInv'
<1> SUFFICES ASSUME TypeInv, BookInv, PlanInv, realized' \in Int, PlansBounded, PlansBounded',
                    LossInv, [Next]_vars, ~gapped'
             PROVE  LossInv'
  BY DEF DeskInv, TypeInv, LossInv
<1>a. /\ WorstCase = realized - PlannedSum /\ realized \in Int
      /\ WorstCase' = realized' - PlannedSum'
  <2>1. DOMAIN [s \in Open' |-> Planned(open[s])'] = Open'
    OBVIOUS
  <2>2. WorstCase' = realized' - PlannedSum'
    BY <2>1 DEF WorstCase, PlannedSum, SumFunction, Sum
  <2> QED BY <2>2, WorstIs DEF TypeInv
<1>b. PICK floor \in Int : floor = -Limit - Cardinality(Symbols) * PerTrade
  <2>1. Cardinality(Symbols) * PerTrade \in Nat
    BY BoundsAre
  <2> QED BY <2>1, BoundsAre
<1>c. /\ LossInv => gapped \/ WorstCase >= floor
      /\ WorstCase' >= floor => LossInv'
  <2>1. WorstCase' >= floor => (gapped' \/ WorstCase' >= -Limit - Cardinality(Symbols) * PerTrade)
    BY <1>b
  <2> QED BY <1>b, <2>1 DEF LossInv, Limit, PerTrade, Commission
<1>1. ASSUME NEW S, NEW price, NEW book, Exits(S, price, book), ~gapped,
             \A s \in S : price[s] >= open[s].initStop
      PROVE  LossInv'
  <2>1. WorstCase' >= WorstCase
    BY <1>1, ExitsLose
  <2>2. WorstCase >= floor
    BY <1>1, <1>c
  <2>3. WorstCase \in Int /\ WorstCase' \in Int
    BY <1>a DEF PlansBounded
  <2>4. WorstCase' >= floor
    BY <1>b, <2>1, <2>2, <2>3
  <2> QED BY <1>c, <2>4
<1>2. CASE Scan
  <2>1. PICK S, price, book : /\ Exits(S, price, book) /\ gapped' = gapped
                              /\ \A s \in S : price[s] >= open[s].initStop
    BY <1>2, ScanExits
  <2> QED BY <1>1, <2>1
<1>3. ASSUME NEW s \in Symbols, Sell(s) PROVE LossInv'
  BY <1>1, <1>3, SellExits
<1>4. ASSUME NEW s \in Symbols, Buy(s) PROVE LossInv'
  <2>1. realized' = realized /\ ~LossLimitHit(Equity, realized)
    BY <1>4, BuyIs
  <2>2. realized >= -Limit
    <3>1. PICK a \in Nat : a = Equity * LossPct
      BY DeskAssumption, RiskAssumption
    <3>2. ~(100 * realized <= -a)
      BY <2>1, <3>1 DEF LossLimitHit
    <3>3. 100 * (-realized) <= a
      BY <1>a, <3>1, <3>2
    <3>4. -realized <= a \div 100
      BY <1>a, <3>1, <3>3, DivMost
    <3>5. a \div 100 \in Nat
      BY <3>1
    <3> QED BY <1>a, <3>1, <3>4, <3>5 DEF Limit
  <2>3. PlannedSum' \in Int /\ PlannedSum' <= Cardinality(Symbols) * PerTrade
    BY DEF PlansBounded, PerTrade, Commission
  <2>4. Cardinality(Symbols) * PerTrade \in Nat /\ Limit \in Nat
    BY BoundsAre
  <2>5. WorstCase' >= floor
    BY <1>a, <1>b, <2>1, <2>2, <2>3, <2>4
  <2> QED BY <1>c, <2>5
<1>5. CASE UNCHANGED vars
  <2>1. WorstCase' = WorstCase /\ gapped' = gapped
    BY <1>5 DEF vars, deskVars, brokerVars, WorstCase, Open, Planned
  <2> QED BY <1>c, <2>1
<1> QED BY <1>2, <1>3, <1>4, <1>5 DEF Next

(* However trades follow each other, the desk never stands to lose more    *)
(* than the daily limit and one planned trade for each symbol, unless a    *)
(* close by hand went below a stop (risk.py's plan and daily_loss_limit_hit*)
(* under paper.py's open_position, update and close_position).             *)
THEOREM LossCorrect == Spec => []LossIsBounded
<1>1. LossInv => LossIsBounded
  BY DEF LossInv, LossIsBounded, Limit, PerTrade
<1> QED BY <1>1, DeskCorrect, PlansAre, LossInit, LossStep, PTL DEF Spec

=============================================================================
