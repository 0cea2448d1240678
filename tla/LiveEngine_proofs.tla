-------------------------- MODULE LiveEngine_proofs --------------------------
(***************************************************************************)
(* The live engine makes the backtest's trade: for any ranges, cutoffs,    *)
(* holds and policies, and for every day of bars.  The rules of the short  *)
(* side and the screen's outcomes keep to the long side's, and the folds   *)
(* of the walk-forward that selects an exit keep to days of their own.     *)
(***************************************************************************)
EXTENDS LiveEngine, Fade, Search, FiniteSetTheorems, WellFoundedInduction, TLAPS

-----------------------------------------------------------------------------
(* The least and the greatest of a set.                                    *)

LEMMA LeastNatural ==
  ASSUME NEW T, T \subseteq Nat, T # {}
  PROVE  \E x \in T : \A y \in T : x <= y
<1>1. PICK x \in T : \A y \in T : <<y, x>> \notin OpToRel(<, Nat)
  BY NatLessThanWellFounded, WFMin
<1>2. ASSUME NEW y \in T PROVE x <= y
  <2>1. ~(y < x)
    BY <1>1 DEF OpToRel
  <2> QED BY <2>1
<1> QED BY <1>2

HasEnds(S) == /\ \E m \in S : \A y \in S : m >= y
              /\ \E m \in S : \A y \in S : m =< y

LEMMA FiniteHasEnds ==
  ASSUME NEW S, S \subseteq Int, IsFiniteSet(S), S # {}
  PROVE  HasEnds(S)
<1> DEFINE Bad(n) == \E U \in SUBSET S :
                       U # {} /\ Cardinality(U) = n /\ ~HasEnds(U)
           T == {n \in Nat : Bad(n)}
<1>1. ASSUME NEW U \in SUBSET S
      PROVE  IsFiniteSet(U) /\ Cardinality(U) \in Nat
  BY FS_Subset, FS_CardinalityType
<1>2. CASE T = {}
  <2>1. Cardinality(S) \in Nat
    BY <1>1
  <2>2. ~Bad(Cardinality(S))
    BY <1>2, <2>1
  <2> QED BY <2>2
<1>3. CASE T # {}
  <2>1. PICK n \in T : \A k \in T : n <= k
    <3> HIDE DEF Bad
    <3>1. T \subseteq Nat
      OBVIOUS
    <3> HIDE DEF T
    <3> QED BY <1>3, <3>1, LeastNatural
  <2>2. PICK U \in SUBSET S : U # {} /\ Cardinality(U) = n /\ ~HasEnds(U)
    OBVIOUS
  <2>3. PICK x \in U : TRUE
    BY <2>2
  <2>4. IsFiniteSet(U \ {x}) /\ Cardinality(U \ {x}) = n - 1
    BY <1>1, <2>2, <2>3, FS_RemoveElement
  <2>5. CASE U \ {x} = {}
    <3>1. U = {x} /\ x \in Int
      BY <2>3, <2>5
    <3> QED BY <2>2, <3>1 DEF HasEnds
  <2>6. CASE U \ {x} # {}
    <3>1. n \in Nat /\ n - 1 \in Nat
      BY <1>1, <2>4
    <3>2. n - 1 \notin T
      BY <2>1, <3>1
    <3>3. HasEnds(U \ {x})
      BY <2>4, <2>6, <3>1, <3>2
    <3>4. PICK hi \in U \ {x} : \A y \in U \ {x} : hi >= y
      BY <3>3 DEF HasEnds
    <3>5. PICK lo \in U \ {x} : \A y \in U \ {x} : lo =< y
      BY <3>3 DEF HasEnds
    <3>6. x \in Int /\ hi \in Int /\ lo \in Int /\ \A y \in U : y \in Int
      OBVIOUS
    <3>7. \E m \in U : \A y \in U : m >= y
      <4>1. CASE x >= hi
        <5>1. \A y \in U : x >= y
          BY <3>4, <3>6, <4>1
        <5> QED BY <5>1
      <4>2. CASE hi >= x
        <5>1. \A y \in U : hi >= y
          BY <3>4, <3>6, <4>2
        <5> QED BY <5>1
      <4> QED BY <3>6, <4>1, <4>2
    <3>8. \E m \in U : \A y \in U : m =< y
      <4>1. CASE x =< lo
        <5>1. \A y \in U : x =< y
          BY <3>5, <3>6, <4>1
        <5> QED BY <5>1
      <4>2. CASE lo =< x
        <5>1. \A y \in U : lo =< y
          BY <3>5, <3>6, <4>2
        <5> QED BY <5>1
      <4> QED BY <3>6, <4>1, <4>2
    <3> QED BY <2>2, <3>7, <3>8 DEF HasEnds
  <2> QED BY <2>5, <2>6
<1> QED BY <1>2, <1>3

LEMMA MaxIs ==
  ASSUME NEW S, S \subseteq Int, IsFiniteSet(S), S # {}
  PROVE  Max(S) \in S /\ \A y \in S : Max(S) >= y
<1>1. \E m \in S : \A y \in S : m >= y
  BY FiniteHasEnds DEF HasEnds
<1> QED BY <1>1 DEF Max

LEMMA MinIs ==
  ASSUME NEW S, S \subseteq Int, IsFiniteSet(S), S # {}
  PROVE  Min(S) \in S /\ \A y \in S : Min(S) <= y
<1>1. \E m \in S : \A y \in S : m =< y
  BY FiniteHasEnds DEF HasEnds
<1> QED BY <1>1 DEF Min

LEMMA GreaterIs ==
  ASSUME NEW x \in Int, NEW y \in Int
  PROVE  /\ Max({x, y}) \in {x, y} /\ Max({x, y}) \in Int
         /\ Max({x, y}) >= x /\ Max({x, y}) >= y
<1>1. \E m \in {x, y} : \A z \in {x, y} : m >= z
  <2>1. CASE x >= y
    BY <2>1
  <2>2. CASE y >= x
    BY <2>2
  <2> QED BY <2>1, <2>2
<1>2. Max({x, y}) \in {x, y} /\ \A z \in {x, y} : Max({x, y}) >= z
  BY <1>1 DEF Max
<1> QED BY <1>2

(* Positions in a sequence.                                                *)
LEMMA Positions ==
  ASSUME NEW N \in Nat, NEW S \in SUBSET (1 .. N)
  PROVE  /\ S \subseteq Int /\ IsFiniteSet(S) /\ Cardinality(S) \in Nat
         /\ S # {} => Min(S) \in S /\ \A y \in S : Min(S) <= y
         /\ S # {} => Max(S) \in S /\ \A y \in S : Max(S) >= y
<1>1. IsFiniteSet(1 .. N)
  BY FS_Interval
<1>2. S \subseteq Int
  OBVIOUS
<1>3. IsFiniteSet(S)
  BY <1>1, FS_Subset
<1> QED BY <1>2, <1>3, FS_CardinalityType, MinIs, MaxIs

-----------------------------------------------------------------------------
(* A set of positions when one more bar has come: nothing, or the new      *)
(* position, is added to it.                                               *)
Grows(S, T, N) == T = S \/ T = S \cup {N + 1}

LEMMA MinStays ==
  ASSUME NEW N \in Nat, NEW S \in SUBSET (1 .. N), S # {}, NEW T, Grows(S, T, N)
  PROVE  Min(T) = Min(S)
<1>1. T \in SUBSET (1 .. N + 1) /\ T # {} /\ N + 1 \in Nat
  <2>1. N + 1 \in 1 .. N + 1 /\ 1 .. N \subseteq 1 .. N + 1 /\ N + 1 \in Nat
    OBVIOUS
  <2> QED BY <2>1 DEF Grows
<1>2. Min(S) \in S /\ \A y \in S : Min(S) <= y
  BY Positions
<1>3. Min(T) \in T /\ \A y \in T : Min(T) <= y
  BY <1>1, Positions
<1>4. Min(S) \in T /\ Min(S) <= N /\ Min(S) \in Int /\ Min(T) \in Int
  <2>1. Min(S) \in 1 .. N /\ Min(T) \in 1 .. N + 1 /\ S \subseteq T
    BY <1>1, <1>2, <1>3 DEF Grows
  <2> QED BY <1>2, <2>1
<1>5. Min(T) <= Min(S)
  BY <1>3, <1>4
<1>6. Min(T) \in S
  BY <1>3, <1>4, <1>5 DEF Grows
<1>7. Min(S) <= Min(T)
  BY <1>2, <1>6
<1> QED BY <1>4, <1>5, <1>7

(* The first ones stay the first once there are enough of them.            *)
LEMMA FirstStays ==
  ASSUME NEW N \in Nat, NEW n \in Nat, NEW S \in SUBSET (1 .. N),
         Cardinality(S) >= n, NEW T, Grows(S, T, N)
  PROVE  FirstOf(T, n) = FirstOf(S, n)
<1>1. ASSUME NEW k \in S PROVE {j \in T : j < k} = {j \in S : j < k}
  <2>1. k \in 1 .. N
    OBVIOUS
  <2>2. ~(N + 1 < k)
    BY <2>1
  <2> QED BY <2>2 DEF Grows
<1>2. CASE T = S
  BY <1>2
<1>3. CASE T = S \cup {N + 1}
  <2>1. {j \in T : j < N + 1} = S
    <3>1. \A j \in S : j \in 1 .. N /\ j < N + 1
      OBVIOUS
    <3>2. ~(N + 1 < N + 1)
      OBVIOUS
    <3>3. ASSUME NEW j PROVE j \in T /\ j < N + 1 <=> j \in S
      BY <1>3, <3>1, <3>2
    <3> QED BY <3>3
  <2>2. ~(Cardinality({j \in T : j < N + 1}) < n)
    <3>1. Cardinality({j \in T : j < N + 1}) = Cardinality(S)
      BY <2>1
    <3>2. Cardinality(S) \in Nat
      BY Positions
    <3> QED BY <3>1, <3>2
  <2>3. N + 1 \notin FirstOf(T, n)
    BY <2>2 DEF FirstOf
  <2>4. \A k \in S : k \in FirstOf(T, n) <=> k \in FirstOf(S, n)
    BY <1>1, <1>3 DEF FirstOf
  <2>5. FirstOf(T, n) \subseteq S \cup {N + 1} /\ FirstOf(S, n) \subseteq S
    BY <1>3 DEF FirstOf
  <2> QED BY <2>3, <2>4, <2>5
<1> QED BY <1>2, <1>3 DEF Grows

LEMMA FirstIs ==
  ASSUME NEW N \in Nat, NEW n \in Nat \ {0}, NEW S \in SUBSET (1 .. N)
  PROVE  /\ FirstOf(S, n) \subseteq S
         /\ S # {} => FirstOf(S, n) # {}
         /\ \A k \in S \ FirstOf(S, n) : {j \in S : j < k} # {}
<1>1. FirstOf(S, n) \subseteq S
  BY DEF FirstOf
<1>2. ASSUME S # {} PROVE FirstOf(S, n) # {}
  <2>1. PICK m \in S : \A y \in S : m <= y
    BY <1>2, Positions
  <2>2. ASSUME NEW j \in S PROVE ~(j < m)
    <3>1. j \in 1 .. N /\ m \in 1 .. N
      OBVIOUS
    <3> QED BY <2>1, <3>1
  <2>3. {j \in S : j < m} = {}
    BY <2>2
  <2>4. Cardinality({j \in S : j < m}) < n
    <3>1. Cardinality({}) = 0 /\ 0 < n
      BY FS_EmptySet
    <3> QED BY <2>3, <3>1
  <2>5. m \in FirstOf(S, n)
    BY <2>1, <2>4 DEF FirstOf
  <2> QED BY <2>5
<1>3. ASSUME NEW k \in S \ FirstOf(S, n) PROVE {j \in S : j < k} # {}
  <2>1. ~(Cardinality({j \in S : j < k}) < n)
    BY DEF FirstOf
  <2>2. Cardinality({}) = 0 /\ 0 < n
    BY FS_EmptySet
  <2> QED BY <2>1, <2>2
<1> QED BY <1>1, <1>2, <1>3

(* What comes after a bar that is not one of the first, when there are few *)
(* bars more than those.                                                   *)
LEMMA FewAfter ==
  ASSUME NEW M \in Nat, NEW S \in SUBSET (1 .. M), NEW n \in Nat, NEW d \in Nat,
         Cardinality(S) <= n + d, NEW k \in S \ FirstOf(S, n), k .. M \subseteq S
  PROVE  M - k < d
<1> DEFINE before == {j \in S : j < k}
           after  == k .. M
<1>1. k \in 1 .. M
  OBVIOUS
<1>2. Cardinality(before) \in Nat /\ IsFiniteSet(before) /\ IsFiniteSet(S)
  <2>1. before \in SUBSET (1 .. M)
    OBVIOUS
  <2> HIDE DEF before
  <2> QED BY <2>1, Positions
<1>3. Cardinality(before) >= n
  BY <1>2 DEF FirstOf
<1>4. IsFiniteSet(after) /\ Cardinality(after) = M - k + 1
  BY <1>1, FS_Interval
<1>5. before \cap after = {}
  BY <1>1
<1>6. Cardinality(before \cup after) = Cardinality(before) + Cardinality(after)
  <2> HIDE DEF before, after
  <2>1. Cardinality(before \cap after) = 0
    BY <1>5, FS_EmptySet
  <2>2. Cardinality(before \cup after)
          = Cardinality(before) + Cardinality(after) - Cardinality(before \cap after)
    BY <1>2, <1>4, FS_Union
  <2>3. Cardinality(after) \in Nat
    BY <1>4, FS_CardinalityType
  <2> QED BY <1>2, <2>1, <2>2, <2>3
<1>7. before \cup after \in SUBSET S
  OBVIOUS
<1>8. Cardinality(before \cup after) <= Cardinality(S) /\ Cardinality(S) \in Nat
  <2> HIDE DEF before, after
  <2> QED BY <1>2, <1>7, FS_Subset, FS_CardinalityType
<1> HIDE DEF before, after
<1> QED BY <1>1, <1>2, <1>3, <1>4, <1>6, <1>8

-----------------------------------------------------------------------------
(* Bars in the order of their minutes, and one more of them.               *)

Ordered(b) == \A j, k \in 1 .. Len(b) : j < k => b[j].tod < b[k].tod

Extends(b, c) ==
  /\ b \in Seq(BarType) /\ c \in Seq(BarType) /\ Ordered(c)
  /\ Len(c) = Len(b) + 1
  /\ \A k \in 1 .. Len(b) : c[k] = b[k]

LEMMA BarsAre ==
  ASSUME NEW b \in Seq(BarType)
  PROVE  /\ Len(b) \in Nat /\ DOMAIN b = 1 .. Len(b)
         /\ \A k \in 1 .. Len(b) :
              /\ b[k].h \in Int /\ b[k].l \in Int /\ b[k].c \in Int
              /\ b[k].tod \in Minutes /\ b[k].tod \in Nat
<1>1. Len(b) \in Nat /\ DOMAIN b = 1 .. Len(b)
  OBVIOUS
<1>2. ASSUME NEW k \in 1 .. Len(b) PROVE b[k] \in BarType
  OBVIOUS
<1>3. ASSUME NEW x \in BarType
      PROVE  /\ x.h \in Int /\ x.l \in Int /\ x.c \in Int
             /\ x.tod \in Minutes /\ x.tod \in Nat
  <2>1. x.h \in Int /\ x.l \in Int /\ x.c \in Int /\ x.tod \in Minutes
    BY DEF BarType
  <2>2. \A t \in Minutes : t \in Nat
    BY DEF Minutes
  <2>3. x.tod \in Nat
    BY <2>1, <2>2
  <2> QED BY <2>1, <2>3
<1> QED BY <1>1, <1>2, <1>3

(* A set of the bars of some minutes.                                      *)
LEMMA SomeBarsGrow ==
  ASSUME NEW b, NEW c, Extends(b, c), NEW m \in Nat
  PROVE  /\ Grows({k \in DOMAIN b : b[k].tod < m},
                  {k \in DOMAIN c : c[k].tod < m}, Len(b))
         /\ Grows({k \in DOMAIN b : b[k].tod >= m},
                  {k \in DOMAIN c : c[k].tod >= m}, Len(b))
<1>1. /\ DOMAIN b = 1 .. Len(b) /\ DOMAIN c = 1 .. Len(b) + 1 /\ Len(b) \in Nat
      /\ \A k \in 1 .. Len(b) : c[k] = b[k]
  BY BarsAre DEF Extends
<1>2. 1 .. Len(b) + 1 = (1 .. Len(b)) \cup {Len(b) + 1}
  BY <1>1
<1> DEFINE new == Len(b) + 1
           S == {k \in 1 .. Len(b) : b[k].tod < m}
           T == {k \in (1 .. Len(b)) \cup {new} : c[k].tod < m}
           U == {k \in 1 .. Len(b) : b[k].tod >= m}
           V == {k \in (1 .. Len(b)) \cup {new} : c[k].tod >= m}
<1>3. (T = S \/ T = S \cup {new}) /\ (V = U \/ V = U \cup {new})
  <2> HIDE DEF new
  <2>1. CASE c[new].tod < m
    <3>1. T = S \cup {new}
      BY <1>1, <2>1
    <3> QED BY <1>1, <3>1
  <2>2. CASE ~(c[new].tod < m)
    <3>1. T = S
      BY <1>1, <2>2
    <3> QED BY <1>1, <3>1
  <2> QED BY <2>1, <2>2
<1> QED BY <1>1, <1>2, <1>3 DEF Grows

(* The same bars have the same high and low.                               *)
LEMMA HighStays ==
  ASSUME NEW b, NEW c, Extends(b, c), NEW S, S \subseteq 1 .. Len(b)
  PROVE  High(c, S) = High(b, S) /\ Low(c, S) = Low(b, S)
<1>1. \A k \in S : c[k] = b[k]
  BY DEF Extends
<1>2. {c[k].h : k \in S} = {b[k].h : k \in S} /\ {c[k].l : k \in S} = {b[k].l : k \in S}
  BY <1>1
<1> QED BY <1>2 DEF High, Low

LEMMA HighIs ==
  ASSUME NEW b \in Seq(BarType), NEW S, S \subseteq 1 .. Len(b), S # {}
  PROVE  /\ High(b, S) \in Int /\ Low(b, S) \in Int
         /\ \A k \in S : Low(b, S) <= b[k].l
         /\ \E k \in S : Low(b, S) = b[k].l
<1> DEFINE H == {b[k].h : k \in S}
           L == {b[k].l : k \in S}
<1>1. H \subseteq Int /\ L \subseteq Int /\ H # {} /\ L # {}
  BY BarsAre
<1>2. IsFiniteSet(S)
  <2>1. Len(b) \in Nat /\ S \in SUBSET (1 .. Len(b))
    BY BarsAre
  <2> QED BY <2>1, Positions
<1>3. IsFiniteSet(H) /\ IsFiniteSet(L)
  <2> DEFINE h == [k \in S |-> b[k].h]
             l == [k \in S |-> b[k].l]
  <2>1. h \in Surjection(S, H) /\ l \in Surjection(S, L)
    BY DEF Surjection
  <2> HIDE DEF h, l, H, L
  <2> QED BY <1>2, <2>1, FS_Surjection
<1>4. High(b, S) \in H
  <2> HIDE DEF H
  <2>1. Max(H) \in H
    BY <1>1, <1>3, MaxIs
  <2> QED BY <2>1 DEF High, H
<1>5. Low(b, S) \in L /\ \A y \in L : Low(b, S) <= y
  <2> HIDE DEF L
  <2>1. Min(L) \in L /\ \A y \in L : Min(L) <= y
    BY <1>1, <1>3, MinIs
  <2>2. Low(b, S) = Min(L)
    BY DEF Low, L
  <2> QED BY <2>1, <2>2
<1> QED BY <1>1, <1>4, <1>5

-----------------------------------------------------------------------------
(* The event found in some bars.                                           *)

EventOf(e, b) ==
  /\ e.at \in 1 .. Len(b) /\ e.entry \in Int /\ e.stop \in Int
  /\ e.fwd \subseteq e.at + 1 .. Len(b)
  /\ \A j \in e.fwd, k \in e.at + 1 .. Len(b) : k < j => k \in e.fwd

(* The event found in one more bar is the same one; it may have one more   *)
(* bar to come.                                                            *)
KeepsOn(e, f, N) ==
  /\ f # NoEvent
  /\ f.at = e.at /\ f.entry = e.entry /\ f.stop = e.stop
  /\ Grows(e.fwd, f.fwd, N)

LEMMA GrowsIs ==
  ASSUME NEW N \in Nat, NEW S, S \subseteq 1 .. N, NEW T, T \subseteq 1 .. N + 1,
         \A k \in 1 .. N : k \in S <=> k \in T
  PROVE  Grows(S, T, N)
<1>1. 1 .. N + 1 = (1 .. N) \cup {N + 1}
  OBVIOUS
<1> QED BY <1>1 DEF Grows

LEMMA BelowIs ==
  ASSUME NEW price \in Int, NEW permille \in Int
  PROVE  Below(price, permille) \in Int
<1>1. price \div 1000 \in Int /\ 1000 - permille \in Int
  OBVIOUS
<1> QED BY <1>1 DEF Below

LEMMA EventIs ==
  ASSUME NEW b, NEW i, NEW high, NEW low, NEW fwd
  PROVE  /\ Event(b, i, high, low, fwd).at = i
         /\ Event(b, i, high, low, fwd).entry = high
         /\ Event(b, i, high, low, fwd).stop = Below(low, 3)
         /\ Event(b, i, high, low, fwd).fwd = fwd
         /\ i # 0 => Event(b, i, high, low, fwd) # NoEvent
<1>1. Event(b, i, high, low, fwd).at = i
  BY DEF Event
<1>2. NoEvent.at = 0
  BY DEF NoEvent
<1> QED BY <1>1, <1>2 DEF Event

(* The parts of the premarket trigger.                                     *)
PreBars(b)     == {k \in DOMAIN b : b[k].tod < MarketOpen}
PreRange(b)    == FirstOf(PreBars(b), PremarketRange)
PreTriggers(b) == {k \in DOMAIN b \ PreRange(b) :
                     b[k].tod < PremarketCutoff /\ b[k].h >= High(b, PreRange(b))}
PreFwd(b, i)   == {k \in DOMAIN b : k > i /\ b[k].tod <= MarketOpen + MaxHold}
PreFound(b)    == ~(Cardinality(PreBars(b)) <= PremarketRange + 1)
                    /\ PreTriggers(b) # {}
PreEvent(b, i) == Event(b, i, High(b, PreRange(b)), Low(b, PreRange(b)), PreFwd(b, i))

LEMMA PremarketIs ==
  ASSUME NEW b
  PROVE  PremarketEvent(b) = IF PreFound(b) THEN PreEvent(b, Min(PreTriggers(b)))
                             ELSE NoEvent
BY DEF PremarketEvent, PreFound, PreEvent, PreFwd, PreTriggers, PreRange, PreBars

LEMMA PremarketTyped ==
  ASSUME NEW b \in Seq(BarType), PremarketEvent(b) # NoEvent
  PROVE  /\ PreFound(b)
         /\ PremarketEvent(b) = PreEvent(b, Min(PreTriggers(b)))
         /\ Ordered(b) => EventOf(PremarketEvent(b), b)
<1>1. PreFound(b) /\ PremarketEvent(b) = PreEvent(b, Min(PreTriggers(b)))
  BY PremarketIs
<1>2. PICK N \in Nat : N = Len(b) /\ DOMAIN b = 1 .. N
  BY BarsAre
<1>3. PreBars(b) \in SUBSET (1 .. N) /\ PreTriggers(b) \in SUBSET (1 .. N)
  BY <1>2 DEF PreBars, PreTriggers
<1>4. PICK i \in PreTriggers(b) : i = Min(PreTriggers(b))
  <2>1. PreTriggers(b) # {}
    BY <1>1 DEF PreFound
  <2> QED BY <1>3, <2>1, Positions
<1>5. PreRange(b) \subseteq 1 .. N /\ PreRange(b) # {}
  <2>1. PreBars(b) # {}
    <3>1. Cardinality({}) = 0 /\ 0 <= PremarketRange + 1
      BY FS_EmptySet, RulesAssumption
    <3> QED BY <1>1, <3>1 DEF PreFound
  <2>2. PremarketRange \in Nat \ {0}
    BY RulesAssumption
  <2> QED BY <1>3, <2>1, <2>2, FirstIs DEF PreRange
<1>6. High(b, PreRange(b)) \in Int /\ Low(b, PreRange(b)) \in Int
  BY <1>2, <1>5, HighIs
<1>7. ASSUME Ordered(b) PROVE EventOf(PremarketEvent(b), b)
  <2>1. Below(Low(b, PreRange(b)), 3) \in Int
    BY <1>6, BelowIs
  <2>2. i \in 1 .. N
    BY <1>3
  <2>3. PreFwd(b, i) \subseteq i + 1 .. N
    BY <1>2, <2>2 DEF PreFwd
  <2>4. ASSUME NEW j \in PreFwd(b, i), NEW k \in i + 1 .. N, k < j
        PROVE  k \in PreFwd(b, i)
    <3>1. j \in 1 .. N /\ k \in 1 .. N /\ k > i
      BY <2>2, <2>3
    <3>2. b[k].tod \in Nat /\ b[j].tod \in Nat /\ b[k].tod < b[j].tod
      BY <1>2, <1>7, <2>4, <3>1, BarsAre DEF Ordered
    <3>3. b[j].tod <= MarketOpen + MaxHold /\ MarketOpen + MaxHold \in Nat
      BY RulesAssumption DEF PreFwd
    <3> QED BY <1>2, <3>1, <3>2, <3>3 DEF PreFwd
  <2>5. PremarketEvent(b) = PreEvent(b, i)
    BY <1>1, <1>4
  <2> QED BY <1>2, <1>6, <2>1, <2>2, <2>3, <2>4, <2>5, EventIs DEF EventOf, PreEvent
<1> QED BY <1>1, <1>7

LEMMA PremarketStays ==
  ASSUME NEW b, NEW c, Extends(b, c), PremarketEvent(b) # NoEvent
  PROVE  KeepsOn(PremarketEvent(b), PremarketEvent(c), Len(b))
<1>1. b \in Seq(BarType) /\ c \in Seq(BarType)
  BY DEF Extends
<1>2. PICK N \in Nat : /\ N = Len(b) /\ DOMAIN b = 1 .. N /\ DOMAIN c = 1 .. N + 1
                       /\ \A k \in 1 .. N : c[k] = b[k]
  BY <1>1, BarsAre DEF Extends
<1>3. PreFound(b) /\ PremarketEvent(b) = PreEvent(b, Min(PreTriggers(b)))
  BY <1>1, PremarketTyped
<1>4. PreBars(b) \in SUBSET (1 .. N) /\ Grows(PreBars(b), PreBars(c), N)
  BY <1>2, SomeBarsGrow, RulesAssumption DEF PreBars
<1>5. PremarketRange \in Nat /\ Cardinality(PreBars(b)) \in Nat
  BY <1>4, Positions, RulesAssumption
<1>6. Cardinality(PreBars(b)) >= PremarketRange
  BY <1>3, <1>5 DEF PreFound
<1>7. PreRange(c) = PreRange(b) /\ PreRange(b) \subseteq 1 .. N
  <2>1. PreRange(c) = PreRange(b)
    BY <1>4, <1>5, <1>6, FirstStays DEF PreRange
  <2> QED BY <1>4, <2>1 DEF PreRange, FirstOf
<1>8. High(c, PreRange(c)) = High(b, PreRange(b)) /\ Low(c, PreRange(c)) = Low(b, PreRange(b))
  BY <1>2, <1>7, HighStays
<1>9. PreTriggers(b) \in SUBSET (1 .. N) /\ Grows(PreTriggers(b), PreTriggers(c), N)
  <2>1. PreTriggers(b) \subseteq 1 .. N /\ PreTriggers(c) \subseteq 1 .. N + 1
    BY <1>2 DEF PreTriggers
  <2>2. ASSUME NEW k \in 1 .. N PROVE k \in PreTriggers(b) <=> k \in PreTriggers(c)
    BY <1>2, <1>7, <1>8 DEF PreTriggers
  <2> QED BY <2>1, <2>2, GrowsIs
<1>10. PICK i \in PreTriggers(b) : i = Min(PreTriggers(b)) /\ i = Min(PreTriggers(c))
  BY <1>3, <1>9, Positions, MinStays DEF PreFound
<1>11. PreFound(c)
  <2>1. PreTriggers(c) # {}
    BY <1>3, <1>9 DEF PreFound, Grows
  <2>2. ~(Cardinality(PreBars(c)) <= PremarketRange + 1)
    <3>1. IsFiniteSet(PreBars(c)) /\ Cardinality(PreBars(c)) \in Nat
      <4>1. PreBars(c) \in SUBSET (1 .. N + 1) /\ N + 1 \in Nat
        BY <1>2 DEF PreBars
      <4> QED BY <4>1, Positions
    <3>2. PreBars(b) \in SUBSET PreBars(c)
      BY <1>4 DEF Grows
    <3>3. Cardinality(PreBars(b)) <= Cardinality(PreBars(c))
      BY <3>1, <3>2, FS_Subset
    <3> QED BY <1>3, <1>5, <3>1, <3>3 DEF PreFound
  <2> QED BY <2>1, <2>2 DEF PreFound
<1>12. Grows(PreFwd(b, i), PreFwd(c, i), N)
  <2>1. PreFwd(b, i) \subseteq 1 .. N /\ PreFwd(c, i) \subseteq 1 .. N + 1
    BY <1>2 DEF PreFwd
  <2>2. ASSUME NEW k \in 1 .. N PROVE k \in PreFwd(b, i) <=> k \in PreFwd(c, i)
    BY <1>2 DEF PreFwd
  <2> QED BY <2>1, <2>2, GrowsIs
<1>13. PremarketEvent(c) = PreEvent(c, i) /\ PremarketEvent(b) = PreEvent(b, i) /\ i # 0
  BY <1>3, <1>9, <1>10, <1>11, PremarketIs
<1> QED BY <1>2, <1>8, <1>12, <1>13, EventIs DEF KeepsOn, PreEvent

(* The parts of the regular trigger.                                       *)
RegBars(b)     == {k \in DOMAIN b : b[k].tod >= MarketOpen}
OpenRange(b)   == FirstOf(RegBars(b), OpeningRange)
RegTriggers(b) == {k \in RegBars(b) \ OpenRange(b) : b[k].h >= High(b, OpenRange(b))}
RegFwd(b, i)   == (i + 1 .. i + MaxHold) \cap DOMAIN b
RegFound(b)    == ~(Cardinality(RegBars(b)) <= OpeningRange + 1) /\ RegTriggers(b) # {}
RegEvent(b, i) == Event(b, i, High(b, OpenRange(b)), Low(b, OpenRange(b)), RegFwd(b, i))

LEMMA RegularIs ==
  ASSUME NEW b
  PROVE  RegularEvent(b) = IF RegFound(b) THEN RegEvent(b, Min(RegTriggers(b)))
                           ELSE NoEvent
BY DEF RegularEvent, RegFound, RegEvent, RegFwd, RegTriggers, OpenRange, RegBars

LEMMA RegularTyped ==
  ASSUME NEW b \in Seq(BarType), RegularEvent(b) # NoEvent
  PROVE  /\ RegFound(b)
         /\ RegularEvent(b) = RegEvent(b, Min(RegTriggers(b)))
         /\ EventOf(RegularEvent(b), b)
<1>1. RegFound(b) /\ RegularEvent(b) = RegEvent(b, Min(RegTriggers(b)))
  BY RegularIs
<1>2. PICK N \in Nat : N = Len(b) /\ DOMAIN b = 1 .. N
  BY BarsAre
<1>3. RegBars(b) \in SUBSET (1 .. N) /\ RegTriggers(b) \in SUBSET (1 .. N)
  BY <1>2 DEF RegBars, RegTriggers
<1>4. PICK i \in RegTriggers(b) : i = Min(RegTriggers(b))
  <2>1. RegTriggers(b) # {}
    BY <1>1 DEF RegFound
  <2> QED BY <1>3, <2>1, Positions
<1>5. OpenRange(b) \subseteq 1 .. N /\ OpenRange(b) # {}
  <2>1. RegBars(b) # {}
    BY <1>4 DEF RegTriggers
  <2>2. OpeningRange \in Nat \ {0}
    BY RulesAssumption
  <2> QED BY <1>3, <2>1, <2>2, FirstIs DEF OpenRange
<1>6. High(b, OpenRange(b)) \in Int /\ Low(b, OpenRange(b)) \in Int
  BY <1>2, <1>5, HighIs
<1>7. EventOf(RegularEvent(b), b)
  <2>1. Below(Low(b, OpenRange(b)), 3) \in Int
    BY <1>6, BelowIs
  <2>2. i \in 1 .. N /\ MaxHold \in Nat
    BY <1>3, RulesAssumption
  <2>3. RegFwd(b, i) \subseteq i + 1 .. N
    BY <1>2, <2>2 DEF RegFwd
  <2>4. ASSUME NEW j \in RegFwd(b, i), NEW k \in i + 1 .. N, k < j
        PROVE  k \in RegFwd(b, i)
    BY <1>2, <2>2, <2>4 DEF RegFwd
  <2>5. RegularEvent(b) = RegEvent(b, i)
    BY <1>1, <1>4
  <2> QED BY <1>2, <1>6, <2>1, <2>2, <2>3, <2>4, <2>5, EventIs DEF EventOf, RegEvent
<1> QED BY <1>1, <1>7

(* The regular bars and their range, with one more bar.                    *)
LEMMA RegBarsStay ==
  ASSUME NEW b, NEW c, Extends(b, c), ~(Cardinality(RegBars(b)) <= OpeningRange + 1)
  PROVE  /\ Grows(RegBars(b), RegBars(c), Len(b))
         /\ ~(Cardinality(RegBars(c)) <= OpeningRange + 1)
         /\ ~(Cardinality(RegBars(b)) <= OpeningRange + 2) =>
              ~(Cardinality(RegBars(c)) <= OpeningRange + 2)
         /\ OpenRange(c) = OpenRange(b) /\ OpenRange(b) \subseteq 1 .. Len(b)
<1>1. b \in Seq(BarType) /\ c \in Seq(BarType)
  BY DEF Extends
<1>2. PICK N \in Nat : /\ N = Len(b) /\ DOMAIN b = 1 .. N /\ DOMAIN c = 1 .. N + 1
                       /\ \A k \in 1 .. N : c[k] = b[k]
  BY <1>1, BarsAre DEF Extends
<1>4. RegBars(b) \in SUBSET (1 .. N) /\ Grows(RegBars(b), RegBars(c), N)
  BY <1>2, SomeBarsGrow, RulesAssumption DEF RegBars
<1>5. OpeningRange \in Nat /\ Cardinality(RegBars(b)) \in Nat
  BY <1>4, Positions, RulesAssumption
<1>6. Cardinality(RegBars(b)) >= OpeningRange
  BY <1>5
<1>7. OpenRange(c) = OpenRange(b) /\ OpenRange(b) \subseteq 1 .. N
  <2>1. OpenRange(c) = OpenRange(b)
    BY <1>4, <1>5, <1>6, FirstStays DEF OpenRange
  <2> QED BY <1>4, <2>1 DEF OpenRange, FirstOf
<1>8. Cardinality(RegBars(b)) <= Cardinality(RegBars(c)) /\ Cardinality(RegBars(c)) \in Nat
  <2>1. IsFiniteSet(RegBars(c)) /\ Cardinality(RegBars(c)) \in Nat
    <3>1. RegBars(c) \in SUBSET (1 .. N + 1) /\ N + 1 \in Nat
      BY <1>2 DEF RegBars
    <3> QED BY <3>1, Positions
  <2>2. RegBars(b) \in SUBSET RegBars(c)
    BY <1>4 DEF Grows
  <2> QED BY <2>1, <2>2, FS_Subset
<1> QED BY <1>2, <1>4, <1>5, <1>7, <1>8

LEMMA RegularStays ==
  ASSUME NEW b, NEW c, Extends(b, c), RegularEvent(b) # NoEvent
  PROVE  KeepsOn(RegularEvent(b), RegularEvent(c), Len(b))
<1>1. b \in Seq(BarType) /\ c \in Seq(BarType)
  BY DEF Extends
<1>2. PICK N \in Nat : /\ N = Len(b) /\ DOMAIN b = 1 .. N /\ DOMAIN c = 1 .. N + 1
                       /\ \A k \in 1 .. N : c[k] = b[k]
  BY <1>1, BarsAre DEF Extends
<1>3. RegFound(b) /\ RegularEvent(b) = RegEvent(b, Min(RegTriggers(b)))
  BY <1>1, RegularTyped
<1>4. RegBars(b) \in SUBSET (1 .. N) /\ RegBars(c) \subseteq 1 .. N + 1
  BY <1>2 DEF RegBars
<1>5. /\ Grows(RegBars(b), RegBars(c), N)
      /\ ~(Cardinality(RegBars(c)) <= OpeningRange + 1)
      /\ OpenRange(c) = OpenRange(b) /\ OpenRange(b) \subseteq 1 .. N
  BY <1>2, <1>3, RegBarsStay DEF RegFound
<1>8. High(c, OpenRange(c)) = High(b, OpenRange(b)) /\ Low(c, OpenRange(c)) = Low(b, OpenRange(b))
  BY <1>2, <1>5, HighStays
<1>9. RegTriggers(b) \in SUBSET (1 .. N) /\ Grows(RegTriggers(b), RegTriggers(c), N)
  <2>1. RegTriggers(b) \subseteq 1 .. N /\ RegTriggers(c) \subseteq 1 .. N + 1
    BY <1>4 DEF RegTriggers
  <2>2. ASSUME NEW k \in 1 .. N PROVE k \in RegTriggers(b) <=> k \in RegTriggers(c)
    <3>1. k \in RegBars(b) <=> k \in RegBars(c)
      BY <1>2 DEF RegBars
    <3> QED BY <1>2, <1>5, <1>8, <3>1 DEF RegTriggers
  <2> QED BY <2>1, <2>2, GrowsIs
<1>10. PICK i \in RegTriggers(b) : i = Min(RegTriggers(b)) /\ i = Min(RegTriggers(c))
  BY <1>3, <1>9, Positions, MinStays DEF RegFound
<1>11. RegFound(c)
  BY <1>3, <1>5, <1>9 DEF RegFound, Grows
<1>12. Grows(RegFwd(b, i), RegFwd(c, i), N)
  <2>1. RegFwd(b, i) \subseteq 1 .. N /\ RegFwd(c, i) \subseteq 1 .. N + 1
    BY <1>2 DEF RegFwd
  <2>2. ASSUME NEW k \in 1 .. N PROVE k \in RegFwd(b, i) <=> k \in RegFwd(c, i)
    BY <1>2 DEF RegFwd
  <2> QED BY <2>1, <2>2, GrowsIs
<1>13. RegularEvent(c) = RegEvent(c, i) /\ RegularEvent(b) = RegEvent(b, i) /\ i # 0
  BY <1>3, <1>9, <1>10, <1>11, RegularIs
<1> QED BY <1>2, <1>8, <1>12, <1>13, EventIs DEF KeepsOn, RegEvent

(* The parts of the intraday trigger.                                      *)
Past(b, k)     == {j \in RegBars(b) : j < k}
Recent(b, k)   == {j \in RegBars(b) : k - OpeningRange <= j /\ j <= k}
DayTriggers(b) == {k \in RegBars(b) \ OpenRange(b) :
                     b[k].tod < IntradayCutoff /\ b[k].h >= High(b, Past(b, k))}
DayFwd(b, i)   == {k \in RegBars(b) : k > i /\ b[k].tod <= IntradayCutoff + MaxHold}
DayFound(b)    == ~(Cardinality(RegBars(b)) <= OpeningRange + 2) /\ DayTriggers(b) # {}
DayEvent(b, i) == Event(b, i, High(b, Past(b, i)), Low(b, Recent(b, i)), DayFwd(b, i))

LEMMA IntradayIs ==
  ASSUME NEW b
  PROVE  IntradayEvent(b) = IF DayFound(b) THEN DayEvent(b, Min(DayTriggers(b)))
                            ELSE NoEvent
BY DEF IntradayEvent, DayFound, DayEvent, DayFwd, DayTriggers, Past, Recent,
       OpenRange, RegBars

LEMMA IntradayTyped ==
  ASSUME NEW b \in Seq(BarType), IntradayEvent(b) # NoEvent
  PROVE  /\ DayFound(b)
         /\ IntradayEvent(b) = DayEvent(b, Min(DayTriggers(b)))
         /\ Min(DayTriggers(b)) \in RegBars(b) \ OpenRange(b)
         /\ Ordered(b) => EventOf(IntradayEvent(b), b)
<1>1. DayFound(b) /\ IntradayEvent(b) = DayEvent(b, Min(DayTriggers(b)))
  BY IntradayIs
<1>2. PICK N \in Nat : N = Len(b) /\ DOMAIN b = 1 .. N
  BY BarsAre
<1>3. RegBars(b) \in SUBSET (1 .. N) /\ DayTriggers(b) \in SUBSET (1 .. N)
  BY <1>2 DEF RegBars, DayTriggers
<1>4. PICK i \in DayTriggers(b) : i = Min(DayTriggers(b))
  <2>1. DayTriggers(b) # {}
    BY <1>1 DEF DayFound
  <2> QED BY <1>3, <2>1, Positions
<1>5. i \in RegBars(b) \ OpenRange(b) /\ i \in 1 .. N /\ OpeningRange \in Nat \ {0}
  BY <1>3, RulesAssumption DEF DayTriggers
<1>6. High(b, Past(b, i)) \in Int
  <2>1. Past(b, i) \subseteq 1 .. N
    BY <1>3 DEF Past
  <2>2. Past(b, i) # {}
    <3>1. \A k \in RegBars(b) \ FirstOf(RegBars(b), OpeningRange) :
            {j \in RegBars(b) : j < k} # {}
      BY <1>2, <1>3, <1>5, FirstIs
    <3> QED BY <1>5, <3>1 DEF Past, OpenRange
  <2> QED BY <1>2, <2>1, <2>2, HighIs
<1>7. Low(b, Recent(b, i)) \in Int
  <2>1. Recent(b, i) \subseteq 1 .. N
    BY <1>3 DEF Recent
  <2>2. i \in Recent(b, i)
    BY <1>5 DEF Recent
  <2> QED BY <1>2, <2>1, <2>2, HighIs
<1>8. ASSUME Ordered(b) PROVE EventOf(IntradayEvent(b), b)
  <2>1. Below(Low(b, Recent(b, i)), 3) \in Int
    BY <1>7, BelowIs
  <2>3. DayFwd(b, i) \subseteq i + 1 .. N
    BY <1>3, <1>5 DEF DayFwd
  <2>4. ASSUME NEW j \in DayFwd(b, i), NEW k \in i + 1 .. N, k < j
        PROVE  k \in DayFwd(b, i)
    <3>1. j \in 1 .. N /\ k \in 1 .. N /\ k > i
      BY <1>5, <2>3
    <3>2. /\ b[k].tod \in Nat /\ b[j].tod \in Nat /\ b[i].tod \in Nat
          /\ b[k].tod < b[j].tod /\ b[i].tod < b[k].tod
      BY <1>2, <1>5, <1>8, <2>4, <3>1, BarsAre DEF Ordered
    <3>3. /\ b[j].tod <= IntradayCutoff + MaxHold /\ IntradayCutoff + MaxHold \in Nat
          /\ b[i].tod >= MarketOpen /\ MarketOpen \in Nat
      BY <1>5, RulesAssumption DEF DayFwd, RegBars
    <3> QED BY <1>2, <3>1, <3>2, <3>3 DEF DayFwd, RegBars
  <2>5. IntradayEvent(b) = DayEvent(b, i)
    BY <1>1, <1>4
  <2> QED BY <1>2, <1>5, <1>6, <2>1, <2>3, <2>4, <2>5, EventIs DEF EventOf, DayEvent
<1> QED BY <1>1, <1>4, <1>5, <1>8

LEMMA IntradayStays ==
  ASSUME NEW b, NEW c, Extends(b, c), IntradayEvent(b) # NoEvent
  PROVE  KeepsOn(IntradayEvent(b), IntradayEvent(c), Len(b))
<1>1. b \in Seq(BarType) /\ c \in Seq(BarType)
  BY DEF Extends
<1>2. PICK N \in Nat : /\ N = Len(b) /\ DOMAIN b = 1 .. N /\ DOMAIN c = 1 .. N + 1
                       /\ \A k \in 1 .. N : c[k] = b[k]
  BY <1>1, BarsAre DEF Extends
<1>3. DayFound(b) /\ IntradayEvent(b) = DayEvent(b, Min(DayTriggers(b)))
  BY <1>1, IntradayTyped
<1>4. RegBars(b) \in SUBSET (1 .. N) /\ RegBars(c) \subseteq 1 .. N + 1
  BY <1>2 DEF RegBars
<1>5. /\ Grows(RegBars(b), RegBars(c), N)
      /\ ~(Cardinality(RegBars(c)) <= OpeningRange + 2)
      /\ OpenRange(c) = OpenRange(b) /\ OpenRange(b) \subseteq 1 .. N
  <2>1. Cardinality(RegBars(b)) \in Nat /\ OpeningRange \in Nat
    BY <1>4, Positions, RulesAssumption
  <2>2. ~(Cardinality(RegBars(b)) <= OpeningRange + 1)
    BY <1>3, <2>1 DEF DayFound
  <2> QED BY <1>2, <1>3, <2>2, RegBarsStay DEF DayFound
<1>6. ASSUME NEW k \in 1 .. N
      PROVE  /\ k \in RegBars(b) <=> k \in RegBars(c)
             /\ High(c, Past(c, k)) = High(b, Past(b, k))
             /\ Low(c, Recent(c, k)) = Low(b, Recent(b, k))
  <2>1. \A j \in 1 .. N : j \in RegBars(b) <=> j \in RegBars(c)
    BY <1>2 DEF RegBars
  <2>2. Past(c, k) = Past(b, k) /\ Recent(c, k) = Recent(b, k)
    <3>1. \A j \in 1 .. N + 1 : j <= k => j \in 1 .. N
      OBVIOUS
    <3>2. \A j \in 1 .. N + 1 : j < k => j <= k
      OBVIOUS
    <3> QED BY <1>4, <2>1, <3>1, <3>2 DEF Past, Recent
  <2>3. Past(b, k) \subseteq 1 .. N /\ Recent(b, k) \subseteq 1 .. N
    BY <1>4 DEF Past, Recent
  <2> QED BY <1>2, <2>1, <2>2, <2>3, HighStays
<1>9. DayTriggers(b) \in SUBSET (1 .. N) /\ Grows(DayTriggers(b), DayTriggers(c), N)
  <2>1. DayTriggers(b) \subseteq 1 .. N /\ DayTriggers(c) \subseteq 1 .. N + 1
    BY <1>4 DEF DayTriggers
  <2>2. ASSUME NEW k \in 1 .. N PROVE k \in DayTriggers(b) <=> k \in DayTriggers(c)
    BY <1>2, <1>5, <1>6 DEF DayTriggers
  <2> QED BY <2>1, <2>2, GrowsIs
<1>10. PICK i \in DayTriggers(b) : i = Min(DayTriggers(b)) /\ i = Min(DayTriggers(c))
  BY <1>3, <1>9, Positions, MinStays DEF DayFound
<1>11. DayFound(c)
  BY <1>3, <1>5, <1>9 DEF DayFound, Grows
<1>12. Grows(DayFwd(b, i), DayFwd(c, i), N)
  <2>1. DayFwd(b, i) \subseteq 1 .. N /\ DayFwd(c, i) \subseteq 1 .. N + 1
    BY <1>4 DEF DayFwd
  <2>2. ASSUME NEW k \in 1 .. N PROVE k \in DayFwd(b, i) <=> k \in DayFwd(c, i)
    BY <1>2, <1>6 DEF DayFwd
  <2> QED BY <2>1, <2>2, GrowsIs
<1>13. IntradayEvent(c) = DayEvent(c, i) /\ IntradayEvent(b) = DayEvent(b, i) /\ i \in 1 .. N
  BY <1>3, <1>9, <1>10, <1>11, IntradayIs
<1>14. High(c, Past(c, i)) = High(b, Past(b, i)) /\ Low(c, Recent(c, i)) = Low(b, Recent(b, i))
  BY <1>6, <1>13
<1> QED BY <1>2, <1>12, <1>13, <1>14, EventIs DEF KeepsOn, DayEvent

-----------------------------------------------------------------------------
(* The event of any session.                                               *)

LEMMA EventTyped ==
  ASSUME NEW s \in Sessions, NEW b \in Seq(BarType), Ordered(b),
         FindEvent(s, b) # NoEvent
  PROVE  EventOf(FindEvent(s, b), b)
<1>1. CASE s = "premarket"
  BY <1>1, PremarketTyped DEF FindEvent
<1>2. CASE s = "regular"
  BY <1>2, RegularTyped DEF FindEvent
<1>3. CASE s = "intraday"
  BY <1>3, IntradayTyped DEF FindEvent
<1> QED BY <1>1, <1>2, <1>3 DEF Sessions

LEMMA EventStays ==
  ASSUME NEW s \in Sessions, NEW b, NEW c, Extends(b, c), FindEvent(s, b) # NoEvent
  PROVE  KeepsOn(FindEvent(s, b), FindEvent(s, c), Len(b))
<1>1. CASE s = "premarket"
  BY <1>1, PremarketStays DEF FindEvent
<1>2. CASE s = "regular"
  BY <1>2, RegularStays DEF FindEvent
<1>3. CASE s = "intraday"
  BY <1>3, IntradayStays DEF FindEvent
<1> QED BY <1>1, <1>2, <1>3 DEF Sessions

LEMMA NoBarsNoEvent ==
  ASSUME NEW s \in Sessions
  PROVE  FindEvent(s, <<>>) = NoEvent
<1>1. PreBars(<<>>) = {} /\ RegBars(<<>>) = {}
  BY DEF PreBars, RegBars
<1>2. /\ Cardinality({}) = 0 /\ 0 <= PremarketRange + 1
      /\ 0 <= OpeningRange + 1 /\ 0 <= OpeningRange + 2
  BY FS_EmptySet, RulesAssumption
<1>3. ~PreFound(<<>>) /\ ~RegFound(<<>>) /\ ~DayFound(<<>>)
  BY <1>1, <1>2 DEF PreFound, RegFound, DayFound
<1> QED BY <1>3, PremarketIs, RegularIs, IntradayIs DEF FindEvent, Sessions

(* The minute after which no bar counts.                                   *)
LastMinute(s) == CASE s = "premarket" -> MarketOpen + MaxHold
                   [] s = "intraday"  -> IntradayCutoff + MaxHold
                   [] s = "regular"   -> 10000

(* A bar after the window adds nothing to it.                              *)
LEMMA WindowCloses ==
  ASSUME NEW s \in Sessions, NEW b, NEW c, Extends(b, c), FindEvent(s, b) # NoEvent,
         c[Len(c)].tod > LastMinute(s)
  PROVE  FindEvent(s, c).fwd = FindEvent(s, b).fwd
<1>1. PICK N \in Nat : /\ N = Len(b) /\ Len(c) = N + 1 /\ DOMAIN c = 1 .. N + 1
                       /\ b \in Seq(BarType) /\ c \in Seq(BarType)
  BY BarsAre DEF Extends
<1>2. FindEvent(s, c) # NoEvent
  BY EventStays DEF KeepsOn
<1>3. N + 1 \notin FindEvent(s, c).fwd
  <2>1. c[N + 1].tod \in Minutes /\ c[N + 1].tod \in Nat
    BY <1>1, BarsAre
  <2>2. CASE s = "premarket"
    <3>1. c[N + 1].tod > MarketOpen + MaxHold /\ MarketOpen + MaxHold \in Nat
      BY <1>1, <2>2, RulesAssumption DEF LastMinute
    <3>2. FindEvent(s, c) = PreEvent(c, Min(PreTriggers(c)))
      BY <1>1, <1>2, <2>2, PremarketTyped DEF FindEvent
    <3>3. FindEvent(s, c).fwd = PreFwd(c, Min(PreTriggers(c)))
      BY <3>2, EventIs DEF PreEvent
    <3> QED BY <2>1, <3>1, <3>3 DEF PreFwd
  <2>3. CASE s = "intraday"
    <3>1. c[N + 1].tod > IntradayCutoff + MaxHold /\ IntradayCutoff + MaxHold \in Nat
      BY <1>1, <2>3, RulesAssumption DEF LastMinute
    <3>2. FindEvent(s, c) = DayEvent(c, Min(DayTriggers(c)))
      BY <1>1, <1>2, <2>3, IntradayTyped DEF FindEvent
    <3>3. FindEvent(s, c).fwd = DayFwd(c, Min(DayTriggers(c)))
      BY <3>2, EventIs DEF DayEvent
    <3> QED BY <2>1, <3>1, <3>3 DEF DayFwd
  <2>4. CASE s = "regular"
    <3>1. c[N + 1].tod > 10000
      BY <1>1, <2>4 DEF LastMinute
    <3>2. \A t \in Minutes : ~(t > 10000)
      BY DEF Minutes
    <3> QED BY <2>1, <3>1, <3>2
  <2> QED BY <2>2, <2>3, <2>4 DEF Sessions
<1>4. FindEvent(s, c).fwd = FindEvent(s, b).fwd
        \/ FindEvent(s, c).fwd = FindEvent(s, b).fwd \cup {N + 1}
  BY <1>1, EventStays DEF KeepsOn, Grows
<1> QED BY <1>3, <1>4

-----------------------------------------------------------------------------
(* A new event is a fresh one.                                             *)

(* One more element is at most one more.                                   *)
LEMMA OneMore ==
  ASSUME NEW N \in Nat, NEW S \in SUBSET (1 .. N), NEW T, Grows(S, T, N)
  PROVE  /\ Cardinality(S) \in Nat /\ Cardinality(T) \in Nat
         /\ Cardinality(T) <= Cardinality(S) + 1
         /\ Cardinality(T) # Cardinality(S) => N + 1 \in T
<1>1. IsFiniteSet(S) /\ Cardinality(S) \in Nat
  BY Positions
<1>2. Cardinality(S \cup {N + 1}) \in {Cardinality(S), Cardinality(S) + 1}
  BY <1>1, FS_AddElement
<1> QED BY <1>1, <1>2 DEF Grows

(* Of some last bars of c, a few more than the first n, those that are not *)
(* among the first n are few.                                              *)
LEMMA FewSince ==
  ASSUME NEW M \in Nat, NEW S \in SUBSET (1 .. M), NEW n \in Nat, NEW d \in Nat,
         Cardinality(S) <= n + d, NEW k \in S \ FirstOf(S, n),
         \A j \in 1 .. M : j >= k => j \in S
  PROVE  M - k < d
<1>1. k .. M \subseteq S
  <2>1. k \in 1 .. M
    OBVIOUS
  <2> QED BY <2>1
<1> QED BY <1>1, FewAfter

LEMMA PremarketFresh ==
  ASSUME NEW b, NEW c, Extends(b, c),
         PremarketEvent(b) = NoEvent, PremarketEvent(c) # NoEvent
  PROVE  Len(c) - PremarketEvent(c).at \in 0 .. 2
<1>1. b \in Seq(BarType) /\ c \in Seq(BarType) /\ Ordered(c)
  BY DEF Extends
<1>2. PICK N \in Nat : /\ N = Len(b) /\ DOMAIN b = 1 .. N
                       /\ Len(c) = N + 1 /\ DOMAIN c = 1 .. N + 1
                       /\ \A k \in 1 .. N : c[k] = b[k]
  BY <1>1, BarsAre DEF Extends
<1>3. /\ PreFound(c) /\ PremarketEvent(c) = PreEvent(c, Min(PreTriggers(c)))
  BY <1>1, PremarketTyped
<1>4. PreTriggers(c) \in SUBSET (1 .. N + 1) /\ N + 1 \in Nat
  BY <1>2 DEF PreTriggers
<1>5. PICK i \in PreTriggers(c) : i = Min(PreTriggers(c)) /\ PremarketEvent(c).at = i
  <2>1. PreTriggers(c) # {}
    BY <1>3 DEF PreFound
  <2>2. Min(PreTriggers(c)) \in PreTriggers(c)
    BY <1>4, <2>1, Positions
  <2>3. PremarketEvent(c).at = Min(PreTriggers(c))
    BY <1>3, EventIs DEF PreEvent
  <2> QED BY <2>2, <2>3
<1>6. i \in 1 .. N + 1
  BY <1>4
<1>7. PreBars(b) \in SUBSET (1 .. N) /\ Grows(PreBars(b), PreBars(c), N)
  BY <1>2, SomeBarsGrow, RulesAssumption DEF PreBars
<1>8. ~PreFound(b)
  <2>1. SUFFICES ASSUME PreFound(b) PROVE FALSE
    OBVIOUS
  <2>2. PreTriggers(b) \in SUBSET (1 .. N) /\ PreTriggers(b) # {}
    BY <1>2, <2>1 DEF PreTriggers, PreFound
  <2>3. Min(PreTriggers(b)) \in 1 .. N
    BY <2>2, Positions
  <2>4. Min(PreTriggers(b)) # 0
    BY <2>3
  <2>5. PremarketEvent(b) = PreEvent(b, Min(PreTriggers(b)))
    BY <2>1, PremarketIs
  <2> QED BY <2>4, <2>5, EventIs DEF PreEvent
<1>9. CASE Cardinality(PreBars(b)) <= PremarketRange + 1
  <2>1. /\ Cardinality(PreBars(c)) <= PremarketRange + 2 /\ N + 1 \in PreBars(c)
    BY <1>3, <1>7, <1>9, OneMore, RulesAssumption DEF PreFound
  <2>2. PreBars(c) = 1 .. N + 1
    <3>1. c[N + 1].tod < MarketOpen
      BY <2>1 DEF PreBars
    <3>2. ASSUME NEW k \in 1 .. N PROVE c[k].tod < MarketOpen
      <4>1. k \in 1 .. N + 1 /\ N + 1 \in 1 .. N + 1 /\ k < N + 1
        OBVIOUS
      <4>2. c[k].tod < c[N + 1].tod /\ c[k].tod \in Nat /\ c[N + 1].tod \in Nat
        BY <1>1, <1>2, <4>1, BarsAre DEF Ordered
      <4> QED BY <3>1, <4>2, RulesAssumption
    <3>3. \A k \in 1 .. N + 1 : c[k].tod < MarketOpen
      BY <3>1, <3>2
    <3> QED BY <1>2, <3>3 DEF PreBars
  <2>3. i \in PreBars(c) \ FirstOf(PreBars(c), PremarketRange)
    BY <1>6, <2>2 DEF PreTriggers, PreRange
  <2>4. N + 1 - i < 2
    <3>1. PICK S \in SUBSET (1 .. N + 1) : S = PreBars(c)
      BY <2>2
    <3>2. PICK n \in Nat : n = PremarketRange
      BY RulesAssumption
    <3>3. \A j \in 1 .. N + 1 : j >= i => j \in S
      BY <2>2, <3>1
    <3>4. PICK d \in Nat, M \in Nat : d = 2 /\ M = N + 1
      OBVIOUS
    <3>5. i \in S \ FirstOf(S, n) /\ Cardinality(S) <= n + d
      BY <2>1, <2>3, <3>1, <3>2, <3>4
    <3>6. M - i < d
      BY <3>1, <3>3, <3>4, <3>5, FewSince
    <3> QED BY <1>6, <3>4, <3>6
  <2> QED BY <1>2, <1>5, <1>6, <2>4
<1>10. CASE ~(Cardinality(PreBars(b)) <= PremarketRange + 1)
  <2>1. PreTriggers(b) = {}
    BY <1>8, <1>10 DEF PreFound
  <2>2. PremarketRange \in Nat /\ Cardinality(PreBars(b)) >= PremarketRange
    <3>1. PremarketRange \in Nat /\ Cardinality(PreBars(b)) \in Nat
      BY <1>7, Positions, RulesAssumption
    <3> QED BY <1>10, <3>1
  <2>3. PreRange(c) = PreRange(b) /\ PreRange(b) \subseteq 1 .. N
    <3>1. PreRange(c) = PreRange(b)
      BY <1>7, <2>2, FirstStays DEF PreRange
    <3> QED BY <1>7, <3>1 DEF PreRange, FirstOf
  <2>4. High(c, PreRange(c)) = High(b, PreRange(b))
    BY <1>2, <2>3, HighStays
  <2>5. i \notin 1 .. N
    <3>1. ASSUME i \in 1 .. N PROVE i \in PreTriggers(b)
      BY <1>2, <2>3, <2>4, <3>1 DEF PreTriggers
    <3> QED BY <2>1, <3>1
  <2> QED BY <1>2, <1>5, <1>6, <2>5
<1> QED BY <1>9, <1>10

(* The regular bars are the last ones.                                     *)
LEMMA RegBarsLast ==
  ASSUME NEW c \in Seq(BarType), Ordered(c), NEW k \in RegBars(c),
         NEW j \in 1 .. Len(c), j >= k
  PROVE  j \in RegBars(c)
<1>1. PICK M \in Nat : M = Len(c) /\ DOMAIN c = 1 .. M
  BY BarsAre
<1>2. k \in 1 .. M /\ j \in 1 .. M /\ c[k].tod >= MarketOpen /\ MarketOpen \in Nat
  BY <1>1, RulesAssumption DEF RegBars
<1>3. c[k].tod \in Nat /\ c[j].tod \in Nat
  BY <1>1, <1>2, BarsAre
<1>4. k = j \/ c[k].tod < c[j].tod
  BY <1>1, <1>2 DEF Ordered
<1> QED BY <1>1, <1>2, <1>3, <1>4 DEF RegBars

(* An event of the regular hours found as soon as there are d bars more    *)
(* than the range.                                                         *)
LEMMA RegFewSince ==
  ASSUME NEW b, NEW c, Extends(b, c), NEW d \in Nat,
         Cardinality(RegBars(b)) <= OpeningRange + (d - 1),
         NEW i \in RegBars(c) \ OpenRange(c)
  PROVE  Len(c) - i < d
<1>1. b \in Seq(BarType) /\ c \in Seq(BarType) /\ Ordered(c)
  BY DEF Extends
<1>2. PICK N \in Nat : /\ N = Len(b) /\ DOMAIN b = 1 .. N
                       /\ Len(c) = N + 1 /\ DOMAIN c = 1 .. N + 1
  BY <1>1, BarsAre DEF Extends
<1>3. PICK M \in Nat : M = N + 1
  OBVIOUS
<1>4. PICK S \in SUBSET (1 .. M) : S = RegBars(c)
  BY <1>2, <1>3 DEF RegBars
<1>5. PICK n \in Nat : n = OpeningRange
  BY RulesAssumption
<1>6. Cardinality(S) <= n + d
  <2>1. RegBars(b) \in SUBSET (1 .. N) /\ Grows(RegBars(b), RegBars(c), N)
    BY <1>2, SomeBarsGrow, RulesAssumption DEF RegBars
  <2>2. /\ Cardinality(RegBars(b)) \in Nat /\ Cardinality(S) \in Nat
        /\ Cardinality(S) <= Cardinality(RegBars(b)) + 1
    BY <1>4, <2>1, OneMore
  <2> QED BY <1>5, <2>2
<1>7. \A j \in 1 .. M : j >= i => j \in S
  BY <1>1, <1>2, <1>3, <1>4, RegBarsLast
<1>8. i \in S \ FirstOf(S, n)
  BY <1>4, <1>5 DEF OpenRange
<1>9. M - i < d
  BY <1>4, <1>6, <1>7, <1>8, FewSince
<1> QED BY <1>2, <1>3, <1>9

LEMMA RegularFresh ==
  ASSUME NEW b, NEW c, Extends(b, c),
         RegularEvent(b) = NoEvent, RegularEvent(c) # NoEvent
  PROVE  Len(c) - RegularEvent(c).at \in 0 .. 2
<1>1. b \in Seq(BarType) /\ c \in Seq(BarType) /\ Ordered(c)
  BY DEF Extends
<1>2. PICK N \in Nat : /\ N = Len(b) /\ DOMAIN b = 1 .. N
                       /\ Len(c) = N + 1 /\ DOMAIN c = 1 .. N + 1
                       /\ \A k \in 1 .. N : c[k] = b[k]
  BY <1>1, BarsAre DEF Extends
<1>3. /\ RegFound(c) /\ RegularEvent(c) = RegEvent(c, Min(RegTriggers(c)))
  BY <1>1, RegularTyped
<1>4. RegTriggers(c) \in SUBSET (1 .. N + 1) /\ N + 1 \in Nat
  BY <1>2 DEF RegTriggers, RegBars
<1>5. PICK i \in RegTriggers(c) : i = Min(RegTriggers(c)) /\ RegularEvent(c).at = i
  <2>1. RegTriggers(c) # {}
    BY <1>3 DEF RegFound
  <2>2. Min(RegTriggers(c)) \in RegTriggers(c)
    BY <1>4, <2>1, Positions
  <2>3. RegularEvent(c).at = Min(RegTriggers(c))
    BY <1>3, EventIs DEF RegEvent
  <2> QED BY <2>2, <2>3
<1>6. i \in 1 .. N + 1 /\ i \in RegBars(c) \ OpenRange(c)
  BY <1>4 DEF RegTriggers
<1>8. ~RegFound(b)
  <2>1. SUFFICES ASSUME RegFound(b) PROVE FALSE
    OBVIOUS
  <2>2. RegTriggers(b) \in SUBSET (1 .. N) /\ RegTriggers(b) # {}
    BY <1>2, <2>1 DEF RegTriggers, RegFound, RegBars
  <2>3. Min(RegTriggers(b)) \in 1 .. N
    BY <2>2, Positions
  <2>4. Min(RegTriggers(b)) # 0
    BY <2>3
  <2>5. RegularEvent(b) = RegEvent(b, Min(RegTriggers(b)))
    BY <2>1, RegularIs
  <2> QED BY <2>4, <2>5, EventIs DEF RegEvent
<1>9. CASE Cardinality(RegBars(b)) <= OpeningRange + 1
  <2>1. PICK d \in Nat : d = 2
    OBVIOUS
  <2>2. Cardinality(RegBars(b)) <= OpeningRange + (d - 1)
    BY <1>9, <2>1
  <2>3. Len(c) - i < d
    BY <1>6, <2>2, RegFewSince
  <2> QED BY <1>2, <1>5, <1>6, <2>1, <2>3
<1>10. CASE ~(Cardinality(RegBars(b)) <= OpeningRange + 1)
  <2>1. RegTriggers(b) = {}
    BY <1>8, <1>10 DEF RegFound
  <2>2. OpenRange(c) = OpenRange(b) /\ OpenRange(b) \subseteq 1 .. N
    BY <1>2, <1>10, RegBarsStay
  <2>3. High(c, OpenRange(c)) = High(b, OpenRange(b))
    BY <1>2, <2>2, HighStays
  <2>4. i \notin 1 .. N
    <3>1. ASSUME i \in 1 .. N PROVE i \in RegTriggers(b)
      <4>1. i \in RegBars(b)
        BY <1>2, <1>6, <3>1 DEF RegBars
      <4> QED BY <1>2, <2>2, <2>3, <3>1, <4>1 DEF RegTriggers
    <3> QED BY <2>1, <3>1
  <2> QED BY <1>2, <1>5, <1>6, <2>4
<1> QED BY <1>9, <1>10

LEMMA IntradayFresh ==
  ASSUME NEW b, NEW c, Extends(b, c),
         IntradayEvent(b) = NoEvent, IntradayEvent(c) # NoEvent
  PROVE  Len(c) - IntradayEvent(c).at \in 0 .. 2
<1>1. b \in Seq(BarType) /\ c \in Seq(BarType) /\ Ordered(c)
  BY DEF Extends
<1>2. PICK N \in Nat : /\ N = Len(b) /\ DOMAIN b = 1 .. N
                       /\ Len(c) = N + 1 /\ DOMAIN c = 1 .. N + 1
                       /\ \A k \in 1 .. N : c[k] = b[k]
  BY <1>1, BarsAre DEF Extends
<1>3. /\ DayFound(c) /\ IntradayEvent(c) = DayEvent(c, Min(DayTriggers(c)))
  BY <1>1, IntradayTyped
<1>4. /\ DayTriggers(c) \in SUBSET (1 .. N + 1) /\ N + 1 \in Nat
      /\ RegBars(b) \in SUBSET (1 .. N) /\ RegBars(c) \in SUBSET (1 .. N + 1)
  BY <1>2 DEF DayTriggers, RegBars
<1>5. PICK i \in DayTriggers(c) : i = Min(DayTriggers(c)) /\ IntradayEvent(c).at = i
  <2>1. DayTriggers(c) # {}
    BY <1>3 DEF DayFound
  <2>2. Min(DayTriggers(c)) \in DayTriggers(c)
    BY <1>4, <2>1, Positions
  <2>3. IntradayEvent(c).at = Min(DayTriggers(c))
    BY <1>3, EventIs DEF DayEvent
  <2> QED BY <2>2, <2>3
<1>6. i \in 1 .. N + 1 /\ i \in RegBars(c) \ OpenRange(c)
  BY <1>4 DEF DayTriggers
<1>8. ~DayFound(b)
  <2>1. SUFFICES ASSUME DayFound(b) PROVE FALSE
    OBVIOUS
  <2>2. DayTriggers(b) \in SUBSET (1 .. N) /\ DayTriggers(b) # {}
    BY <1>2, <2>1 DEF DayTriggers, DayFound, RegBars
  <2>3. Min(DayTriggers(b)) \in 1 .. N
    BY <2>2, Positions
  <2>4. Min(DayTriggers(b)) # 0
    BY <2>3
  <2>5. IntradayEvent(b) = DayEvent(b, Min(DayTriggers(b)))
    BY <2>1, IntradayIs
  <2> QED BY <2>4, <2>5, EventIs DEF DayEvent
<1>9. CASE Cardinality(RegBars(b)) <= OpeningRange + 2
  <2>1. PICK d \in Nat : d = 3
    OBVIOUS
  <2>2. Cardinality(RegBars(b)) <= OpeningRange + (d - 1)
    BY <1>9, <2>1
  <2>3. Len(c) - i < d
    BY <1>6, <2>2, RegFewSince
  <2> QED BY <1>2, <1>5, <1>6, <2>1, <2>3
<1>10. CASE ~(Cardinality(RegBars(b)) <= OpeningRange + 2)
  <2>1. DayTriggers(b) = {}
    BY <1>8, <1>10 DEF DayFound
  <2>2. ~(Cardinality(RegBars(b)) <= OpeningRange + 1)
    <3>1. Cardinality(RegBars(b)) \in Nat /\ OpeningRange \in Nat
      BY <1>4, Positions, RulesAssumption
    <3> QED BY <1>10, <3>1
  <2>3. OpenRange(c) = OpenRange(b) /\ OpenRange(b) \subseteq 1 .. N
    BY <1>2, <2>2, RegBarsStay
  <2>4. i \notin 1 .. N
    <3>1. ASSUME i \in 1 .. N PROVE i \in DayTriggers(b)
      <4>1. \A j \in 1 .. N : j \in RegBars(b) <=> j \in RegBars(c)
        BY <1>2 DEF RegBars
      <4>2. Past(c, i) = Past(b, i)
        <5>1. \A j \in 1 .. N + 1 : j < i => j \in 1 .. N
          BY <3>1
        <5> QED BY <1>4, <4>1, <5>1 DEF Past
      <4>3. Past(b, i) \subseteq 1 .. N
        BY <1>4 DEF Past
      <4>4. High(c, Past(c, i)) = High(b, Past(b, i))
        BY <1>2, <4>2, <4>3, HighStays
      <4> QED BY <1>2, <2>3, <3>1, <4>1, <4>4 DEF DayTriggers
    <3> QED BY <2>1, <3>1
  <2> QED BY <1>2, <1>5, <1>6, <2>4
<1> QED BY <1>9, <1>10

LEMMA EventFresh ==
  ASSUME NEW s \in Sessions, NEW b, NEW c, Extends(b, c),
         FindEvent(s, b) = NoEvent, FindEvent(s, c) # NoEvent
  PROVE  Len(c) - FindEvent(s, c).at \in 0 .. 2
<1>1. CASE s = "premarket"
  BY <1>1, PremarketFresh DEF FindEvent
<1>2. CASE s = "regular"
  BY <1>2, RegularFresh DEF FindEvent
<1>3. CASE s = "intraday"
  BY <1>3, IntradayFresh DEF FindEvent
<1> QED BY <1>1, <1>2, <1>3 DEF Sessions

-----------------------------------------------------------------------------
(* The exit of an event, with one more bar.                                *)

Seen(e, k)      == {j \in e.fwd : j < k}
Water(e, b, k)  == Max({e.entry} \cup {b[j].h : j \in Seen(e, k)})
Window(e, p, k) == {j \in Seen(e, k) : j >= k - p.param}

TrailAt(e, b, p, k) ==
  CASE p.trail = "pct" -> Below(Water(e, b, k), 10 * p.param)
    [] p.trail = "atr" /\ Atr(b, e.at) > 0 ->
         Water(e, b, k) - p.param * Atr(b, e.at)
    [] p.trail = "structure" /\ Window(e, p, k) # {} -> Low(b, Window(e, p, k))
    [] OTHER -> e.stop

LEMMA StopIs ==
  ASSUME NEW e, NEW b, NEW p, NEW k
  PROVE  StopAt(e, b, p, k) = Max({e.stop, TrailAt(e, b, p, k)})
BY DEF StopAt, TrailAt, Window, Water, Seen

(* The bars up to the entry do not change.                                 *)
LEMMA AtrStays ==
  ASSUME NEW b, NEW c, Extends(b, c), NEW i \in 1 .. Len(b)
  PROVE  Atr(c, i) = Atr(b, i)
<1>1. PICK N \in Nat : N = Len(b) /\ \A k \in 1 .. N : c[k] = b[k]
  BY BarsAre DEF Extends
<1>2. PICK m \in Int : m = Max({1, i - 13}) /\ m >= 1
  <2>1. PICK x \in Int, y \in Int : x = 1 /\ y = i - 13
    BY <1>1
  <2>2. Max({x, y}) \in Int /\ Max({x, y}) >= x
    BY GreaterIs
  <2> QED BY <2>1, <2>2
<1>3. \A k \in m + 1 .. i : k \in 1 .. N /\ k - 1 \in 1 .. N
  BY <1>1, <1>2
<1>4. \A k \in m + 1 .. i : TrueRange(c, k) = TrueRange(b, k)
  BY <1>1, <1>3 DEF TrueRange
<1>5. [k \in m + 1 .. i |-> TrueRange(c, k)] = [k \in m + 1 .. i |-> TrueRange(b, k)]
  BY <1>4
<1> QED BY <1>2, <1>5 DEF Atr

LEMMA StopStays ==
  ASSUME NEW b, NEW c, Extends(b, c), NEW e, NEW f, EventOf(e, b),
         KeepsOn(e, f, Len(b)), NEW p, NEW k \in e.fwd
  PROVE  /\ k \in 1 .. Len(b)
         /\ StopAt(f, c, p, k) = StopAt(e, b, p, k)
         /\ ReasonAt(f, c, p, k) = ReasonAt(e, b, p, k)
         /\ \A r : PriceAt(f, c, p, k, r) = PriceAt(e, b, p, k, r)
<1>1. PICK N \in Nat : N = Len(b) /\ \A j \in 1 .. N : c[j] = b[j]
  BY BarsAre DEF Extends
<1>2. e.at \in 1 .. N /\ e.fwd \subseteq 1 .. N
  <2>1. e.at \in 1 .. N /\ e.fwd \subseteq e.at + 1 .. N
    BY <1>1 DEF EventOf
  <2> QED BY <2>1
<1>3. k \in 1 .. N /\ ~(N + 1 < k)
  BY <1>2
<1>4. /\ f.at = e.at /\ f.entry = e.entry /\ f.stop = e.stop
      /\ f.fwd = e.fwd \/ f.fwd = e.fwd \cup {N + 1}
  BY <1>1 DEF KeepsOn, Grows
<1>5. Seen(f, k) = Seen(e, k) /\ Seen(e, k) \subseteq 1 .. N
  BY <1>2, <1>3, <1>4 DEF Seen
<1>6. Water(f, c, k) = Water(e, b, k)
  <2>1. \A j \in Seen(e, k) : c[j] = b[j]
    BY <1>1, <1>5
  <2>2. {c[j].h : j \in Seen(e, k)} = {b[j].h : j \in Seen(e, k)}
    BY <2>1
  <2> QED BY <1>4, <1>5, <2>2 DEF Water
<1>7. Window(f, p, k) = Window(e, p, k) /\ Low(c, Window(e, p, k)) = Low(b, Window(e, p, k))
  <2>1. Window(f, p, k) = Window(e, p, k) /\ Window(e, p, k) \subseteq 1 .. N
    BY <1>5 DEF Window
  <2> QED BY <1>1, <2>1, HighStays
<1>8. Atr(c, f.at) = Atr(b, e.at)
  BY <1>1, <1>2, <1>4, AtrStays
<1>9. TrailAt(f, c, p, k) = TrailAt(e, b, p, k)
  BY <1>4, <1>6, <1>7, <1>8 DEF TrailAt
<1>10. StopAt(f, c, p, k) = StopAt(e, b, p, k)
  BY <1>4, <1>9, StopIs
<1>11. c[k] = b[k]
  BY <1>1, <1>3
<1>12. ReasonAt(f, c, p, k) = ReasonAt(e, b, p, k)
  BY <1>4, <1>10, <1>11 DEF ReasonAt
<1>13. ASSUME NEW r PROVE PriceAt(f, c, p, k, r) = PriceAt(e, b, p, k, r)
  BY <1>4, <1>10, <1>11 DEF PriceAt
<1> QED BY <1>1, <1>3, <1>10, <1>12, <1>13

(* The exit is at the first bar that ends the trade, or at the last one.   *)
LastExit(e, b, p) == [at |-> Max(e.fwd), reason |-> "time",
                      price |-> PriceAt(e, b, p, Max(e.fwd), "time")]
ExitIn(e, b, p, m) == [at |-> m, reason |-> ReasonAt(e, b, p, m),
                       price |-> PriceAt(e, b, p, m, ReasonAt(e, b, p, m))]
FirstEndIn(e, b, p, m) ==
  /\ m \in e.fwd /\ ReasonAt(e, b, p, m) # "none"
  /\ \A k \in e.fwd : k < m => ReasonAt(e, b, p, k) = "none"

LEMMA ReasonIs ==
  ASSUME NEW e, NEW b, NEW p, NEW k
  PROVE  ReasonAt(e, b, p, k) # "time"
BY DEF ReasonAt

LEMMA ExitIs ==
  ASSUME NEW N \in Nat, NEW e, e.fwd \subseteq 1 .. N, NEW b, NEW p
  PROVE  /\ (\A k \in e.fwd : ReasonAt(e, b, p, k) = "none") =>
              SimulateExit(e, b, p) = LastExit(e, b, p)
         /\ (\E k \in e.fwd : ReasonAt(e, b, p, k) # "none") =>
              \E m \in 1 .. N : FirstEndIn(e, b, p, m)
         /\ \A m \in 1 .. N : FirstEndIn(e, b, p, m) =>
              SimulateExit(e, b, p) = ExitIn(e, b, p, m)
<1> DEFINE R(k)  == ReasonAt(e, b, p, k)
           all  == {[at |-> k, reason |-> R(k)] : k \in e.fwd}
           ends == {x \in all : x.reason # "none"}
<1>1. SimulateExit(e, b, p) =
        [at |-> FirstEnd(ends, e).at, reason |-> FirstEnd(ends, e).reason,
         price |-> PriceAt(e, b, p, FirstEnd(ends, e).at, FirstEnd(ends, e).reason)]
  BY DEF SimulateExit
<1>2. ASSUME NEW x \in ends PROVE x.at \in e.fwd /\ x = [at |-> x.at, reason |-> R(x.at)]
                                  /\ R(x.at) # "none"
  OBVIOUS
<1>3. ASSUME NEW k \in e.fwd, R(k) # "none" PROVE [at |-> k, reason |-> R(k)] \in ends
  BY <1>3
<1> HIDE DEF R, ends
<1>4. ASSUME \A k \in e.fwd : R(k) = "none" PROVE SimulateExit(e, b, p) = LastExit(e, b, p)
  <2>1. ends = {}
    BY <1>2, <1>4
  <2>2. FirstEnd(ends, e) = [at |-> Max(e.fwd), reason |-> "time"]
    BY <2>1 DEF FirstEnd
  <2> QED BY <1>1, <2>2 DEF LastExit
<1>5. ASSUME NEW k \in e.fwd, R(k) # "none" PROVE \E m \in 1 .. N : FirstEndIn(e, b, p, m)
  <2> DEFINE K == {j \in e.fwd : R(j) # "none"}
  <2>1. K \in SUBSET (1 .. N) /\ K # {}
    BY <1>5
  <2>2. PICK m \in K : \A y \in K : m <= y
    <3> HIDE DEF K
    <3> QED BY <2>1, Positions
  <2>3. ASSUME NEW j \in e.fwd, j < m PROVE R(j) = "none"
    <3>1. j \in 1 .. N /\ m \in 1 .. N
      OBVIOUS
    <3>2. ~(m <= j)
      BY <2>3, <3>1
    <3> QED BY <2>2, <3>2
  <2> QED BY <2>3 DEF FirstEndIn, R
<1>6. ASSUME NEW m \in 1 .. N, FirstEndIn(e, b, p, m)
      PROVE  SimulateExit(e, b, p) = ExitIn(e, b, p, m)
  <2>1. m \in e.fwd /\ R(m) # "none" /\ \A k \in e.fwd : k < m => R(k) = "none"
    BY <1>6 DEF FirstEndIn, R
  <2>2. PICK x : x = [at |-> m, reason |-> R(m)]
    OBVIOUS
  <2>3. x \in ends /\ x.at = m
    BY <1>3, <2>1, <2>2
  <2>4. ASSUME NEW y \in ends PROVE x.at <= y.at
    <3>1. y.at \in e.fwd /\ R(y.at) # "none" /\ y.at \in 1 .. N
      BY <1>2
    <3> QED BY <2>1, <2>3, <3>1
  <2>5. ends # {} /\ FirstEnd(ends, e) \in ends
        /\ \A y \in ends : FirstEnd(ends, e).at <= y.at
    BY <2>3, <2>4 DEF FirstEnd
  <2>6. FirstEnd(ends, e).at = m
    <3>1. FirstEnd(ends, e).at \in 1 .. N /\ FirstEnd(ends, e).at <= m /\ m <= FirstEnd(ends, e).at
      BY <1>2, <2>3, <2>4, <2>5
    <3> QED BY <3>1
  <2>7. FirstEnd(ends, e).reason = R(m)
    BY <1>2, <2>5, <2>6
  <2> QED BY <1>1, <2>6, <2>7 DEF ExitIn, R
<1> QED BY <1>4, <1>5, <1>6 DEF R

(* An exit found in some bars is the exit of all bars that follow.         *)
LEMMA ExitStays ==
  ASSUME NEW b, NEW c, Extends(b, c), NEW e, NEW f, EventOf(e, b),
         KeepsOn(e, f, Len(b)), NEW p, e.fwd # {},
         \/ SimulateExit(e, b, p).reason # "time"
         \/ f.fwd = e.fwd
  PROVE  SimulateExit(f, c, p) = SimulateExit(e, b, p)
<1>1. PICK N \in Nat : /\ N = Len(b) /\ \A j \in 1 .. N : c[j] = b[j]
                       /\ e.fwd \subseteq 1 .. N
  <2>1. Len(b) \in Nat
    BY BarsAre DEF Extends
  <2>2. e.fwd \subseteq 1 .. Len(b)
    BY <2>1, StopStays
  <2> QED BY <2>1, <2>2 DEF Extends
<1>2. f.fwd = e.fwd \/ f.fwd = e.fwd \cup {N + 1}
  BY <1>1 DEF KeepsOn, Grows
<1>3. f.fwd \subseteq 1 .. N + 1 /\ N + 1 \in Nat /\ 1 .. N \subseteq 1 .. N + 1
  BY <1>1, <1>2
<1>4. \A k \in e.fwd : ReasonAt(f, c, p, k) = ReasonAt(e, b, p, k)
  BY StopStays
<1>5. CASE \E k \in e.fwd : ReasonAt(e, b, p, k) # "none"
  <2>1. PICK m \in 1 .. N : FirstEndIn(e, b, p, m)
    BY <1>1, <1>5, ExitIs
  <2>2. SimulateExit(e, b, p) = ExitIn(e, b, p, m)
    BY <1>1, <2>1, ExitIs
  <2>3. FirstEndIn(f, c, p, m)
    <3>1. ASSUME NEW k \in f.fwd, k < m PROVE k \in e.fwd
      BY <1>2, <3>1
    <3> QED BY <1>2, <1>4, <2>1, <3>1 DEF FirstEndIn
  <2>4. SimulateExit(f, c, p) = ExitIn(f, c, p, m)
    BY <1>3, <2>3, ExitIs
  <2>5. m \in e.fwd
    BY <2>1 DEF FirstEndIn
  <2>6. ExitIn(f, c, p, m) = ExitIn(e, b, p, m)
    BY <2>5, StopStays DEF ExitIn
  <2> QED BY <2>2, <2>4, <2>6
<1>6. CASE \A k \in e.fwd : ReasonAt(e, b, p, k) = "none"
  <2>1. SimulateExit(e, b, p) = LastExit(e, b, p)
    BY <1>1, <1>6, ExitIs
  <2>2. f.fwd = e.fwd
    BY <2>1 DEF LastExit
  <2>3. SimulateExit(f, c, p) = LastExit(f, c, p)
    BY <1>1, <1>4, <1>6, <2>2, ExitIs
  <2>4. PICK m : m = Max(e.fwd) /\ m \in e.fwd
    BY <1>1, Positions
  <2>5. PriceAt(f, c, p, m, "time") = PriceAt(e, b, p, m, "time")
    BY <2>4, StopStays
  <2> QED BY <2>1, <2>2, <2>3, <2>4, <2>5 DEF LastExit
<1> QED BY <1>5, <1>6

(* An exit that is new with a bar, other than by time, is in that bar.     *)
LEMMA ExitFresh ==
  ASSUME NEW b, NEW c, Extends(b, c), NEW e, NEW f, EventOf(e, b),
         KeepsOn(e, f, Len(b)), NEW p,
         e.fwd # {} => SimulateExit(e, b, p).reason = "time",
         f.fwd # {}, SimulateExit(f, c, p).reason # "time"
  PROVE  SimulateExit(f, c, p).at = Len(c)
<1>1. PICK N \in Nat : /\ N = Len(b) /\ Len(c) = N + 1
                       /\ e.fwd \subseteq 1 .. N
  <2>1. Len(b) \in Nat /\ Len(c) = Len(b) + 1
    BY BarsAre DEF Extends
  <2>2. e.fwd \subseteq 1 .. Len(b)
    BY <2>1, StopStays
  <2> QED BY <2>1, <2>2
<1>2. f.fwd = e.fwd \/ f.fwd = e.fwd \cup {N + 1}
  BY <1>1 DEF KeepsOn, Grows
<1>3. f.fwd \subseteq 1 .. N + 1 /\ N + 1 \in Nat /\ 1 .. N \subseteq 1 .. N + 1
  BY <1>1, <1>2
<1>4. \A k \in e.fwd : ReasonAt(f, c, p, k) = "none"
  <2>1. ASSUME NEW k \in e.fwd, ReasonAt(e, b, p, k) # "none" PROVE FALSE
    <3>1. PICK m \in 1 .. N : FirstEndIn(e, b, p, m)
      BY <1>1, <2>1, ExitIs
    <3>2. SimulateExit(e, b, p) = ExitIn(e, b, p, m)
      BY <1>1, <3>1, ExitIs
    <3>3. SimulateExit(e, b, p).reason # "time"
      BY <3>2, ReasonIs DEF ExitIn
    <3> QED BY <2>1, <3>3
  <2> QED BY <2>1, StopStays
<1>5. \E k \in f.fwd : ReasonAt(f, c, p, k) # "none"
  <2>1. LastExit(f, c, p).reason = "time"
    BY DEF LastExit
  <2> QED BY <1>3, <2>1, ExitIs
<1>6. PICK m \in 1 .. N + 1 : FirstEndIn(f, c, p, m)
  BY <1>3, <1>5, ExitIs
<1>7. SimulateExit(f, c, p) = ExitIn(f, c, p, m)
  BY <1>3, <1>6, ExitIs
<1>8. m = N + 1
  BY <1>2, <1>4, <1>6 DEF FirstEndIn
<1> QED BY <1>1, <1>7, <1>8 DEF ExitIn

-----------------------------------------------------------------------------
(* An order that is open on the event e of the bars b.                     *)
Held(e, b, p, o) ==
  /\ e # NoEvent /\ ~(e.entry <= e.stop)
  /\ \E n \in 1 .. Len(b) :
       /\ o = <<[entry |-> e.entry, at |-> e.at, seen |-> n]>>
       /\ n - e.at \in 0 .. 2
       /\ Len(b) > n /\ e.fwd # {} => SimulateExit(e, b, p).reason = "time"

(* A trade that was made on it.                                            *)
Traded(e, b, p, cl) ==
  /\ e # NoEvent /\ ~(e.entry <= e.stop) /\ e.fwd # {}
  /\ cl = <<cl[1]>>
  /\ cl[1].entry = e.entry /\ cl[1].at = e.at /\ cl[1].exit = SimulateExit(e, b, p)
  /\ cl[1].exit.reason # "time" =>
       cl[1].exitSeen <= Max({cl[1].exit.at, cl[1].seen + 1})

Closed(o, exit, n) == <<[entry |-> o[1].entry, at |-> o[1].at, seen |-> o[1].seen,
                         exit |-> exit, exitSeen |-> n]>>

(* The exit is one of the bars to come.                                    *)
LEMMA ExitAt ==
  ASSUME NEW b \in Seq(BarType), NEW e, EventOf(e, b), e.fwd # {}, NEW p
  PROVE  SimulateExit(e, b, p).at \in e.fwd /\ SimulateExit(e, b, p).at \in Int
<1>1. PICK N \in Nat : N = Len(b) /\ e.fwd \subseteq 1 .. N
  <2>1. PICK N \in Nat : N = Len(b)
    BY BarsAre
  <2>2. e.at \in 1 .. N /\ e.fwd \subseteq e.at + 1 .. N
    BY <2>1 DEF EventOf
  <2> QED BY <2>1, <2>2
<1>2. CASE \E k \in e.fwd : ReasonAt(e, b, p, k) # "none"
  <2>1. PICK m \in 1 .. N : FirstEndIn(e, b, p, m)
    BY <1>1, <1>2, ExitIs
  <2>2. SimulateExit(e, b, p) = ExitIn(e, b, p, m)
    BY <1>1, <2>1, ExitIs
  <2>3. m \in e.fwd
    BY <2>1 DEF FirstEndIn
  <2> QED BY <2>2, <2>3 DEF ExitIn
<1>3. CASE \A k \in e.fwd : ReasonAt(e, b, p, k) = "none"
  <2>1. SimulateExit(e, b, p) = LastExit(e, b, p)
    BY <1>1, <1>3, ExitIs
  <2>2. Max(e.fwd) \in e.fwd
    BY <1>1, Positions
  <2> QED BY <1>1, <2>1, <2>2 DEF LastExit
<1> QED BY <1>2, <1>3

LEMMA HeldStays ==
  ASSUME NEW s \in Sessions, NEW b, NEW c, Extends(b, c), NEW p, NEW o,
         Held(FindEvent(s, b), b, p, o),
         FindEvent(s, c).fwd # {} =>
           SimulateExit(FindEvent(s, c), c, p).reason = "time"
  PROVE  Held(FindEvent(s, c), c, p, o)
<1>1. PICK e, f : e = FindEvent(s, b) /\ f = FindEvent(s, c)
  OBVIOUS
<1>2. KeepsOn(e, f, Len(b)) /\ Len(b) \in Nat /\ Len(c) = Len(b) + 1
  BY <1>1, EventStays, BarsAre DEF Held, Extends
<1>3. PICK n \in 1 .. Len(b) : /\ o = <<[entry |-> e.entry, at |-> e.at, seen |-> n]>>
                               /\ n - e.at \in 0 .. 2
  BY <1>1 DEF Held
<1>4. f.entry = e.entry /\ f.at = e.at /\ f.stop = e.stop /\ f # NoEvent
  BY <1>2 DEF KeepsOn
<1>5. ~(f.entry <= f.stop)
  BY <1>1, <1>4 DEF Held
<1>6. n \in 1 .. Len(c)
  BY <1>2
<1> QED BY <1>1, <1>3, <1>4, <1>5, <1>6 DEF Held

LEMMA HeldTrades ==
  ASSUME NEW s \in Sessions, NEW b, NEW c, Extends(b, c), Ordered(b), NEW p, NEW o,
         Held(FindEvent(s, b), b, p, o), FindEvent(s, c).fwd # {}
  PROVE  Traded(FindEvent(s, c), c, p,
                Closed(o, SimulateExit(FindEvent(s, c), c, p), Len(c)))
<1>1. PICK e, f, x : e = FindEvent(s, b) /\ f = FindEvent(s, c) /\ x = SimulateExit(f, c, p)
  OBVIOUS
<1>2. KeepsOn(e, f, Len(b)) /\ Len(b) \in Nat /\ Len(c) = Len(b) + 1
  BY <1>1, EventStays, BarsAre DEF Held, Extends
<1>3. PICK n \in 1 .. Len(b) :
        /\ o = <<[entry |-> e.entry, at |-> e.at, seen |-> n]>>
        /\ Len(b) > n /\ e.fwd # {} => SimulateExit(e, b, p).reason = "time"
  BY <1>1 DEF Held
<1>4. f.entry = e.entry /\ f.at = e.at /\ f.stop = e.stop /\ f # NoEvent
  BY <1>2 DEF KeepsOn
<1>5. ~(f.entry <= f.stop)
  BY <1>1, <1>4 DEF Held
<1>6. b \in Seq(BarType) /\ c \in Seq(BarType) /\ Ordered(c)
  BY DEF Extends
<1>7. EventOf(e, b) /\ EventOf(f, c)
  BY <1>1, <1>4, <1>6, EventTyped DEF Held
<1>8. x.at \in Int
  BY <1>1, <1>6, <1>7, ExitAt
<1>9. ASSUME x.reason # "time" PROVE Len(c) <= Max({x.at, n + 1})
  <2>1. n \in Nat /\ n + 1 \in Int
    BY <1>2
  <2>2. Max({x.at, n + 1}) \in Int /\ Max({x.at, n + 1}) >= x.at /\ Max({x.at, n + 1}) >= n + 1
    BY <1>8, <2>1, GreaterIs
  <2>3. CASE Len(b) > n
    <3>1. x.at = Len(c)
      BY <1>1, <1>2, <1>3, <1>7, <1>9, <2>3, ExitFresh
    <3> QED BY <1>2, <2>2, <3>1
  <2>4. CASE ~(Len(b) > n)
    <3>1. Len(c) = n + 1
      BY <1>2, <2>1, <2>4
    <3> QED BY <2>1, <2>2, <3>1
  <2> QED BY <2>3, <2>4
<1>10. PICK cl : /\ cl = Closed(o, x, Len(c)) /\ cl = <<cl[1]>>
               /\ cl[1].entry = e.entry /\ cl[1].at = e.at
               /\ cl[1].seen = n /\ cl[1].exit = x /\ cl[1].exitSeen = Len(c)
  <2>1. PICK q : /\ q.entry = e.entry /\ q.at = e.at /\ q.seen = n /\ o = <<q>>
    BY <1>3
  <2>2. PICK r : r = [entry |-> q.entry, at |-> q.at, seen |-> q.seen,
                      exit |-> x, exitSeen |-> Len(c)]
    OBVIOUS
  <2>3. Closed(o, x, Len(c)) = <<r>>
    BY <2>1, <2>2 DEF Closed
  <2>4. PICK cl : cl = <<r>>
    OBVIOUS
  <2>5. cl[1] = r
    BY <2>4
  <2> QED BY <2>1, <2>2, <2>3, <2>4, <2>5
<1> QED BY <1>1, <1>4, <1>5, <1>9, <1>10 DEF Traded

(* At the end of the day nothing has come since.                           *)
LEMMA HeldTradesAtEnd ==
  ASSUME NEW s \in Sessions, NEW b \in Seq(BarType), Ordered(b), NEW p, NEW o,
         Held(FindEvent(s, b), b, p, o), FindEvent(s, b).fwd # {}
  PROVE  Traded(FindEvent(s, b), b, p,
                Closed(o, SimulateExit(FindEvent(s, b), b, p), Len(b)))
<1>1. PICK e, x : e = FindEvent(s, b) /\ x = SimulateExit(e, b, p)
  OBVIOUS
<1>2. PICK n \in 1 .. Len(b) :
        /\ o = <<[entry |-> e.entry, at |-> e.at, seen |-> n]>>
        /\ Len(b) > n /\ e.fwd # {} => SimulateExit(e, b, p).reason = "time"
  BY <1>1 DEF Held
<1>3. Len(b) \in Nat /\ n \in Nat /\ n + 1 \in Int
  BY BarsAre
<1>4. EventOf(e, b)
  BY <1>1, EventTyped DEF Held
<1>5. x.at \in Int
  BY <1>1, <1>4, ExitAt
<1>6. ASSUME x.reason # "time" PROVE Len(b) <= Max({x.at, n + 1})
  <2>1. Max({x.at, n + 1}) \in Int /\ Max({x.at, n + 1}) >= n + 1
    BY <1>3, <1>5, GreaterIs
  <2>2. Len(b) = n
    BY <1>1, <1>2, <1>3, <1>6
  <2> QED BY <1>3, <2>1, <2>2
<1>7. PICK cl : /\ cl = Closed(o, x, Len(b)) /\ cl = <<cl[1]>>
              /\ cl[1].entry = e.entry /\ cl[1].at = e.at
              /\ cl[1].seen = n /\ cl[1].exit = x /\ cl[1].exitSeen = Len(b)
  <2>1. PICK q : /\ q.entry = e.entry /\ q.at = e.at /\ q.seen = n /\ o = <<q>>
    BY <1>2
  <2>2. PICK r : r = [entry |-> q.entry, at |-> q.at, seen |-> q.seen,
                      exit |-> x, exitSeen |-> Len(b)]
    OBVIOUS
  <2>3. Closed(o, x, Len(b)) = <<r>>
    BY <2>1, <2>2 DEF Closed
  <2>4. PICK cl : cl = <<r>>
    OBVIOUS
  <2>5. cl[1] = r
    BY <2>4
  <2> QED BY <2>1, <2>2, <2>3, <2>4, <2>5
<1>8. e # NoEvent /\ ~(e.entry <= e.stop)
  BY <1>1 DEF Held
<1> QED BY <1>1, <1>6, <1>7, <1>8 DEF Traded

LEMMA TradedStays ==
  ASSUME NEW s \in Sessions, NEW b, NEW c, Extends(b, c), Ordered(b), NEW p, NEW cl,
         Traded(FindEvent(s, b), b, p, cl),
         cl[1].exit.reason # "time" \/ c[Len(c)].tod > LastMinute(s)
  PROVE  Traded(FindEvent(s, c), c, p, cl)
<1>1. PICK e, f : e = FindEvent(s, b) /\ f = FindEvent(s, c)
  OBVIOUS
<1>2. KeepsOn(e, f, Len(b)) /\ e # NoEvent
  BY <1>1, EventStays DEF Traded
<1>3. EventOf(e, b)
  BY <1>1, <1>2, EventTyped DEF Extends
<1>4. e.fwd # {} /\ cl[1].exit = SimulateExit(e, b, p)
  BY <1>1 DEF Traded
<1>5. SimulateExit(e, b, p).reason # "time" \/ f.fwd = e.fwd
  BY <1>1, <1>2, <1>4, WindowCloses
<1>6. SimulateExit(f, c, p) = SimulateExit(e, b, p)
  BY <1>2, <1>3, <1>4, <1>5, ExitStays
<1>7. f.entry = e.entry /\ f.at = e.at /\ f.stop = e.stop /\ f # NoEvent /\ f.fwd # {}
  BY <1>2, <1>4 DEF KeepsOn, Grows
<1> QED BY <1>1, <1>6, <1>7 DEF Traded

-----------------------------------------------------------------------------
(* The inductive invariant.                                                *)

TypesInv ==
  /\ driver \in Drivers /\ session \in Sessions /\ policy \in Policies
  /\ over \in BOOLEAN /\ refused \in BOOLEAN
  /\ state \in {"none", "watch", "holding", "done"}
  /\ dayBars \in Seq(BarType) /\ bars \in Seq(BarType)
  /\ at \in 0 .. Len(bars) /\ entry \in Int /\ stop \in Int
  /\ restarts \in 0 .. MaxRestart

(* The bars come in order, and those of the tracker end where the day's do.*)
BarsInv ==
  /\ Ordered(dayBars) /\ Ordered(bars)
  /\ bars # <<>> => /\ dayBars # <<>>
                    /\ bars[Len(bars)].tod = dayBars[Len(dayBars)].tod
  /\ driver = "dryrun" => bars = dayBars /\ state # "none"

Idle == order = <<>> /\ closed = <<>> /\ ~refused

HoldingInv ==
  /\ closed = <<>> /\ ~refused
  /\ FindEvent(session, bars).at = at /\ FindEvent(session, bars).entry = entry
  /\ FindEvent(session, bars).stop = stop
  /\ Held(FindEvent(session, bars), bars, policy, order)
  /\ driver = "dryrun" /\ over => FindEvent(session, bars).fwd = {}

(* The plan was void or refused; or the trade was made, by time only when  *)
(* no bar can change it.                                                   *)
DoneInv ==
  /\ order = <<>>
  /\ \/ /\ closed = <<>> /\ FindEvent(session, bars) # NoEvent
        /\ refused \/ FindEvent(session, bars).entry <= FindEvent(session, bars).stop
     \/ /\ ~refused
        /\ Traded(FindEvent(session, bars), bars, policy, closed)
        /\ \/ closed[1].exit.reason # "time"
           \/ over
           \/ bars[Len(bars)].tod > LastMinute(session)

EngineInv ==
  /\ TypesInv
  /\ BarsInv
  /\ state = "none" => bars = <<>> /\ Idle
  /\ state = "watch" => FindEvent(session, bars) = NoEvent /\ Idle
  /\ state = "holding" => HoldingInv
  /\ state = "done" => DoneInv

LEMMA AppendExtends ==
  ASSUME NEW b \in Seq(BarType), Ordered(b), NEW x \in BarType,
         b # <<>> => b[Len(b)].tod < x.tod
  PROVE  /\ Extends(b, Append(b, x)) /\ Append(b, x) # <<>>
         /\ Append(b, x)[Len(Append(b, x))] = x
<1>1. PICK N \in Nat : N = Len(b)
  BY BarsAre
<1>2. PICK c \in Seq(BarType) : /\ c = Append(b, x) /\ Len(c) = N + 1 /\ c[N + 1] = x
                                /\ \A k \in 1 .. N : c[k] = b[k]
  <2>1. Append(b, x) \in Seq(BarType) /\ Len(Append(b, x)) = N + 1
    BY <1>1
  <2>2. N + 1 \in 1 .. N + 1 /\ \A k \in 1 .. N : k \in 1 .. N + 1 /\ k # N + 1
    OBVIOUS
  <2>3. Append(b, x)[N + 1] = x
    BY <1>1, <2>2
  <2>4. \A k \in 1 .. N : Append(b, x)[k] = b[k]
    BY <1>1, <2>2
  <2> QED BY <2>1, <2>3, <2>4
<1>3. ASSUME NEW j \in 1 .. N + 1, NEW k \in 1 .. N + 1, j < k PROVE c[j].tod < c[k].tod
  <2>1. j \in 1 .. N /\ c[j] = b[j]
    <3>1. j \in 1 .. N
      BY <1>3
    <3> QED BY <1>2, <3>1
  <2>2. CASE k \in 1 .. N
    BY <1>1, <1>2, <1>3, <2>1, <2>2 DEF Ordered
  <2>3. CASE k = N + 1
    <3>1. b # <<>> /\ N \in 1 .. N
      BY <1>1, <2>1
    <3>2. b[N].tod < x.tod
      BY <1>1, <3>1
    <3>3. j = N \/ b[j].tod < b[N].tod
      BY <1>1, <2>1, <3>1 DEF Ordered
    <3>4. b[j].tod \in Nat /\ b[N].tod \in Nat
      BY <1>1, <2>1, <3>1, BarsAre
    <3>5. x.tod \in Nat
      <4>1. \A t \in Minutes : t \in Nat
        BY DEF Minutes
      <4> QED BY <4>1 DEF BarType
    <3> QED BY <1>2, <2>1, <2>3, <3>2, <3>3, <3>4, <3>5
  <2> QED BY <2>2, <2>3
<1>4. Ordered(c)
  BY <1>2, <1>3 DEF Ordered
<1>5. c # <<>>
  BY <1>1, <1>2
<1> QED BY <1>1, <1>2, <1>4, <1>5 DEF Extends

(* A new bar for the day, and for a tracker that there is.                 *)
LEMMA BarGrows ==
  ASSUME TypesInv, BarsInv, state = "none" => bars = <<>>, Bar
  PROVE  /\ dayBars' \in Seq(BarType) /\ Ordered(dayBars') /\ dayBars' # <<>>
         /\ bars' \in Seq(BarType) /\ Ordered(bars')
         /\ bars' # <<>> => bars'[Len(bars')].tod = dayBars'[Len(dayBars')].tod
         /\ driver = "dryrun" => bars' = dayBars'
         /\ state = "none" => bars' = bars
         /\ state # "none" => Extends(bars, bars')
         /\ state # "none" /\ bars # <<>> =>
              bars'[Len(bars')].tod > bars[Len(bars)].tod
<1>1. PICK shape \in Shapes, start \in StartTods[session], gap \in Gaps :
        LET tod == IF dayBars = <<>> THEN start ELSE dayBars[Len(dayBars)].tod + gap
            bar == [h |-> shape.h, l |-> shape.l, c |-> shape.c, weak |-> shape.weak,
                    tod |-> tod]
        IN /\ tod \in Minutes
           /\ dayBars' = Append(dayBars, bar)
           /\ bars' = IF state = "none" THEN bars ELSE Append(bars, bar)
  BY DEF Bar
<1>2. PICK tod \in Minutes : tod = IF dayBars = <<>> THEN start
                                   ELSE dayBars[Len(dayBars)].tod + gap
  BY <1>1
<1>3. PICK x : x = [h |-> shape.h, l |-> shape.l, c |-> shape.c, weak |-> shape.weak,
                    tod |-> tod]
  OBVIOUS
<1>4. /\ dayBars' = Append(dayBars, x)
      /\ bars' = IF state = "none" THEN bars ELSE Append(bars, x)
  BY <1>1, <1>2, <1>3
<1>5. x \in BarType /\ x.tod = tod /\ tod \in Nat
  <2>1. shape \in [h : Int, l : Int, c : Int, weak : BOOLEAN]
    BY EngineAssumption
  <2>2. x.tod = tod /\ x \in BarType
    BY <1>3, <2>1 DEF BarType
  <2>3. \A t \in Minutes : t \in Nat
    BY DEF Minutes
  <2> QED BY <2>2, <2>3
<1>6. dayBars \in Seq(BarType) /\ bars \in Seq(BarType) /\ Ordered(dayBars) /\ Ordered(bars)
  BY DEF TypesInv, BarsInv
<1>7. ASSUME dayBars # <<>> PROVE dayBars[Len(dayBars)].tod < tod
  <2>1. Len(dayBars) \in 1 .. Len(dayBars)
    BY <1>6, <1>7
  <2>2. dayBars[Len(dayBars)].tod \in Nat
    BY <1>6, <2>1, BarsAre
  <2>3. gap \in Nat \ {0}
    BY EngineAssumption
  <2> QED BY <1>2, <1>7, <2>2, <2>3
<1>8. bars # <<>> => bars[Len(bars)].tod < tod
  BY <1>7 DEF BarsInv
<1>9. /\ Extends(dayBars, dayBars') /\ dayBars' # <<>> /\ dayBars'[Len(dayBars')] = x
  BY <1>4, <1>5, <1>6, <1>7, AppendExtends
<1>10. dayBars' \in Seq(BarType) /\ Ordered(dayBars')
  BY <1>9 DEF Extends
<1>11. CASE state = "none"
  <2>1. bars' = bars /\ bars = <<>>
    BY <1>4, <1>11
  <2>2. driver # "dryrun"
    BY <1>11 DEF BarsInv
  <2> QED BY <1>6, <1>9, <1>10, <1>11, <2>1, <2>2
<1>12. CASE state # "none"
  <2>1. bars' = Append(bars, x)
    BY <1>4, <1>12
  <2>2. /\ Extends(bars, bars') /\ bars' # <<>> /\ bars'[Len(bars')] = x
    BY <1>5, <1>6, <1>8, <2>1, AppendExtends
  <2>3. bars' \in Seq(BarType) /\ Ordered(bars')
    BY <2>2 DEF Extends
  <2>4. driver = "dryrun" => bars' = dayBars'
    BY <1>4, <2>1 DEF BarsInv
  <2>5. bars # <<>> => bars'[Len(bars')].tod > bars[Len(bars)].tod
    <3>1. ASSUME bars # <<>> PROVE bars[Len(bars)].tod \in Nat
      <4>1. Len(bars) \in 1 .. Len(bars)
        BY <1>6, <3>1
      <4> QED BY <1>6, <4>1, BarsAre
    <3> QED BY <1>5, <1>8, <2>2, <3>1
  <2> QED BY <1>5, <1>9, <1>10, <1>12, <2>2, <2>3, <2>4, <2>5
<1> QED BY <1>11, <1>12

LEMMA DeadlineIs ==
  Deadline = LastMinute(session)
BY DEF Deadline, LastMinute

(* _exit makes one trade of the order.                                     *)
LEMMA CloseIs ==
  ASSUME NEW seen, closed = <<>>, CloseOrder(seen)
  PROVE  /\ state' = "done" /\ order' = <<>>
         /\ at' = at /\ entry' = entry /\ stop' = stop /\ refused' = refused
         /\ closed' = Closed(order, SimulateExit(FindEvent(session, seen), seen, policy),
                             Len(seen))
<1>1. PICK r : /\ r = [entry |-> order[1].entry, at |-> order[1].at,
                       seen |-> order[1].seen,
                       exit |-> SimulateExit(FindEvent(session, seen), seen, policy),
                       exitSeen |-> Len(seen)]
               /\ closed' = Append(closed, r)
  BY DEF CloseOrder
<1>2. closed' = <<r>>
  BY <1>1
<1> QED BY <1>1, <1>2 DEF CloseOrder, Closed

LEMMA InitInv == Init => EngineInv
<1> SUFFICES ASSUME Init PROVE EngineInv
  OBVIOUS
<1>1. session \in Sessions /\ driver \in Drivers /\ policy \in Policies
  BY EngineAssumption DEF Init
<1>2. <<>> \in Seq(BarType) /\ Len(<<>>) = 0 /\ Ordered(<<>>)
  BY DEF Ordered
<1>3. MaxRestart \in Nat
  BY EngineAssumption
<1>4. TypesInv
  <2>1. 0 \in 0 .. 0 /\ 0 \in 0 .. MaxRestart
    BY <1>3
  <2>2. at \in 0 .. Len(bars) /\ restarts \in 0 .. MaxRestart
    <3>1. Len(bars) = 0 /\ at = 0 /\ restarts = 0
      BY <1>2 DEF Init
    <3> QED BY <2>1, <3>1
  <2>3. over \in BOOLEAN /\ refused \in BOOLEAN
    BY DEF Init
  <2>4. state \in {"none", "watch", "holding", "done"}
    BY DEF Init
  <2>5. dayBars \in Seq(BarType) /\ bars \in Seq(BarType) /\ entry \in Int /\ stop \in Int
    BY <1>2 DEF Init
  <2> QED BY <1>1, <2>2, <2>3, <2>4, <2>5 DEF TypesInv
<1>5. BarsInv
  BY <1>2 DEF Init, BarsInv
<1>6. FindEvent(session, bars) = NoEvent
  BY <1>1, NoBarsNoEvent DEF Init
<1> QED BY <1>4, <1>5, <1>6 DEF Init, EngineInv, Idle

(* What a bar leaves alone.                                                *)
LEMMA BarFrame ==
  ASSUME EngineInv, Bar, state' \in {"none", "watch", "holding", "done"},
         refused' \in BOOLEAN, at' \in 0 .. Len(bars'), entry' \in Int, stop' \in Int,
         driver = "dryrun" => state' # "none"
  PROVE  TypesInv' /\ BarsInv'
<1>1. TypesInv /\ BarsInv /\ (state = "none" => bars = <<>>)
  BY DEF EngineInv
<1>2. /\ dayBars' \in Seq(BarType) /\ Ordered(dayBars') /\ dayBars' # <<>>
      /\ bars' \in Seq(BarType) /\ Ordered(bars')
      /\ bars' # <<>> => bars'[Len(bars')].tod = dayBars'[Len(dayBars')].tod
      /\ driver = "dryrun" => bars' = dayBars'
  BY <1>1, BarGrows
<1>3. /\ driver' = driver /\ session' = session /\ policy' = policy /\ over' = over
      /\ restarts' = restarts
  BY DEF Bar, strategyVars
<1>4. TypesInv'
  BY <1>1, <1>2, <1>3 DEF TypesInv
<1>5. BarsInv'
  BY <1>1, <1>2, <1>3 DEF BarsInv
<1> QED BY <1>4, <1>5

(* The position of the entry is still one of the bars.                     *)
LEMMA AtStays ==
  ASSUME EngineInv, Bar
  PROVE  at \in 0 .. Len(bars') /\ entry \in Int /\ stop \in Int
         /\ refused \in BOOLEAN /\ ~over /\ over' = over
         /\ session' = session /\ policy' = policy /\ driver' = driver
<1>1. TypesInv /\ BarsInv /\ (state = "none" => bars = <<>>)
  BY DEF EngineInv
<1>2. bars' = bars \/ Extends(bars, bars')
  BY <1>1, BarGrows
<1>3. Len(bars) \in Nat /\ (Len(bars') = Len(bars) \/ Len(bars') = Len(bars) + 1)
  BY <1>1, <1>2, BarsAre DEF Extends, TypesInv
<1>4. at \in 0 .. Len(bars)
  BY <1>1 DEF TypesInv
<1>5. at \in 0 .. Len(bars')
  BY <1>3, <1>4
<1> QED BY <1>1, <1>5 DEF TypesInv, Bar, strategyVars

LEMMA WatchKeeps ==
  ASSUME EngineInv, Bar, Watch
  PROVE  EngineInv'
<1> DEFINE f == FindEvent(session, bars')
<1>1. /\ TypesInv /\ BarsInv /\ state = "watch" /\ session \in Sessions
      /\ FindEvent(session, bars) = NoEvent /\ Idle
  BY DEF EngineInv, Watch, TypesInv
<1>2. Extends(bars, bars') /\ bars' \in Seq(BarType) /\ Ordered(bars')
  BY <1>1, BarGrows DEF Extends
<1>3. /\ at \in 0 .. Len(bars') /\ entry \in Int /\ stop \in Int
      /\ refused \in BOOLEAN /\ ~over /\ over' = over
      /\ session' = session /\ policy' = policy /\ driver' = driver
  BY AtStays
<1>4. closed' = <<>> /\ ~refused /\ order = <<>>
  BY <1>1 DEF Watch, Idle
<1>5. CASE f = NoEvent
  <2>1. UNCHANGED <<state, at, entry, stop, order, refused>>
    BY <1>5 DEF Watch
  <2>2. TypesInv' /\ BarsInv'
    BY <1>1, <1>3, <2>1, BarFrame
  <2>3. FindEvent(session, bars)' = NoEvent
    BY <1>3, <1>5
  <2> QED BY <1>1, <1>4, <2>1, <2>2, <2>3 DEF EngineInv, Idle
<1>6. CASE f # NoEvent /\ f.entry <= f.stop
  <2>1. state' = "done" /\ UNCHANGED <<at, entry, stop, order, refused>>
    BY <1>6 DEF Watch
  <2>2. TypesInv' /\ BarsInv'
    BY <1>3, <2>1, BarFrame
  <2>3. DoneInv'
    BY <1>3, <1>4, <1>6, <2>1 DEF DoneInv
  <2> QED BY <2>1, <2>2, <2>3 DEF EngineInv
<1>7. CASE f # NoEvent /\ ~(f.entry <= f.stop)
  <2>1. Enter(f, bars')
    BY <1>7 DEF Watch
  <2>2. PICK ok \in BOOLEAN :
          /\ at' = f.at /\ entry' = f.entry /\ stop' = f.stop
          /\ refused' = ~ok
          /\ state' = IF ok THEN "holding" ELSE "done"
          /\ order' = IF ok THEN <<[entry |-> f.entry, at |-> f.at, seen |-> Len(bars')]>>
                      ELSE <<>>
    BY <2>1 DEF Enter
  <2>3. EventOf(f, bars')
    BY <1>1, <1>2, <1>7, EventTyped
  <2>4. Len(bars') \in Nat /\ f.at \in 1 .. Len(bars') /\ f.entry \in Int /\ f.stop \in Int
    BY <1>2, <2>3, BarsAre DEF EventOf
  <2>5. Len(bars') - f.at \in 0 .. 2
    BY <1>1, <1>2, <1>7, EventFresh
  <2>6. TypesInv' /\ BarsInv'
    <3>1. f.at \in 0 .. Len(bars') /\ (~ok) \in BOOLEAN
      BY <2>4
    <3> HIDE DEF f
    <3> QED BY <2>2, <2>4, <3>1, BarFrame
  <2>7. CASE ok
    <3>1. Len(bars') \in 1 .. Len(bars') /\ ~(Len(bars') > Len(bars'))
      BY <2>4
    <3>2. Held(f, bars', policy, order')
      <4> HIDE DEF f
      <4> QED BY <1>7, <2>2, <2>5, <2>7, <3>1 DEF Held
    <3>3. HoldingInv'
      BY <1>3, <1>4, <2>2, <2>7, <3>2 DEF HoldingInv
    <3> QED BY <2>2, <2>6, <2>7, <3>3 DEF EngineInv
  <2>8. CASE ~ok
    <3>1. DoneInv'
      BY <1>3, <1>4, <1>7, <2>2, <2>8 DEF DoneInv
    <3> QED BY <2>2, <2>6, <2>8, <3>1 DEF EngineInv
  <2> QED BY <2>7, <2>8
<1> QED BY <1>5, <1>6, <1>7

LEMMA HoldKeeps ==
  ASSUME EngineInv, Bar, Hold
  PROVE  EngineInv'
<1> DEFINE e == FindEvent(session, bars)
           f == FindEvent(session, bars')
           x == SimulateExit(f, bars', policy)
<1>1. /\ TypesInv /\ BarsInv /\ state = "holding" /\ session \in Sessions
      /\ HoldingInv /\ Ordered(bars)
  BY DEF EngineInv, Hold, TypesInv, BarsInv
<1>2. Extends(bars, bars') /\ bars' \in Seq(BarType) /\ Ordered(bars')
  BY <1>1, BarGrows DEF Extends
<1>3. /\ at \in 0 .. Len(bars') /\ entry \in Int /\ stop \in Int
      /\ refused \in BOOLEAN /\ ~over /\ over' = over
      /\ session' = session /\ policy' = policy /\ driver' = driver
  BY AtStays
<1>4. closed = <<>> /\ ~refused /\ Held(e, bars, policy, order)
      /\ e.at = at /\ e.entry = entry /\ e.stop = stop
  BY <1>1 DEF HoldingInv
<1>5. KeepsOn(e, f, Len(bars))
  BY <1>1, <1>2, <1>4, EventStays DEF Held
<1>6. CASE ExitDue(bars', FALSE)
  <2>1. f.fwd # {} /\ (x.reason # "time" \/ bars'[Len(bars')].tod > LastMinute(session))
    BY <1>6, DeadlineIs DEF ExitDue
  <2>2. /\ state' = "done" /\ order' = <<>>
        /\ at' = at /\ entry' = entry /\ stop' = stop /\ refused' = refused
        /\ closed' = Closed(order, x, Len(bars'))
    BY <1>4, <1>6, CloseIs DEF Hold
  <2>3. TypesInv' /\ BarsInv'
    BY <1>3, <2>2, BarFrame
  <2>4. Traded(f, bars', policy, closed')
    BY <1>1, <1>2, <1>4, <2>1, <2>2, HeldTrades
  <2>5. closed'[1].exit = x
    BY <2>4 DEF Traded
  <2>6. DoneInv'
    <3> HIDE DEF x
    <3> QED BY <1>3, <1>4, <2>1, <2>2, <2>4, <2>5 DEF DoneInv
  <2> QED BY <2>2, <2>3, <2>6 DEF EngineInv
<1>7. CASE ~ExitDue(bars', FALSE)
  <2>1. UNCHANGED <<state, at, entry, stop, order, closed, refused>>
    BY <1>7 DEF Hold
  <2>2. TypesInv' /\ BarsInv'
    BY <1>1, <1>3, <2>1, BarFrame
  <2>3. f.fwd # {} => x.reason = "time"
    BY <1>5, <1>7 DEF ExitDue, KeepsOn
  <2>4. Held(f, bars', policy, order)
    BY <1>1, <1>2, <1>4, <2>3, HeldStays
  <2>5. f.at = at /\ f.entry = entry /\ f.stop = stop
    BY <1>4, <1>5 DEF KeepsOn
  <2>6. HoldingInv'
    <3> HIDE DEF e, x
    <3> QED BY <1>3, <1>4, <2>1, <2>4, <2>5 DEF HoldingInv
  <2> QED BY <1>1, <2>1, <2>2, <2>6 DEF EngineInv
<1> QED BY <1>6, <1>7

(* A bar before registration, or after the trade.                          *)
LEMMA OtherKeeps ==
  ASSUME EngineInv, Bar, state \in {"none", "done"},
         UNCHANGED <<state, at, entry, stop, order, closed, refused>>
  PROVE  EngineInv'
<1> DEFINE e == FindEvent(session, bars)
           f == FindEvent(session, bars')
<1>1. TypesInv /\ BarsInv /\ session \in Sessions /\ Ordered(bars)
      /\ (state = "none" => bars = <<>>)
  BY DEF EngineInv, TypesInv, BarsInv
<1>2. /\ at \in 0 .. Len(bars') /\ entry \in Int /\ stop \in Int
      /\ refused \in BOOLEAN /\ ~over /\ over' = over
      /\ session' = session /\ policy' = policy /\ driver' = driver
  BY AtStays
<1>3. TypesInv' /\ BarsInv'
  <2>1. driver = "dryrun" => state # "none"
    BY <1>1 DEF BarsInv
  <2> QED BY <1>2, <2>1, BarFrame
<1>4. CASE state = "none"
  <2>1. bars' = bars
    BY <1>1, <1>4, BarGrows
  <2> QED BY <1>3, <1>4, <2>1 DEF EngineInv, Idle
<1>5. CASE state = "done"
  <2>1. DoneInv
    BY <1>5 DEF EngineInv
  <2>2. Extends(bars, bars') /\ bars' \in Seq(BarType)
    BY <1>1, <1>5, BarGrows DEF Extends
  <2>3. CASE /\ closed = <<>> /\ e # NoEvent
             /\ refused \/ e.entry <= e.stop
    <3>1. f # NoEvent /\ f.entry = e.entry /\ f.stop = e.stop
      BY <1>1, <2>2, <2>3, EventStays DEF KeepsOn
    <3>2. DoneInv'
      <4> HIDE DEF e
      <4> QED BY <1>2, <2>1, <2>3, <3>1 DEF DoneInv
    <3> QED BY <1>3, <1>5, <3>2 DEF EngineInv
  <2>4. CASE /\ ~refused /\ Traded(e, bars, policy, closed)
             /\ \/ closed[1].exit.reason # "time"
                \/ bars[Len(bars)].tod > LastMinute(session)
    <3>1. bars # <<>>
      <4>1. EventOf(e, bars)
        BY <1>1, <2>2, <2>4, EventTyped DEF Traded, Extends
      <4> QED BY <4>1 DEF EventOf
    <3>2. \/ closed[1].exit.reason # "time"
          \/ bars'[Len(bars')].tod > LastMinute(session)
      <4>1. bars'[Len(bars')].tod > bars[Len(bars)].tod
        BY <1>1, <1>5, <3>1, BarGrows
      <4>2. bars[Len(bars)].tod \in Nat /\ bars'[Len(bars')].tod \in Nat
        <5>1. bars \in Seq(BarType) /\ Len(bars) \in 1 .. Len(bars)
          BY <1>1, <3>1 DEF TypesInv
        <5>2. Len(bars') \in 1 .. Len(bars')
          BY <5>1, <2>2 DEF Extends
        <5> QED BY <2>2, <5>1, <5>2, BarsAre
      <4>3. LastMinute(session) \in Nat
        BY <1>1, RulesAssumption DEF LastMinute, Sessions
      <4> QED BY <2>4, <4>1, <4>2, <4>3
    <3>3. Traded(f, bars', policy, closed)
      BY <1>1, <2>2, <2>4, <3>2, TradedStays
    <3>4. DoneInv'
      BY <1>2, <2>1, <2>4, <3>2, <3>3 DEF DoneInv
    <3> QED BY <1>3, <1>5, <3>4 DEF EngineInv
  <2> QED BY <1>2, <2>1, <2>3, <2>4 DEF DoneInv
<1> QED BY <1>4, <1>5

LEMMA EndKeeps ==
  ASSUME EngineInv, EndOfDay
  PROVE  EngineInv'
<1> DEFINE e == FindEvent(session, bars)
           x == SimulateExit(e, bars, policy)
<1>1. /\ over' = TRUE /\ ~over /\ dayBars' = dayBars /\ bars' = bars /\ restarts' = restarts
      /\ session' = session /\ policy' = policy /\ driver' = driver
  BY DEF EndOfDay, strategyVars
<1>2. TypesInv /\ BarsInv /\ session \in Sessions
  BY DEF EngineInv, TypesInv
<1>3. CASE driver = "dryrun" /\ order # <<>> /\ ExitDue(bars, TRUE)
  <2>1. HoldingInv
    BY <1>2, <1>3 DEF EngineInv, Idle, DoneInv, TypesInv
  <2>2. e.fwd # {} /\ closed = <<>> /\ ~refused /\ Held(e, bars, policy, order)
    BY <1>3, <2>1 DEF ExitDue, HoldingInv
  <2>3. /\ state' = "done" /\ order' = <<>>
        /\ at' = at /\ entry' = entry /\ stop' = stop /\ refused' = refused
        /\ closed' = Closed(order, x, Len(bars))
    BY <1>3, <2>2, CloseIs DEF EndOfDay
  <2>4. Traded(e, bars, policy, closed')
    BY <1>2, <2>2, <2>3, HeldTradesAtEnd DEF TypesInv, BarsInv
  <2>5. TypesInv' /\ BarsInv'
    BY <1>1, <1>2, <2>3 DEF TypesInv, BarsInv
  <2>6. DoneInv'
    BY <1>1, <2>2, <2>3, <2>4 DEF DoneInv
  <2> QED BY <2>3, <2>5, <2>6 DEF EngineInv
<1>4. CASE ~(driver = "dryrun" /\ order # <<>> /\ ExitDue(bars, TRUE))
  <2>1. UNCHANGED <<state, at, entry, stop, order, closed, refused>>
    BY <1>4 DEF EndOfDay
  <2>2. TypesInv' /\ BarsInv'
    BY <1>1, <1>2, <2>1 DEF TypesInv, BarsInv
  <2>3. state = "none" => bars' = <<>> /\ Idle'
    BY <1>1, <2>1 DEF EngineInv, Idle
  <2>4. state = "watch" => FindEvent(session, bars)' = NoEvent /\ Idle'
    BY <1>1, <2>1 DEF EngineInv, Idle
  <2>5. ASSUME state = "holding" PROVE HoldingInv'
    <3>1. HoldingInv
      BY <2>5 DEF EngineInv
    <3>2. order # <<>> /\ e # NoEvent
      BY <3>1 DEF HoldingInv, Held
    <3>3. driver = "dryrun" => e.fwd = {}
      BY <1>4, <3>2 DEF ExitDue
    <3> QED BY <1>1, <2>1, <3>1, <3>3 DEF HoldingInv
  <2>6. ASSUME state = "done" PROVE DoneInv'
    <3>1. DoneInv
      BY <2>6 DEF EngineInv
    <3> QED BY <1>1, <2>1, <3>1 DEF DoneInv
  <2> QED BY <2>1, <2>2, <2>3, <2>4, <2>5, <2>6 DEF EngineInv
<1> QED BY <1>3, <1>4

LEMMA NextInv == EngineInv /\ [Next]_vars => EngineInv'
<1> SUFFICES ASSUME EngineInv, [Next]_vars PROVE EngineInv'
  OBVIOUS
<1>1. CASE Register
  <2>1. /\ state = "none" /\ state' = "watch" /\ Idle /\ bars = <<>>
        /\ UNCHANGED <<strategyVars, dayBars, over, bars, at, entry, stop, order,
                       closed, refused, restarts>>
    BY <1>1 DEF Register, EngineInv
  <2>2. TypesInv' /\ BarsInv'
    BY <2>1 DEF EngineInv, TypesInv, BarsInv, strategyVars
  <2>3. FindEvent(session, bars)' = NoEvent /\ Idle'
    BY <2>1, NoBarsNoEvent DEF EngineInv, TypesInv, strategyVars, Idle
  <2> QED BY <2>1, <2>2, <2>3 DEF EngineInv
<1>2. CASE Bar
  BY <1>2, WatchKeeps, HoldKeeps, OtherKeeps DEF Bar
<1>3. CASE EndOfDay
  BY <1>3, EndKeeps
<1>4. CASE Restart
  <2>1. /\ driver = "server" /\ bars' = <<>> /\ state' = "none" /\ Idle'
        /\ at' = 0 /\ entry' = 0 /\ stop' = 0
        /\ restarts' = restarts + 1 /\ restarts < MaxRestart
        /\ UNCHANGED <<strategyVars, dayBars, over>> /\ refused' = FALSE
    BY <1>4 DEF Restart, Idle
  <2>2. <<>> \in Seq(BarType) /\ Len(<<>>) = 0 /\ Ordered(<<>>)
    BY DEF Ordered
  <2>3. TypesInv'
    <3>1. restarts \in 0 .. MaxRestart /\ MaxRestart \in Nat
      BY EngineAssumption DEF EngineInv, TypesInv
    <3>2. restarts' \in 0 .. MaxRestart
      BY <2>1, <3>1
    <3>3. at' \in 0 .. Len(bars')
      BY <2>1, <2>2
    <3>4. /\ driver' = driver /\ session' = session /\ policy' = policy
          /\ dayBars' = dayBars /\ over' = over
      BY <2>1 DEF strategyVars
    <3>5. refused' \in BOOLEAN /\ state' \in {"none", "watch", "holding", "done"}
          /\ entry' \in Int /\ stop' \in Int /\ bars' \in Seq(BarType)
      <4>1. refused' \in BOOLEAN
        BY <2>1
      <4>2. /\ state' \in {"none", "watch", "holding", "done"}
            /\ entry' \in Int /\ stop' \in Int /\ bars' \in Seq(BarType)
        BY <2>1, <2>2
      <4> QED BY <4>1, <4>2
    <3> QED BY <3>2, <3>3, <3>4, <3>5 DEF EngineInv, TypesInv
  <2>4. BarsInv'
    BY <2>1, <2>2 DEF EngineInv, BarsInv, strategyVars
  <2> QED BY <2>1, <2>3, <2>4 DEF EngineInv
<1>5. CASE UNCHANGED vars
  BY <1>5 DEF vars, strategyVars, engineVars, EngineInv, TypesInv, BarsInv, Idle,
              HoldingInv, DoneInv
<1> QED BY <1>1, <1>2, <1>3, <1>4, <1>5 DEF Next

LEMMA EngineInvHolds == Spec => []EngineInv
BY InitInv, NextInv, PTL DEF Spec

-----------------------------------------------------------------------------
(* A holding tracker derives, on every bar, the entry it was placed with   *)
(* (_maybe_exit: "shouldn't happen once holding").                         *)
THEOREM SteadyCorrect == Spec => []SteadyEntry
<1>1. EngineInv => SteadyEntry
  BY DEF EngineInv, HoldingInv, SteadyEntry
<1> QED BY <1>1, EngineInvHolds, PTL

(* An entry is signalled at most two bars after its trigger, at most once; *)
(* an exit on the bar that makes it or on the first bar after the entry    *)
(* was signalled (LiveEngine.observe).                                     *)
THEOREM PromptCorrect == Spec => []Prompt
<1>1. ASSUME EngineInv PROVE Prompt
  <2>1. TypesInv
    BY <1>1 DEF EngineInv
  <2>2. CASE state = "none" \/ state = "watch"
    <3>1. order = <<>> /\ closed = <<>>
      BY <1>1, <2>2 DEF EngineInv, Idle
    <3> QED BY <2>1, <3>1 DEF TypesInv, Prompt, TypeOK, EngineInv
  <2>3. CASE state = "holding"
    <3>1. closed = <<>> /\ Held(FindEvent(session, bars), bars, policy, order)
      BY <1>1, <2>3 DEF EngineInv, HoldingInv
    <3>2. PICK q : order = <<q>> /\ q.seen - q.at \in 0 .. 2
      BY <3>1 DEF Held
    <3>3. Len(order) = 1 /\ \A k \in DOMAIN order : order[k] = q
      BY <3>2
    <3> QED BY <2>1, <3>1, <3>2, <3>3 DEF TypesInv, Prompt, TypeOK
  <2>4. CASE state = "done"
    <3>1. DoneInv
      BY <1>1, <2>4 DEF EngineInv
    <3>2. CASE closed = <<>>
      BY <2>1, <3>1, <3>2 DEF TypesInv, Prompt, TypeOK, DoneInv
    <3>3. CASE Traded(FindEvent(session, bars), bars, policy, closed)
      <4>1. /\ closed = <<closed[1]>>
            /\ closed[1].exit.reason # "time" =>
                 closed[1].exitSeen <= Max({closed[1].exit.at, closed[1].seen + 1})
        BY <3>3 DEF Traded
      <4>2. Len(closed) = 1 /\ DOMAIN closed = {1}
        BY <4>1
      <4> QED BY <2>1, <3>1, <4>1, <4>2 DEF TypesInv, Prompt, TypeOK, DoneInv
    <3> QED BY <3>1, <3>2, <3>3 DEF DoneInv
  <2> QED BY <2>1, <2>2, <2>3, <2>4 DEF TypesInv
<1> QED BY <1>1, EngineInvHolds, PTL

(* A tracker fed the day bar by bar makes the trade that the backtest      *)
(* makes of the whole day (live_tracker.py, dryrun_day).                   *)
THEOREM StreamCorrect == Spec => []StreamMatchesBatch
<1>1. ASSUME EngineInv, driver = "dryrun", over PROVE Streamed = BatchTrades(dayBars)
  <2> DEFINE e == FindEvent(session, bars)
  <2>1. dayBars = bars /\ state # "none" /\ TypesInv
    BY <1>1 DEF EngineInv, BarsInv
  <2>2. BatchTrades(dayBars) =
          IF e = NoEvent \/ e.entry <= e.stop \/ e.fwd = {} \/ refused THEN <<>>
          ELSE <<[entry |-> e.entry, at |-> e.at, exit |-> SimulateExit(e, bars, policy)]>>
    BY <2>1 DEF BatchTrades
  <2>3. closed = <<>> => Streamed = <<>>
    BY DEF Streamed
  <2>4. CASE state = "watch"
    BY <1>1, <2>2, <2>3, <2>4 DEF EngineInv, Idle
  <2>5. CASE state = "holding"
    <3>1. closed = <<>> /\ e.fwd = {}
      BY <1>1, <2>5 DEF EngineInv, HoldingInv
    <3> QED BY <2>2, <2>3, <3>1
  <2>6. CASE state = "done"
    <3>1. DoneInv
      BY <1>1, <2>6 DEF EngineInv
    <3>2. CASE /\ closed = <<>>
               /\ refused \/ e.entry <= e.stop
      BY <2>2, <2>3, <3>2
    <3>3. CASE ~refused /\ Traded(e, bars, policy, closed)
      <4>1. PICK x : x = SimulateExit(e, bars, policy)
        OBVIOUS
      <4>2. /\ e # NoEvent /\ ~(e.entry <= e.stop) /\ e.fwd # {}
            /\ closed = <<closed[1]>> /\ closed[1].entry = e.entry /\ closed[1].at = e.at
            /\ closed[1].exit = x
        BY <3>3, <4>1 DEF Traded
      <4>3. PICK t : t = [entry |-> e.entry, at |-> e.at, exit |-> x]
        OBVIOUS
      <4>4. BatchTrades(dayBars) = <<t>>
        <5> HIDE DEF e
        <5> QED BY <2>2, <3>3, <4>1, <4>2, <4>3
      <4>5. DOMAIN closed = 1 .. 1
        BY <4>2
      <4>6. Streamed = [k \in 1 .. 1 |-> t]
        <5>1. \A k \in 1 .. 1 : closed[k].entry = e.entry /\ closed[k].at = e.at
                                /\ closed[k].exit = x
          BY <4>2
        <5> HIDE DEF e
        <5> QED BY <4>3, <4>5, <5>1 DEF Streamed
      <4>7. [k \in 1 .. 1 |-> t] = <<t>>
        OBVIOUS
      <4> QED BY <4>4, <4>6, <4>7
    <3> QED BY <3>1, <3>2, <3>3 DEF DoneInv
  <2> QED BY <2>1, <2>4, <2>5, <2>6 DEF TypesInv
<1>2. EngineInv => StreamMatchesBatch
  BY <1>1 DEF StreamMatchesBatch
<1> QED BY <1>2, EngineInvHolds, PTL

-----------------------------------------------------------------------------
(* A sum of integers is an integer: the function that the fold of the      *)
(* library is defined by exists, and its values are integers.              *)

Pick(S)        == CHOOSE x \in S : TRUE
Plus(f, g, S)  == IF S = {} THEN 0 ELSE f[Pick(S)] + g[S \ {Pick(S)}]
Sums(f, g)     == g = [S \in SUBSET (DOMAIN f) |-> Plus(f, g, S)]
SumsTo(f, g, n) == \A S \in SUBSET (DOMAIN f) :
                     Cardinality(S) <= n => g[S] \in Int /\ g[S] = Plus(f, g, S)

LEMMA SumFunctionIs ==
  ASSUME NEW f
  PROVE  SumFunction(f) = (CHOOSE g : Sums(f, g))[DOMAIN f]
BY DEF SumFunction, SumFunctionOnSet, FoldFunctionOnSet, MapThenFoldSet, Sums, Plus, Pick

LEMMA PickIs ==
  ASSUME NEW f, IsFiniteSet(DOMAIN f)
  PROVE  \A S \in SUBSET (DOMAIN f) :
           /\ Cardinality(S) \in Nat /\ (Cardinality(S) = 0 <=> S = {})
           /\ S # {} => /\ Pick(S) \in S /\ S \ {Pick(S)} \in SUBSET (DOMAIN f)
                        /\ Cardinality(S \ {Pick(S)}) = Cardinality(S) - 1
<1> SUFFICES ASSUME NEW S \in SUBSET (DOMAIN f)
             PROVE  /\ Cardinality(S) \in Nat /\ (Cardinality(S) = 0 <=> S = {})
                    /\ S # {} => /\ Pick(S) \in S /\ S \ {Pick(S)} \in SUBSET (DOMAIN f)
                                 /\ Cardinality(S \ {Pick(S)}) = Cardinality(S) - 1
  OBVIOUS
<1>1. IsFiniteSet(S)
  <2>1. PICK D : D = DOMAIN f
    OBVIOUS
  <2> QED BY <2>1, FS_Subset
<1>2. Cardinality(S) \in Nat /\ (Cardinality(S) = 0 <=> S = {})
  BY <1>1, FS_CardinalityType, FS_EmptySet
<1>3. S # {} => Pick(S) \in S
  BY DEF Pick
<1>4. S # {} => Cardinality(S \ {Pick(S)}) = Cardinality(S) - 1
  BY <1>1, <1>3, FS_RemoveElement
<1> QED BY <1>2, <1>3, <1>4

LEMMA SumsExist ==
  ASSUME NEW f, IsFiniteSet(DOMAIN f), \A x \in DOMAIN f : f[x] \in Int,
         NEW n \in Nat
  PROVE  \E g : SumsTo(f, g, n)
<1> DEFINE T == {k \in Nat : ~\E g : SumsTo(f, g, k)}
<1>1. SUFFICES ASSUME T # {} PROVE FALSE
  OBVIOUS
<1>2. PICK m \in T : \A k \in T : m <= k
  <2>1. T \subseteq Nat
    OBVIOUS
  <2> HIDE DEF T
  <2> QED BY <1>1, <2>1, LeastNatural
<1>3. CASE m = 0
  <2> DEFINE h == [S \in SUBSET (DOMAIN f) |-> 0]
  <2>1. ASSUME NEW S \in SUBSET (DOMAIN f), Cardinality(S) <= 0
        PROVE  h[S] \in Int /\ h[S] = Plus(f, h, S)
    <3>1. S = {}
      <4>1. Cardinality(S) \in Nat /\ (Cardinality(S) = 0 <=> S = {})
        BY PickIs
      <4> QED BY <2>1, <4>1
    <3> QED BY <3>1 DEF Plus
  <2>2. SumsTo(f, h, 0)
    BY <2>1 DEF SumsTo
  <2> QED BY <1>3, <2>2
<1>4. CASE m # 0
  <2>1. m - 1 \in Nat /\ m - 1 \notin T
    BY <1>2, <1>4
  <2>2. PICK g : SumsTo(f, g, m - 1)
    BY <2>1
  <2> DEFINE h == [S \in SUBSET (DOMAIN f) |-> Plus(f, g, S)]
  <2>3. ASSUME NEW S \in SUBSET (DOMAIN f), Cardinality(S) <= m - 1
        PROVE  h[S] = g[S] /\ g[S] \in Int
    BY <2>2, <2>3 DEF SumsTo
  <2>4. ASSUME NEW S \in SUBSET (DOMAIN f), Cardinality(S) <= m
        PROVE  h[S] \in Int /\ h[S] = Plus(f, h, S)
    <3>1. CASE S = {}
      BY <3>1 DEF Plus
    <3>2. CASE S # {}
      <4>1. PICK x \in DOMAIN f, U \in SUBSET (DOMAIN f) :
              x = Pick(S) /\ U = S \ {Pick(S)} /\ Cardinality(U) = Cardinality(S) - 1
        BY PickIs, <3>2
      <4>2. Cardinality(U) <= m - 1
        BY PickIs, <2>4, <4>1
      <4>3. h[U] = g[U] /\ g[U] \in Int
        BY <2>3, <4>2
      <4>4. h[S] = f[x] + g[U]
        BY <3>2, <4>1 DEF Plus
      <4> HIDE DEF h
      <4>5. Plus(f, h, S) = f[x] + h[U]
        BY <3>2, <4>1 DEF Plus
      <4> QED BY <4>3, <4>4, <4>5
    <3> QED BY <3>1, <3>2
  <2>5. SumsTo(f, h, m)
    <3> HIDE DEF h
    <3> QED BY <2>4 DEF SumsTo
  <2> QED BY <2>5
<1> QED BY <1>3, <1>4

LEMMA SumIsInt ==
  ASSUME NEW f, IsFiniteSet(DOMAIN f), \A x \in DOMAIN f : f[x] \in Int
  PROVE  SumFunction(f) \in Int
<1> DEFINE g == CHOOSE g : Sums(f, g)
<1>1. Sums(f, g)
  <2>1. PICK n \in Nat : n = Cardinality(DOMAIN f)
    BY FS_CardinalityType
  <2>2. PICK w : SumsTo(f, w, n)
    BY <2>1, SumsExist
  <2> DEFINE v == [S \in SUBSET (DOMAIN f) |-> w[S]]
  <2>3. ASSUME NEW S \in SUBSET (DOMAIN f) PROVE v[S] = Plus(f, v, S)
    <3>1. Cardinality(S) <= n
      BY <2>1, FS_Subset
    <3>2. v[S] = Plus(f, w, S)
      BY <2>2, <3>1 DEF SumsTo
    <3>3. S # {} => S \ {Pick(S)} \in SUBSET (DOMAIN f)
      OBVIOUS
    <3> QED BY <3>2, <3>3 DEF Plus
  <2>4. v = [S \in SUBSET (DOMAIN f) |-> Plus(f, v, S)]
    <3>1. DOMAIN v = SUBSET (DOMAIN f) /\ v = [S \in DOMAIN v |-> v[S]]
      OBVIOUS
    <3> HIDE DEF v
    <3> QED BY <2>3, <3>1
  <2>5. \E u : Sums(f, u)
    <3> HIDE DEF v
    <3> QED BY <2>4 DEF Sums
  <2> QED BY <2>5
<1> HIDE DEF g
<1> DEFINE Bad(S) == S \in SUBSET (DOMAIN f) /\ g[S] \notin Int
           T      == {k \in Nat : \E S : Bad(S) /\ Cardinality(S) = k}
<1>2. ASSUME NEW S \in SUBSET (DOMAIN f) PROVE g[S] = Plus(f, g, S)
  <2>1. g = [U \in SUBSET (DOMAIN f) |-> Plus(f, g, U)]
    BY <1>1 DEF Sums
  <2> QED BY <2>1
<1>3. ASSUME T # {} PROVE FALSE
  <2>1. PICK m \in T : \A k \in T : m <= k
    <3>1. T \subseteq Nat
      OBVIOUS
    <3> HIDE DEF T
    <3> QED BY <1>3, <3>1, LeastNatural
  <2>2. PICK S : Bad(S) /\ Cardinality(S) = m
    OBVIOUS
  <2>3. S # {} /\ g[S] = Plus(f, g, S)
    <3>1. g[S] = Plus(f, g, S) /\ g[S] \notin Int
      BY <1>2, <2>2
    <3> QED BY <3>1 DEF Plus
  <2>4. PICK x \in DOMAIN f, U \in SUBSET (DOMAIN f) :
          /\ x = Pick(S) /\ U = S \ {Pick(S)} /\ Cardinality(U) = m - 1
          /\ Cardinality(U) \in Nat
    BY PickIs, <2>2, <2>3
  <2>5. g[S] = f[x] + g[U]
    BY <2>3, <2>4 DEF Plus
  <2>6. ~Bad(U)
    BY <2>1, <2>4
  <2> QED BY <2>2, <2>4, <2>5, <2>6
<1>4. ~Bad(DOMAIN f)
  <2>1. Cardinality(DOMAIN f) \in Nat
    BY FS_CardinalityType
  <2> QED BY <1>3, <2>1
<1> QED BY <1>4, SumFunctionIs DEF g

-----------------------------------------------------------------------------
(* The stop in force is a price, and only goes up.                         *)

LEMMA ThreeAreFew ==
  ASSUME NEW x, NEW y, NEW z
  PROVE  IsFiniteSet({x, y, z})
<1>1. PICK P : P = {x} /\ IsFiniteSet(P)
  BY FS_Singleton
<1>2. PICK Q : Q = P \cup {y} /\ IsFiniteSet(Q)
  BY <1>1, FS_AddElement
<1>3. PICK R : R = Q \cup {z} /\ IsFiniteSet(R)
  BY <1>2, FS_AddElement
<1>4. R = {x, y, z}
  BY <1>1, <1>2, <1>3
<1> QED BY <1>3, <1>4

LEMMA TrueRangeIs ==
  ASSUME NEW b \in Seq(BarType), NEW k \in 2 .. Len(b)
  PROVE  TrueRange(b, k) \in Int
<1>1. k \in 1 .. Len(b) /\ k - 1 \in 1 .. Len(b)
  BY BarsAre
<1>2. /\ b[k].h \in Int /\ b[k].l \in Int /\ b[k - 1].c \in Int
  BY <1>1, BarsAre
<1>3. PICK x \in Int, y \in Int, z \in Int :
        /\ x = b[k].h - b[k].l /\ y = Abs(b[k].h - b[k - 1].c)
        /\ z = Abs(b[k].l - b[k - 1].c)
  <2>1. PICK u \in Int, v \in Int, w \in Int :
          u = b[k].h - b[k].l /\ v = b[k].h - b[k - 1].c /\ w = b[k].l - b[k - 1].c
    <3>1. PICK hi \in Int, lo \in Int, cl \in Int :
            hi = b[k].h /\ lo = b[k].l /\ cl = b[k - 1].c
      BY <1>2
    <3>2. hi - lo \in Int /\ hi - cl \in Int /\ lo - cl \in Int
      OBVIOUS
    <3> QED BY <3>1, <3>2
  <2>2. Abs(v) \in Int /\ Abs(w) \in Int
    BY DEF Abs
  <2> QED BY <2>1, <2>2
<1>4. IsFiniteSet({x, y, z})
  BY ThreeAreFew
<1>5. PICK S : S = {x, y, z} /\ S \subseteq Int /\ S # {}
  OBVIOUS
<1>6. Max(S) \in Int
  BY <1>4, <1>5, MaxIs
<1> QED BY <1>3, <1>5, <1>6 DEF TrueRange

LEMMA AtrIs ==
  ASSUME NEW b \in Seq(BarType), NEW i \in 1 .. Len(b)
  PROVE  Atr(b, i) \in Int
<1>1. PICK m \in Int : m = Max({1, i - 13}) /\ m >= 1
  <2>1. PICK x \in Int, y \in Int : x = 1 /\ y = i - 13
    OBVIOUS
  <2>2. Max({x, y}) \in Int /\ Max({x, y}) >= x
    BY GreaterIs
  <2> QED BY <2>1, <2>2
<1> DEFINE span == m + 1 .. i
           f    == [k \in span |-> TrueRange(b, k)]
<1>2. i \in Int /\ span \subseteq 2 .. Len(b)
  BY <1>1, BarsAre
<1>3. IsFiniteSet(span)
  BY <1>1, <1>2, FS_Interval
<1>4. DOMAIN f = span /\ \A k \in DOMAIN f : f[k] \in Int
  <2> HIDE DEF span
  <2> QED BY <1>2, TrueRangeIs
<1>5. SumFunction(f) \in Int
  <2>1. IsFiniteSet(DOMAIN f)
    BY <1>3, <1>4
  <2> HIDE DEF f
  <2> QED BY <1>4, <2>1, SumIsInt
<1>6. span # {} => Cardinality(span) \in Nat \ {0}
  <2> HIDE DEF span
  <2> QED BY <1>3, FS_CardinalityType, FS_EmptySet
<1>7. Atr(b, i) = IF span = {} THEN 0 ELSE SumFunction(f) \div Cardinality(span)
  BY <1>1 DEF Atr
<1>8. span # {} => SumFunction(f) \div Cardinality(span) \in Int
  <2> HIDE DEF f, span
  <2> QED BY <1>5, <1>6
<1> HIDE DEF f, span
<1> QED BY <1>7, <1>8

LEMMA WaterIs ==
  ASSUME NEW b \in Seq(BarType), NEW e, EventOf(e, b), NEW k
  PROVE  /\ Water(e, b, k) \in Int
         /\ \A y \in {e.entry} \cup {b[j].h : j \in Seen(e, k)} : Water(e, b, k) >= y
         /\ Water(e, b, k) \in {e.entry} \cup {b[j].h : j \in Seen(e, k)}
<1>1. PICK N \in Nat : N = Len(b)
  BY BarsAre
<1>2. Seen(e, k) \in SUBSET (1 .. N)
  <2>1. e.at \in 1 .. N /\ e.fwd \subseteq e.at + 1 .. N
    BY <1>1 DEF EventOf
  <2> QED BY <2>1 DEF Seen
<1> DEFINE H == {b[j].h : j \in Seen(e, k)}
<1>3. IsFiniteSet(H)
  <2>1. IsFiniteSet(Seen(e, k))
    BY <1>2, Positions
  <2> DEFINE h == [j \in Seen(e, k) |-> b[j].h]
  <2>2. h \in Surjection(Seen(e, k), H)
    BY DEF Surjection
  <2> HIDE DEF h, H
  <2> QED BY <2>1, <2>2, FS_Surjection
<1>4. H \subseteq Int /\ e.entry \in Int
  BY <1>1, <1>2, BarsAre DEF EventOf
<1>5. PICK S : S = {e.entry} \cup H /\ S \subseteq Int /\ S # {} /\ IsFiniteSet(S)
  <2>1. IsFiniteSet(H \cup {e.entry})
    BY <1>3, FS_AddElement
  <2>2. {e.entry} \cup H = H \cup {e.entry}
    OBVIOUS
  <2> HIDE DEF H
  <2> QED BY <1>4, <2>1, <2>2
<1>6. Max(S) \in S /\ \A y \in S : Max(S) >= y
  BY <1>5, MaxIs
<1>7. Water(e, b, k) = Max(S)
  BY <1>5 DEF Water
<1> QED BY <1>5, <1>6, <1>7

Policy == [target : Nat, trail : {"none", "pct", "atr", "structure"},
           param : Nat, vwap : BOOLEAN]
AnyPolicy == {p \in Policy : p.trail = "pct" => p.param <= 100}

LEMMA PolicyIs == Policies \subseteq AnyPolicy
BY EngineAssumption DEF AnyPolicy, Policy

LEMMA TrailIs ==
  ASSUME NEW b \in Seq(BarType), NEW e, EventOf(e, b), NEW p \in AnyPolicy, NEW k
  PROVE  TrailAt(e, b, p, k) \in Int /\ p.param \in Nat /\ e.stop \in Int
<1>1. p.param \in Nat /\ e.stop \in Int
  <2>1. p \in [target : Nat, trail : {"none", "pct", "atr", "structure"},
               param : Nat, vwap : BOOLEAN]
    BY DEF AnyPolicy, Policy
  <2> QED BY <2>1 DEF EventOf
<1>2. Water(e, b, k) \in Int /\ Atr(b, e.at) \in Int
  BY WaterIs, AtrIs DEF EventOf
<1>3. Below(Water(e, b, k), 10 * p.param) \in Int
  <2>1. PICK q \in Int, w \in Int : q = 10 * p.param /\ w = Water(e, b, k)
    BY <1>1, <1>2
  <2> QED BY <2>1, BelowIs
<1>4. Water(e, b, k) - p.param * Atr(b, e.at) \in Int
  BY <1>1, <1>2
<1>5. ASSUME Window(e, p, k) # {} PROVE Low(b, Window(e, p, k)) \in Int
  <2>1. Window(e, p, k) \subseteq 1 .. Len(b)
    <3>1. PICK N \in Nat : N = Len(b)
      BY BarsAre
    <3>2. e.at \in 1 .. N /\ e.fwd \subseteq e.at + 1 .. N
      BY <3>1 DEF EventOf
    <3>3. e.fwd \subseteq 1 .. N
      BY <3>2
    <3> QED BY <3>1, <3>3 DEF Window, Seen
  <2> QED BY <1>5, <2>1, HighIs
<1> QED BY <1>1, <1>3, <1>4, <1>5 DEF TrailAt

LEMMA StopUp ==
  ASSUME NEW b \in Seq(BarType), NEW e, EventOf(e, b), NEW p \in AnyPolicy, NEW j, NEW k,
         TrailAt(e, b, p, j) <= TrailAt(e, b, p, k)
  PROVE  StopAt(e, b, p, j) <= StopAt(e, b, p, k)
<1>1. PICK x \in Int, y \in Int, z \in Int :
        x = e.stop /\ y = TrailAt(e, b, p, j) /\ z = TrailAt(e, b, p, k) /\ y <= z
  BY TrailIs
<1>2. /\ Max({x, y}) \in {x, y} /\ Max({x, z}) \in Int
      /\ Max({x, z}) >= x /\ Max({x, z}) >= z
  BY GreaterIs
<1> QED BY <1>1, <1>2, StopIs

(* Prices less a share of at most one are ordered like the prices.         *)
LEMMA BelowUp ==
  ASSUME NEW x \in Int, NEW y \in Int, x <= y,
         NEW permille \in Nat, permille <= 1000
  PROVE  Below(x, permille) <= Below(y, permille)
<1>1. PICK u \in Int, v \in Int : u = x \div 1000 /\ v = y \div 1000 /\ u <= v
  <2>1. x \div 1000 \in Int /\ y \div 1000 \in Int /\ x \div 1000 <= y \div 1000
    OBVIOUS
  <2> QED BY <2>1
<1>2. PICK w \in Nat : w = 1000 - permille
  OBVIOUS
<1>3. u * w <= v * w
  <2>1. (v - u) * w >= 0
    BY <1>1, <1>2
  <2>2. (v - u) * w = v * w - u * w
    BY <1>1, <1>2
  <2> QED BY <1>1, <1>2, <2>1, <2>2
<1> QED BY <1>1, <1>2, <1>3 DEF Below

LEMMA PercentUp ==
  ASSUME NEW x \in Int, NEW y \in Int, x <= y, NEW n \in Nat, n <= 100
  PROVE  Below(x, 10 * n) <= Below(y, 10 * n)
<1>1. PICK q \in Nat : q = 10 * n /\ q <= 1000
  OBVIOUS
<1> QED BY <1>1, BelowUp

LEMMA WaterUp ==
  ASSUME NEW b \in Seq(BarType), NEW e, EventOf(e, b), NEW j \in e.fwd, NEW k \in e.fwd, j < k
  PROVE  Water(e, b, j) <= Water(e, b, k)
<1>1. PICK N \in Nat : N = Len(b)
  BY BarsAre
<1>2. e.at \in 1 .. N /\ e.fwd \subseteq e.at + 1 .. N
  BY <1>1 DEF EventOf
<1>3. \A i \in e.fwd : i < j => i < k
  BY <1>2
<1>4. Seen(e, j) \subseteq Seen(e, k)
  BY <1>3 DEF Seen
<1>5. {b[i].h : i \in Seen(e, j)} \subseteq {b[i].h : i \in Seen(e, k)}
  BY <1>4
<1>6. Water(e, b, j) \in {e.entry} \cup {b[i].h : i \in Seen(e, k)}
  <2>1. Water(e, b, j) \in {e.entry} \cup {b[i].h : i \in Seen(e, j)}
    BY WaterIs
  <2> QED BY <1>5, <2>1
<1>7. \A y \in {e.entry} \cup {b[i].h : i \in Seen(e, k)} : Water(e, b, k) >= y
  BY WaterIs
<1> QED BY <1>6, <1>7, WaterIs

Quiet(e, b, p, k) == \A i \in e.fwd : i < k => ReasonAt(e, b, p, i) = "none"

(* The low of the window of a structure trail is above a stop that no bar  *)
(* has touched: a stop in force for each bar of the window, or one of an   *)
(* earlier window that had the same lowest bar.                            *)
LEMMA StructureRatchets ==
  ASSUME NEW b \in Seq(BarType), NEW e, EventOf(e, b), NEW p \in AnyPolicy,
         p.trail = "structure", NEW j \in e.fwd, NEW k \in e.fwd, j < k,
         Quiet(e, b, p, k),
         \A i \in e.fwd : j < i /\ i < k => StopAt(e, b, p, j) <= StopAt(e, b, p, i)
  PROVE  StopAt(e, b, p, j) <= StopAt(e, b, p, k)
<1>1. PICK N \in Nat : N = Len(b) /\ e.fwd \subseteq 1 .. N /\ e.at + 1 .. N \subseteq 1 .. N
                       /\ e.fwd \subseteq e.at + 1 .. N /\ e.at \in 1 .. N
  <2>1. PICK N \in Nat : N = Len(b)
    BY BarsAre
  <2>2. e.at \in 1 .. N /\ e.fwd \subseteq e.at + 1 .. N
    BY <2>1 DEF EventOf
  <2> QED BY <2>1, <2>2
<1>2. PICK n \in Nat, stp \in Int : n = p.param /\ stp = e.stop
  BY TrailIs
<1>3. ASSUME NEW i \in e.fwd
      PROVE  TrailAt(e, b, p, i) = IF Window(e, p, i) # {} THEN Low(b, Window(e, p, i))
                                   ELSE stp
  BY <1>2 DEF TrailAt
<1>4. ASSUME NEW i \in e.fwd
      PROVE  /\ StopAt(e, b, p, i) = Max({stp, TrailAt(e, b, p, i)})
             /\ StopAt(e, b, p, i) \in Int /\ TrailAt(e, b, p, i) \in Int
             /\ StopAt(e, b, p, i) >= stp /\ StopAt(e, b, p, i) >= TrailAt(e, b, p, i)
             /\ StopAt(e, b, p, i) = stp \/ StopAt(e, b, p, i) = TrailAt(e, b, p, i)
  <2>1. PICK x \in Int : x = TrailAt(e, b, p, i)
    BY TrailIs
  <2>2. /\ Max({stp, x}) \in {stp, x} /\ Max({stp, x}) \in Int
        /\ Max({stp, x}) >= stp /\ Max({stp, x}) >= x
    BY GreaterIs
  <2> QED BY <1>2, <2>1, <2>2, StopIs
<1>5. \A i \in e.fwd : Window(e, p, i) \subseteq 1 .. N
  BY <1>1 DEF Window, Seen
<1>6. CASE Window(e, p, j) = {}
  BY <1>3, <1>4, <1>6
<1>7. CASE Window(e, p, j) # {}
  <2>1. n > 0
    <3>1. PICK i \in e.fwd : i < j /\ i >= j - n
      BY <1>2, <1>7 DEF Window, Seen
    <3> QED BY <1>1, <3>1
  <2>2. k - 1 \in Window(e, p, k)
    <3>1. k - 1 \in e.at + 1 .. N /\ k - 1 < k
      BY <1>1
    <3>2. k - 1 \in e.fwd
      BY <1>1, <3>1 DEF EventOf
    <3> QED BY <1>1, <1>2, <2>1, <3>1, <3>2 DEF Window, Seen
  <2>3. PICK i \in Window(e, p, k) : TrailAt(e, b, p, k) = b[i].l
    <3>1. \E i \in Window(e, p, k) : Low(b, Window(e, p, k)) = b[i].l
      BY <1>1, <1>5, <2>2, HighIs
    <3> QED BY <1>3, <2>2, <3>1
  <2>4. i \in e.fwd /\ i \in 1 .. N /\ i < k /\ i >= k - n
    BY <1>1, <1>2 DEF Window, Seen
  <2>5. b[i].l \in Int
    BY <1>1, <2>4, BarsAre
  <2>6. CASE i < j
    <3>1. i \in Window(e, p, j)
      BY <1>1, <1>2, <2>4, <2>6 DEF Window, Seen
    <3>2. Low(b, Window(e, p, j)) <= b[i].l
      BY <1>1, <1>5, <3>1, HighIs
    <3>3. TrailAt(e, b, p, j) <= TrailAt(e, b, p, k)
      BY <1>3, <1>7, <2>3, <3>2
    <3> QED BY <3>3, StopUp
  <2>7. CASE ~(i < j)
    <3>1. StopAt(e, b, p, j) <= StopAt(e, b, p, i)
      <4>1. i = j \/ j < i
        BY <1>1, <2>4, <2>7
      <4> QED BY <1>4, <2>4, <4>1
    <3>2. ~(b[i].l <= StopAt(e, b, p, i))
      <4>1. ReasonAt(e, b, p, i) = "none"
        BY <2>4 DEF Quiet
      <4> QED BY <4>1 DEF ReasonAt
    <3>3. b[i].l <= StopAt(e, b, p, k)
      BY <1>4, <2>3
    <3>4. StopAt(e, b, p, j) \in Int /\ StopAt(e, b, p, i) \in Int /\ StopAt(e, b, p, k) \in Int
      BY <1>4, <2>4
    <3> QED BY <2>5, <3>1, <3>2, <3>3, <3>4
  <2> QED BY <2>6, <2>7
<1> QED BY <1>6, <1>7

LEMMA StopRatchets ==
  ASSUME NEW b \in Seq(BarType), NEW e, EventOf(e, b), NEW p \in AnyPolicy,
         NEW j \in e.fwd, NEW k \in e.fwd, j < k, Quiet(e, b, p, k)
  PROVE  StopAt(e, b, p, j) <= StopAt(e, b, p, k)
<1>1. p \in [target : Nat, trail : {"none", "pct", "atr", "structure"},
             param : Nat, vwap : BOOLEAN]
      /\ (p.trail = "pct" => p.param <= 100)
  BY DEF AnyPolicy, Policy
<1>2. e.stop \in Int
  BY TrailIs
<1>3. PICK x \in Int, y \in Int : x = Water(e, b, j) /\ y = Water(e, b, k) /\ x <= y
  BY WaterIs, WaterUp
<1>4. CASE p.trail = "none"
  <2>1. TrailAt(e, b, p, j) = e.stop /\ TrailAt(e, b, p, k) = e.stop
    BY <1>4 DEF TrailAt
  <2> QED BY <1>2, <2>1, StopUp
<1>5. CASE p.trail = "pct"
  <2>1. PICK n \in Nat : n = p.param /\ n <= 100
    BY <1>1, <1>5
  <2>2. Below(x, 10 * n) <= Below(y, 10 * n)
    BY <1>3, <2>1, PercentUp
  <2>3. TrailAt(e, b, p, j) = Below(x, 10 * n) /\ TrailAt(e, b, p, k) = Below(y, 10 * n)
    BY <1>3, <1>5, <2>1 DEF TrailAt
  <2> QED BY <2>2, <2>3, StopUp
<1>6. CASE p.trail = "atr"
  <2>1. PICK a \in Int : a = Atr(b, e.at)
    BY AtrIs DEF EventOf
  <2>2. PICK d \in Int : d = p.param * Atr(b, e.at)
    BY <1>1, <2>1
  <2>3. CASE a > 0
    <3>1. TrailAt(e, b, p, j) = x - d /\ TrailAt(e, b, p, k) = y - d
      BY <1>3, <1>6, <2>1, <2>2, <2>3 DEF TrailAt
    <3>2. x - d <= y - d
      BY <1>3
    <3> QED BY <3>1, <3>2, StopUp
  <2>4. CASE ~(a > 0)
    <3>1. TrailAt(e, b, p, j) = e.stop /\ TrailAt(e, b, p, k) = e.stop
      BY <1>6, <2>1, <2>4 DEF TrailAt
    <3> QED BY <1>2, <3>1, StopUp
  <2> QED BY <2>3, <2>4
<1>7. CASE p.trail = "structure"
  <2> DEFINE T == {i \in e.fwd : j < i /\ i <= k /\ ~(StopAt(e, b, p, j) <= StopAt(e, b, p, i))}
  <2>1. PICK N \in Nat : N = Len(b) /\ e.fwd \subseteq 1 .. N
    <3>1. PICK N \in Nat : N = Len(b)
      BY BarsAre
    <3>2. e.at \in 1 .. N /\ e.fwd \subseteq e.at + 1 .. N
      BY <3>1 DEF EventOf
    <3> QED BY <3>1, <3>2
  <2>2. SUFFICES ASSUME T # {} PROVE FALSE
    <3>1. k <= k
      BY <2>1
    <3> QED BY <2>2, <3>1
  <2>3. PICK i \in T : \A y1 \in T : i <= y1
    <3>1. T \subseteq Nat
      BY <2>1
    <3> HIDE DEF T
    <3> QED BY <2>2, <3>1, LeastNatural
  <2>4. ASSUME NEW m \in e.fwd, j < m, m < i
        PROVE  StopAt(e, b, p, j) <= StopAt(e, b, p, m)
    <3>1. m \in 1 .. N /\ i \in 1 .. N /\ k \in 1 .. N /\ i <= k
      BY <2>1
    <3>2. m <= k /\ ~(i <= m)
      BY <2>4, <3>1
    <3>3. m \notin T
      BY <2>3, <3>2
    <3> QED BY <2>4, <3>2, <3>3
  <2>5. Quiet(e, b, p, i)
    <3>1. \A m \in e.fwd : m < i => m < k
      BY <2>1
    <3> QED BY <3>1 DEF Quiet
  <2>6. StopAt(e, b, p, j) <= StopAt(e, b, p, i)
    BY <1>7, <2>4, <2>5, StructureRatchets
  <2> QED BY <2>6
<1> QED BY <1>1, <1>4, <1>5, <1>6, <1>7

(* exits.py: the stop in force never moves down while a trade is open,     *)
(* whatever the kind of trail.                                             *)
THEOREM StopCorrect == Spec => []StopNeverLoosens
<1>1. ASSUME EngineInv PROVE StopNeverLoosens
  <2>1. /\ bars \in Seq(BarType) /\ Ordered(bars) /\ session \in Sessions
        /\ policy \in Policies
    BY <1>1 DEF EngineInv, TypesInv, BarsInv
  <2>2. state = "holding" => EventOf(FindEvent(session, bars), bars)
    BY <1>1, <2>1, EventTyped DEF EngineInv, HoldingInv, Held
  <2>3. policy \in AnyPolicy
    BY <2>1, PolicyIs
  <2> QED BY <2>1, <2>2, <2>3, StopRatchets DEF StopNeverLoosens, Quiet
<1> QED BY <1>1, EngineInvHolds, PTL

-----------------------------------------------------------------------------
(* The short side: bars of a day with their open and their VWAP.           *)

FadeBar == [o : Int, h : Int, l : Int, c : Int, vwap : Int, weak : BOOLEAN,
            tod : Minutes]

LEMMA FadeBarsAre ==
  ASSUME NEW b \in Seq(FadeBar)
  PROVE  /\ Len(b) \in Nat /\ DOMAIN b = 1 .. Len(b)
         /\ \A k \in 1 .. Len(b) :
              /\ b[k].o \in Int /\ b[k].h \in Int /\ b[k].l \in Int
              /\ b[k].c \in Int /\ b[k].vwap \in Int /\ b[k].tod \in Minutes
<1>1. Len(b) \in Nat /\ DOMAIN b = 1 .. Len(b)
  OBVIOUS
<1>2. ASSUME NEW k \in 1 .. Len(b) PROVE b[k] \in FadeBar
  OBVIOUS
<1> QED BY <1>1, <1>2 DEF FadeBar

(* What of a day is known after n bars: those positions of a set that come *)
(* first, and their least one.                                             *)
Known(S, T, n) == T = S \cap (1 .. n)

LEMMA KnownFirst ==
  ASSUME NEW N \in Nat, NEW n \in 1 .. N, NEW S \in SUBSET (1 .. N), NEW T,
         Known(S, T, n), NEW k \in 1 .. n
  PROVE  \A m \in Nat : k \in FirstOf(T, m) <=> k \in FirstOf(S, m)
<1>0. T = S \cap (1 .. n)
  BY DEF Known
<1>1. {j \in T : j < k} = {j \in S : j < k}
  <2>1. \A j \in S : j < k => j \in 1 .. n
    OBVIOUS
  <2> QED BY <1>0, <2>1
<1> QED BY <1>0, <1>1 DEF FirstOf

LEMMA KnownLeast ==
  ASSUME NEW N \in Nat, NEW n \in 1 .. N, NEW S \in SUBSET (1 .. N), NEW T,
         Known(S, T, n), T # {}
  PROVE  Min(T) = Min(S) /\ Min(T) \in 1 .. n
<1>0. T = S \cap (1 .. n)
  BY DEF Known
<1>1. n \in Nat /\ T \in SUBSET (1 .. n) /\ S # {}
  BY <1>0
<1>2. Min(T) \in T /\ \A y \in T : Min(T) <= y
  BY <1>1, Positions
<1>3. Min(S) \in S /\ \A y \in S : Min(S) <= y
  BY <1>1, Positions
<1>4. Min(T) \in S /\ Min(T) \in 1 .. n /\ Min(S) \in 1 .. N
  BY <1>0, <1>2, <1>3
<1>5. Min(S) <= Min(T)
  BY <1>3, <1>4
<1>6. Min(S) \in T
  BY <1>0, <1>3, <1>4, <1>5
<1>7. Min(T) <= Min(S)
  BY <1>2, <1>6
<1> QED BY <1>4, <1>5, <1>7

(* The parts of the fade trigger.                                          *)
UpTo(b, k)      == {j \in RegBars(b) : j <= k}
FadeTurns(b, cutoff) ==
  {k \in RegBars(b) \ FirstOf(RegBars(b), FadeBase) :
     /\ b[k].tod < cutoff
     /\ 100 * (High(b, UpTo(b, k)) - b[Min(RegBars(b))].o)
          >= FadeMove * b[Min(RegBars(b))].o
     /\ 100 * (b[k].c - b[k].vwap) >= FadeExt * b[k].vwap
     /\ b[k].c < b[k].o}
FadeStop(b, i)  == Above(High(b, UpTo(b, i)), 5)
FadeFound(b, cutoff) ==
  /\ ~(Cardinality(RegBars(b)) <= FadeBase + 2)
  /\ FadeTurns(b, cutoff) # {}
  /\ ~(FadeStop(b, Min(FadeTurns(b, cutoff))) <= b[Min(FadeTurns(b, cutoff))].c)
FadeEvent(b, i, cutoff) ==
  [at |-> i, entry |-> b[i].c, stop |-> FadeStop(b, i),
   fwd |-> {k \in RegBars(b) : k > i /\ b[k].tod <= cutoff + MaxHold}]

LEMMA FadeEventIs ==
  ASSUME NEW b, NEW cutoff
  PROVE  FindFadeEvent(b, cutoff) =
           IF FadeFound(b, cutoff)
           THEN FadeEvent(b, Min(FadeTurns(b, cutoff)), cutoff) ELSE NoEvent
BY DEF FindFadeEvent, FadeFound, FadeEvent, FadeStop, FadeTurns, UpTo, RegBars

LEMMA FadeIsKnown ==
  ASSUME FadeAssumption, NEW b \in Seq(FadeBar), NEW N \in Nat, N = Len(b),
         NEW n \in 1 .. N, NEW cutoff \in Nat
  PROVE  FoundByThen(b, n, cutoff)
<1> DEFINE c == SubSeq(b, 1, n)
<1>1. DOMAIN b = 1 .. N
  BY FadeBarsAre
<1>2. DOMAIN c = 1 .. n /\ \A k \in 1 .. n : c[k] = b[k]
  BY <1>1
<1> HIDE DEF c
<1>3. RegBars(b) \in SUBSET (1 .. N) /\ RegBars(c) = RegBars(b) \cap (1 .. n)
  BY <1>1, <1>2 DEF RegBars
<1>3a. RegBars(b) \in SUBSET (1 .. N) /\ Known(RegBars(b), RegBars(c), n)
  BY <1>3 DEF Known
<1>4. RegBars(c) = {k \in 1 .. n : b[k].tod >= MarketOpen}
  BY <1>2 DEF RegBars
<1> SUFFICES ASSUME Cardinality(RegBars(c)) > FadeBase + 2
             PROVE  LET all  == FindFadeEvent(b, cutoff)
                        then == FindFadeEvent(c, cutoff)
                    IN IF all.at \in 1 .. n
                       THEN /\ then.at = all.at /\ then.entry = all.entry
                            /\ then.stop = all.stop
                       ELSE then.at = 0
  BY <1>4 DEF FoundByThen, c
<1>5. /\ ~(Cardinality(RegBars(c)) <= FadeBase + 2)
      /\ ~(Cardinality(RegBars(b)) <= FadeBase + 2)
      /\ RegBars(c) # {}
  <2>1. FadeBase \in Nat
    BY DEF FadeAssumption
  <2>2. IsFiniteSet(RegBars(b)) /\ Cardinality(RegBars(b)) \in Nat
    BY <1>1, <1>3, Positions
  <2>3. Cardinality(RegBars(c)) \in Nat /\ Cardinality(RegBars(c)) <= Cardinality(RegBars(b))
    BY <1>3, <2>2, FS_Subset, FS_CardinalityType
  <2>4. Cardinality({}) = 0
    BY FS_EmptySet
  <2>5. PICK x \in Nat, y \in Nat, m \in Nat :
          /\ x = Cardinality(RegBars(c)) /\ y = Cardinality(RegBars(b))
          /\ m = FadeBase /\ x <= y /\ x > m + 2
    BY <2>1, <2>2, <2>3
  <2>6. ~(x <= m + 2) /\ ~(y <= m + 2) /\ x # 0
    BY <2>5
  <2> QED BY <2>4, <2>5, <2>6
<1>6. ASSUME NEW k \in 1 .. n
      PROVE  /\ k \in FirstOf(RegBars(c), FadeBase) <=> k \in FirstOf(RegBars(b), FadeBase)
             /\ UpTo(c, k) = UpTo(b, k) /\ UpTo(c, k) \subseteq 1 .. n
  <2>1. k \in FirstOf(RegBars(c), FadeBase) <=> k \in FirstOf(RegBars(b), FadeBase)
    BY <1>3a, KnownFirst DEF FadeAssumption
  <2>2. \A j \in RegBars(b) : j <= k => j \in 1 .. n
    BY <1>3
  <2> QED BY <1>3, <2>1, <2>2 DEF UpTo
<1>7. Min(RegBars(c)) = Min(RegBars(b)) /\ Min(RegBars(b)) \in 1 .. n
  BY <1>3a, <1>5, KnownLeast
<1>8. ASSUME NEW k \in 1 .. n
      PROVE  High(c, UpTo(c, k)) = High(b, UpTo(b, k))
  <2>1. UpTo(c, k) = UpTo(b, k) /\ UpTo(c, k) \subseteq 1 .. n
    BY <1>6
  <2>2. {c[j].h : j \in UpTo(c, k)} = {b[j].h : j \in UpTo(b, k)}
    BY <1>2, <2>1
  <2> QED BY <2>2 DEF High
<1>9. FadeTurns(c, cutoff) = FadeTurns(b, cutoff) \cap (1 .. n)
  <2>1. ASSUME NEW k \in 1 .. n
        PROVE  k \in FadeTurns(c, cutoff) <=> k \in FadeTurns(b, cutoff)
    <3>1. /\ k \in RegBars(c) <=> k \in RegBars(b)
          /\ k \in FirstOf(RegBars(c), FadeBase) <=> k \in FirstOf(RegBars(b), FadeBase)
      BY <1>3, <1>6
    <3>2. c[k] = b[k] /\ c[Min(RegBars(c))] = b[Min(RegBars(b))]
      BY <1>2, <1>6, <1>7
    <3> QED BY <1>8, <3>1, <3>2 DEF FadeTurns
  <2>2. FadeTurns(c, cutoff) \subseteq 1 .. n
    BY <1>3 DEF FadeTurns
  <2> QED BY <2>1, <2>2
<1>9a. Known(FadeTurns(b, cutoff), FadeTurns(c, cutoff), n)
  BY <1>9 DEF Known
<1>10. FadeTurns(b, cutoff) \in SUBSET (1 .. N)
  BY <1>3 DEF FadeTurns
<1>11. NoEvent.at = 0
  BY DEF NoEvent
<1>12. CASE FadeTurns(c, cutoff) = {}
  <2>1. FindFadeEvent(c, cutoff) = NoEvent
    BY <1>12, FadeEventIs DEF FadeFound
  <2>2. FindFadeEvent(b, cutoff).at \notin 1 .. n
    <3>1. CASE ~FadeFound(b, cutoff)
      BY <1>11, <3>1, FadeEventIs
    <3>2. CASE FadeFound(b, cutoff)
      <4>1. Min(FadeTurns(b, cutoff)) \in FadeTurns(b, cutoff)
        BY <1>1, <1>10, <3>2, Positions DEF FadeFound
      <4>2. Min(FadeTurns(b, cutoff)) \notin 1 .. n
        BY <1>9, <1>12, <4>1
      <4>3. FindFadeEvent(b, cutoff).at = Min(FadeTurns(b, cutoff))
        BY <3>2, FadeEventIs DEF FadeEvent
      <4> QED BY <4>2, <4>3
    <3> QED BY <3>1, <3>2
  <2> QED BY <1>11, <2>1, <2>2
<1>13. CASE FadeTurns(c, cutoff) # {}
  <2>1. PICK i \in 1 .. n : i = Min(FadeTurns(c, cutoff)) /\ i = Min(FadeTurns(b, cutoff))
    BY <1>9a, <1>10, <1>13, KnownLeast
  <2>2. FadeStop(c, i) = FadeStop(b, i) /\ c[i] = b[i]
    BY <1>2, <1>8 DEF FadeStop
  <2>3. FadeTurns(b, cutoff) # {}
    BY <1>9, <1>13
  <2>4. FadeFound(c, cutoff) <=> FadeFound(b, cutoff)
    BY <1>5, <1>13, <2>1, <2>2, <2>3 DEF FadeFound
  <2>5. CASE FadeFound(b, cutoff)
    <3>1. /\ FindFadeEvent(c, cutoff) = FadeEvent(c, i, cutoff)
          /\ FindFadeEvent(b, cutoff) = FadeEvent(b, i, cutoff)
      BY <2>1, <2>4, <2>5, FadeEventIs
    <3> QED BY <2>2, <3>1 DEF FadeEvent
  <2>6. CASE ~FadeFound(b, cutoff)
    BY <1>11, <2>4, <2>6, FadeEventIs
  <2> QED BY <2>5, <2>6
<1> QED BY <1>12, <1>13

(* combo.py: a fade's entry is decided by the bars up to it, for every day *)
(* of bars, every base, move, extension and cutoff, and however few or     *)
(* many more bars have come.                                               *)
THEOREM FadeIsCausal ==
  ASSUME FadeAssumption, NEW b \in Seq(FadeBar), NEW n \in DOMAIN b,
         NEW cutoff \in Nat
  PROVE  FoundByThen(b, n, cutoff)
<1>1. PICK N \in Nat : N = Len(b) /\ DOMAIN b = 1 .. N
  BY FadeBarsAre
<1> QED BY <1>1, FadeIsKnown

-----------------------------------------------------------------------------
(* The short exit against the mirror of the long one.                      *)

LEMMA TurnedIs ==
  ASSUME NEW S, S \subseteq Int, IsFiniteSet(S), S # {}, NEW a \in Int
  PROVE  /\ Max({a - x : x \in S}) = a - Min(S) /\ Min(S) \in Int
         /\ Min({a - x : x \in S}) = a - Max(S) /\ Max(S) \in Int
<1> DEFINE T == {a - x : x \in S}
<1>1. PICK m \in S, n \in S : /\ m = Min(S) /\ n = Max(S)
                              /\ \A y \in S : m <= y /\ n >= y
  BY MinIs, MaxIs
<1>2. /\ a - m \in T /\ \A t \in T : a - m >= t
      /\ a - n \in T /\ \A t \in T : a - n <= t
  BY <1>1
<1>3. \A t \in T : t \in Int
  OBVIOUS
<1> HIDE DEF T
<1>4. Max(T) \in T /\ \A t \in T : Max(T) >= t
  BY <1>2 DEF Max
<1>5. Min(T) \in T /\ \A t \in T : Min(T) <= t
  BY <1>2 DEF Min
<1>6. Max(T) = a - m /\ Min(T) = a - n
  BY <1>2, <1>3, <1>4, <1>5
<1> QED BY <1>1, <1>6 DEF T

LEMMA MirroredIs ==
  ASSUME NEW b \in Seq(FadeBar), NEW a \in Int
  PROVE  /\ Mirrored(b, a) \in Seq(BarType)
         /\ Len(Mirrored(b, a)) = Len(b) /\ DOMAIN Mirrored(b, a) = DOMAIN b
         /\ \A k \in 1 .. Len(b) :
              /\ Mirrored(b, a)[k].h = 2 * a - b[k].l
              /\ Mirrored(b, a)[k].l = 2 * a - b[k].h
              /\ Mirrored(b, a)[k].c = 2 * a - b[k].c
              /\ Mirrored(b, a)[k].weak = (b[k].vwap > 0 /\ b[k].c > b[k].vwap)
<1>1. PICK N \in Nat : N = Len(b) /\ DOMAIN b = 1 .. N
  BY FadeBarsAre
<1> DEFINE F(k) == [h |-> 2 * a - b[k].l, l |-> 2 * a - b[k].h, c |-> 2 * a - b[k].c,
                    tod |-> b[k].tod, weak |-> b[k].vwap > 0 /\ b[k].c > b[k].vwap]
<1>2. ASSUME NEW k \in 1 .. N PROVE F(k) \in BarType
  <2>1. PICK h \in Int, l \in Int, c \in Int, t \in Minutes :
          h = b[k].h /\ l = b[k].l /\ c = b[k].c /\ t = b[k].tod
    BY <1>1, FadeBarsAre
  <2>2. 2 * a - l \in Int /\ 2 * a - h \in Int /\ 2 * a - c \in Int
    OBVIOUS
  <2> QED BY <2>1, <2>2 DEF BarType
<1>3. Mirrored(b, a) = [k \in 1 .. N |-> F(k)]
  BY <1>1 DEF Mirrored
<1>4. \A k \in 1 .. N :
        /\ F(k).h = 2 * a - b[k].l /\ F(k).l = 2 * a - b[k].h
        /\ F(k).c = 2 * a - b[k].c
        /\ F(k).weak = (b[k].vwap > 0 /\ b[k].c > b[k].vwap)
  OBVIOUS
<1> HIDE DEF F
<1>5. [k \in 1 .. N |-> F(k)] \in Seq(BarType) /\ Len([k \in 1 .. N |-> F(k)]) = N
  BY <1>2
<1> QED BY <1>1, <1>3, <1>4, <1>5

(* The prices of some bars are finitely many.                              *)
LEMMA SomePrices ==
  ASSUME NEW b \in Seq(FadeBar), NEW S, S \subseteq DOMAIN b
  PROVE  /\ IsFiniteSet({b[k].h : k \in S}) /\ {b[k].h : k \in S} \subseteq Int
         /\ IsFiniteSet({b[k].l : k \in S}) /\ {b[k].l : k \in S} \subseteq Int
<1>1. PICK N \in Nat : N = Len(b) /\ DOMAIN b = 1 .. N
  BY FadeBarsAre
<1>2. IsFiniteSet(S)
  <2>1. S \in SUBSET (1 .. N)
    BY <1>1
  <2> QED BY <2>1, Positions
<1> DEFINE H == {b[k].h : k \in S}
           L == {b[k].l : k \in S}
           h == [k \in S |-> b[k].h]
           l == [k \in S |-> b[k].l]
<1>3. h \in Surjection(S, H) /\ l \in Surjection(S, L)
  BY DEF Surjection
<1>4. H \subseteq Int /\ L \subseteq Int
  BY <1>1, FadeBarsAre
<1> HIDE DEF h, l, H, L
<1>5. IsFiniteSet(H) /\ IsFiniteSet(L)
  BY <1>2, <1>3, FS_Surjection
<1> QED BY <1>4, <1>5 DEF H, L

LEMMA MirrorLow ==
  ASSUME NEW b \in Seq(FadeBar), NEW a \in Int, NEW S, S \subseteq DOMAIN b, S # {}
  PROVE  /\ Low(Mirrored(b, a), S) = 2 * a - High(b, S)
         /\ High(b, S) \in Int
<1> DEFINE H == {b[k].h : k \in S}
           M == {Mirrored(b, a)[k].l : k \in S}
<1>1. \A k \in S : Mirrored(b, a)[k].l = 2 * a - b[k].h
  BY MirroredIs, FadeBarsAre
<1>2. M = {2 * a - x : x \in H}
  BY <1>1
<1>3. IsFiniteSet(H) /\ H \subseteq Int
  BY SomePrices
<1>3a. H # {} /\ 2 * a \in Int
  OBVIOUS
<1> HIDE DEF H, M
<1>4. Min(M) = 2 * a - Max(H) /\ Max(H) \in Int
  BY <1>2, <1>3, <1>3a, TurnedIs
<1> QED BY <1>4 DEF H, M, Low, High

LEMMA FadeHighIs ==
  ASSUME NEW b \in Seq(FadeBar), NEW S, S \subseteq DOMAIN b, S # {}
  PROVE  High(b, S) \in Int
<1>1. PICK a \in Int : a = 0
  OBVIOUS
<1>2. Low(Mirrored(b, a), S) = 2 * a - High(b, S) /\ High(b, S) \in Int
  BY MirrorLow
<1> QED BY <1>2

(* The true range of turned bars is the same.                              *)
LEMMA MirrorAtr ==
  ASSUME NEW b \in Seq(FadeBar), NEW a \in Int, NEW i \in DOMAIN b
  PROVE  Atr(Mirrored(b, a), i) = Atr(b, i)
<1>1. PICK N \in Nat : N = Len(b) /\ DOMAIN b = 1 .. N
  BY FadeBarsAre
<1>2. i \in 1 .. N /\ i \in Int /\ i - 13 \in Int /\ 1 \in Int
  BY <1>1
<1>3. PICK m \in Int : m = Max({1, i - 13}) /\ m >= 1
  <2>1. PICK x \in Int, y \in Int : x = 1 /\ y = i - 13
    BY <1>2
  <2>2. Max({x, y}) \in Int /\ Max({x, y}) >= x
    BY GreaterIs
  <2> QED BY <2>1, <2>2
<1>4. ASSUME NEW k \in m + 1 .. i
      PROVE  TrueRange(Mirrored(b, a), k) = TrueRange(b, k)
  <2>1. k \in 1 .. N /\ k - 1 \in 1 .. N
    BY <1>2, <1>3
  <2>2. PICK M : M = Mirrored(b, a)
    OBVIOUS
  <2>2a. /\ M[k].h = 2 * a - b[k].l /\ M[k].l = 2 * a - b[k].h
         /\ M[k - 1].c = 2 * a - b[k - 1].c
    BY <1>1, <2>1, <2>2, MirroredIs
  <2>2b. b[k].h \in Int /\ b[k].l \in Int /\ b[k - 1].c \in Int
    BY <1>1, <2>1, FadeBarsAre
  <2>3. PICK h \in Int, l \in Int, c \in Int :
          /\ h = b[k].h /\ l = b[k].l /\ c = b[k - 1].c
          /\ M[k].h = 2 * a - l /\ M[k].l = 2 * a - h /\ M[k - 1].c = 2 * a - c
    BY <2>2a, <2>2b
  <2>4. /\ (2 * a - l) - (2 * a - h) = h - l
        /\ Abs((2 * a - l) - (2 * a - c)) = Abs(l - c)
        /\ Abs((2 * a - h) - (2 * a - c)) = Abs(h - c)
    BY DEF Abs
  <2>5. /\ M[k].h - M[k].l = h - l
        /\ Abs(M[k].h - M[k - 1].c) = Abs(l - c)
        /\ Abs(M[k].l - M[k - 1].c) = Abs(h - c)
    BY <2>3, <2>4
  <2>6. TrueRange(M, k) = Max({h - l, Abs(l - c), Abs(h - c)})
    BY <2>5 DEF TrueRange
  <2>7. TrueRange(b, k) = Max({h - l, Abs(h - c), Abs(l - c)})
    BY <2>3 DEF TrueRange
  <2>8. {h - l, Abs(l - c), Abs(h - c)} = {h - l, Abs(h - c), Abs(l - c)}
    OBVIOUS
  <2> QED BY <2>2, <2>6, <2>7, <2>8
<1>5. [k \in m + 1 .. i |-> TrueRange(Mirrored(b, a), k)]
        = [k \in m + 1 .. i |-> TrueRange(b, k)]
  BY <1>4
<1> QED BY <1>3, <1>5 DEF Atr

EventsOn(b) == [at : DOMAIN b, entry : Int, stop : Int, fwd : SUBSET DOMAIN b]

(* The long event that a short one is the mirror of.                       *)
Turned(e) == [e EXCEPT !.stop = 2 * e.entry - e.stop]

LEMMA TurnedIsLong ==
  ASSUME NEW b, NEW e \in EventsOn(b)
  PROVE  /\ Turned(e).at = e.at /\ Turned(e).entry = e.entry
         /\ Turned(e).stop = 2 * e.entry - e.stop /\ Turned(e).fwd = e.fwd
         /\ e.at \in DOMAIN b /\ e.entry \in Int /\ e.stop \in Int
         /\ e.fwd \subseteq DOMAIN b
         /\ \A k : Seen(Turned(e), k) = Seen(e, k) /\ Seen(e, k) \subseteq DOMAIN b
BY DEF EventsOn, Turned, Seen

FadeWater(e, b, k) == Min({e.entry} \cup {b[j].l : j \in Seen(e, k)})

FadeTrailAt(e, b, p, k) ==
  CASE p.trail = "pct" -> Above(FadeWater(e, b, k), 10 * p.param)
    [] p.trail = "atr" /\ Atr(b, e.at) > 0 ->
         FadeWater(e, b, k) + p.param * Atr(b, e.at)
    [] p.trail = "structure" /\ Window(e, p, k) # {} -> High(b, Window(e, p, k))
    [] OTHER -> e.stop

LEMMA FadeStopIs ==
  ASSUME NEW e, NEW b, NEW p, NEW k
  PROVE  FadeStopAt(e, b, p, k) = Min({e.stop, FadeTrailAt(e, b, p, k)})
BY DEF FadeStopAt, FadeTrailAt, Window, FadeWater, Seen

LEMMA MirrorWater ==
  ASSUME NEW b \in Seq(FadeBar), NEW e \in EventsOn(b), NEW k
  PROVE  /\ Water(Turned(e), Mirrored(b, e.entry), k) = 2 * e.entry - FadeWater(e, b, k)
         /\ FadeWater(e, b, k) \in Int
<1> DEFINE L == {b[j].l : j \in Seen(e, k)}
           S == {e.entry} \cup L
           M == {e.entry} \cup {Mirrored(b, e.entry)[j].h : j \in Seen(e, k)}
<1>1. e.entry \in Int /\ 2 * e.entry \in Int /\ Seen(e, k) \subseteq DOMAIN b
  BY TurnedIsLong
<1>2. \A j \in Seen(e, k) : Mirrored(b, e.entry)[j].h = 2 * e.entry - b[j].l
  BY <1>1, MirroredIs, FadeBarsAre
<1>3. M = {2 * e.entry - x : x \in S}
  <2>1. 2 * e.entry - e.entry = e.entry
    BY <1>1
  <2> QED BY <1>2, <2>1
<1>4. IsFiniteSet(S) /\ S \subseteq Int /\ S # {}
  <2>1. IsFiniteSet(L) /\ L \subseteq Int
    BY <1>1, SomePrices
  <2>2. S = L \cup {e.entry}
    OBVIOUS
  <2> HIDE DEF L
  <2>3. IsFiniteSet(S)
    BY <2>1, <2>2, FS_AddElement
  <2> QED BY <1>1, <2>1, <2>3
<1> HIDE DEF L, S, M
<1>5. Max(M) = 2 * e.entry - Min(S) /\ Min(S) \in Int
  BY <1>1, <1>3, <1>4, TurnedIs
<1>6. /\ Water(Turned(e), Mirrored(b, e.entry), k) = Max(M)
      /\ FadeWater(e, b, k) = Min(S)
  BY TurnedIsLong DEF Water, FadeWater, M, S, L
<1> QED BY <1>5, <1>6

LEMMA FadeTrailIs ==
  ASSUME NEW b \in Seq(FadeBar), NEW e \in EventsOn(b), NEW p \in Policy, NEW k
  PROVE  FadeTrailAt(e, b, p, k) \in Int /\ Atr(b, e.at) \in Int
<1>1. e.at \in DOMAIN b /\ e.entry \in Int /\ e.stop \in Int
  BY TurnedIsLong
<1>2. PICK w \in Int : w = FadeWater(e, b, k)
  BY MirrorWater
<1>3. PICK a \in Int : a = Atr(b, e.at)
  <2>1. Atr(b, e.at) = Atr(Mirrored(b, e.entry), e.at)
    BY <1>1, MirrorAtr
  <2>2. Mirrored(b, e.entry) \in Seq(BarType) /\ e.at \in 1 .. Len(Mirrored(b, e.entry))
    BY <1>1, MirroredIs, FadeBarsAre
  <2> QED BY <2>1, <2>2, AtrIs
<1>4. PICK n \in Nat : n = p.param
  BY DEF Policy
<1>5. Above(w, 10 * n) \in Int /\ w + n * a \in Int
  BY DEF Above
<1>6. ASSUME Window(e, p, k) # {} PROVE High(b, Window(e, p, k)) \in Int
  <2>1. Window(e, p, k) \subseteq DOMAIN b
    BY TurnedIsLong DEF Window
  <2> QED BY <1>1, <1>6, <2>1, MirrorLow
<1>7. /\ Above(FadeWater(e, b, k), 10 * p.param) \in Int
      /\ FadeWater(e, b, k) + p.param * Atr(b, e.at) \in Int
  BY <1>2, <1>3, <1>4, <1>5
<1> QED BY <1>1, <1>3, <1>6, <1>7 DEF FadeTrailAt

LEMMA MirrorTrail ==
  ASSUME NEW b \in Seq(FadeBar), NEW e \in EventsOn(b), NEW p \in Policy,
         p.trail # "pct", NEW k
  PROVE  TrailAt(Turned(e), Mirrored(b, e.entry), p, k)
           = 2 * e.entry - FadeTrailAt(e, b, p, k)
<1> DEFINE t == Turned(e)
           M == Mirrored(b, e.entry)
<1>1. /\ t.at = e.at /\ t.stop = 2 * e.entry - e.stop /\ e.at \in DOMAIN b
      /\ e.entry \in Int /\ e.stop \in Int
      /\ Window(t, p, k) = Window(e, p, k) /\ Window(e, p, k) \subseteq DOMAIN b
  BY TurnedIsLong DEF Window
<1>2. PICK w \in Int : w = FadeWater(e, b, k) /\ Water(t, M, k) = 2 * e.entry - w
  BY MirrorWater
<1>3. PICK a \in Int : a = Atr(b, e.at) /\ a = Atr(M, t.at)
  <2>1. Atr(b, e.at) \in Int
    BY FadeTrailIs
  <2>2. Atr(M, t.at) = Atr(b, e.at)
    BY <1>1, MirrorAtr
  <2> QED BY <2>1, <2>2
<1>4. PICK d \in Int : d = p.param * a
  <2>1. p.param \in Nat
    BY DEF Policy
  <2> QED BY <2>1
<1>5. Window(e, p, k) # {} => Low(M, Window(t, p, k)) = 2 * e.entry - High(b, Window(e, p, k))
  BY <1>1, MirrorLow
<1> HIDE DEF t, M
<1>6. (2 * e.entry - w) - d = 2 * e.entry - (w + d)
  BY <1>1
<1>7. CASE p.trail = "atr"
  <2>1. CASE a > 0
    <3>1. TrailAt(t, M, p, k) = (2 * e.entry - w) - d
      BY <1>2, <1>3, <1>4, <1>7, <2>1 DEF TrailAt
    <3>2. FadeTrailAt(e, b, p, k) = w + d
      BY <1>2, <1>3, <1>4, <1>7, <2>1 DEF FadeTrailAt
    <3> QED BY <1>6, <3>1, <3>2 DEF t, M
  <2>2. CASE ~(a > 0)
    <3>1. TrailAt(t, M, p, k) = t.stop /\ FadeTrailAt(e, b, p, k) = e.stop
      BY <1>3, <1>7, <2>2 DEF TrailAt, FadeTrailAt
    <3> QED BY <1>1, <3>1 DEF t, M
  <2> QED BY <2>1, <2>2
<1>8. CASE p.trail = "structure"
  <2>1. CASE Window(e, p, k) # {}
    <3>1. TrailAt(t, M, p, k) = Low(M, Window(t, p, k))
      BY <1>1, <1>8, <2>1 DEF TrailAt
    <3>2. FadeTrailAt(e, b, p, k) = High(b, Window(e, p, k))
      BY <1>8, <2>1 DEF FadeTrailAt
    <3> QED BY <1>5, <2>1, <3>1, <3>2 DEF t, M
  <2>2. CASE Window(e, p, k) = {}
    <3>1. TrailAt(t, M, p, k) = t.stop /\ FadeTrailAt(e, b, p, k) = e.stop
      BY <1>1, <1>8, <2>2 DEF TrailAt, FadeTrailAt
    <3> QED BY <1>1, <3>1 DEF t, M
  <2> QED BY <2>1, <2>2
<1>9. CASE p.trail = "none"
  <2>1. TrailAt(t, M, p, k) = t.stop /\ FadeTrailAt(e, b, p, k) = e.stop
    BY <1>9 DEF TrailAt, FadeTrailAt
  <2> QED BY <1>1, <2>1 DEF t, M
<1> QED BY <1>7, <1>8, <1>9 DEF Policy

LEMMA LesserIs ==
  ASSUME NEW x \in Int, NEW y \in Int
  PROVE  /\ Min({x, y}) \in {x, y} /\ Min({x, y}) \in Int
         /\ Min({x, y}) <= x /\ Min({x, y}) <= y
<1>1. \E m \in {x, y} : \A z \in {x, y} : m <= z
  <2>1. CASE x <= y
    BY <2>1
  <2>2. CASE y <= x
    BY <2>2
  <2> QED BY <2>1, <2>2
<1>2. Min({x, y}) \in {x, y} /\ \A z \in {x, y} : Min({x, y}) <= z
  BY <1>1 DEF Min
<1> QED BY <1>2

LEMMA MirrorStop ==
  ASSUME NEW b \in Seq(FadeBar), NEW e \in EventsOn(b), NEW p \in Policy,
         p.trail # "pct", NEW k
  PROVE  /\ StopAt(Turned(e), Mirrored(b, e.entry), p, k)
              = 2 * e.entry - FadeStopAt(e, b, p, k)
         /\ FadeStopAt(e, b, p, k) \in Int
<1>1. PICK a \in Int, s \in Int, t \in Int :
        a = 2 * e.entry /\ s = e.stop /\ t = FadeTrailAt(e, b, p, k)
  <2>1. e.entry \in Int /\ e.stop \in Int
    BY TurnedIsLong
  <2> QED BY <2>1, FadeTrailIs
<1>2. /\ Turned(e).stop = a - s
      /\ TrailAt(Turned(e), Mirrored(b, e.entry), p, k) = a - t
  BY <1>1, TurnedIsLong, MirrorTrail
<1>3. PICK x \in Int, y \in Int : x = a - s /\ y = a - t
  OBVIOUS
<1>4. /\ Max({x, y}) \in {x, y} /\ Max({x, y}) >= x /\ Max({x, y}) >= y
      /\ Min({s, t}) \in {s, t} /\ Min({s, t}) <= s /\ Min({s, t}) <= t
  BY GreaterIs, LesserIs
<1>5. Max({x, y}) = a - Min({s, t}) /\ Min({s, t}) \in Int
  BY <1>3, <1>4
<1> QED BY <1>1, <1>2, <1>3, <1>5, StopIs, FadeStopIs

(* What the two sides make of a bar.                                       *)
LEMMA MirrorReason ==
  ASSUME NEW b \in Seq(FadeBar), NEW e \in EventsOn(b), NEW p \in Policy,
         p.trail # "pct", NEW k \in DOMAIN b
  PROVE  /\ ReasonAt(Turned(e), Mirrored(b, e.entry), p, k) = FadeReasonAt(e, b, p, k)
         /\ \A r \in {"stop", "trail", "target", "vwap", "time"} :
              PriceAt(Turned(e), Mirrored(b, e.entry), p, k, r)
                = 2 * e.entry - FadePriceAt(e, b, p, k, r)
<1> DEFINE t == Turned(e)
           M == Mirrored(b, e.entry)
<1>1. PICK x \in Int, y \in Int : x = e.entry /\ y = e.stop /\ t.entry = x /\ t.stop = 2 * x - y
  BY TurnedIsLong
<1>2. PICK s \in Int : s = FadeStopAt(e, b, p, k) /\ StopAt(t, M, p, k) = 2 * x - s
  BY <1>1, MirrorStop
<1>3. PICK h \in Int, l \in Int, c \in Int, v \in Int :
        /\ h = b[k].h /\ l = b[k].l /\ c = b[k].c /\ v = b[k].vwap
  BY FadeBarsAre
<1>4. /\ M[k].h = 2 * x - l /\ M[k].l = 2 * x - h /\ M[k].c = 2 * x - c
      /\ M[k].weak = (v > 0 /\ c > v)
  <2>1. k \in 1 .. Len(b)
    BY FadeBarsAre
  <2>2. PICK m : m = Mirrored(b, x)
    OBVIOUS
  <2>3. /\ m[k].h = 2 * x - b[k].l /\ m[k].l = 2 * x - b[k].h
        /\ m[k].c = 2 * x - b[k].c
        /\ m[k].weak = (b[k].vwap > 0 /\ b[k].c > b[k].vwap)
    BY <2>1, <2>2, MirroredIs
  <2>4. m = M
    BY <1>1, <2>2
  <2> QED BY <1>3, <2>3, <2>4
<1>5. PICK n \in Nat : n = p.target
  BY DEF Policy
<1>6. PICK d \in Int : d = n * (y - x) /\ n * (x - (2 * x - y)) = d
  <2>1. x - (2 * x - y) = y - x
    OBVIOUS
  <2> QED BY <2>1
<1>7. /\ t.entry + p.target * (t.entry - t.stop) = x + d
      /\ e.entry - p.target * (e.stop - e.entry) = x - d
  BY <1>1, <1>5, <1>6
<1> HIDE DEF t, M
<1>8. /\ M[k].l <= StopAt(t, M, p, k) <=> b[k].h >= FadeStopAt(e, b, p, k)
      /\ StopAt(t, M, p, k) = t.stop <=> FadeStopAt(e, b, p, k) = e.stop
      /\ M[k].h >= t.entry + p.target * (t.entry - t.stop)
           <=> b[k].l <= e.entry - p.target * (e.stop - e.entry)
      /\ M[k].weak = (b[k].vwap > 0 /\ b[k].c > b[k].vwap)
  <2>1. M[k].l <= StopAt(t, M, p, k) <=> b[k].h >= FadeStopAt(e, b, p, k)
    <3>1. 2 * x - h <= 2 * x - s <=> h >= s
      OBVIOUS
    <3> QED BY <1>2, <1>3, <1>4, <3>1
  <2>2. StopAt(t, M, p, k) = t.stop <=> FadeStopAt(e, b, p, k) = e.stop
    <3>1. 2 * x - s = 2 * x - y <=> s = y
      OBVIOUS
    <3> QED BY <1>1, <1>2, <3>1
  <2>3. M[k].h >= t.entry + p.target * (t.entry - t.stop)
          <=> b[k].l <= e.entry - p.target * (e.stop - e.entry)
    <3>1. 2 * x - l >= x + d <=> l <= x - d
      OBVIOUS
    <3> QED BY <1>3, <1>4, <1>7, <3>1
  <2>4. M[k].weak = (b[k].vwap > 0 /\ b[k].c > b[k].vwap)
    BY <1>3, <1>4
  <2> QED BY <2>1, <2>2, <2>3, <2>4
<1>9. ReasonAt(t, M, p, k) = FadeReasonAt(e, b, p, k)
  BY <1>8 DEF ReasonAt, FadeReasonAt
<1>10. ASSUME NEW r \in {"stop", "trail", "target", "vwap", "time"}
       PROVE  PriceAt(t, M, p, k, r) = 2 * x - FadePriceAt(e, b, p, k, r)
  <2>1. CASE r \in {"stop", "trail"}
    <3>1. PriceAt(t, M, p, k, r) = 2 * x - s /\ FadePriceAt(e, b, p, k, r) = s
      BY <1>2, <2>1 DEF PriceAt, FadePriceAt
    <3> QED BY <3>1
  <2>2. CASE r = "target"
    <3>1. PriceAt(t, M, p, k, r) = x + d /\ FadePriceAt(e, b, p, k, r) = x - d
      BY <1>7, <2>2 DEF PriceAt, FadePriceAt
    <3> QED BY <3>1
  <2>3. CASE r \in {"vwap", "time"}
    <3>1. PriceAt(t, M, p, k, r) = 2 * x - c /\ FadePriceAt(e, b, p, k, r) = c
      BY <1>3, <1>4, <2>3 DEF PriceAt, FadePriceAt
    <3> QED BY <3>1
  <2> QED BY <2>1, <2>2, <2>3
<1> QED BY <1>1, <1>9, <1>10 DEF t, M

(* exits.py: the short exit is the mirror of the long one, in its bar, its *)
(* reason and its price, for every trade on any bars and every policy but  *)
(* a percentage trail, which no mirror turns into one.                     *)
THEOREM FadeIsMirror ==
  ASSUME NEW b \in Seq(FadeBar), NEW e \in EventsOn(b), e.fwd # {},
         NEW p \in Policy, p.trail # "pct"
  PROVE  ExitMirrors(e, b, p)
<1> DEFINE t == Turned(e)
           M == Mirrored(b, e.entry)
           R(k) == FadeReasonAt(e, b, p, k)
           all  == {[at |-> k, reason |-> R(k)] : k \in e.fwd}
           ends == {x \in all : x.reason # "none"}
           end  == FirstEnd(ends, e)
<1>1. t.fwd = e.fwd /\ e.fwd \subseteq DOMAIN b
  BY TurnedIsLong
<1>2. \A k \in e.fwd : ReasonAt(t, M, p, k) = R(k)
  BY <1>1, MirrorReason
<1>3. {[at |-> k, reason |-> ReasonAt(t, M, p, k)] : k \in t.fwd} = all
  BY <1>1, <1>2
<1>4. FirstEnd(ends, t) = end
  BY <1>1 DEF FirstEnd
<1>5. /\ SimulateFade(e, b, p) = [at |-> end.at, reason |-> end.reason,
                                  price |-> FadePriceAt(e, b, p, end.at, end.reason)]
      /\ SimulateExit(t, M, p) = [at |-> end.at, reason |-> end.reason,
                                  price |-> PriceAt(t, M, p, end.at, end.reason)]
  <2>1. SimulateFade(e, b, p) = [at |-> end.at, reason |-> end.reason,
                                 price |-> FadePriceAt(e, b, p, end.at, end.reason)]
    BY DEF SimulateFade
  <2> DEFINE long == {[at |-> k, reason |-> ReasonAt(t, M, p, k)] : k \in t.fwd}
             last == {x \in long : x.reason # "none"}
  <2>2. SimulateExit(t, M, p)
          = [at |-> FirstEnd(last, t).at, reason |-> FirstEnd(last, t).reason,
             price |-> PriceAt(t, M, p, FirstEnd(last, t).at, FirstEnd(last, t).reason)]
    BY DEF SimulateExit
  <2>3. last = ends
    BY <1>3
  <2> QED BY <1>4, <2>1, <2>2, <2>3
<1>6. end.at \in e.fwd /\ end.reason \in {"stop", "trail", "target", "vwap", "time"}
  <2>1. CASE ends = {}
    <3>1. end = [at |-> Max(e.fwd), reason |-> "time"]
      BY <2>1 DEF FirstEnd
    <3>2. Max(e.fwd) \in e.fwd
      <4>1. PICK N \in Nat : DOMAIN b = 1 .. N
        BY FadeBarsAre
      <4>2. e.fwd \in SUBSET (1 .. N)
        BY <1>1, <4>1
      <4> QED BY <4>2, Positions
    <3> QED BY <3>1, <3>2
  <2>2. CASE ends # {}
    <3>1. PICK N \in Nat : DOMAIN b = 1 .. N /\ e.fwd \subseteq 1 .. N
      BY <1>1, FadeBarsAre
    <3> DEFINE K == {k \in e.fwd : R(k) # "none"}
    <3>2. K \in SUBSET (1 .. N) /\ K # {}
      BY <2>2, <3>1
    <3>3. PICK m \in K : \A j \in K : m <= j
      <4> HIDE DEF K
      <4> QED BY <3>2, Positions
    <3>4. [at |-> m, reason |-> R(m)] \in ends
      OBVIOUS
    <3>5. \A y \in ends : m <= y.at
      BY <3>3
    <3>6. end \in ends
      <4>1. \E x \in ends : \A y \in ends : x.at <= y.at
        BY <3>4, <3>5
      <4> HIDE DEF ends
      <4> QED BY <2>2, <4>1 DEF FirstEnd
    <3>7. end.at \in e.fwd /\ end.reason = R(end.at) /\ end.reason # "none"
      <4> HIDE DEF end, R
      <4> QED BY <3>6
    <3>8. \A k : R(k) \in {"stop", "trail", "target", "vwap", "none"}
      BY DEF FadeReasonAt
    <3> HIDE DEF end, R
    <3> QED BY <3>7, <3>8
  <2> QED BY <2>1, <2>2
<1> HIDE DEF end, ends, all
<1>7. PriceAt(t, M, p, end.at, end.reason)
        = 2 * e.entry - FadePriceAt(e, b, p, end.at, end.reason)
  BY <1>1, <1>6, MirrorReason
<1>8. FadePriceAt(e, b, p, end.at, end.reason) \in Int /\ e.entry \in Int
  <2>1. /\ FadeStopAt(e, b, p, end.at) \in Int /\ b[end.at].c \in Int
        /\ e.entry \in Int /\ e.stop \in Int /\ p.target \in Nat
    BY <1>1, <1>6, MirrorStop, FadeBarsAre, TurnedIsLong DEF Policy
  <2>2. e.entry - p.target * (e.stop - e.entry) \in Int
    BY <2>1
  <2> QED BY <1>6, <2>1, <2>2 DEF FadePriceAt
<1>9. [SimulateExit(t, M, p) EXCEPT !.price = 2 * e.entry - SimulateExit(t, M, p).price]
        = SimulateFade(e, b, p)
  <2>0. PICK u, v : u = end.at /\ v = end.reason
    OBVIOUS
  <2>1. PICK w \in Int, a \in Int :
          a = e.entry /\ w = FadePriceAt(e, b, p, end.at, end.reason)
    BY <1>8
  <2>2. /\ SimulateFade(e, b, p) = [at |-> u, reason |-> v, price |-> w]
        /\ SimulateExit(t, M, p) = [at |-> u, reason |-> v, price |-> 2 * a - w]
    BY <1>5, <1>7, <2>0, <2>1
  <2>3. 2 * a - (2 * a - w) = w
    OBVIOUS
  <2> QED BY <2>1, <2>2, <2>3
<1> QED BY <1>9 DEF ExitMirrors, Turned

LEMMA MirrorEvent ==
  ASSUME NEW b \in Seq(FadeBar), NEW e \in EventsOn(b), EventOf(e, b)
  PROVE  /\ EventOf(Turned(e), Mirrored(b, e.entry))
         /\ Mirrored(b, e.entry) \in Seq(BarType)
<1>1. PICK N \in Nat : N = Len(b) /\ DOMAIN b = 1 .. N
  BY FadeBarsAre
<1>2. PICK a \in Int, s \in Int : a = e.entry /\ s = e.stop
  BY TurnedIsLong
<1>3. Mirrored(b, a) \in Seq(BarType) /\ Len(Mirrored(b, a)) = N
  BY <1>1, MirroredIs
<1>4. /\ Turned(e).at = e.at /\ Turned(e).entry = a
      /\ Turned(e).stop = 2 * a - s /\ Turned(e).fwd = e.fwd
  BY <1>2, TurnedIsLong
<1>5. 2 * a - s \in Int
  OBVIOUS
<1> QED BY <1>1, <1>2, <1>3, <1>4, <1>5 DEF EventOf

(* Prices and a share of them are ordered like the prices.                 *)
LEMMA AboveUp ==
  ASSUME NEW x \in Int, NEW y \in Int, x <= y, NEW permille \in Nat
  PROVE  Above(x, permille) <= Above(y, permille)
<1>1. PICK u \in Int, v \in Int : u = x \div 1000 /\ v = y \div 1000 /\ u <= v
  <2>1. x \div 1000 \in Int /\ y \div 1000 \in Int /\ x \div 1000 <= y \div 1000
    OBVIOUS
  <2> QED BY <2>1
<1>2. PICK w \in Nat : w = 1000 + permille
  OBVIOUS
<1>3. u * w <= v * w
  <2>1. (v - u) * w >= 0
    BY <1>1, <1>2
  <2>2. (v - u) * w = v * w - u * w
    BY <1>1, <1>2
  <2> QED BY <1>1, <1>2, <2>1, <2>2
<1> QED BY <1>1, <1>2, <1>3 DEF Above

(* The low-water mark of a short falls.                                    *)
LEMMA FadeWaterFalls ==
  ASSUME NEW b \in Seq(FadeBar), NEW e \in EventsOn(b), EventOf(e, b),
         NEW j \in e.fwd, NEW k \in e.fwd, j < k
  PROVE  /\ FadeWater(e, b, k) <= FadeWater(e, b, j)
         /\ FadeWater(e, b, k) \in Int /\ FadeWater(e, b, j) \in Int
<1> DEFINE t == Turned(e)
           M == Mirrored(b, e.entry)
<1>1. PICK a \in Int : a = e.entry
  BY TurnedIsLong
<1>2. PICK x \in Int, y \in Int :
        /\ x = FadeWater(e, b, j) /\ Water(t, M, j) = 2 * a - x
        /\ y = FadeWater(e, b, k) /\ Water(t, M, k) = 2 * a - y
  BY <1>1, MirrorWater
<1>3. Water(t, M, j) <= Water(t, M, k)
  <2>1. EventOf(t, M) /\ M \in Seq(BarType) /\ t.fwd = e.fwd
    BY MirrorEvent, TurnedIsLong
  <2> HIDE DEF t, M
  <2> QED BY <2>1, WaterUp
<1>4. 2 * a - x <= 2 * a - y => y <= x
  OBVIOUS
<1> QED BY <1>2, <1>3, <1>4

(* exits.py: the stop of a short never moves up while the trade is open,   *)
(* for every event with its bars to come in a row, every kind of trail and *)
(* every parameter.                                                        *)
THEOREM FadeStopNeverRises ==
  ASSUME NEW b \in Seq(FadeBar), NEW e \in EventsOn(b), EventOf(e, b),
         NEW p \in Policy
  PROVE  StopFalls(e, b, p)
<1> DEFINE t == Turned(e)
           M == Mirrored(b, e.entry)
<1> SUFFICES ASSUME NEW j \in e.fwd, NEW k \in e.fwd, j < k,
                    \A i \in e.fwd : i < k => FadeReasonAt(e, b, p, i) = "none"
             PROVE  FadeStopAt(e, b, p, k) <= FadeStopAt(e, b, p, j)
  BY DEF StopFalls
<1>1. PICK a \in Int, s \in Int : a = e.entry /\ s = e.stop
  BY TurnedIsLong
<1>2. CASE p.trail # "pct"
  <2>1. p \in AnyPolicy
    BY <1>2 DEF AnyPolicy
  <2>2. EventOf(t, M) /\ M \in Seq(BarType) /\ t.fwd = e.fwd /\ e.fwd \subseteq DOMAIN b
    BY MirrorEvent, TurnedIsLong
  <2>3. ASSUME NEW i \in e.fwd, i < k PROVE ReasonAt(t, M, p, i) = "none"
    <3>1. ReasonAt(t, M, p, i) = FadeReasonAt(e, b, p, i)
      BY <1>2, <2>2, MirrorReason
    <3> QED BY <2>3, <3>1
  <2>4. Quiet(t, M, p, k)
    BY <2>2, <2>3 DEF Quiet
  <2>5. StopAt(t, M, p, j) <= StopAt(t, M, p, k)
    <3> HIDE DEF t, M
    <3> QED BY <2>1, <2>2, <2>4, StopRatchets
  <2>6. PICK x \in Int, y \in Int :
          /\ x = FadeStopAt(e, b, p, j) /\ StopAt(t, M, p, j) = 2 * a - x
          /\ y = FadeStopAt(e, b, p, k) /\ StopAt(t, M, p, k) = 2 * a - y
    BY <1>1, <1>2, MirrorStop
  <2>7. 2 * a - x <= 2 * a - y => y <= x
    OBVIOUS
  <2> QED BY <2>5, <2>6, <2>7
<1>3. CASE p.trail = "pct"
  <2>1. PICK n \in Nat : n = 10 * p.param
    <3>1. p.param \in Nat
      BY DEF Policy
    <3> QED BY <3>1
  <2>2. PICK x \in Int, y \in Int :
          x = FadeWater(e, b, j) /\ y = FadeWater(e, b, k) /\ y <= x
    BY FadeWaterFalls
  <2>3. FadeTrailAt(e, b, p, j) = Above(x, n) /\ FadeTrailAt(e, b, p, k) = Above(y, n)
    BY <1>3, <2>1, <2>2 DEF FadeTrailAt
  <2>4. PICK u \in Int, v \in Int : u = Above(x, n) /\ v = Above(y, n) /\ v <= u
    <3>1. Above(x, n) \in Int /\ Above(y, n) \in Int
      BY DEF Above
    <3> QED BY <2>2, <3>1, AboveUp
  <2>5. /\ Min({s, u}) \in {s, u} /\ Min({s, v}) \in Int
        /\ Min({s, v}) <= s /\ Min({s, v}) <= v
    BY LesserIs
  <2>6. Min({s, v}) <= Min({s, u})
    BY <2>4, <2>5
  <2> QED BY <1>1, <2>3, <2>4, <2>6, FadeStopIs
<1> QED BY <1>2, <1>3

(* The event of a fade is one that the theorems below are about: its bars  *)
(* to come follow the entry in a row.                                      *)
LEMMA FadeTyped ==
  ASSUME NEW b \in Seq(FadeBar), Ordered(b), NEW cutoff \in Nat,
         NEW f, f = FindFadeEvent(b, cutoff), f # NoEvent
  PROVE  f \in EventsOn(b) /\ EventOf(f, b)
<1>1. PICK N \in Nat : N = Len(b) /\ DOMAIN b = 1 .. N
  BY FadeBarsAre
<1>2. FadeFound(b, cutoff) /\ f = FadeEvent(b, Min(FadeTurns(b, cutoff)), cutoff)
  BY FadeEventIs
<1>3. RegBars(b) \in SUBSET (1 .. N)
  BY <1>1 DEF RegBars
<1>4. PICK i \in RegBars(b) : i = Min(FadeTurns(b, cutoff))
  <2>1. FadeTurns(b, cutoff) \in SUBSET (1 .. N) /\ FadeTurns(b, cutoff) # {}
    BY <1>2, <1>3 DEF FadeTurns, FadeFound
  <2>2. Min(FadeTurns(b, cutoff)) \in FadeTurns(b, cutoff)
    BY <2>1, Positions
  <2> QED BY <2>2 DEF FadeTurns
<1>5. i \in 1 .. N /\ b[i].c \in Int
  BY <1>1, <1>3, FadeBarsAre
<1>6. FadeStop(b, i) \in Int
  <2>1. i \in UpTo(b, i) /\ UpTo(b, i) \subseteq DOMAIN b
    BY <1>1, <1>3, <1>5 DEF UpTo
  <2>2. PICK h \in Int : h = High(b, UpTo(b, i))
    <3>1. High(b, UpTo(b, i)) \in Int
      BY <2>1, FadeHighIs
    <3> QED BY <3>1
  <2>3. Above(h, 5) \in Int
    BY DEF Above
  <2> QED BY <2>2, <2>3 DEF FadeStop
<1> DEFINE S == {k \in RegBars(b) : k > i /\ b[k].tod <= cutoff + MaxHold}
<1>7. f = [at |-> i, entry |-> b[i].c, stop |-> FadeStop(b, i), fwd |-> S]
  BY <1>2, <1>4 DEF FadeEvent
<1>8. S \subseteq DOMAIN b /\ S \subseteq i + 1 .. N
  BY <1>1, <1>3, <1>5
<1>9. ASSUME NEW j \in S, NEW k \in i + 1 .. N, k < j PROVE k \in S
  <2>1. k \in 1 .. N /\ j \in 1 .. N /\ i < k
    BY <1>5, <1>8
  <2>2. b[i].tod < b[k].tod /\ b[k].tod < b[j].tod
    BY <1>1, <1>5, <1>9, <2>1 DEF Ordered
  <2>3. PICK x \in Nat, y \in Nat, z \in Nat, m \in Nat, c \in Nat :
          /\ x = b[i].tod /\ y = b[k].tod /\ z = b[j].tod
          /\ m = MarketOpen /\ c = cutoff + MaxHold
    <3>1. Minutes \subseteq Nat /\ MarketOpen \in Nat /\ MaxHold \in Nat
      BY RulesAssumption DEF Minutes
    <3>2. b[i].tod \in Minutes /\ b[k].tod \in Minutes /\ b[j].tod \in Minutes
      BY <1>1, <1>5, <2>1, FadeBarsAre
    <3>3. cutoff + MaxHold \in Nat
      BY <3>1
    <3> QED BY <3>1, <3>2, <3>3
  <2>4. m <= x /\ z <= c
    BY <2>3 DEF RegBars
  <2>5. y >= m /\ y <= c
    <3>1. x < y /\ y < z
      BY <2>2, <2>3, Zenon
    <3>2. x \in Nat /\ y \in Nat /\ z \in Nat /\ m \in Nat /\ c \in Nat
      OBVIOUS
    <3>3. ASSUME NEW r \in Nat, NEW q \in Nat, NEW t \in Nat, NEW o \in Nat, NEW d \in Nat,
                 o <= r, r < q, q < t, t <= d
          PROVE  q >= o /\ q <= d
      BY <3>3
    <3> QED BY <3>1, <3>2, <3>3, <2>4
  <2> QED BY <1>1, <2>1, <2>3, <2>5 DEF RegBars
<1> HIDE DEF S
<1>10. /\ f.at = i /\ f.entry = b[i].c /\ f.stop = FadeStop(b, i) /\ f.fwd = S
       /\ f \in EventsOn(b)
  BY <1>1, <1>5, <1>6, <1>7, <1>8 DEF EventsOn
<1> QED BY <1>1, <1>5, <1>6, <1>8, <1>9, <1>10 DEF EventOf

(* exits.py, combo.py: of every fade that is found in the bars of a day    *)
(* and has bars to come, the exit is the mirror of the long one, save for  *)
(* a percentage trail, and the stop never moves up.                        *)
THEOREM FadesExitWell ==
  ASSUME NEW b \in Seq(FadeBar), Ordered(b), NEW cutoff \in Nat,
         NEW f, f = FindFadeEvent(b, cutoff), f # NoEvent, f.fwd # {},
         NEW p \in Policy
  PROVE  /\ p.trail # "pct" => ExitMirrors(f, b, p)
         /\ StopFalls(f, b, p)
<1>1. f \in EventsOn(b) /\ EventOf(f, b)
  BY FadeTyped
<1> QED BY <1>1, FadeIsMirror, FadeStopNeverRises

-----------------------------------------------------------------------------
(* The outcome of the screen.                                              *)

Fixed(n) == [target |-> n, trail |-> "none", param |-> 0, vwap |-> FALSE]

(* A bar's close lies between its low and its high.                        *)
Proper(b) == \A k \in DOMAIN b : b[k].l <= b[k].c /\ b[k].c <= b[k].h

Level(e, n) == e.entry + n * (e.entry - e.stop)

LEMMA LevelIs ==
  ASSUME NEW b, NEW e \in EventsOn(b), NEW n \in Nat
  PROVE  Level(e, n) \in Int /\ e.stop \in Int
<1>1. PICK x \in Int, y \in Int : x = e.entry /\ y = e.stop
  BY TurnedIsLong
<1>2. x + n * (x - y) \in Int
  OBVIOUS
<1> QED BY <1>1, <1>2 DEF Level

(* Without a trail the stop stays where it is.                             *)
LEMMA FixedIs ==
  ASSUME NEW b, NEW e \in EventsOn(b), NEW n \in Nat \ {0}, NEW k
  PROVE  /\ ReasonAt(e, b, Fixed(n), k) = IF b[k].l <= e.stop THEN "stop"
                                          ELSE IF b[k].h >= Level(e, n) THEN "target"
                                          ELSE "none"
         /\ PriceAt(e, b, Fixed(n), k, "stop") = e.stop
         /\ PriceAt(e, b, Fixed(n), k, "target") = Level(e, n)
         /\ PriceAt(e, b, Fixed(n), k, "time") = b[k].c
<1>1. StopAt(e, b, Fixed(n), k) = e.stop
  <2>1. PICK s \in Int : s = e.stop
    BY TurnedIsLong
  <2>2. TrailAt(e, b, Fixed(n), k) = s
    BY <2>1 DEF TrailAt, Fixed
  <2>3. Max({s, s}) = s
    BY GreaterIs
  <2> QED BY <2>1, <2>2, <2>3, StopIs
<1>2. /\ Fixed(n).target = n /\ n > 0 /\ Fixed(n).vwap = FALSE
      /\ Level(e, n) = e.entry + n * (e.entry - e.stop)
  BY DEF Fixed, Level
<1> QED BY <1>1, <1>2 DEF ReasonAt, PriceAt

(* screen.py: the standard outcome of an event is the exit that the exit   *)
(* lab gives it with a fixed target, for every day of proper bars, every   *)
(* event with bars to come and every target.                               *)
THEOREM OutcomeAgrees ==
  ASSUME NEW b \in Seq(FadeBar), Proper(b), NEW e \in EventsOn(b), e.fwd # {},
         NEW n \in Nat \ {0}
  PROVE  OutcomeIsExit(e, b, n)
<1> DEFINE p == Fixed(n)
           ends == {k \in e.fwd : b[k].l <= e.stop \/ b[k].h >= Level(e, n)}
<1>1. PICK N \in Nat : N = Len(b) /\ DOMAIN b = 1 .. N /\ e.fwd \in SUBSET (1 .. N)
  <2>1. PICK N \in Nat : N = Len(b) /\ DOMAIN b = 1 .. N
    BY FadeBarsAre
  <2>2. e.fwd \subseteq DOMAIN b
    BY TurnedIsLong
  <2> QED BY <2>1, <2>2
<1>2. PICK s \in Int, v \in Int : s = e.stop /\ v = Level(e, n)
  BY LevelIs
<1>3. ASSUME NEW k \in e.fwd
      PROVE  /\ b[k].l \in Int /\ b[k].c \in Int /\ b[k].h \in Int
             /\ b[k].l <= b[k].c /\ b[k].c <= b[k].h
             /\ Low(b, e.fwd) <= b[k].l /\ b[k].h <= High(b, e.fwd)
             /\ Low(b, e.fwd) \in Int /\ High(b, e.fwd) \in Int
  <2>1. /\ b[k].l \in Int /\ b[k].c \in Int /\ b[k].h \in Int
        /\ b[k].l <= b[k].c /\ b[k].c <= b[k].h
    BY <1>1, FadeBarsAre DEF Proper
  <2> DEFINE L == {b[j].l : j \in e.fwd}
             H == {b[j].h : j \in e.fwd}
  <2>2. b[k].l \in L /\ b[k].h \in H
    OBVIOUS
  <2>3. /\ IsFiniteSet(L) /\ L \subseteq Int /\ IsFiniteSet(H) /\ H \subseteq Int
    BY <1>1, SomePrices
  <2> HIDE DEF L, H
  <2>4. /\ Min(L) \in L /\ Min(L) <= b[k].l
        /\ Max(H) \in H /\ Max(H) >= b[k].h
    BY <2>2, <2>3, MinIs, MaxIs
  <2>5. Low(b, e.fwd) = Min(L) /\ High(b, e.fwd) = Max(H)
    BY DEF Low, High, L, H
  <2> QED BY <2>1, <2>3, <2>4, <2>5
<1>4. PICK low \in Int, high \in Int : low = Low(b, e.fwd) /\ high = High(b, e.fwd)
  BY <1>3
<1>5. /\ ForwardR(e, b, n).mfe = high /\ ForwardR(e, b, n).mae = low
      /\ ForwardR(e, b, n).exit = IF ends = {} THEN b[Max(e.fwd)].c
                                  ELSE IF b[Min(ends)].l <= s THEN s ELSE v
  BY <1>2, <1>4 DEF ForwardR, Level
<1>6. ASSUME NEW x \in Int, x = ForwardR(e, b, n).exit,
             x = SimulateExit(e, b, p).price,
             x < v => low <= x, x > s => x <= high
      PROVE  OutcomeIsExit(e, b, n)
  BY <1>2, <1>5, <1>6 DEF OutcomeIsExit, Level, Fixed
<1>7. \A k \in e.fwd : k \in ends <=> ReasonAt(e, b, p, k) # "none"
  BY FixedIs
<1>8. CASE ends = {}
  <2>1. PICK m \in e.fwd : m = Max(e.fwd)
    BY <1>1, Positions
  <2>2. SimulateExit(e, b, p) = LastExit(e, b, p)
    BY <1>1, <1>7, <1>8, ExitIs
  <2>3. SimulateExit(e, b, p).price = b[m].c
    BY <2>1, <2>2, FixedIs DEF LastExit
  <2>4. ForwardR(e, b, n).exit = b[m].c
    BY <1>5, <1>8, <2>1
  <2>5. b[m].c \in Int /\ low <= b[m].c /\ b[m].c <= high
    <3>1. PICK l \in Int, c \in Int, h \in Int :
            /\ l = b[m].l /\ c = b[m].c /\ h = b[m].h
            /\ l <= c /\ c <= h /\ low <= l /\ h <= high
      BY <1>3, <1>4
    <3>2. low <= c /\ c <= high
      BY <3>1
    <3> QED BY <3>1, <3>2
  <2> QED BY <1>6, <2>3, <2>4, <2>5
<1>9. CASE ends # {}
  <2>1. ends \in SUBSET (1 .. N)
    BY <1>1
  <2>2. PICK m \in ends : m = Min(ends) /\ \A y \in ends : m <= y
    <3> HIDE DEF ends
    <3> QED BY <1>1, <1>9, <2>1, Positions
  <2>3. m \in e.fwd /\ m \in 1 .. N
    BY <1>1
  <2>4. FirstEndIn(e, b, p, m)
    <3>1. ASSUME NEW k \in e.fwd, k < m PROVE ReasonAt(e, b, p, k) = "none"
      <4>1. k \in 1 .. N /\ ~(m <= k)
        BY <1>1, <2>3, <3>1
      <4>2. k \notin ends
        BY <2>2, <4>1
      <4> QED BY <1>7, <4>2
    <3> HIDE DEF ends, p
    <3> QED BY <1>7, <2>3, <3>1 DEF FirstEndIn
  <2>5. SimulateExit(e, b, p) = ExitIn(e, b, p, m)
    BY <1>1, <2>3, <2>4, ExitIs
  <2>6. PICK l \in Int, h \in Int :
          l = b[m].l /\ h = b[m].h /\ low <= l /\ h <= high
    BY <1>3, <1>4, <2>3
  <2>7. CASE l <= s
    <3>1. SimulateExit(e, b, p).price = s
      BY <1>2, <2>5, <2>6, <2>7, FixedIs DEF ExitIn
    <3>2. ForwardR(e, b, n).exit = s
      BY <1>5, <1>9, <2>2, <2>6, <2>7
    <3> QED BY <1>4, <1>6, <2>6, <2>7, <3>1, <3>2
  <2>8. CASE ~(l <= s)
    <3>1. h >= v
      BY <1>2, <2>6, <2>8
    <3>2. SimulateExit(e, b, p).price = v
      BY <1>2, <2>5, <2>6, <2>8, <3>1, FixedIs DEF ExitIn
    <3>3. ForwardR(e, b, n).exit = v
      BY <1>5, <1>9, <2>2, <2>6, <2>8
    <3> QED BY <1>4, <1>6, <2>6, <3>1, <3>2, <3>3
  <2> QED BY <2>7, <2>8
<1> QED BY <1>8, <1>9

-----------------------------------------------------------------------------
(* The folds of the walk-forward.                                          *)

DaysOf(events) == {events[i].day : i \in DOMAIN events}
Rank(S, d)     == Cardinality({c \in S : c < d})

(* Every rank is that of one element.                                      *)
LEMMA RanksAre ==
  ASSUME NEW S, S \subseteq Int, IsFiniteSet(S), NEW N \in Nat, N = Cardinality(S)
  PROVE  /\ \A d \in S : Rank(S, d) \in 0 .. N - 1
         /\ \A c \in S, d \in S : c < d => Rank(S, c) < Rank(S, d)
         /\ \A r \in 0 .. N - 1 : \E d \in S : Rank(S, d) = r
<1> DEFINE B(d) == {c \in S : c < d}
<1>1. ASSUME NEW d \in S
      PROVE  IsFiniteSet(B(d)) /\ Rank(S, d) \in Nat /\ Rank(S, d) = Cardinality(B(d))
  <2>1. B(d) \in SUBSET S
    OBVIOUS
  <2> HIDE DEF B
  <2>2. IsFiniteSet(B(d)) /\ Cardinality(B(d)) \in Nat
    BY <2>1, FS_Subset, FS_CardinalityType
  <2> QED BY <2>2 DEF Rank, B
<1>2. ASSUME NEW d \in S, NEW T, T \subseteq S, B(d) \cup {d} \subseteq T
      PROVE  Rank(S, d) < Cardinality(T) /\ Cardinality(T) \in Nat
  <2>1. d \notin B(d)
    OBVIOUS
  <2>2. PICK U : U = B(d) \cup {d}
    OBVIOUS
  <2> HIDE DEF B
  <2>3. Cardinality(U) = Cardinality(B(d)) + 1 /\ IsFiniteSet(U)
    BY <1>1, <2>1, <2>2, FS_AddElement
  <2>4. IsFiniteSet(T) /\ Cardinality(T) \in Nat
    BY <1>2, FS_Subset, FS_CardinalityType
  <2>5. Cardinality(U) <= Cardinality(T)
    BY <1>2, <2>2, <2>4, FS_Subset, FS_CardinalityType
  <2> QED BY <1>1, <2>3, <2>4, <2>5
<1>3. ASSUME NEW d \in S PROVE Rank(S, d) \in 0 .. N - 1
  <2>1. B(d) \cup {d} \subseteq S
    OBVIOUS
  <2>2. Rank(S, d) < N
    BY <1>2, <2>1
  <2>3. PICK r \in Nat : r = Rank(S, d) /\ r < N
    <3> HIDE DEF B
    <3> QED BY <1>1, <2>2
  <2>4. r \in 0 .. N - 1
    BY <2>3
  <2> QED BY <2>3, <2>4
<1>4. ASSUME NEW c \in S, NEW d \in S, c < d PROVE Rank(S, c) < Rank(S, d)
  <2>1. c \in Int /\ d \in Int
    OBVIOUS
  <2>2. \A x \in S : x < c => x < d
    BY <1>4, <2>1
  <2>3. B(c) \cup {c} \subseteq B(d) /\ B(d) \subseteq S
    BY <1>4, <2>2
  <2> HIDE DEF B
  <2>4. Rank(S, c) < Cardinality(B(d))
    BY <1>2, <2>3
  <2> QED BY <1>1, <2>4
<1> DEFINE R == [d \in S |-> Rank(S, d)]
           Z == 0 .. N - 1
<1>5. R \in Injection(S, Z)
  <2>1. ASSUME NEW c \in S, NEW d \in S, Rank(S, c) = Rank(S, d) PROVE c = d
    <3>1. PICK x \in Int, y \in Int, r \in Nat :
            x = c /\ y = d /\ r = Rank(S, c) /\ r = Rank(S, d)
      <4> HIDE DEF B
      <4> QED BY <1>1, <2>1
    <3>2. ~(r < r)
      OBVIOUS
    <3>3. ~(x < y) /\ ~(y < x)
      BY <1>4, <3>1, <3>2
    <3>4. x = y
      BY <3>3
    <3> QED BY <3>1, <3>4
  <2>2. R \in [S -> Z]
    BY <1>3
  <2>3. \A c, d \in S : R[c] = R[d] => c = d
    BY <2>1
  <2> HIDE DEF R, Z
  <2> QED BY <2>2, <2>3 DEF Injection, IsInjective
<1>6. IsFiniteSet(Z) /\ Cardinality(Z) = N
  <2>1. PICK a \in Int, b \in Int : a = 0 /\ b = N - 1
    OBVIOUS
  <2>2. IsFiniteSet(a .. b) /\ Cardinality(a .. b) = IF a > b THEN 0 ELSE b - a + 1
    BY FS_Interval
  <2> QED BY <2>1, <2>2
<1> HIDE DEF R, Z
<1>7. R \in Surjection(S, Z)
  BY <1>5, <1>6, FS_Injection
<1>8. \A r \in Z : \E d \in S : Rank(S, d) = r
  BY <1>7 DEF Surjection, R
<1> QED BY <1>3, <1>4, <1>8 DEF Z

(* The days with a trade, each once and in order.                          *)
LEMMA DaysAre ==
  ASSUME NEW T, NEW events \in Seq(T), \A i \in DOMAIN events : events[i].day \in Int
  PROVE  /\ DOMAIN Days(events) = 1 .. Len(Days(events)) /\ Len(Days(events)) \in Nat
         /\ ToSet(Days(events)) = DaysOf(events)
         /\ \A i, j \in DOMAIN Days(events) : i < j => Days(events)[i] < Days(events)[j]
<1> DEFINE S == DaysOf(events)
<1>1. S \subseteq Int /\ IsFiniteSet(S)
  <2>1. S \subseteq Int
    BY DEF DaysOf
  <2> DEFINE f == [i \in DOMAIN events |-> events[i].day]
  <2>2. f \in Surjection(DOMAIN events, S)
    BY DEF Surjection, DaysOf
  <2>3. IsFiniteSet(DOMAIN events)
    <3>1. PICK n \in Nat : DOMAIN events = 1 .. n
      OBVIOUS
    <3> QED BY <3>1, FS_Interval
  <2> HIDE DEF f, S
  <2>4. IsFiniteSet(S)
    BY <2>2, <2>3, FS_Surjection
  <2> QED BY <2>1, <2>4
<1>2. PICK N \in Nat : N = Cardinality(S)
  BY <1>1, FS_CardinalityType
<1>3. Days(events) = [n \in 1 .. N |-> CHOOSE d \in S : Rank(S, d) = n - 1]
  BY <1>2 DEF Days, DaysOf, Rank
<1> HIDE DEF S
<1>4. ASSUME NEW n \in 1 .. N
      PROVE  Days(events)[n] \in S /\ Rank(S, Days(events)[n]) = n - 1
  <2>1. n - 1 \in 0 .. N - 1
    OBVIOUS
  <2>2. \E d \in S : Rank(S, d) = n - 1
    BY <1>1, <1>2, <2>1, RanksAre
  <2> QED BY <1>3, <2>2
<1>5. DOMAIN Days(events) = 1 .. N /\ Len(Days(events)) = N
  <2>1. Days(events) \in Seq(S)
    <3>1. \A n \in 1 .. N : (CHOOSE d \in S : Rank(S, d) = n - 1) \in S
      BY <1>3, <1>4
    <3> QED BY <1>3, <3>1
  <2> QED BY <1>3, <2>1
<1>6. ASSUME NEW i \in 1 .. N, NEW j \in 1 .. N, i < j
      PROVE  Days(events)[i] < Days(events)[j]
  <2>1. PICK c \in S, d \in S : /\ c = Days(events)[i] /\ Rank(S, c) = i - 1
                                /\ d = Days(events)[j] /\ Rank(S, d) = j - 1
    BY <1>4
  <2>2. c \in Int /\ d \in Int
    BY <1>1
  <2>3. c # d /\ ~(d < c)
    <3>1. i - 1 < j - 1 /\ ~(j - 1 < i - 1) /\ i - 1 # j - 1
      BY <1>6
    <3>2. d < c => j - 1 < i - 1
      <4>1. d < c => Rank(S, d) < Rank(S, c)
        BY <1>1, <1>2, RanksAre
      <4> QED BY <2>1, <4>1
    <3> QED BY <2>1, <3>1, <3>2
  <2> QED BY <2>1, <2>2, <2>3
<1>7. ASSUME NEW d \in S PROVE \E n \in 1 .. N : Days(events)[n] = d
  <2>1. PICK r \in 0 .. N - 1 : r = Rank(S, d)
    BY <1>1, <1>2, RanksAre
  <2>2. r + 1 \in 1 .. N /\ (r + 1) - 1 = r
    OBVIOUS
  <2>3. PICK c \in S : c = Days(events)[r + 1] /\ Rank(S, c) = r
    BY <1>4, <2>2
  <2>4. c = d
    <3>1. c \in Int /\ d \in Int
      BY <1>1
    <3>2. c < d => Rank(S, c) < Rank(S, d)
      BY <1>1, <1>2, RanksAre
    <3>3. d < c => Rank(S, d) < Rank(S, c)
      BY <1>1, <1>2, RanksAre
    <3>4. ~(r < r)
      OBVIOUS
    <3> QED BY <2>1, <2>3, <3>1, <3>2, <3>3, <3>4
  <2> QED BY <2>2, <2>3, <2>4
<1>8. ToSet(Days(events)) = S
  BY <1>4, <1>5, <1>7 DEF ToSet
<1> QED BY <1>5, <1>6, <1>8 DEF S

(* Where a fold begins and ends.                                           *)
LEMMA FoldIs ==
  ASSUME NEW days, NEW N \in Nat, N = Len(days), NEW q, q = N \div KFolds
  PROVE  /\ q \in Nat /\ KFolds * q <= N
         /\ \A k \in 1 .. KFolds :
              /\ FoldStart(days, k) = (k - 1) * q + 1
              /\ FoldEnd(days, k) = IF k = KFolds THEN N ELSE k * q
              /\ FoldStart(days, k) \in Nat \ {0} /\ FoldEnd(days, k) \in 0 .. N
<1>1. PICK K \in Nat \ {0} : K = KFolds
  BY SearchAssumption
<1>2. PICK r \in Nat : r = N \div K /\ K * r <= N
  <2>1. N \div K \in Nat /\ K * (N \div K) <= N
    BY <1>1
  <2> QED BY <2>1
<1>3. ASSUME NEW k \in 1 .. K
      PROVE  /\ (k - 1) * r + 1 \in Nat \ {0}
             /\ k * r \in 0 .. N /\ N \in 0 .. N
  <2>1. PICK a \in Nat, d \in Nat : a = k - 1 /\ d = K - k
    OBVIOUS
  <2>2. a * r \in Nat /\ k * r \in Nat /\ d * r \in Nat
    <3>1. k \in Nat
      OBVIOUS
    <3> QED BY <3>1
  <2>3. K * r = k * r + d * r
    BY <2>1
  <2>4. k * r <= N
    <3>1. PICK x \in Nat, y \in Nat, z \in Nat :
            x = K * r /\ y = k * r /\ z = d * r /\ x = y + z /\ x <= N
      BY <1>2, <2>2, <2>3
    <3> QED BY <3>1
  <2> QED BY <2>1, <2>2, <2>4
<1>4. \A k \in 1 .. K : /\ FoldStart(days, k) = (k - 1) * r + 1
                        /\ FoldEnd(days, k) = IF k = K THEN N ELSE k * r
  BY <1>1, <1>2 DEF FoldStart, FoldEnd
<1>5. q = r /\ KFolds * q <= N
  BY <1>1, <1>2
<1> QED BY <1>1, <1>2, <1>3, <1>4, <1>5

(* A fold ends before the next ones begin.                                 *)
LEMMA FoldsFollow ==
  ASSUME NEW days, NEW N \in Nat, N = Len(days),
         NEW j \in 1 .. KFolds, NEW k \in 1 .. KFolds, j < k
  PROVE  FoldEnd(days, j) < FoldStart(days, k)
<1>1. PICK K \in Nat \ {0} : K = KFolds
  BY SearchAssumption
<1>2. PICK q \in Nat : q = N \div KFolds
  BY FoldIs
<1>3. FoldEnd(days, j) = j * q /\ FoldStart(days, k) = (k - 1) * q + 1
  <2>1. j # KFolds
    BY <1>1
  <2> QED BY <1>2, <2>1, FoldIs
<1>4. PICK d \in Nat : d = k - 1 - j
  BY <1>1
<1>5. (k - 1) * q = j * q + d * q /\ d * q \in Nat /\ j * q \in Nat
  <2>1. j \in Nat /\ k - 1 = j + d
    BY <1>1, <1>4
  <2> QED BY <2>1
<1> QED BY <1>3, <1>5

(* Each day is in a fold.                                                  *)
LEMMA EachDayIsTested ==
  ASSUME NEW days, NEW N \in Nat, N = Len(days), NEW i \in 1 .. N
  PROVE  \E k \in 1 .. KFolds : i \in FoldStart(days, k) .. FoldEnd(days, k)
<1>1. PICK K \in Nat \ {0} : K = KFolds
  BY SearchAssumption
<1>2. PICK q \in Nat : q = N \div KFolds
  BY FoldIs
<1> DEFINE S(k) == FoldStart(days, k)
           E(k) == FoldEnd(days, k)
           T == {k \in 1 .. K : S(k) <= i}
<1>3. S(1) = 1 /\ 1 \in T
  <2>1. (1 - 1) * q + 1 = 1 /\ 1 \in 1 .. K
    <3>1. 1 - 1 = 0 /\ 0 * q = 0
      OBVIOUS
    <3> QED BY <3>1
  <2>2. FoldStart(days, 1) = (1 - 1) * q + 1
    BY <1>1, <1>2, <2>1, FoldIs
  <2> QED BY <2>1, <2>2
<1>4. PICK k \in T : \A j \in T : j <= k
  <2>1. T \in SUBSET (1 .. K) /\ T # {}
    BY <1>3
  <2> HIDE DEF T
  <2>2. Max(T) \in T /\ \A j \in T : Max(T) >= j
    BY <2>1, Positions
  <2> QED BY <2>1, <2>2
<1>5. k \in 1 .. K /\ S(k) <= i /\ S(k) \in Nat
  BY <1>1, <1>2, FoldIs
<1>6. i <= E(k)
  <2>1. CASE k = K
    BY <1>1, <1>2, <2>1, FoldIs
  <2>2. CASE k # K
    <3>1. k + 1 \in 1 .. K /\ ~(k + 1 <= k)
      BY <1>5, <2>2
    <3>2. k + 1 \notin T
      BY <1>4, <3>1
    <3>3. ~(S(k + 1) <= i)
      BY <3>1, <3>2
    <3>4. S(k + 1) = ((k + 1) - 1) * q + 1 /\ E(k) = k * q
      <4>1. PICK l \in 1 .. K : l = k + 1
        BY <3>1
      <4>2. FoldStart(days, l) = (l - 1) * q + 1
        BY <1>1, <1>2, FoldIs
      <4>3. FoldEnd(days, k) = k * q
        <5>1. k \in 1 .. KFolds /\ k # KFolds
          BY <1>1, <1>5, <2>2
        <5> HIDE DEF T, S, E
        <5> QED BY <1>2, <5>1, FoldIs
      <4> QED BY <4>1, <4>2, <4>3
    <3>5. (k + 1) - 1 = k /\ k \in Nat
      OBVIOUS
    <3>6. PICK x \in Nat : x = k * q
      BY <3>5
    <3> HIDE DEF S, E, T
    <3>7. S(k + 1) = x + 1 /\ E(k) = x
      BY <3>4, <3>5, <3>6
    <3> QED BY <3>3, <3>7
  <2> QED BY <2>1, <2>2
<1>7. E(k) \in 0 .. N
  BY <1>1, <1>2, <1>5, FoldIs
<1> HIDE DEF S, E, T
<1>8. i \in S(k) .. E(k)
  BY <1>5, <1>6, <1>7
<1> QED BY <1>1, <1>5, <1>8 DEF S, E

(* gauntlet.py: of the days of any events, each is tested in one fold and  *)
(* in no other, and a fold selects its exit on days that are further from  *)
(* those it tests than the embargo, for any number of folds and any        *)
(* embargo.                                                                *)
THEOREM FoldsAreApart ==
  ASSUME NEW T, NEW events \in Seq(T), \A i \in DOMAIN events : events[i].day \in Int,
         NEW days, days = Days(events)
  PROVE  /\ \A d \in DaysOf(events) : \E k \in 1 .. KFolds : d \in OosDays(days, k)
         /\ \A j \in 1 .. KFolds, k \in 1 .. KFolds :
              j # k => OosDays(days, j) \cap OosDays(days, k) = {}
         /\ \A k \in 1 .. KFolds, m \in DOMAIN days, n \in DOMAIN days :
              days[m] \in OosDays(days, k) /\ days[n] \in IsDays(days, k)
                => m - n > EmbargoDays \/ n - m > EmbargoDays
<1>1. PICK N \in Nat : N = Len(days) /\ DOMAIN days = 1 .. N
  BY DaysAre
<1>2. ToSet(days) = DaysOf(events) /\ \A i, j \in 1 .. N : i < j => days[i] < days[j]
  BY <1>1, DaysAre
<1>3. \A i \in 1 .. N : days[i] \in Int
  <2>1. \A d \in DaysOf(events) : d \in Int
    BY DEF DaysOf
  <2>2. \A i \in 1 .. N : days[i] \in ToSet(days)
    BY <1>1 DEF ToSet
  <2> QED BY <1>2, <2>1, <2>2
<1>4. ASSUME NEW i \in 1 .. N, NEW j \in 1 .. N, days[i] = days[j] PROVE i = j
  <2>1. ~(days[i] < days[j]) /\ ~(days[j] < days[i])
    BY <1>3, <1>4
  <2>2. ~(i < j) /\ ~(j < i)
    BY <1>2, <2>1
  <2> QED BY <2>2
<1>5. ASSUME NEW k \in 1 .. KFolds
      PROVE  /\ FoldStart(days, k) \in Nat \ {0} /\ FoldEnd(days, k) \in 0 .. N
             /\ FoldStart(days, k) .. FoldEnd(days, k) \subseteq 1 .. N
  <2>1. FoldStart(days, k) \in Nat \ {0} /\ FoldEnd(days, k) \in 0 .. N
    BY <1>1, FoldIs
  <2> QED BY <2>1
<1>6. ASSUME NEW k \in 1 .. KFolds, NEW m \in 1 .. N
      PROVE  days[m] \in OosDays(days, k) <=> m \in FoldStart(days, k) .. FoldEnd(days, k)
  <2>1. ASSUME NEW i \in FoldStart(days, k) .. FoldEnd(days, k), days[i] = days[m]
        PROVE  m \in FoldStart(days, k) .. FoldEnd(days, k)
    <3>1. i \in 1 .. N
      BY <1>5
    <3> QED BY <1>4, <2>1, <3>1
  <2> QED BY <2>1 DEF OosDays
<1>7. ASSUME NEW d \in DaysOf(events) PROVE \E k \in 1 .. KFolds : d \in OosDays(days, k)
  <2>1. PICK m \in 1 .. N : d = days[m]
    BY <1>1, <1>2 DEF ToSet
  <2> QED BY <1>1, <1>6, <2>1, EachDayIsTested
<1>8. ASSUME NEW j \in 1 .. KFolds, NEW k \in 1 .. KFolds, j < k,
             NEW d, d \in OosDays(days, j), d \in OosDays(days, k)
      PROVE  FALSE
  <2>1. PICK m \in FoldStart(days, j) .. FoldEnd(days, j) : d = days[m]
    BY <1>8 DEF OosDays
  <2>2. m \in 1 .. N /\ m \in FoldStart(days, k) .. FoldEnd(days, k)
    <3>1. m \in 1 .. N
      BY <1>5
    <3> QED BY <1>6, <1>8, <2>1, <3>1
  <2>3. FoldEnd(days, j) < FoldStart(days, k)
    BY <1>1, <1>8, FoldsFollow
  <2>4. PICK x \in Int, y \in Int : x = FoldEnd(days, j) /\ y = FoldStart(days, k)
    BY <1>5
  <2>5. m <= x /\ y <= m /\ m \in Int
    BY <2>1, <2>2, <2>4
  <2> QED BY <2>3, <2>4, <2>5
<1>9. ASSUME NEW j \in 1 .. KFolds, NEW k \in 1 .. KFolds, j # k
      PROVE  OosDays(days, j) \cap OosDays(days, k) = {}
  <2>1. j < k \/ k < j
    <3>1. KFolds \in Nat
      BY SearchAssumption
    <3>2. j \in Int /\ k \in Int
      BY <3>1
    <3> QED BY <1>9, <3>2
  <2> QED BY <1>8, <2>1
<1>10. ASSUME NEW k \in 1 .. KFolds, NEW m \in 1 .. N, NEW n \in 1 .. N,
              days[m] \in OosDays(days, k), days[n] \in IsDays(days, k)
       PROVE  m - n > EmbargoDays \/ n - m > EmbargoDays
  <2>1. PICK s \in Nat \ {0}, e \in 0 .. N, w \in Nat :
          s = FoldStart(days, k) /\ e = FoldEnd(days, k) /\ w = EmbargoDays
    BY <1>5, SearchAssumption
  <2>2. m \in s .. e /\ n \notin s .. e
    <3>1. m \in s .. e
      BY <1>6, <1>10, <2>1
    <3>2. days[n] \notin OosDays(days, k)
      BY <1>10 DEF IsDays
    <3> QED BY <1>6, <2>1, <3>1, <3>2
  <2>3. PICK u \in Int, v \in Int, one \in Int : u = s - w /\ v = e + w /\ one = 1
    OBVIOUS
  <2>4. PICK a \in Int, z \in Int :
          /\ a = Max({1, s - w}) /\ z = Min({N, e + w})
          /\ a = 1 \/ a = u
          /\ z = N \/ z = v
    <3>1. Max({one, u}) \in {one, u} /\ Max({one, u}) \in Int
      BY GreaterIs
    <3>2. N \in Int
      OBVIOUS
    <3>3. Min({N, v}) \in {N, v} /\ Min({N, v}) \in Int
      BY <3>2, LesserIs
    <3> QED BY <2>3, <3>1, <3>3
  <2>5. n \notin (a .. s - 1) /\ n \notin (e + 1 .. z)
    <3>1. days[n] \notin Embargo(days, k)
      BY <1>10 DEF IsDays
    <3> QED BY <1>1, <2>1, <2>4, <3>1 DEF Embargo
  <2>6. CASE n < s
    <3>1. n < a
      BY <2>5, <2>6
    <3>2. a = u
      BY <2>4, <3>1
    <3> QED BY <2>1, <2>2, <2>3, <3>1, <3>2
  <2>7. CASE ~(n < s)
    <3>1. n > e
      BY <2>2, <2>7
    <3>2. n > z
      BY <2>5, <3>1
    <3>3. z = v
      BY <2>4, <3>2
    <3> QED BY <2>1, <2>2, <2>3, <3>2, <3>3
  <2> QED BY <2>6, <2>7
<1> QED BY <1>1, <1>7, <1>9, <1>10

=============================================================================
