------------------------------ MODULE Universe ------------------------------
(***************************************************************************)
(* The names that a backtest day trades: backtest/providers.py             *)
(* PolygonHistory.candidates, as a function of the daily bars of a market. *)
(* market[d][s] is the bar [o, h, l, c, v] of a symbol on the d-th day of  *)
(* the window, with the hour, from that day's open, of its latest news, or *)
(* NoBar; symbols are numbers, in the order of the vendor's answer.  The   *)
(* code's averages reach back before the window; here a market starts as   *)
(* early as they do.  A response is taken for what the vendor has: that a  *)
(* request can fail is in History.                                         *)
(***************************************************************************)
EXTENDS Integers, Sequences, FiniteSets, FiniteSetsExt, SequencesExt

CONSTANTS
  MinPrice, MaxPrice,    \* the price band of the open
  MinGap,                \* min_gap_pct
  MaxCandidates,         \* max_candidates_per_day
  Superset,              \* _ACTIVE_SUPERSET
  MinRvol,               \* min_rvol_universe
  AvgMin, AvgSpan,       \* sessions an average needs, and takes
  NewsSpan,              \* hours before the open whose news counts
  FirstMinute, LastMinute  \* minutes of the day that a replay is given

UniverseAssumption ==
  /\ {MaxCandidates, Superset, AvgMin, AvgSpan} \subseteq Nat \ {0}
  /\ AvgMin <= AvgSpan
  /\ {MinPrice, MaxPrice, MinGap, MinRvol, NewsSpan} \subseteq Nat
  /\ {FirstMinute, LastMinute} \subseteq Nat

NoBar == [o |-> 0, h |-> 0, l |-> 0, c |-> 0, v |-> 0, news |-> 0]

Traded(market, d) == {s \in DOMAIN market[d] : market[d][s] # NoBar}

(* The n first by a key, the largest first, equals in the order they come. *)
Top(key, n) ==
  {s \in DOMAIN key : Cardinality({x \in DOMAIN key :
     key[x] > key[s] \/ (key[x] = key[s] /\ x < s)}) < n}

(* The trailing average volume: of the last AvgSpan sessions before the    *)
(* day, or the day before's volume when there are fewer than AvgMin.       *)
(* Mutant: the day itself is one of the sessions before it.                *)
AvgWithToday(market, s, d) ==
  LET prior == {e \in DOMAIN market : e <= d /\ s \in Traded(market, e)}
  IN IF Cardinality(prior) >= AvgMin
     THEN SumFunction([e \in prior |-> market[e][s].v])
            \div Cardinality(prior)
     ELSE Max({1, market[d - 1][s].v})

AvgVol20d(market, s, d) ==
  LET prior == {e \in DOMAIN market : e < d /\ s \in Traded(market, e)}
      span  == {e \in prior :
                  Cardinality({x \in prior : x > e}) < AvgSpan}
  IN IF Cardinality(prior) >= AvgMin
     THEN SumFunction([e \in span |-> market[e][s].v])
            \div Cardinality(span)
     ELSE Max({1, market[d - 1][s].v})

(* The names with a bar on the day and the day before, in the price band.  *)
Rows(market, d) ==
  {s \in Traded(market, d) \cap Traded(market, d - 1) :
     market[d - 1][s].c > 0 /\ market[d][s].o \in MinPrice .. MaxPrice}

(* A ratio in millionths, fine enough to order what the checks compare.    *)
Gap(market, s, d) ==
  (1000000 * (market[d][s].o - market[d - 1][s].c)) \div market[d - 1][s].c

Gappers(market, d) ==
  LET gappers == {s \in Rows(market, d) : Gap(market, s, d) >= 10000 * MinGap}
  IN Top([s \in gappers |-> Gap(market, s, d)], MaxCandidates)

(* The widest by volume and by range, and the most active of them.  For a  *)
(* low that is missing the open stands in, for a volume 1.                 *)
ActiveUniverse(market, d) ==
  LET rows  == Rows(market, d)
      volume(s) == Max({1, market[d][s].v})
      low(s)    == IF market[d][s].l = 0 THEN market[d][s].o ELSE market[d][s].l
      range(s)  == IF low(s) > 0
                   THEN (1000000 * (market[d][s].h - low(s))) \div low(s)
                   ELSE 0
      rvol(s) == IF AvgVol20d(market, s, d) > 0
                 THEN (1000000 * volume(s)) \div AvgVol20d(market, s, d)
                 ELSE 0
      wide  == Top([s \in rows |-> volume(s)], Superset)
                 \cup Top([s \in rows |-> range(s)], Superset)
      active == {s \in wide : rvol(s) >= 1000000 * MinRvol}
  IN Top([s \in active |-> rvol(s)], MaxCandidates)

(* Published in the hours before the open, and not after it.               *)
PremarketNews(bar) == bar.news \in -NewsSpan .. 0

(* What a day's candidates carry into the backtest.  The first day of the  *)
(* window has no day before it, and no candidates.                         *)
Candidates(market, d, mode) ==
  IF d = 1 THEN {}
  ELSE {[symbol |-> s, prevClose |-> market[d - 1][s].c,
         dayOpen |-> market[d][s].o, avg |-> AvgVol20d(market, s, d),
         news |-> PremarketNews(market[d][s])] :
          s \in IF mode = "active" THEN ActiveUniverse(market, d)
                ELSE Gappers(market, d)}

(* Two markets that are the same to whoever stands at the open of a day,   *)
(* or at its end.                                                          *)
SameAtOpen(market, other, d) ==
  /\ \A e \in 1 .. d - 1 : market[e] = other[e]
  /\ DOMAIN market[d] = DOMAIN other[d]
  /\ \A s \in DOMAIN market[d] :
       /\ market[d][s] = NoBar <=> other[d][s] = NoBar
       /\ market[d][s].o = other[d][s].o
       /\ PremarketNews(market[d][s]) = PremarketNews(other[d][s])

SameAtClose(market, other, d) ==
  \A e \in 1 .. d : market[e] = other[e]

-----------------------------------------------------------------------------
(* The minutes of a replay, from the vendor's bars [tod, c, v, vw]: those  *)
(* of the morning, with the volume so far and its average price, or the    *)
(* close as long as nothing traded, in thousandths.                        *)
Minutes(raw) ==
  LET kept   == SelectSeq(raw, LAMBDA b : b.tod \in FirstMinute .. LastMinute)
      sum(f(_), k) == MapThenSumSet(LAMBDA i : f(kept[i]), 1 .. k)
      cum(k) == sum(LAMBDA b : b.v, k)
      pv(k)  == sum(LAMBDA b : b.vw * b.v, k)
  IN [k \in DOMAIN kept |->
        [t |-> kept[k].tod - kept[1].tod, tod |-> kept[k].tod,
         cumVolume |-> cum(k),
         vwap |-> IF cum(k) > 0 THEN (1000 * pv(k)) \div cum(k)
                  ELSE 1000 * kept[k].c]]

=============================================================================
