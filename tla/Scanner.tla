------------------------------ MODULE Scanner ------------------------------
(***************************************************************************)
(* The live scan: adapters/polygon.py poll, which takes the tickers of the *)
(* whole market and enriches the strongest gappers, and scanner.py, which  *)
(* makes ranked signals of their snapshots.  A ticker is [last, prev,      *)
(* vwap, volume, avg, float, news, halted]: prices, the day's volume, what *)
(* the enrichment finds (the average volume and the float in millions, 0   *)
(* when not known, and whether there is news) and whether trading is       *)
(* halted, which this feed never says.  Both guards on chasing are on.     *)
(***************************************************************************)
EXTENDS Integers, Sequences, FiniteSets, FiniteSetsExt, SequencesExt

CONSTANTS
  PriceFrom, PriceTo,    \* min_price, max_price
  MaxFloat,              \* max_float_millions
  LeastRvol,             \* min_relative_volume
  LeastGap,              \* min_gap_pct
  RequireNews,           \* require_news
  MaxExtension,          \* max_extension_above_vwap_pct
  MaxEnrich,             \* max_enrich
  Ttl                    \* ttl of a headline

ASSUME ScannerAssumption ==
  /\ {MaxFloat, LeastRvol, LeastGap, MaxEnrich, Ttl} \subseteq Nat \ {0}
  /\ {PriceFrom, PriceTo, MaxExtension} \subseteq Nat
  /\ RequireNews \in BOOLEAN

(* The derived metrics, in thousandths of a percent or of a multiple.      *)
GapPct(t) == IF t.prev <= 0 THEN 0
             ELSE (100000 * (t.last - t.prev)) \div t.prev
Extension(t) == IF t.vwap <= 0 THEN 0
                ELSE (100000 * (t.last - t.vwap)) \div t.vwap
RelativeVolume(t) == IF t.avg <= 0 THEN 0 ELSE (1000 * t.volume) \div t.avg

InBand(t) == PriceFrom <= t.last /\ t.last <= PriceTo

(* Flags that block a signal; the others only inform.                      *)
Blocking(t) == t.halted \/ Extension(t) > 1000 * MaxExtension

IsSignal(t) ==
  /\ InBand(t)
  /\ RelativeVolume(t) >= 1000 * LeastRvol
  /\ GapPct(t) >= 1000 * LeastGap
  /\ RequireNews => t.news
  /\ t.float <= MaxFloat

(* Volume, gap, news and a small float, less the extension above VWAP.     *)
Score(t) ==
  LET capped(v, least) == Min({v \div least, 5000})
  IN   2 * capped(RelativeVolume(t), LeastRvol)
     + (3 * capped(GapPct(t), LeastGap)) \div 2
     + (IF t.news THEN 2000 ELSE 0)
     + (IF t.float = 0 THEN 1000
        ELSE Max({0, 2000 - (2000 * t.float) \div MaxFloat}))
     - (15 * Max({0, Extension(t)})) \div 100

(* The signals, those that can be acted on first.                          *)
Scan(tickers) ==
  LET signals == SelectSeq(tickers, IsSignal)
      before(i, j) ==
        LET a == signals[i]
            b == signals[j]
        IN \/ ~Blocking(a) /\ Blocking(b)
           \/ /\ Blocking(a) = Blocking(b)
              /\ Score(a) > Score(b) \/ (Score(a) = Score(b) /\ i < j)
      order == SetToSortSeq(DOMAIN signals, before)
  IN [k \in DOMAIN order |-> signals[order[k]]]

-----------------------------------------------------------------------------
(* A poll drops what the scan would drop for its price or its gap, and of  *)
(* the others keeps the MaxEnrich largest gaps.                            *)
(* Mutant: the cap is on the tickers as they come.                         *)
PollFirst(tickers) ==
  LET kept == SelectSeq(tickers, LAMBDA t : GapPct(t) >= 1000 * LeastGap)
  IN SubSeq(kept, 1, Min({Len(kept), MaxEnrich}))

Poll(tickers) ==
  LET survives(t) == /\ t.last > 0 /\ t.prev > 0 /\ InBand(t)
                     /\ GapPct(t) >= 1000 * LeastGap
      kept  == SelectSeq(tickers, survives)
      order == SetToSortSeq(DOMAIN kept, LAMBDA i, j :
                 \/ GapPct(kept[i]) > GapPct(kept[j])
                 \/ GapPct(kept[i]) = GapPct(kept[j]) /\ i < j)
  IN [k \in 1 .. Min({Len(kept), MaxEnrich}) |->
        [kept[order[k]] EXCEPT !.halted = FALSE]]

-----------------------------------------------------------------------------
(* What the adapter remembers of a symbol from poll to poll of a day.  A   *)
(* poll is [day, at, news, avg, float], with the answers that requests get *)
(* at that time: "" and 0 are those of a failed request too.               *)
NoCache == [day |-> 0, newsAt |-> -1, news |-> "", avg |-> -1, float |-> -1]

RollDayCache(cache, p) ==
  IF p.day = cache.day THEN cache ELSE [NoCache EXCEPT !.day = p.day]

(* A headline is asked for again when it is Ttl old.                       *)
News(cache, p) ==
  IF cache.newsAt >= 0 /\ p.at - cache.newsAt < Ttl THEN cache
  ELSE [cache EXCEPT !.newsAt = p.at, !.news = p.news]

(* The average volume and the float are asked for once a day.              *)
AvgVol(cache, p) == IF cache.avg >= 0 THEN cache ELSE [cache EXCEPT !.avg = p.avg]
SharesOutstanding(cache, p) ==
  IF cache.float >= 0 THEN cache ELSE [cache EXCEPT !.float = p.float]

Enrich(cache, p) ==
  SharesOutstanding(AvgVol(News(RollDayCache(cache, p), p), p), p)

(* What the last of the polls that a symbol was enriched in says of it.    *)
Seen(polls) == FoldLeft(Enrich, NoCache, polls)

=============================================================================
