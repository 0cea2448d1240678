------------------------------ MODULE Research ------------------------------
(***************************************************************************)
(* What the pure parts of the research promise, over every input of a      *)
(* bounded size.  An input is built one element at a time: the events of   *)
(* a search, the days of a walk-forward, the bars of a session, the days   *)
(* of a market, the tickers of a poll.  A step of this specification is    *)
(* no step of the program: it makes the next input that is looked at.      *)
(***************************************************************************)
EXTENDS Search, Scanner, TLC

CONSTANTS
  Depth,            \* the longest input of each study
  MarketOpen, PremarketRange, OpeningRange, PremarketCutoff,
  IntradayCutoff, MaxHold, FadeBase, FadeMove, FadeExt,
  MinPrice, MaxPrice, MinGap, MaxCandidates, Superset, MinRvol,
  AvgMin, AvgSpan, NewsSpan, FirstMinute, LastMinute

Short  == INSTANCE Fade
Market == INSTANCE Universe

ASSUME ResearchAssumption ==
  /\ Short!FadeAssumption /\ Market!UniverseAssumption
  /\ \A s \in DOMAIN Depth : Depth[s] \in Nat

VARIABLES study, input

vars == <<study, input>>

Studies == DOMAIN Depth

-----------------------------------------------------------------------------
(* The elements of the inputs.                                             *)

Exits == <<"trail", "target">>

(* Features at the bounds of the filters, and one of them beyond, by less  *)
(* than rounding takes back or by more.                                    *)
Features ==
  LET at == [ext |-> 6, rvol |-> 6, move |-> 6]
  IN {at} \cup {[at EXCEPT !.ext = x] : x \in {7, 8}}
          \cup {[at EXCEPT !.rvol = x] : x \in {5, 7}} \cup {[at EXCEPT !.move = 5]}

SearchResults ==
  {[day |-> 1, r |-> [trail |-> -3, target |-> 1]],
   [day |-> 1, r |-> [trail |-> 2, target |-> 1]],
   [day |-> 2, r |-> [trail |-> 2, target |-> 1]],
   [day |-> 2, r |-> [trail |-> 5, target |-> -4]]}

SearchEvents == {features @@ result : features \in Features, result \in SearchResults}

(* An event of the walk-forward: whether it is the first of its day, and   *)
(* what it makes under each exit.                                          *)
DayResults ==
  [opens : BOOLEAN,
   r : {[trail |-> -2, target |-> 3], [trail |-> 3, target |-> -2],
        [trail |-> 1, target |-> 1]}]

Thousand(o, h, l, c, vwap) ==
  [o |-> 1000 * o, h |-> 1000 * h, l |-> 1000 * l, c |-> 1000 * c,
   vwap |-> 1000 * vwap, weak |-> c < vwap]

FadeBars == {Thousand(20, 22, 20, 21, 20), Thousand(24, 25, 23, 23, 20),
             Thousand(23, 24, 18, 19, 20), Thousand(23, 26, 21, 24, 20),
             Thousand(19, 20, 17, 18, 19)}

DailyBars == {Market!NoBar,
              [o |-> 10, h |-> 12, l |-> 9, c |-> 10, v |-> 2, news |-> 3],
              [o |-> 12, h |-> 12, l |-> 10, c |-> 11, v |-> 6, news |-> -30],
              [o |-> 13, h |-> 18, l |-> 0, c |-> 13, v |-> 3, news |-> -5]}

RawMinutes == [c : {3}, v : {0, 1, 2}, vw : {2, 5}]

Tickers ==
  [last : {8, 11, 12, 15}, prev : {0, 8}, vwap : {0, 11}, volume : {9},
   avg : {0, 1}, float : {0, 10, 30}, news : BOOLEAN, halted : {FALSE}]

(* A poll some time after the one before it, or on the next day.           *)
Polls == [wait : {1, 2}, next : BOOLEAN, news : {"", "up", "down"},
          avg : {0, 5}, float : {4}]

Pairs == [x : {1, 2, 3}, r : {-3, 2, 5}]

Alphabet ==
  [search |-> SearchEvents, folds |-> DayResults, fade |-> FadeBars,
   universe |-> {<<a, b>> : a \in DailyBars,
                             b \in {x \in DailyBars : x.o # 13}},
   minutes |-> RawMinutes, scan |-> Tickers, polls |-> Polls,
   screen |-> Pairs]

Abs(n) == IF n < 0 THEN -n ELSE n

Init == study \in Studies /\ input = <<>>

Extend(x) ==
  /\ Len(input) < Depth[study]
  /\ study = "folds" /\ input = <<>> => x.opens
  /\ input' = Append(input, x)
  /\ UNCHANGED study

Next == \E x \in Alphabet[study] : Extend(x)

Spec == Init /\ [][Next]_vars

-----------------------------------------------------------------------------
(* The filters of the tools: the bounds are on the grid of the cache.      *)
Filters == [maxExt : {6, NoCap}, rvolMin : {0, 6}, rvolMax : {6, NoCap},
            minMove : {0, 6}]

(* The filter as a rule of the rule runner.                                *)
AsRule(f) ==
  [combine |-> "AND",
   conditions |-> {[feature |-> "ext", op |-> "<=", value |-> f.maxExt],
                   [feature |-> "rvol", op |-> ">=", value |-> f.rvolMin],
                   [feature |-> "rvol", op |-> "<=", value |-> f.rvolMax],
                   [feature |-> "move", op |-> ">=", value |-> f.minMove]}]

(* What the filter lets through once the features have been rounded: what  *)
(* is beyond a bound by no more than half a unit as well.                  *)
Widened(f) ==
  LET half == Grain \div 2
  IN [maxExt |-> f.maxExt + half, rvolMin |-> f.rvolMin - half,
      rvolMax |-> f.rvolMax + half, minMove |-> f.minMove - half]

(* The filter that takes every event.                                      *)
NoFilter == [maxExt |-> NoCap, rvolMin |-> 0, rvolMax |-> NoCap, minMove |-> 0]

(* Too few trades: their number, and no score.                             *)
Blank(score) == score.wins = 0 /\ score.gain = 0 /\ score.daily = {}

ScoresAgree ==
  \A f \in Filters, p \in ToSet(Exits) :
    LET o == EvalConfig(input, f, p)
        r == RunRuleset(input, AsRule(f), p)
        t == EvaluateCache(BuildCache(input), f, p)
        w == RunRuleset(input, AsRule(Widened(f)), p)
    IN /\ r.n = o.n
       /\ r = o \/ (o.n < OptimizerMin /\ Blank(o))
       /\ t.n = w.n
       /\ w.n >= RunnerMin =>
            Abs((t.gain - t.loss) - (w.gain - w.loss)) <= w.n * (Grain \div 2)

(* A result of zero is the worst to the gauntlet and no worse than zero to *)
(* the exit lab, so that they agree where there is none.                   *)
TablesAgree ==
  LET table == RunExitLab(input, Exits)
      zero  == \E k \in DOMAIN table : table[k].gain = table[k].loss
  IN /\ \A k \in DOMAIN table :
          LET o == EvalConfig(input, NoFilter, table[k].policy)
          IN Len(input) >= OptimizerMin =>
               /\ table[k].n = o.n /\ table[k].wins = o.wins
               /\ table[k].gain = o.gain /\ table[k].loss = o.loss
     /\ zero \/ ExitMetrics(input, Candidate(input, Exits)).expectancy
                  = table[1].expectancy

(* The bins hold every pair once, as evenly as they can, and in order; the *)
(* ranks keep the order of the values and have the sum of 1 .. n.          *)
BinsPartition ==
  LET bins  == Deciles(input)
      xs    == [i \in DOMAIN input |-> input[i].x]
      ranks == AvgRanks(xs)
      total(f(_), S) == MapThenSumSet(f, S)
  IN /\ total(LAMBDA b : bins[b].n, DOMAIN bins) = Len(input)
     /\ total(LAMBDA b : bins[b].sum, DOMAIN bins) = SumOf(input)
     /\ \A a, b \in DOMAIN bins : /\ Abs(bins[a].n - bins[b].n) <= 1
                                  /\ a < b => bins[a].hi <= bins[b].lo
     /\ total(LAMBDA i : ranks[i], DOMAIN xs) = Len(xs) * (Len(xs) + 1)
     /\ \A i, j \in DOMAIN xs : xs[i] < xs[j] <=> ranks[i] < ranks[j]

(* optimize.py has every evaluator score through one function: the rule    *)
(* runner takes the very trades of the optimizer, and gives their score or *)
(* one where the optimizer, which asks for more of them, gives none; the   *)
(* tuner on its cache takes those that the rule runner takes when each     *)
(* bound is half a unit wider, and has their result to half a unit each.   *)
(* exits.py's table has the optimizer's numbers, where it has any, and the *)
(* exit on top of it is the one the gauntlet is given.                     *)
(* screen.py's bins and ranks account for every event once.                *)
ToolsAgree ==
  /\ study = "search" => ScoresAgree /\ TablesAgree
  /\ study = "screen" /\ input # <<>> => BinsPartition

(* The events of a walk-forward.                                           *)
FoldEvents ==
  [i \in DOMAIN input |->
     [day |-> 1 + Cardinality({j \in 2 .. i : input[j].opens}),
      r |-> input[i].r]]

(* gauntlet.py: the exit that a fold tests was selected without its test   *)
(* days and the embargo on either side of them: whatever their results had *)
(* been, it would have been the same; and no day is tested twice.  And     *)
(* what no selection helped decides: an exit that survives made money on   *)
(* the last days and, selected without them, in some fold.                 *)
SelectionIsBlind ==
  study = "folds" =>
    LET events == FoldEvents
        folds  == WalkForward(events, Exits)
        days   == Days(events)
        hidden(row) == {days[i] : i \in {j \in DOMAIN days :
                          \E k \in DOMAIN days :
                            days[k] \in row.days /\ Abs(j - k) <= EmbargoDays}}
        altered(row, best) ==
          [i \in DOMAIN events |->
             IF events[i].day \notin hidden(row) THEN events[i]
             ELSE [events[i] EXCEPT !.r =
                     [p \in ToSet(Exits) |-> IF p = best THEN 9 ELSE -9]]]
    IN \A row \in folds :
         /\ \A best \in ToSet(Exits) :
              Select(altered(row, best), Exits, row.fold) = {row.selected}
         /\ \A other \in folds :
              other # row => row.days \cap other.days = {}
       /\ \A p \in ToSet(Exits) :
            Verdict(Checks(events, Exits, p, "pass", "pass")) = "SURVIVES" =>
              /\ \E e \in ToSet(events) :
                   e.day \in Holdout(days) /\ e.r[p] > 0
              /\ \E won \in folds, e \in ToSet(events) :
                   e.day \in won.days /\ e.r[won.selected] > 0

(* The bars of a session that starts at the open or just before it.        *)
SessionBars(start) ==
  [i \in DOMAIN input |-> input[i] @@ [tod |-> start + i - 1]]

NoTrail == [target |-> 2, trail |-> "none", param |-> 0, vwap |-> FALSE]

TightTrail == [NoTrail EXCEPT !.trail = "pct", !.param = 10]

Mirrorable == {NoTrail, [NoTrail EXCEPT !.target = 0, !.vwap = TRUE],
               [NoTrail EXCEPT !.trail = "atr", !.param = 2],
               [NoTrail EXCEPT !.target = 0, !.trail = "structure", !.param = 2]}

(* exits.py, screen.py: the short exit mirrors the long one, its stop      *)
(* never moves up, not even by a percentage trail, which has no mirror,    *)
(* and the screen's outcome is the exit lab's of a fixed target.           *)
ExitsAgree ==
  study = "fade" /\ Len(input) > 1 =>
    \A bars \in {SessionBars(MarketOpen)} :
    \A short \in {[at |-> 1, entry |-> bars[1].c, stop |-> bars[1].c + 2000,
                   fwd |-> 2 .. Len(bars)]} :
    \A long \in {[short EXCEPT !.stop = bars[1].c - 2000]} :
      /\ \A p \in Mirrorable : Short!ExitMirrors(short, bars, p)
      /\ \A p \in Mirrorable \cup {TightTrail} : Short!StopFalls(short, bars, p)
      /\ Short!OutcomeIsExit(long, bars, 2)

(* combo.py: a fade is found by what is known at its bar.                  *)
FadeIsKnown ==
  \A start \in {MarketOpen - 1, MarketOpen}, n \in DOMAIN input :
    Short!FoundByThen(SessionBars(start), n, IntradayCutoff)

(* providers.py: the gappers of a day, with what the backtest is told of   *)
(* them, are known at its open: neither what trades that day nor any later *)
(* day changes them; of the most active names, which are chosen at the     *)
(* day's end, nothing after that does.                                     *)
UniverseIsKnown ==
  \A d \in DOMAIN input :
    LET past == SubSeq(input, 1, d)
        otherwise(b) ==
          IF b = Market!NoBar THEN b
          ELSE [o |-> b.o, h |-> 90, l |-> 1, c |-> 50, v |-> 70,
                news |-> IF Market!PremarketNews(b) THEN b.news ELSE 5]
        turned == [past EXCEPT ![d] = [s \in {1, 2} |-> otherwise(past[d][s])]]
    IN /\ Market!Candidates(input, d, "gap") = Market!Candidates(turned, d, "gap")
       /\ Market!Candidates(input, d, "active")
            = Market!Candidates(past, d, "active")

(* providers.py: what a replay is given of a minute is fixed once it is    *)
(* over, and its average price is one at which something has traded.       *)
MinutesAreKnown ==
  LET raw  == [i \in DOMAIN input |-> input[i] @@ [tod |-> i]]
      all  == Market!Minutes(raw)
      paid(m) == {1000 * b.vw : b \in {x \in ToSet(raw) :
                    x.v > 0 /\ x.tod \in FirstMinute .. m.tod}}
  IN /\ \A n \in DOMAIN input : IsPrefix(Market!Minutes(SubSeq(raw, 1, n)), all)
     /\ \A m \in ToSet(all) :
          m.cumVolume > 0 => m.vwap \in Min(paid(m)) .. Max(paid(m))

(* What the research decides at a point of time depends on nothing later.  *)
KnownByThen ==
  /\ study = "fade" => FadeIsKnown
  /\ study = "universe" => UniverseIsKnown
  /\ study = "minutes" => MinutesAreKnown

(* The polls of the day, with the times they are made at.                  *)
TimedPolls ==
  LET upTo(i) == SubSeq(input, 1, i)
  IN [i \in DOMAIN input |->
        [day |-> 1 + Len(SelectSeq(upTo(i), LAMBDA p : p.next)),
         at |-> FoldSeq(LAMBDA p, t : p.wait + t, 0, upTo(i)),
         news |-> input[i].news, avg |-> input[i].avg, float |-> input[i].float]]

(* What is shown of a symbol is what the vendor said of it the same day:   *)
(* its headline less than a Ttl ago, and the rest at its first poll.       *)
ShownIsFresh ==
  LET polls == TimedPolls
      seen  == Seen(polls)
      n     == Len(polls)
      today == {k \in DOMAIN polls : polls[k].day = polls[n].day}
  IN /\ \E k \in today : /\ seen.news = polls[k].news
                         /\ polls[n].at - polls[k].at < Ttl
     /\ seen.avg = polls[Min(today)].avg

(* polygon.py, scanner.py: dropping tickers before they are enriched, and  *)
(* enriching only so many, loses no signal but where a larger gap took its *)
(* place; and no signal that is blocked comes before one that can be acted *)
(* on.  Nothing that the enrichment remembers outlives its day or its Ttl. *)
PollMissesNothing ==
  /\ study = "polls" /\ input # <<>> => ShownIsFresh
  /\ study = "scan" =>
    LET polled == Poll(input)
        shown  == Scan(polled)
        all    == Scan(input)
        known  == ToSet(all)
    IN /\ ToSet(shown) \subseteq known
       /\ \A t \in known \ ToSet(shown) :
            /\ Len(polled) = MaxEnrich
            /\ \A k \in DOMAIN polled : GapPct(polled[k]) >= GapPct(t)
       /\ \A j, k \in DOMAIN all :
            j < k => ~(Blocking(all[j]) /\ ~Blocking(all[k]))

=============================================================================
