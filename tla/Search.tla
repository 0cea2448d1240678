------------------------------- MODULE Search -------------------------------
(***************************************************************************)
(* The three tools that score a choice of filters and an exit on the same  *)
(* entry events: the optimizer's grid (edge/optimize.py eval_config), the  *)
(* rule runner (edge/rules.py) and the interactive tuner on its rounded    *)
(* cache (evaluate_cache); the exit lab's table (edge/exits.py); the       *)
(* gauntlet of an exit (edge/gauntlet.py), on the events in the order of   *)
(* their days; and the ranks and bins of the screen (edge/screen.py).      *)
(*                                                                         *)
(* An event is [day, ext, rvol, move, r]: its features and its result in R *)
(* under every exit policy, all integers of which Grain make one unit of   *)
(* the last decimal that the cache keeps.                                  *)
(***************************************************************************)
EXTENDS Integers, Sequences, FiniteSets, FiniteSetsExt, SequencesExt

CONSTANTS
  Grain,            \* odd: no value lies in the middle of two roundings
  OptimizerMin,     \* trades below which the optimizer gives no score,
  RunnerMin,        \* the rule runner
  TunerMin,         \* and the tuner
  KFolds,           \* k_folds
  EmbargoDays,      \* embargo_days
  SelectMin,        \* in-sample trades below which an exit is not selected
  HoldoutPct,       \* holdout_frac, in percent
  DaysPerMonth,     \* days of a month
  NBins             \* n_bins

ASSUME SearchAssumption ==
  /\ {Grain, KFolds, SelectMin, DaysPerMonth, NBins} \subseteq Nat \ {0}
  /\ Grain % 2 = 1
  /\ {OptimizerMin, RunnerMin, TunerMin, EmbargoDays} \subseteq Nat
  /\ TunerMin <= RunnerMin /\ RunnerMin <= OptimizerMin
  /\ HoldoutPct \in 0 .. 100

NoCap == 1000000    \* None: a cap above every value

(* What is left of a value in the cache.                                   *)
Rounded(v) == Grain * ((v + Grain \div 2) \div Grain)

SumOf(rs) == FoldSeq(LAMBDA x, sum : x.r + sum, 0, rs)

(* A mean to the last decimal that is kept of it.                          *)
RoundedMean(sum, n) ==
  IF n = 0 THEN 0 ELSE Grain * ((2 * sum + n * Grain) \div (2 * n * Grain))

(* The metrics are functions of these: the trades, the wins, what they     *)
(* gained and what the others lost, and the results of the days.           *)
ScoreRs(rs, min) ==
  LET wins == SelectSeq(rs, LAMBDA x : x.r > 0)
      days == {rs[i].day : i \in DOMAIN rs}
  IN IF Len(rs) < min
     THEN [n |-> Len(rs), wins |-> 0, gain |-> 0, loss |-> 0, daily |-> {}]
     ELSE [n |-> Len(rs), wins |-> Len(wins), gain |-> SumOf(wins),
           loss |-> SumOf(wins) - SumOf(rs),
           daily |-> {<<d, SumOf(SelectSeq(rs, LAMBDA x : x.day = d))>> :
                        d \in days}]

Results(events, policy) ==
  [i \in DOMAIN events |-> [day |-> events[i].day, r |-> events[i].r[policy]]]

-----------------------------------------------------------------------------
(* The optimizer.  A filter is [maxExt, rvolMin, rvolMax, minMove].        *)
Matches(e, f) ==
  /\ e.ext <= f.maxExt
  /\ e.rvol >= f.rvolMin
  /\ e.rvol <= f.rvolMax
  /\ e.move >= f.minMove

EvalConfig(events, f, policy) ==
  ScoreRs(Results(SelectSeq(events, LAMBDA e : Matches(e, f)), policy),
          OptimizerMin)

(* The rule runner: the conditions [feature, op, value] are combined by    *)
(* AND or OR, and an empty rule takes every entry.                         *)
Test(c, e) ==
  CASE c.op = "<"  -> e[c.feature] < c.value
    [] c.op = "<=" -> e[c.feature] <= c.value
    [] c.op = ">"  -> e[c.feature] > c.value
    [] c.op = ">=" -> e[c.feature] >= c.value

RuleMatches(rule, e) ==
  \/ rule.conditions = {}
  \/ rule.combine = "AND" /\ \A c \in rule.conditions : Test(c, e)
  \/ rule.combine = "OR"  /\ \E c \in rule.conditions : Test(c, e)

RunRuleset(events, rule, policy) ==
  ScoreRs(Results(SelectSeq(events, LAMBDA e : RuleMatches(rule, e)), policy),
          RunnerMin)

(* The tuner: the same filter on what the cache keeps of an event, and     *)
(* nothing of an exit that the cache does not hold.                        *)
BuildCache(events) ==
  [i \in DOMAIN events |->
     [day |-> events[i].day, ext |-> Rounded(events[i].ext),
      rvol |-> Rounded(events[i].rvol), move |-> Rounded(events[i].move),
      r |-> [p \in DOMAIN events[i].r |-> Rounded(events[i].r[p])]]]

(* Mutant: the cap on the relative volume excludes the cap itself.         *)
KeepsBelowCap(e, f, policy) ==
  /\ policy \in DOMAIN e.r
  /\ e.ext <= f.maxExt /\ e.rvol >= f.rvolMin /\ e.move >= f.minMove
  /\ e.rvol < f.rvolMax

Keeps(e, f, policy) ==
  /\ policy \in DOMAIN e.r
  /\ e.ext <= f.maxExt /\ e.rvol >= f.rvolMin /\ e.move >= f.minMove
  /\ e.rvol <= f.rvolMax

EvaluateCache(cache, f, policy) ==
  ScoreRs(Results(SelectSeq(cache, LAMBDA e : Keeps(e, f, policy)), policy),
          TunerMin)

-----------------------------------------------------------------------------
(* The exit lab: a row for each exit, the best expectancy first, with the  *)
(* drawdown of the results in the order of the events.                     *)
ExitMetrics(events, policy) ==
  LET rs   == Results(events, policy)
      wins == SelectSeq(rs, LAMBDA x : x.r > 0)
      step(m, x) == LET cum  == m.cum + x.r
                        peak == Max({m.peak, cum})
                    IN [cum |-> cum, peak |-> peak,
                        drawdown |-> Max({m.drawdown, peak - cum})]
      walk == FoldLeft(step, [cum |-> 0, peak |-> 0, drawdown |-> 0], rs)
  IN [policy |-> policy, n |-> Len(rs),
      expectancy |-> RoundedMean(SumOf(rs), Len(rs)),
      wins |-> Len(wins), gain |-> SumOf(wins),
      loss |-> SumOf(wins) - SumOf(rs), drawdown |-> walk.drawdown]

RunExitLab(events, policies) ==
  LET row(j) == ExitMetrics(events, policies[j])
      order  == SetToSortSeq(DOMAIN policies, LAMBDA i, j :
                  \/ row(i).expectancy > row(j).expectancy
                  \/ row(i).expectancy = row(j).expectancy /\ i < j)
  IN [k \in DOMAIN order |-> row(order[k])]

-----------------------------------------------------------------------------
(* The gauntlet.  The exit put to it, if none is named: the one with the   *)
(* best mean, the first of equals; a mean of exactly 0 is taken for none,  *)
(* and comes last.                                                         *)
Candidate(events, policies) ==
  LET sum(j) == SumOf(Results(events, policies[j]))
      value(j) == IF sum(j) = 0 THEN -NoCap ELSE sum(j)
  IN policies[Min({j \in DOMAIN policies :
       \A i \in DOMAIN policies : value(i) <= value(j)})]

(* The walk-forward.  The days are those with a trade, in order; a fold k  *)
(* is tested on its share of them, the last one also on the remainder, and *)
(* selects on the others but the embargo on either side.                   *)
Days(events) ==
  LET days == {events[i].day : i \in DOMAIN events}
  IN [n \in 1 .. Cardinality(days) |->
        CHOOSE d \in days : Cardinality({c \in days : c < d}) = n - 1]

FoldStart(days, k) == (k - 1) * (Len(days) \div KFolds) + 1
FoldEnd(days, k) == IF k = KFolds THEN Len(days)
                  ELSE k * (Len(days) \div KFolds)

OosDays(days, k) == {days[i] : i \in FoldStart(days, k) .. FoldEnd(days, k)}

(* Mutant: no embargo after the fold.                                      *)
EmbargoBefore(days, k) ==
  {days[i] : i \in Max({1, FoldStart(days, k) - EmbargoDays})
                     .. FoldStart(days, k) - 1}

Embargo(days, k) ==
  {days[i] : i \in (Max({1, FoldStart(days, k) - EmbargoDays})
                      .. FoldStart(days, k) - 1)
                   \cup (FoldEnd(days, k) + 1
                           .. Min({Len(days), FoldEnd(days, k) + EmbargoDays}))}

IsDays(days, k) == ToSet(days) \ (OosDays(days, k) \cup Embargo(days, k))

On(events, days, policy) ==
  Results(SelectSeq(events, LAMBDA e : e.day \in days), policy)

(* The exit with the best mean in-sample, the first of equals.  An event   *)
(* has a result under every exit, so that the sums can be compared.        *)
Select(events, policies, k) ==
  LET is == IsDays(Days(events), k)
      sum(j) == SumOf(On(events, is, policies[j]))
      best == {j \in DOMAIN policies : \A i \in DOMAIN policies :
                 sum(i) < sum(j) \/ (sum(i) = sum(j) /\ j <= i)}
  IN IF Len(SelectSeq(events, LAMBDA e : e.day \in is)) < SelectMin THEN {}
     ELSE {policies[j] : j \in best}

(* The folds that have a selection, with what it made out of sample.       *)
WalkForward(events, policies) ==
  LET days == Days(events)
      row(k, p) == LET oos == On(events, OosDays(days, k), p)
                   IN [fold |-> k, selected |-> p, days |-> OosDays(days, k),
                       exp |-> RoundedMean(SumOf(oos), Len(oos))]
  IN IF Len(days) < 2 * KFolds THEN {}
     ELSE UNION {{row(k, p) : p \in Select(events, policies, k)} :
                   k \in 1 .. KFolds}

MeanOn(events, days, policy) ==
  LET rs == On(events, days, policy) IN RoundedMean(SumOf(rs), Len(rs))

(* The last days are held out.                                             *)
Holdout(days) ==
  {days[i] : i \in (Len(days) * (100 - HoldoutPct)) \div 100 + 1 .. Len(days)}

(* The months with trades, and those of them with a gain.                  *)
Month(d) == d \div DaysPerMonth
Regime(events, policy) ==
  LET days   == ToSet(Days(events))
      months == {Month(d) : d \in days}
  IN [all |-> months,
      positive |-> {m \in months :
                      MeanOn(events, {d \in days : Month(d) = m}, policy) > 0}]

(* The five checks; those of the bootstrap and the deflated Sharpe, which  *)
(* are statistics of random draws and real numbers, are given.             *)
Checks(events, policies, policy, bootstrap, sharpe) ==
  LET folds == WalkForward(events, policies)
      oos   == MapThenSumSet(LAMBDA row : row.exp, folds)
      wins  == {row \in folds : row.exp > 0}
      months == Regime(events, policy)
      share(pct) == 100 * Cardinality(months.positive)
                      >= pct * Cardinality(months.all)
      held  == MeanOn(events, Holdout(Days(events)), policy)
  IN <<bootstrap, sharpe,
       IF RoundedMean(oos, Cardinality(folds)) <= 0 THEN "fail"
       ELSE IF Cardinality(wins) >= Max({1, Cardinality(folds) - 1}) THEN "pass"
       ELSE "caution",
       IF months.all # {} /\ share(70) THEN "pass"
       ELSE IF months.all # {} /\ share(55) THEN "caution" ELSE "fail",
       IF held > 0 THEN "pass" ELSE "fail">>

Verdict(checks) ==
  LET count(status) == Len(SelectSeq(checks, LAMBDA s : s = status))
  IN IF count("fail") = 0 /\ count("caution") <= 1 THEN "SURVIVES"
     ELSE IF count("fail") <= 1 THEN "FRAGILE" ELSE "REJECTED"

-----------------------------------------------------------------------------
(* The screen: twice the rank of each value, ties sharing the average of   *)
(* theirs, and the bins of pairs [x, r], sorted by x.                      *)
AvgRanks(xs) ==
  [i \in DOMAIN xs |->
     2 * Cardinality({j \in DOMAIN xs : xs[j] < xs[i]})
       + Cardinality({j \in DOMAIN xs : xs[j] = xs[i]}) + 1]

Deciles(pairs) ==
  LET order  == SetToSortSeq(DOMAIN pairs, LAMBDA i, j :
                  \/ pairs[i].x < pairs[j].x
                  \/ pairs[i].x = pairs[j].x /\ i < j)
      n      == Len(pairs)
      bins   == IF n < NBins THEN Max({1, n \div 2}) ELSE NBins
      bin(b) == {order[k] : k \in ((b - 1) * n) \div bins + 1
                                    .. (b * n) \div bins}
  IN [b \in 1 .. bins |->
        [lo |-> Min({pairs[i].x : i \in bin(b)}),
         hi |-> Max({pairs[i].x : i \in bin(b)}), n |-> Cardinality(bin(b)),
         sum |-> MapThenSumSet(LAMBDA i : pairs[i].r, bin(b))]]

=============================================================================
