----------------------------- MODULE TradeRules -----------------------------
(***************************************************************************)
(* The entry and exit rules that the backtest and the live engine share:   *)
(* edge/screen.py _find_event and edge/exits.py simulate_exit_detail, as   *)
(* functions of a day's minute bars.                                       *)
(*                                                                         *)
(* A bar is [h, l, c, tod, weak]: high, low, close, minute of day, and     *)
(* whether it closed below VWAP.  Bars come in the order of their minutes. *)
(* Prices are integers in a unit small enough for the percentages; a fill  *)
(* is given by its level, before slippage.                                 *)
(***************************************************************************)
EXTENDS Integers, Sequences, FiniteSets, FiniteSetsExt

CONSTANTS
  MarketOpen,        \* MARKET_OPEN_TOD
  PremarketRange,    \* premarket_or_minutes
  OpeningRange,      \* opening_range_minutes
  PremarketCutoff,   \* entry_cutoff_tod
  IntradayCutoff,    \* intraday_entry_cutoff_tod
  MaxHold            \* max_hold_minutes

ASSUME RulesAssumption ==
  /\ {MarketOpen, PremarketCutoff, IntradayCutoff, MaxHold} \subseteq Nat
  /\ {PremarketRange, OpeningRange} \subseteq Nat \ {0}

Sessions == {"premarket", "regular", "intraday"}

(* A price less so many tenths of a percent.                               *)
Below(price, permille) == (price \div 1000) * (1000 - permille)

Abs(n) == IF n < 0 THEN -n ELSE n

NoEvent == [at |-> 0]

(* The n first of a set of bar positions.                                  *)
FirstOf(S, n) == {k \in S : Cardinality({j \in S : j < k}) < n}

High(bars, S) == Max({bars[k].h : k \in S})
Low(bars, S)  == Min({bars[k].l : k \in S})

(* Mutant: the stop goes under the latest bar.                             *)
StopUnderLatest(bars, at, entry, low, fwd) ==
  [at |-> at, entry |-> entry, stop |-> Below(bars[Len(bars)].l, 3),
   fwd |-> fwd]

Event(bars, at, entry, low, fwd) ==
  [at |-> at, entry |-> entry, stop |-> Below(low, 3), fwd |-> fwd]

(* The first bar after the premarket range that touches its high, before   *)
(* the cutoff; one more bar than the range must have been seen.            *)
PremarketEvent(bars) ==
  LET pm       == {k \in DOMAIN bars : bars[k].tod < MarketOpen}
      range    == FirstOf(pm, PremarketRange)
      triggers == {k \in DOMAIN bars \ range :
                     bars[k].tod < PremarketCutoff
                       /\ bars[k].h >= High(bars, range)}
  IN IF Cardinality(pm) <= PremarketRange + 1 \/ triggers = {}
     THEN NoEvent
     ELSE LET i == Min(triggers)
          IN Event(bars, i, High(bars, range), Low(bars, range),
                   {k \in DOMAIN bars :
                      k > i /\ bars[k].tod <= MarketOpen + MaxHold})

(* The same from the open, without a cutoff, holding a count of bars.      *)
RegularEvent(bars) ==
  LET reg      == {k \in DOMAIN bars : bars[k].tod >= MarketOpen}
      range    == FirstOf(reg, OpeningRange)
      triggers == {k \in reg \ range : bars[k].h >= High(bars, range)}
  IN IF Cardinality(reg) <= OpeningRange + 1 \/ triggers = {}
     THEN NoEvent
     ELSE LET i == Min(triggers)
          IN Event(bars, i, High(bars, range), Low(bars, range),
                   (i + 1 .. i + MaxHold) \cap DOMAIN bars)

(* The first bar that touches the high of the session so far; the stop is  *)
(* under the low of the bars just before it.                               *)
IntradayEvent(bars) ==
  LET reg      == {k \in DOMAIN bars : bars[k].tod >= MarketOpen}
      past(k)  == {j \in reg : j < k}
      recent(k) == {j \in reg : k - OpeningRange <= j /\ j <= k}
      triggers == {k \in reg \ FirstOf(reg, OpeningRange) :
                     bars[k].tod < IntradayCutoff
                       /\ bars[k].h >= High(bars, past(k))}
  IN IF Cardinality(reg) <= OpeningRange + 2 \/ triggers = {}
     THEN NoEvent
     ELSE LET i == Min(triggers)
          IN Event(bars, i, High(bars, past(i)), Low(bars, recent(i)),
                   {k \in reg :
                      k > i /\ bars[k].tod <= IntradayCutoff + MaxHold})

FindEvent(session, bars) ==
  CASE session = "premarket" -> PremarketEvent(bars)
    [] session = "regular"   -> RegularEvent(bars)
    [] session = "intraday"  -> IntradayEvent(bars)

-----------------------------------------------------------------------------
(* Exits.  A policy is [target, trail, param, vwap]: the target in R or 0, *)
(* the kind of trailing stop and its parameter, and the VWAP exit.         *)

(* The mean true range of the last 14 bars up to the entry; the trail uses *)
(* it only when it is positive.                                            *)
TrueRange(bars, k) ==
  Max({bars[k].h - bars[k].l, Abs(bars[k].h - bars[k - 1].c),
       Abs(bars[k].l - bars[k - 1].c)})

Atr(bars, at) ==
  LET span == (Max({1, at - 13}) + 1) .. at
  IN IF span = {} THEN 0
     ELSE SumFunction([k \in span |-> TrueRange(bars, k)])
            \div Cardinality(span)

(* Mutant: the trail follows the last bar, not the high-water mark.        *)
StopBehindLastBar(ev, bars, policy, k) ==
  LET water == IF k - 1 \in ev.fwd THEN bars[k - 1].h ELSE ev.entry
      trail == CASE policy.trail = "pct" -> Below(water, 10 * policy.param)
                 [] OTHER -> ev.stop
  IN Max({ev.stop, trail})

(* The stop in force during bar k: only bars before k move it.             *)
StopAt(ev, bars, policy, k) ==
  LET seen  == {j \in ev.fwd : j < k}
      water == Max({ev.entry} \cup {bars[j].h : j \in seen})
      window == {j \in seen : j >= k - policy.param}
      atr   == Atr(bars, ev.at)
      trail == CASE policy.trail = "pct" -> Below(water, 10 * policy.param)
                 [] policy.trail = "atr" /\ atr > 0 ->
                      water - policy.param * atr
                 [] policy.trail = "structure" /\ window # {} ->
                      Low(bars, window)
                 [] OTHER -> ev.stop
  IN Max({ev.stop, trail})

(* What ends the trade in bar k, the stop before the target, or nothing.   *)
ReasonAt(ev, bars, policy, k) ==
  LET stop    == StopAt(ev, bars, policy, k)
      target  == ev.entry + policy.target * (ev.entry - ev.stop)
  IN IF bars[k].l <= stop
     THEN IF stop = ev.stop THEN "stop" ELSE "trail"
     ELSE IF policy.target > 0 /\ bars[k].h >= target THEN "target"
     ELSE IF policy.vwap /\ bars[k].weak THEN "vwap" ELSE "none"

PriceAt(ev, bars, policy, k, reason) ==
  CASE reason \in {"stop", "trail"} -> StopAt(ev, bars, policy, k)
    [] reason = "target" -> ev.entry + policy.target * (ev.entry - ev.stop)
    [] reason \in {"vwap", "time"} -> bars[k].c

(* The first of the bars that end a trade, or the last one it may hold.    *)
FirstEnd(ends, ev) ==
  IF ends = {} THEN [at |-> Max(ev.fwd), reason |-> "time"]
  ELSE CHOOSE x \in ends : \A y \in ends : x.at <= y.at

(* The exit of a trade with bars to come: at the first bar that ends it,   *)
(* or at the close of the last one.                                        *)
SimulateExit(ev, bars, policy) ==
  LET ends == {x \in {[at |-> k, reason |-> ReasonAt(ev, bars, policy, k)] :
                        k \in ev.fwd} : x.reason # "none"}
      end  == FirstEnd(ends, ev)
  IN [at |-> end.at, reason |-> end.reason,
      price |-> PriceAt(ev, bars, policy, end.at, end.reason)]

=============================================================================
