-------------------------------- MODULE Fade --------------------------------
(***************************************************************************)
(* The short side and the yardsticks of the research: the fade trigger of  *)
(* edge/combo.py, the fade exit of edge/exits.py, which is written out a   *)
(* second time as the mirror of the long one, and the standard outcomes    *)
(* of edge/screen.py.  Bars are those of TradeRules with an open and a     *)
(* VWAP: [o, h, l, c, vwap, tod].  Fills are levels, before slippage.      *)
(***************************************************************************)
EXTENDS TradeRules

CONSTANTS
  FadeBase,         \* base: bars before a fade can be found
  FadeMove,         \* fade_min_move_pct
  FadeExt           \* fade_min_ext_pct

FadeAssumption ==
  FadeBase \in Nat \ {0} /\ {FadeMove, FadeExt} \subseteq Nat

Above(price, permille) == (price \div 1000) * (1000 + permille)

(* The first red bar of a name that has run from its open and closed far   *)
(* above VWAP; the stop is above the high of the session up to it, and an  *)
(* entry at or above the stop ends the search.                             *)
FindFadeEvent(bars, cutoff) ==
  LET reg    == {k \in DOMAIN bars : bars[k].tod >= MarketOpen}
      past(k) == {j \in reg : j <= k}
      move(k) == High(bars, past(k)) - bars[Min(reg)].o
      turns  == {k \in reg \ FirstOf(reg, FadeBase) :
                   /\ bars[k].tod < cutoff
                   /\ 100 * move(k) >= FadeMove * bars[Min(reg)].o
                   /\ 100 * (bars[k].c - bars[k].vwap)
                        >= FadeExt * bars[k].vwap
                   /\ bars[k].c < bars[k].o}
  IN IF Cardinality(reg) <= FadeBase + 2 \/ turns = {} THEN NoEvent
     ELSE LET i    == Min(turns)
              stop == Above(High(bars, past(i)), 5)
          IN IF stop <= bars[i].c THEN NoEvent
             ELSE [at |-> i, entry |-> bars[i].c, stop |-> stop,
                   fwd |-> {k \in reg :
                              k > i /\ bars[k].tod <= cutoff + MaxHold}]

-----------------------------------------------------------------------------
(* The stop in force on a short during bar k: it only moves down.          *)
FadeStopAt(ev, bars, policy, k) ==
  LET seen   == {j \in ev.fwd : j < k}
      water  == Min({ev.entry} \cup {bars[j].l : j \in seen})
      window == {j \in seen : j >= k - policy.param}
      atr    == Atr(bars, ev.at)
      trail  == CASE policy.trail = "pct" -> Above(water, 10 * policy.param)
                  [] policy.trail = "atr" /\ atr > 0 ->
                       water + policy.param * atr
                  [] policy.trail = "structure" /\ window # {} ->
                       High(bars, window)
                  [] OTHER -> ev.stop
  IN Min({ev.stop, trail})

(* Mutant: a target in a bar that also touches the stop is taken.          *)
TargetFirst(ev, bars, policy, k) ==
  IF policy.target > 0
       /\ bars[k].l <= ev.entry - policy.target * (ev.stop - ev.entry)
  THEN "target"
  ELSE IF bars[k].h >= FadeStopAt(ev, bars, policy, k) THEN "stop" ELSE "none"

FadeReasonAt(ev, bars, policy, k) ==
  LET stop    == FadeStopAt(ev, bars, policy, k)
      target  == ev.entry - policy.target * (ev.stop - ev.entry)
  IN IF bars[k].h >= stop
     THEN IF stop = ev.stop THEN "stop" ELSE "trail"
     ELSE IF policy.target > 0 /\ bars[k].l <= target THEN "target"
     ELSE IF policy.vwap /\ bars[k].vwap > 0 /\ bars[k].c > bars[k].vwap
     THEN "vwap" ELSE "none"

FadePriceAt(ev, bars, policy, k, reason) ==
  CASE reason \in {"stop", "trail"} -> FadeStopAt(ev, bars, policy, k)
    [] reason = "target" -> ev.entry - policy.target * (ev.stop - ev.entry)
    [] reason \in {"vwap", "time"} -> bars[k].c

SimulateFade(ev, bars, policy) ==
  LET ends == {x \in {[at |-> k, reason |-> FadeReasonAt(ev, bars, policy, k)] :
                        k \in ev.fwd} : x.reason # "none"}
      end  == FirstEnd(ends, ev)
  IN [at |-> end.at, reason |-> end.reason,
      price |-> FadePriceAt(ev, bars, policy, end.at, end.reason)]

-----------------------------------------------------------------------------
(* The screen's outcome: the level at which the bars after the entry meet  *)
(* the stop or else the target, the last close if neither, and how far     *)
(* they went for and against it.                                           *)
ForwardR(ev, bars, target) ==
  LET level == ev.entry + target * (ev.entry - ev.stop)
      ends  == {k \in ev.fwd : bars[k].l <= ev.stop \/ bars[k].h >= level}
  IN [exit |-> IF ends = {} THEN bars[Max(ev.fwd)].c
               ELSE IF bars[Min(ends)].l <= ev.stop THEN ev.stop ELSE level,
      mfe |-> High(bars, ev.fwd), mae |-> Low(bars, ev.fwd)]

(* The same with a stop a constant percentage below the entry.             *)
ForwardFixed(ev, bars, stopPct, target) ==
  ForwardR([ev EXCEPT !.stop = Below(ev.entry, 10 * stopPct)],
           bars, target).exit

-----------------------------------------------------------------------------
(* What they promise, of any bars.                                         *)

(* combo.py: only bars up to the reversal decide a fade's entry, once more *)
(* than two bars follow the base: later bars neither move nor remove it.   *)
FoundByThen(bars, n, cutoff) ==
  LET all  == FindFadeEvent(bars, cutoff)
      then == FindFadeEvent(SubSeq(bars, 1, n), cutoff)
      seen == {k \in 1 .. n : bars[k].tod >= MarketOpen}
  IN Cardinality(seen) > FadeBase + 2 =>
       IF all.at \in 1 .. n
       THEN then.at = all.at /\ then.entry = all.entry /\ then.stop = all.stop
       ELSE then.at = 0

(* What the short side sees of bars turned upside down at a price.         *)
Mirrored(bars, at) ==
  [k \in DOMAIN bars |->
     [h |-> 2 * at - bars[k].l, l |-> 2 * at - bars[k].h,
      c |-> 2 * at - bars[k].c, tod |-> bars[k].tod,
      weak |-> bars[k].vwap > 0 /\ bars[k].c > bars[k].vwap]]

(* exits.py: the short exit, written out a second time, is the mirror of   *)
(* the long one, bar for bar.                                              *)
ExitMirrors(ev, bars, policy) ==
  LET long == [ev EXCEPT !.stop = 2 * ev.entry - ev.stop]
      exit == SimulateExit(long, Mirrored(bars, ev.entry), policy)
  IN SimulateFade(ev, bars, policy)
       = [exit EXCEPT !.price = 2 * ev.entry - exit.price]

(* exits.py: the stop of a short never moves up while the trade is open.   *)
StopFalls(ev, bars, policy) ==
  \A j, k \in ev.fwd :
    /\ j < k
    /\ \A i \in ev.fwd :
         i < k => FadeReasonAt(ev, bars, policy, i) = "none"
    => FadeStopAt(ev, bars, policy, k) <= FadeStopAt(ev, bars, policy, j)

(* screen.py: the outcome is the exit lab's of a fixed target, and lies    *)
(* within the excursions that are given with it, save that a bar may gap   *)
(* past the stop or the target that it fills.                              *)
OutcomeIsExit(ev, bars, target) ==
  LET forward == ForwardR(ev, bars, target)
      level   == ev.entry + target * (ev.entry - ev.stop)
      fixed   == [target |-> target, trail |-> "none", param |-> 0,
                  vwap |-> FALSE]
  IN /\ forward.exit = SimulateExit(ev, bars, fixed).price
     /\ forward.exit < level => forward.mae <= forward.exit
     /\ forward.exit > ev.stop => forward.exit <= forward.mfe

=============================================================================
