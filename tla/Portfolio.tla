----------------------------- MODULE Portfolio ------------------------------
(***************************************************************************)
(* The account simulation: run_combo of edge/combo.py, of which            *)
(* run_simulation of edge/portfolio.py is the case of one long leg.        *)
(*                                                                         *)
(* The trades that the legs of a day propose come with their exits, in the *)
(* order of their entries.  The simulation walks them once: what has       *)
(* exited by now is booked, then the breaker, the concurrency cap, the     *)
(* risk engine and the cash cap decide on the next one.  The properties    *)
(* say the same of the finished list of trades, with no walk at all.       *)
(***************************************************************************)
EXTENDS RiskRules, Sequences, SequencesExt

CONSTANTS
  Long, Short,     \* the legs of each style
  Entries,         \* entry prices
  StopPct,         \* distances of the stop, in percent
  Moves,           \* the result of a trade, in percent of its entry
  Volumes,         \* the day's volume at an entry
  Tods,            \* minutes of a day
  Equity,          \* account_equity
  MaxConcurrent,   \* max_concurrent
  MaxGrossPct,     \* max_gross_pct
  CommissionMin,
  CommissionPerShare,
  DaysPerMonth,    \* days of a month
  MaxPots,         \* bound: proposed trades
  MaxDay           \* bound: days, from 0

Legs == Long \cup Short

ASSUME PortfolioAssumption ==
  /\ Entries \subseteq Nat \ {0} /\ Volumes \subseteq Nat
  /\ StopPct \subseteq 1 .. 100 /\ Moves \subseteq Int /\ Tods \subseteq Nat
  /\ {Equity, MaxConcurrent, MaxGrossPct, CommissionMin, CommissionPerShare,
      MaxPots, MaxDay} \subseteq Nat
  /\ DaysPerMonth \in Nat \ {0}
  /\ Long \cap Short = {} /\ IsFiniteSet(Legs)

VARIABLES
  compound,   \* RiskConfig.compound
  day, now,   \* the day and the entry minute of the last proposed trade
  equity,
  live,       \* RiskEngine.live_equity
  realized,   \* RiskEngine.realized_pnl_today
  trades,     \* the trades taken
  open,       \* open_pos: positions in trades
  curve,      \* the bookings behind the equity curve: positions in trades
  legPnl,     \* leg_pnl
  pots        \* history: trades proposed

bookVars == <<equity, live, realized, open, curve, legPnl>>
vars == <<compound, day, now, bookVars, trades, pots>>

Init ==
  /\ compound \in BOOLEAN
  /\ day = 0 /\ now = 0
  /\ equity = Equity
  /\ live = Equity
  /\ realized = 0
  /\ trades = <<>>
  /\ open = {}
  /\ curve = <<>>
  /\ legPnl = [g \in Legs |-> 0]
  /\ pots = 0

-----------------------------------------------------------------------------
Commission(n) == 2 * Max({CommissionMin, n * CommissionPerShare})

Pnl(S)      == SumFunction([i \in S |-> trades[i].pnl])
Notional(S) == SumFunction([i \in S |-> trades[i].notional])

(* Mutant: an exit in the minute of the entry is not over yet.             *)
DueStrictly(tod) == {i \in open : trades[i].exitTod < tod}

(* _book_due: the open positions whose exit is over at a minute.           *)
Due(tod) == {i \in open : trades[i].exitTod <= tod}

(* In the order of their exits; the sort is stable.                        *)
Sooner(i, j) ==
  \/ trades[i].exitTod < trades[j].exitTod
  \/ trades[i].exitTod = trades[j].exitTod /\ i < j

ByExit(S) ==
  CHOOSE q \in SetToSeqs(S) : \A j, k \in DOMAIN q : j < k => Sooner(q[j], q[k])

(* Mutant: the risk engine follows the equity always.                      *)
BookedLive(S) ==
  [equity   |-> equity + Pnl(S),
   live     |-> IF S # {} THEN equity + Pnl(S) ELSE live,
   realized |-> realized + Pnl(S)]

(* record_fill and mark_equity for each of them.                           *)
Booked(S) ==
  [equity   |-> equity + Pnl(S),
   live     |-> IF compound /\ S # {} THEN equity + Pnl(S) ELSE live,
   realized |-> realized + Pnl(S)]

Book(S, today) ==
  /\ equity' = Booked(S).equity
  /\ live' = Booked(S).live
  /\ realized' = today
  /\ curve' = curve \o ByExit(S)
  /\ legPnl' = [g \in Legs |-> legPnl[g] + Pnl({i \in S : trades[i].leg = g})]

(* A proposed trade: entered at now, to exit later the same day.           *)
Pot == [leg : Legs, tod : Tods, exitTod : Tods, entry : Entries,
        stopPct : StopPct, movePct : Moves, volume : Volumes]

Side(p) == IF p.leg \in Short THEN "short" ELSE "long"

StopOf(p) == IF p.leg \in Short THEN (p.entry * (100 + p.stopPct)) \div 100
             ELSE (p.entry * (100 - p.stopPct)) \div 100

(* The shares the plan gives once what is over is booked.                  *)
PlanOf(p, b) == Plan(Side(p), p.entry, StopOf(p), p.volume, b.live, b.realized)

(* Mutant: the cash cap is not looked at.                                  *)
FitsTheCap(p, qty, S, b) == Cardinality(open \ S) < MaxConcurrent

(* The caps on the positions still open and on their notional.             *)
Fits(p, qty, S, b) ==
  /\ Cardinality(open \ S) < MaxConcurrent
  /\ 100 * (Notional(open \ S) + qty * p.entry) <= b.equity * MaxGrossPct

(* The P&L of a trade; a short one profits from a fall.                    *)
Result(p, qty) ==
  (IF p.leg \in Short THEN -1 ELSE 1) * qty * ((p.entry * p.movePct) \div 100)
    - Commission(qty)

(* One turn of the walk.                                                   *)
Propose(p) ==
  LET due == Due(p.tod)
      b   == Booked(due)
      qty == PlanOf(p, b)
  IN /\ pots < MaxPots
     /\ p.tod >= now /\ p.exitTod > p.tod
     /\ now' = p.tod
     /\ pots' = pots + 1
     /\ Book(due, b.realized)
     /\ \/ /\ qty > 0 /\ Fits(p, qty, due, b)
           /\ trades' = Append(trades,
                [leg |-> p.leg, day |-> day, tod |-> p.tod,
                 exitTod |-> p.exitTod, notional |-> qty * p.entry,
                 pnl |-> Result(p, qty)])
           /\ open' = (open \ due) \cup {Len(trades')}
        \/ /\ qty <= 0 \/ ~Fits(p, qty, due, b)
           /\ trades' = trades
           /\ open' = open \ due
     /\ UNCHANGED <<compound, day>>

(* The end of the day: what is still open is booked, and the next day      *)
(* starts with a fresh breaker.                                            *)
EndOfDay ==
  /\ day <= MaxDay
  /\ Book(open, 0)
  /\ open' = {}
  /\ day' = day + 1
  /\ now' = 0
  /\ UNCHANGED <<compound, trades, pots>>

Next ==
  \/ day <= MaxDay /\ \E p \in Pot : Propose(p)
  \/ EndOfDay

Spec == Init /\ [][Next]_vars

-----------------------------------------------------------------------------
(* The reports on a finished run.  Trades are reported in the order of     *)
(* their entries, the curve in that of their exits.                        *)

EquityCurve ==
  [k \in 0 .. Len(curve) |-> Equity + Pnl({curve[j] : j \in 1 .. k})]

Month(d) == d \div DaysPerMonth

(* The months with a trade, in order: their trades' P&L, and its running   *)
(* sum.                                                                    *)
Monthly ==
  LET of(m)  == {i \in DOMAIN trades : Month(trades[i].day) = m}
      months == CHOOSE q \in SetToSeqs({Month(trades[i].day) : i \in DOMAIN trades}) :
                  \A j, k \in DOMAIN q : j < k => q[j] < q[k]
  IN [k \in DOMAIN months |->
        [pnl |-> Pnl(of(months[k])),
         cum |-> Pnl(UNION {of(months[j]) : j \in 1 .. k})]]

(* The pass of compute_metrics over the curve: the highest so far, and the *)
(* deepest fall from the highest before it.                                *)
Walk[k \in 0 .. Len(curve)] ==
  IF k = 0 THEN [peak |-> EquityCurve[0], drawdown |-> 0]
  ELSE LET peak == Max({Walk[k - 1].peak, EquityCurve[k]})
       IN [peak |-> peak, drawdown |-> Max({Walk[k - 1].drawdown, peak - EquityCurve[k]})]

(* compute_metrics, ratios apart.                                          *)
Metrics ==
  LET wins == {i \in DOMAIN trades : trades[i].pnl > 0}
  IN [wins |-> Cardinality(wins), profit |-> Pnl(wins),
      loss |-> Pnl(wins) - Pnl(DOMAIN trades), total |-> Pnl(DOMAIN trades),
      drawdown |-> Walk[Len(curve)].drawdown]

-----------------------------------------------------------------------------
(* Properties.                                                             *)

TypeOK ==
  /\ compound \in BOOLEAN
  /\ day \in 0 .. MaxDay + 1 /\ now \in Tods \cup {0}
  /\ equity \in Int /\ live \in Int /\ realized \in Int
  /\ open \subseteq DOMAIN trades /\ Cardinality(open) <= MaxConcurrent
  /\ \A i \in DOMAIN trades : trades[i].notional > 0
  /\ curve \in Seq(DOMAIN trades)
  /\ legPnl \in [Legs -> Int]
  /\ pots \in 0 .. MaxPots

(* A fall of the curve from one booking to a later one, and none deeper.   *)
Deepest(d) ==
  LET n == Len(curve)
      fall(j, k) == EquityCurve[j] - EquityCurve[k]
  IN /\ \A j, k \in 0 .. n : j <= k => fall(j, k) <= d
     /\ \E j, k \in 0 .. n : j <= k /\ fall(j, k) = d

(* Every trade is booked exactly once or still open, the equity and the    *)
(* legs' attributions are what the booked trades made, and only with       *)
(* compounding does the risk engine see it.  The curve is one of an        *)
(* account: no booking is followed by that of an earlier exit.  When a day *)
(* is over the reports say the same of it, though some follow the entries  *)
(* and some the exits, and the drawdown is the deepest of all falls.       *)
Accounts ==
  LET booked == DOMAIN trades \ open
  IN /\ TypeOK
     /\ ToSet(curve) = booked /\ Len(curve) = Cardinality(booked)
     /\ equity = Equity + Pnl(booked)
     /\ equity = Equity + SumFunction(legPnl)
     /\ live = IF compound THEN equity ELSE Equity
     /\ \A j, k \in DOMAIN curve :
          LET a == trades[curve[j]]
              b == trades[curve[k]]
          IN j < k => \/ a.day < b.day
                      \/ a.day = b.day /\ a.exitTod <= b.exitTod
     /\ open = {} /\ trades # <<>> =>
          /\ Metrics.total = equity - Equity
          /\ Monthly[Len(Monthly)].cum = equity - Equity
          /\ Deepest(Metrics.drawdown)

(* What an account would have held and made at the entry of trade i.       *)
HeldAt(i) == {j \in DOMAIN trades :
                /\ j < i
                /\ trades[j].day = trades[i].day
                /\ trades[j].exitTod > trades[i].tod}

MadeToday(i) == Pnl({j \in DOMAIN trades :
                       /\ trades[j].day = trades[i].day
                       /\ trades[j].exitTod <= trades[i].tod})

MadeBefore(i) == Pnl({j \in DOMAIN trades : trades[j].day < trades[i].day})

EquityAt(i) == Equity + MadeBefore(i) + MadeToday(i)

(* portfolio.py: the account respects the cash and the slots that it has   *)
(* at each entry: never more than max_concurrent positions at once, never  *)
(* more than its equity in them.                                           *)
WithinMeans ==
  \A i \in DOMAIN trades :
    /\ Cardinality(HeldAt(i)) < MaxConcurrent
    /\ 100 * Notional(HeldAt(i) \cup {i}) <= EquityAt(i) * MaxGrossPct

(* portfolio.py: it honours the daily-loss breaker: no trade is entered at *)
(* a minute at which the day's closed trades have lost the limit.          *)
HonoursBreaker ==
  \A i \in DOMAIN trades :
    ~LossLimitHit(IF compound THEN EquityAt(i) ELSE Equity, MadeToday(i))

=============================================================================
