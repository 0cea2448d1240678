----------------------------- MODULE PaperDesk ------------------------------
(***************************************************************************)
(* The practice desk: paper.py on the simulated broker (broker/sim.py),    *)
(* sized by the risk engine, as scans and requests of the cockpit drive it *)
(* (scan_once, trade_open and trade_close of server.py).                   *)
(*                                                                         *)
(* Each of these handlers is atomic once its poll has answered.  Polls run *)
(* in threads and may answer in any order, so the prices a handler brings  *)
(* are any prices: newer or older than those of the last scan.             *)
(***************************************************************************)
EXTENDS RiskRules, FiniteSets

CONSTANTS
  Symbols,
  Prices,         \* what the feed may show: multiples of 100
  Volumes,        \* the day's volume in a snapshot
  Equity,         \* account_equity
  TargetR,        \* target_r
  TrailPct,       \* trail_pct
  CommissionMin,
  CommissionPerShare,
  MaxTrades       \* bound: positions opened

ASSUME DeskAssumption ==
  /\ Prices \subseteq Nat \ {0} /\ Volumes \subseteq Nat
  /\ {Equity, TargetR, CommissionMin, CommissionPerShare, MaxTrades}
       \subseteq Nat
  /\ TrailPct \in 0 .. 100
  /\ IsFiniteSet(Symbols)

VARIABLES
  lastPrice,   \* ScannerService.last_price, 0 for none
  open,        \* PaperDesk.open
  banked,      \* the P&L of PaperDesk.closed
  realized,    \* RiskEngine.realized_pnl_today
  shares, avg, \* SimBroker._pos
  brokerPnl,   \* SimBroker.realized_pnl
  fees,        \* history: commissions of closed trades
  opened,      \* history: positions opened
  gapped       \* history: a close by hand lost more than the stop allows

deskVars   == <<open, banked, realized>>
brokerVars == <<shares, avg, brokerPnl>>
vars == <<lastPrice, deskVars, brokerVars, fees, opened, gapped>>

Flat == [qty |-> 0]

Open == {s \in Symbols : open[s] # Flat}

Commission(n) == Max({CommissionMin, n * CommissionPerShare})

(* What a position may lose by its plan: its initial risk and the fees.    *)
Planned(pos) == pos.qty * (pos.entry - pos.initStop) + 2 * Commission(pos.qty)

Init ==
  /\ lastPrice = [s \in Symbols |-> 0]
  /\ open = [s \in Symbols |-> Flat]
  /\ banked = 0 /\ realized = 0
  /\ shares = [s \in Symbols |-> 0]
  /\ avg = [s \in Symbols |-> 0]
  /\ brokerPnl = 0
  /\ fees = 0
  /\ opened = 0
  /\ gapped = FALSE

-----------------------------------------------------------------------------
(* SimBroker: a limit order fills at its limit.  Adding blends the average *)
(* price, reducing realizes against it, and what is left of an order that  *)
(* goes through zero opens at its price.                                   *)
Adds(s, signed) == shares[s] = 0 \/ (shares[s] > 0 <=> signed > 0)

NewAvg(s, signed, price) ==
  LET qty == shares[s] + signed
  IN IF qty = 0 THEN 0
     ELSE IF Adds(s, signed) THEN (avg[s] * shares[s] + price * signed) \div qty
     ELSE IF qty > 0 <=> shares[s] > 0 THEN avg[s]
     ELSE price

Gain(s, signed, price) ==
  IF Adds(s, signed) THEN 0
  ELSE (price - avg[s]) * (IF shares[s] > 0 THEN Min({-signed, shares[s]})
                           ELSE -Min({signed, -shares[s]}))

(* The orders of one handler, at most one for a symbol: signed quantities, *)
(* 0 for none, at these prices.                                            *)
PlaceOrders(signed, price) ==
  /\ shares' = [s \in Symbols |-> shares[s] + signed[s]]
  /\ avg' = [s \in Symbols |-> IF signed[s] = 0 THEN avg[s]
                               ELSE NewAvg(s, signed[s], price[s])]
  /\ brokerPnl' = brokerPnl
       + SumFunction([s \in {r \in Symbols : signed[r] # 0} |->
                        Gain(s, signed[s], price[s])])

-----------------------------------------------------------------------------
(* Mutant: the broker is told of one exit of a tick only.                  *)
CloseTellsOnce(S, price, book) ==
  LET fee == [s \in S |-> 2 * Commission(open[s].qty)]
      pnl == [s \in S |-> (price[s] - open[s].entry) * open[s].qty - fee[s]]
      told == IF S = {} THEN {} ELSE {CHOOSE s \in S : TRUE}
  IN /\ open' = [s \in Symbols |-> IF s \in S THEN Flat ELSE book[s]]
     /\ banked' = banked + SumFunction(pnl)
     /\ realized' = realized + SumFunction(pnl)
     /\ fees' = fees + SumFunction(fee)
     /\ PlaceOrders([s \in Symbols |-> IF s \in told THEN -open[s].qty ELSE 0],
                    price)

(* close_position for a set of symbols, each at its price; book is what    *)
(* the other positions become.                                             *)
Close(S, price, book) ==
  LET fee == [s \in S |-> 2 * Commission(open[s].qty)]
      pnl == [s \in S |-> (price[s] - open[s].entry) * open[s].qty - fee[s]]
  IN /\ open' = [s \in Symbols |-> IF s \in S THEN Flat ELSE book[s]]
     /\ banked' = banked + SumFunction(pnl)
     /\ realized' = realized + SumFunction(pnl)
     /\ fees' = fees + SumFunction(fee)
     /\ PlaceOrders([s \in Symbols |-> IF s \in S THEN -open[s].qty ELSE 0],
                    price)

(* update, for one position at a price: the high-water mark and the stop   *)
(* move up.                                                                *)
Trail(pos, price) ==
  LET water == Max({pos.highWater, price})
      trail == (water * (100 - TrailPct)) \div 100
  IN [pos EXCEPT !.highWater = water, !.stop = Max({@, trail})]

(* The price of the exit: at the stop, or else at the target.              *)
ExitPrice(pos, price) == IF price <= pos.stop THEN pos.stop ELSE pos.target

(* scan_once: a poll lists some symbols with their prices, and every open  *)
(* position with a price, listed or not, is trailed and perhaps closed.    *)
Scan ==
  \E shown \in [Symbols -> Prices \cup {0}] :
    LET last    == [s \in Symbols |->
                      IF shown[s] = 0 THEN lastPrice[s] ELSE shown[s]]
        trailed == [s \in Symbols |->
                      IF open[s] = Flat \/ last[s] = 0 THEN open[s]
                      ELSE Trail(open[s], last[s])]
        exits   == {s \in Open : /\ last[s] # 0
                                 /\ \/ last[s] <= trailed[s].stop
                                    \/ last[s] >= trailed[s].target}
    IN /\ lastPrice' = last
       /\ Close(exits, [s \in Symbols |-> IF s \in exits
                                          THEN ExitPrice(trailed[s], last[s])
                                          ELSE 0], trailed)
       /\ UNCHANGED <<opened, gapped>>

(* open_position: one position a symbol, sized by the risk plan, which has *)
(* to leave at least one share.                                            *)
OpenPosition(s, price, stop, volume) ==
  LET qty == Plan("long", price, stop, volume, Equity, realized)
  IN /\ s \notin Open
     /\ qty > 0
     /\ open' = [open EXCEPT ![s] =
          [qty |-> qty, entry |-> price, stop |-> stop, initStop |-> stop,
           target |-> price + TargetR * (price - stop), highWater |-> price]]
     /\ PlaceOrders([r \in Symbols |-> IF r = s THEN qty ELSE 0],
                    [r \in Symbols |-> price])

StopFor(price) == (price * 95) \div 100

(* trade_open: the request's own poll gives the entry and the volume; the  *)
(* last scan's price is not touched.                                       *)
Buy(s) ==
  /\ opened < MaxTrades
  /\ \E price \in Prices, volume \in Volumes :
       OpenPosition(s, price, StopFor(price), volume)
  /\ opened' = opened + 1
  /\ UNCHANGED <<lastPrice, banked, realized, fees, gapped>>

(* trade_close: by hand, at the price of the last scan that showed it.     *)
Sell(s) ==
  /\ s \in Open
  /\ lastPrice[s] # 0
  /\ Close({s}, lastPrice, open)
  /\ gapped' = (gapped \/ lastPrice[s] < open[s].initStop)
  /\ UNCHANGED <<lastPrice, opened>>

Next == Scan \/ \E s \in Symbols : Buy(s) \/ Sell(s)

Spec == Init /\ [][Next]_vars

-----------------------------------------------------------------------------
(* Properties.                                                             *)

TypeOK ==
  /\ lastPrice \in [Symbols -> Prices \cup {0}]
  /\ \A s \in Open :
       /\ open[s].qty \in Nat \ {0}
       /\ open[s].initStop < open[s].entry /\ open[s].entry <= open[s].target
       /\ open[s].initStop <= open[s].stop
       /\ open[s].entry <= open[s].highWater
  /\ banked \in Int /\ realized \in Int /\ brokerPnl \in Int /\ fees \in Nat
  /\ shares \in [Symbols -> Int] /\ avg \in [Symbols -> Nat]
  /\ opened \in 0 .. MaxTrades /\ gapped \in BOOLEAN

(* The desk ignores what the broker answers and keeps a book of its own:   *)
(* the two always agree, on what is held, on what it cost and on what was  *)
(* made, over any sequence of scans and requests.                          *)
BooksAgree ==
  /\ TypeOK
  /\ \A s \in Symbols : /\ shares[s] = open[s].qty
                        /\ s \in Open => avg[s] = open[s].entry
  /\ banked = brokerPnl - fees
  /\ realized = banked

(* What could still be lost if every stop were hit.                        *)
WorstCase == realized - SumFunction([s \in Open |-> Planned(open[s])])

(* risk.py and paper.py together: however trades follow each other, the    *)
(* desk never stands to lose more than the daily limit and one planned     *)
(* trade for each symbol, because every entry is sized from its stop while *)
(* the limit is not hit and every exit of the desk is at the stop or       *)
(* better.  Only a close by hand below the stop breaks it.                 *)
LossIsBounded ==
  LET perTrade == (Equity * RiskPct) \div 100
                    + 2 * Commission((Equity * PositionPct) \div 100)
  IN gapped \/ WorstCase >= -((Equity * LossPct) \div 100)
                              - Cardinality(Symbols) * perTrade

=============================================================================
