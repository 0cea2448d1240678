----------------------------- MODULE LiveEngine -----------------------------
(***************************************************************************)
(* One symbol of the live engine over one day: live_engine.py and          *)
(* live_tracker.py.  The tracker is given the day's bars one at a time and *)
(* evaluates on each of them the functions that the backtest applies to    *)
(* the whole day (TradeRules).  dryrun_day drives the same tracker.        *)
(*                                                                         *)
(* The driver is "dryrun", which feeds it every bar of the day and closes  *)
(* it at the end (dryrun_day), or "server": registered when the symbol     *)
(* first shows up, forgotten by a restart of the process, and never        *)
(* finalized.                                                              *)
(***************************************************************************)
EXTENDS TradeRules

CONSTANTS
  Tested,     \* the sessions under test
  Policies,   \* the exit policies under test: [target, trail, param, vwap]
  Shapes,     \* the bars the market makes: [h, l, c, weak]
  StartTods,  \* for each session, minutes at which a day's first bar may be
  Gaps,       \* minutes from one bar to the next
  MaxBars,    \* bound: bars in a day, for each driver
  MaxRestart  \* bound: restarts of the process

Drivers == {"dryrun", "server"}

(* The minutes of a day.                                                   *)
Minutes == 0 .. 1439

ASSUME EngineAssumption ==
  /\ Tested \subseteq Sessions
  /\ Policies \subseteq
       [target : Nat, trail : {"none", "pct", "atr", "structure"},
        param : Nat, vwap : BOOLEAN]
  /\ \A p \in Policies : p.trail = "pct" => p.param <= 100
  /\ Shapes \subseteq [h : Int, l : Int, c : Int, weak : BOOLEAN]
  /\ StartTods \in [Sessions -> SUBSET Nat] /\ Gaps \subseteq Nat \ {0}
  /\ MaxBars \in [Drivers -> Nat] /\ MaxRestart \in Nat

VARIABLES
  driver,
  session, policy,  \* of the strategy
  dayBars,     \* the bars of the day so far
  over,        \* the session is over
  bars,        \* SymbolTracker.bars
  state,       \* none before registration, watch, holding, done
  at, entry, stop,  \* SymbolTracker.entry_idx, entry and stop
  order,       \* LiveEngine.open for the symbol: <<>> or one order
  closed,      \* LiveEngine.closed
  refused,     \* history: the risk engine refused the plan
  restarts

strategyVars == <<driver, session, policy>>
engineVars   == <<bars, state, at, entry, stop, order, closed, refused>>
vars == <<strategyVars, dayBars, over, engineVars, restarts>>

Init ==
  /\ driver \in Drivers
  /\ session \in Tested
  /\ policy \in Policies
  /\ dayBars = <<>>
  /\ over = FALSE
  /\ bars = <<>>
  /\ state = IF driver = "dryrun" THEN "watch" ELSE "none"
  /\ at = 0 /\ entry = 0 /\ stop = 0
  /\ order = <<>>
  /\ closed = <<>>
  /\ refused = FALSE
  /\ restarts = 0

-----------------------------------------------------------------------------
(* Mutant: the hold is forgotten.                                          *)
CutoffOnly ==
  CASE session = "premarket" -> MarketOpen
    [] session = "intraday"  -> IntradayCutoff
    [] session = "regular"   -> 10000

(* The minute after which no bar counts; the regular session counts bars.  *)
Deadline ==
  CASE session = "premarket" -> MarketOpen + MaxHold
    [] session = "intraday"  -> IntradayCutoff + MaxHold
    [] session = "regular"   -> 10000

(* observe: the symbol's first snapshot that passes the gate.              *)
Register ==
  /\ state = "none"
  /\ ~over
  /\ state' = "watch"
  /\ UNCHANGED <<strategyVars, dayBars, over, bars, at, entry, stop, order,
                 closed, refused, restarts>>

(* _enter: the plan of the risk engine, which may refuse it.               *)
Enter(ev, seen) ==
  /\ at' = ev.at /\ entry' = ev.entry /\ stop' = ev.stop
  /\ \E ok \in BOOLEAN :
       /\ refused' = ~ok
       /\ state' = IF ok THEN "holding" ELSE "done"
       /\ order' = IF ok THEN <<[entry |-> ev.entry, at |-> ev.at,
                                 seen |-> Len(seen)]>>
                   ELSE <<>>

(* _maybe_enter: the trigger found in the bars so far; a void stop ends    *)
(* the tracker.                                                            *)
Watch ==
  LET ev == FindEvent(session, bars')
  IN /\ state = "watch"
     /\ \/ /\ ev = NoEvent
           /\ UNCHANGED <<state, at, entry, stop, order, refused>>
        \/ /\ ev # NoEvent
           /\ IF ev.entry <= ev.stop
              THEN /\ state' = "done"
                   /\ UNCHANGED <<at, entry, stop, order, refused>>
              ELSE Enter(ev, bars')
     /\ UNCHANGED closed

(* Mutant: the exit is looked for before the bar is appended.              *)
ExitOneBarLate(seen, endOfDay) ==
  LET past == SubSeq(seen, 1, Len(seen) - 1)
      ev   == FindEvent(session, past)
  IN /\ ev # NoEvent
     /\ ev.fwd # {}
     /\ \/ SimulateExit(ev, past, policy).reason # "time"
        \/ endOfDay
        \/ seen[Len(seen)].tod > Deadline

(* The exit found in what has come since the entry; a time exit only when  *)
(* the window has closed.                                                  *)
ExitDue(seen, endOfDay) ==
  LET ev == FindEvent(session, seen)
  IN /\ ev # NoEvent
     /\ ev.fwd # {}
     /\ \/ SimulateExit(ev, seen, policy).reason # "time"
        \/ endOfDay
        \/ seen[Len(seen)].tod > Deadline

(* _exit: the open order is closed with the fill.                          *)
CloseOrder(seen) ==
  LET fill == SimulateExit(FindEvent(session, seen), seen, policy)
  IN /\ state' = "done"
     /\ order' = <<>>
     /\ closed' = Append(closed, [entry |-> order[1].entry, at |-> order[1].at,
                                  seen |-> order[1].seen, exit |-> fill,
                                  exitSeen |-> Len(seen)])
     /\ UNCHANGED <<at, entry, stop, refused>>

(* _maybe_exit on a bar.                                                   *)
Hold ==
  /\ state = "holding"
  /\ IF ExitDue(bars', FALSE)
     THEN CloseOrder(bars')
     ELSE UNCHANGED <<state, at, entry, stop, order, closed, refused>>

(* A minute of the day is over: its bar goes to the tracker, if there is   *)
(* one.                                                                    *)
Bar ==
  /\ ~over
  /\ Len(dayBars) < MaxBars[driver]
  /\ \E s \in Shapes, start \in StartTods[session], gap \in Gaps :
       LET tod == IF dayBars = <<>> THEN start
                  ELSE dayBars[Len(dayBars)].tod + gap
           bar == [h |-> s.h, l |-> s.l, c |-> s.c, weak |-> s.weak,
                   tod |-> tod]
       IN /\ tod \in Minutes
          /\ dayBars' = Append(dayBars, bar)
          /\ bars' = IF state = "none" THEN bars ELSE Append(bars, bar)
  /\ \/ Watch
     \/ Hold
     \/ /\ state \in {"none", "done"}
        /\ UNCHANGED <<state, at, entry, stop, order, closed, refused>>
  /\ UNCHANGED <<strategyVars, over, restarts>>

(* The end of the session.  dryrun_day and finalize force a time exit on   *)
(* what is still open; the server does not call them.                      *)
EndOfDay ==
  /\ ~over
  /\ over' = TRUE
  /\ IF driver = "dryrun" /\ order # <<>> /\ ExitDue(bars, TRUE)
     THEN CloseOrder(bars)
     ELSE UNCHANGED <<state, at, entry, stop, order, closed, refused>>
  /\ UNCHANGED <<strategyVars, dayBars, bars, restarts>>

(* The process restarts: the engine is built again, empty.                 *)
Restart ==
  /\ driver = "server"
  /\ ~over
  /\ restarts < MaxRestart
  /\ restarts' = restarts + 1
  /\ bars' = <<>>
  /\ state' = "none"
  /\ at' = 0 /\ entry' = 0 /\ stop' = 0
  /\ order' = <<>>
  /\ closed' = <<>>
  /\ refused' = FALSE
  /\ UNCHANGED <<strategyVars, dayBars, over>>

Next == Register \/ Bar \/ EndOfDay \/ Restart

Spec == Init /\ [][Next]_vars

-----------------------------------------------------------------------------
(* Properties.                                                             *)

BarType == [h : Int, l : Int, c : Int, weak : BOOLEAN, tod : Minutes]

TypeOK ==
  /\ driver \in Drivers
  /\ session \in Sessions /\ policy \in Policies /\ refused \in BOOLEAN
  /\ dayBars \in Seq(BarType) /\ bars \in Seq(BarType)
  /\ over \in BOOLEAN
  /\ state \in {"none", "watch", "holding", "done"}
  /\ at \in 0 .. Len(bars) /\ entry \in Int /\ stop \in Int
  /\ Len(order) <= 1 /\ Len(closed) <= 1
  /\ restarts \in 0 .. MaxRestart

(* What the backtest (run_simulation) makes of a day's bars.               *)
BatchTrades(day) ==
  LET ev == FindEvent(session, day)
  IN IF ev = NoEvent \/ ev.entry <= ev.stop \/ ev.fwd = {} \/ refused THEN <<>>
     ELSE <<[entry |-> ev.entry, at |-> ev.at,
             exit |-> SimulateExit(ev, day, policy)]>>

Streamed == [k \in DOMAIN closed |->
  [entry |-> closed[k].entry, at |-> closed[k].at, exit |-> closed[k].exit]]

(* live_tracker.py, test_live_tracker.py: a tracker given the whole day    *)
(* bar by bar makes the trade that the backtest makes of the whole day:    *)
(* neither its entry nor its exit depends on bars still to come, and none  *)
(* comes too early for having seen only a part of the window.              *)
StreamMatchesBatch ==
  driver = "dryrun" /\ over => Streamed = BatchTrades(dayBars)

(* _maybe_exit derives the entry again on every bar: it always finds the   *)
(* one the order was placed with ("shouldn't happen once holding").        *)
SteadyEntry ==
  state = "holding" =>
    LET ev == FindEvent(session, bars)
    IN ev.at = at /\ ev.entry = entry /\ ev.stop = stop

(* A stop, trail, target or VWAP exit is signalled on the bar that makes   *)
(* it, or by the first bar after the entry was signalled when that is      *)
(* later; an entry is signalled at most two bars after its trigger, and   *)
(* never a second one.                                                     *)
Prompt ==
  /\ TypeOK
  /\ \A k \in DOMAIN order : order[k].seen - order[k].at \in 0 .. 2
  /\ \A k \in DOMAIN closed :
       closed[k].exit.reason # "time" =>
         closed[k].exitSeen <= Max({closed[k].exit.at, closed[k].seen + 1})

(* exits.py: a trail ratchets the stop up.  The stop in force never moves  *)
(* down while a trade is open, whatever the kind of trail: also with the   *)
(* sliding window of the structure trail.                                  *)
StopNeverLoosens ==
  state = "holding" =>
    LET ev == FindEvent(session, bars)
    IN \A j, k \in ev.fwd :
         /\ j < k
         /\ \A i \in ev.fwd : i < k => ReasonAt(ev, bars, policy, i) = "none"
         => StopAt(ev, bars, policy, j) <= StopAt(ev, bars, policy, k)

=============================================================================
