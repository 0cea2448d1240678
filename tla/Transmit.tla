------------------------------ MODULE Transmit ------------------------------
(***************************************************************************)
(* The one place where the desk sends real orders: server.py               *)
(* _transmit_pending with the guards and sends of live_transmit.py, run by *)
(* _engine_loop, fed by the live engine (ScannerService._aggregate) and    *)
(* facing an IBKR paper account.                                           *)
(*                                                                         *)
(* The drain is one asyncio task.  Between two awaits it is atomic, so it  *)
(* has one action per await point: pc names the await it is suspended at.  *)
(* While it is suspended the broker fills, cancels and expires orders, the *)
(* scans of other coroutines (GET /api/signals) make the engine queue new  *)
(* events, and the process may die.                                        *)
(*                                                                         *)
(* Quantities: an entry and its exit carry the same share count, so one    *)
(* order is one unit.  An event is identified by the order of its creation *)
(* and a bracket's parent and stop child share the id of its entry event.  *)
(***************************************************************************)
EXTENDS Integers, Sequences, FiniteSets

CONSTANTS
  Symbols,            \* the symbols the strategy watches
  NoId,               \* None: no stop order id
  MaxId,              \* bound: events the engine creates
  MaxDay,             \* bound: sessions, numbered from 0
  MaxCrash,           \* bound: deaths of the process
  LossLimit,          \* max_daily_loss_pct of account_equity, in losing exits
  AccountConfigured,  \* cfg.ibkr.account_id is set
  GatewayFaults,      \* requests may fail, be refused or lose their reply
  JournalFaults       \* a write to the session journal may raise

Ids == 1 .. MaxId

ASSUME BoundsAssumption ==
  /\ MaxId \in Nat
  /\ MaxDay \in Nat
  /\ MaxCrash \in Nat
  /\ LossLimit \in Nat
ASSUME NoIdAssumption == NoId \notin Ids
ASSUME SwitchAssumption ==
  /\ AccountConfigured \in BOOLEAN
  /\ GatewayFaults \in BOOLEAN
  /\ JournalFaults \in BOOLEAN

Event == [id : Ids, kind : {"entry", "exit"}, sym : Symbols,
          shares : Nat, stop : Nat]

Outcome == {"none", "skip", "halt", "sent", "error"}

Phases == {"pre", "regular", "post", "night"}

PCs == {"down", "sleep", "scan", "account", "positions", "swap", "next",
        "buyResolve", "buyPlace", "sellResolve", "sellCancel", "sellPlace"}

(* What went wrong for a symbol, recorded where it happens; nothing in the *)
(* desk reads it.                                                          *)
Mishap == {"blind",             \* a position snapshot failed
           "unfilled",          \* a snapshot was taken with an entry unfilled
           "reply_lost",        \* an entry was accepted, its reply was not seen
           "phantom",           \* an error reply was taken for a placement
           "stop_missing",      \* the stop child was not accepted
           "stop_forgotten",    \* an exit gave the stop's id up for nothing
           "sold_uncancelled",  \* a SELL was accepted, no stop was cancelled
           "close_failed",      \* the stop was cancelled, the SELL was refused
           "crash_mid_exit",    \* the process died between these two
           "overnight",         \* the DAY stop expired under a position
           "entry_expired"}     \* an entry parent expired unfilled

VARIABLES
  \* ScannerService and LiveEngine
  armed, entriesHalted, pending, stopOrders, transmitted,
  engine,        \* per symbol: the tracker's state
  engineDay,     \* LiveEngine.day
  dayPnl,        \* the sum of pnl over LiveEngine.closed
  \* IBKRClient
  accountKnown,  \* client.account_id is set
  conids,        \* symbols in client._conid_cache
  \* the drain's control point and locals
  pc, queue, cur, held, inWindow, stopId,
  cancelTook,    \* the stop this exit cancelled was live: held by the broker
  raised,        \* history: an exception left _transmit_pending
  \* the account at the broker
  isPaper,       \* the account id starts with DU
  pos,           \* per symbol: shares held
  parents,       \* per symbol: entry parents not yet filled
  stops,         \* per symbol: stop children not filled, cancelled or expired
  sells,         \* per symbol: closing market orders not yet filled
  phase, day,
  \* history
  nextId, firstId, sentIds, mishap, crashes

svcVars    == <<armed, entriesHalted, pending, stopOrders, transmitted>>
engineVars == <<engine, engineDay, dayPnl>>
clientVars == <<accountKnown, conids>>
drainVars  == <<pc, queue, cur, held, inWindow, stopId, cancelTook, raised>>
brokerVars == <<isPaper, pos, parents, stops, sells>>
clockVars  == <<phase, day>>
histVars   == <<nextId, firstId, sentIds, mishap, crashes>>
vars == <<svcVars, engineVars, clientVars, drainVars, brokerVars, clockVars,
          histVars>>

NoEvent == [id |-> 0]

IdsOf(seq) == {seq[k].id : k \in 1 .. Len(seq)}

Note(s, what) == mishap' = [mishap EXCEPT ![s] = @ \cup what]

-----------------------------------------------------------------------------
(* ScannerService.__init__ and lifespan with LIVE_ENGINE_ENABLED,          *)
(* IBKR_ENABLED and LIVE_TRADING=armed; isPaper is a fact of the account.  *)
Init ==
  /\ armed = TRUE
  /\ entriesHalted = FALSE
  /\ pending = <<>>
  /\ stopOrders = [s \in Symbols |-> NoId]
  /\ transmitted = [i \in Ids |-> "none"]
  /\ engine = [s \in Symbols |-> "watch"]
  /\ engineDay = 0
  /\ dayPnl = 0
  /\ accountKnown = AccountConfigured
  /\ conids = {}
  /\ pc = "sleep"
  /\ queue = <<>>
  /\ cur = NoEvent
  /\ held = {}
  /\ inWindow = FALSE
  /\ stopId = NoId
  /\ cancelTook = FALSE
  /\ raised = FALSE
  /\ isPaper \in BOOLEAN
  /\ pos = [s \in Symbols |-> 0]
  /\ parents = [s \in Symbols |-> {}]
  /\ stops = [s \in Symbols |-> {}]
  /\ sells = [s \in Symbols |-> {}]
  /\ phase = "pre"
  /\ day = 0
  /\ nextId = 1
  /\ firstId = 1
  /\ sentIds = {}
  /\ mishap = [s \in Symbols |-> {}]
  /\ crashes = 0

-----------------------------------------------------------------------------
(* The live engine, driven by scan_once: the loop's own scan or that of    *)
(* GET /api/signals at any of the drain's awaits.                          *)

(* _aggregate on the first scan of a new day: fresh trackers, no open and  *)
(* no closed orders.  The queue, the stop ids and the breaker stay.        *)
RebuildLive ==
  /\ pc # "down"
  /\ engineDay # day
  /\ engineDay' = day
  /\ engine' = [s \in Symbols |-> "watch"]
  /\ dayPnl' = 0
  /\ UNCHANGED <<svcVars, clientVars, drainVars, brokerVars, clockVars,
                 histVars>>

(* The event a bar produces goes to the queue only when armed, and after   *)
(* the journal write, whose failure ends the scan.                         *)
Queue(kind, s) ==
  LET ev == [id |-> nextId, kind |-> kind, sym |-> s, shares |-> 1, stop |-> 1]
  IN IF armed
     THEN \/ /\ pending' = Append(pending, ev)
             /\ nextId' = nextId + 1
          \/ JournalFaults /\ UNCHANGED <<pending, nextId>>
     ELSE UNCHANGED <<pending, nextId>>

EngineEntry(s) ==
  /\ pc # "down"
  /\ engineDay = day
  /\ nextId <= MaxId
  /\ engine[s] = "watch"
  /\ engine' = [engine EXCEPT ![s] = "holding"]
  /\ Queue("entry", s)
  /\ UNCHANGED <<armed, entriesHalted, stopOrders, transmitted, engineDay,
                 dayPnl, clientVars, drainVars, brokerVars, clockVars,
                 firstId, sentIds, mishap, crashes>>

(* A void stop or a plan the risk engine rejects: the tracker is done.     *)
EngineReject(s) ==
  /\ pc # "down"
  /\ engineDay = day
  /\ engine[s] = "watch"
  /\ engine' = [engine EXCEPT ![s] = "done"]
  /\ UNCHANGED <<svcVars, engineDay, dayPnl, clientVars, drainVars,
                 brokerVars, clockVars, histVars>>

EngineExit(s) ==
  /\ pc # "down"
  /\ engineDay = day
  /\ nextId <= MaxId
  /\ engine[s] = "holding"
  /\ engine' = [engine EXCEPT ![s] = "done"]
  /\ \E pnl \in {-1, 1} : dayPnl' = dayPnl + pnl
  /\ Queue("exit", s)
  /\ UNCHANGED <<armed, entriesHalted, stopOrders, transmitted, engineDay,
                 clientVars, drainVars, brokerVars, clockVars,
                 firstId, sentIds, mishap, crashes>>

-----------------------------------------------------------------------------
(* The loop and the head of the drain.                                     *)

(* A tick inside the 04:00-20:00 window: the loop awaits its scan.         *)
TickStart ==
  /\ pc = "sleep"
  /\ phase # "night"
  /\ pc' = "scan"
  /\ UNCHANGED <<svcVars, engineVars, clientVars, queue, cur, held, inWindow,
                 stopId, cancelTook, raised, brokerVars, clockVars, histVars>>

(* The scan is done.  Not armed: the loop skips the drain.  Armed with an  *)
(* empty queue: the drain clears and returns.  Else it goes on to the      *)
(* account id, an await only while the client has none.                    *)
ScanDone ==
  /\ pc = "scan"
  /\ pc' = IF ~armed \/ pending = <<>> THEN "sleep"
           ELSE IF accountKnown THEN "positions" ELSE "account"
  /\ UNCHANGED <<svcVars, engineVars, clientVars, queue, cur, held, inWindow,
                 stopId, cancelTook, raised, brokerVars, clockVars, histVars>>

(* resolve_account_id answers, or raises: then the queue is kept.          *)
ResolveAccount ==
  /\ pc = "account"
  /\ \/ accountKnown' = TRUE /\ pc' = "positions"
     \/ /\ GatewayFaults
        /\ pc' = "sleep"
        /\ UNCHANGED accountKnown
  /\ UNCHANGED <<svcVars, engineVars, conids, queue, cur, held, inWindow,
                 stopId, cancelTook, raised, brokerVars, clockVars, histVars>>

(* GET /api/ibkr/portfolio resolves the account id of the same client.     *)
PortfolioRequest ==
  /\ pc # "down"
  /\ ~accountKnown
  /\ accountKnown' = TRUE
  /\ UNCHANGED <<svcVars, engineVars, conids, drainVars, brokerVars,
                 clockVars, histVars>>

(* Mutant: the queue is held when the snapshot fails.                      *)
HoldsWithoutSnapshot ==
  /\ pc = "positions"
  /\ \/ /\ held' = {s \in Symbols : pos[s] # 0}
        /\ pc' = "swap"
     \/ /\ GatewayFaults
        /\ pc' = "sleep"
        /\ UNCHANGED held
  /\ UNCHANGED <<svcVars, engineVars, clientVars, queue, cur, inWindow,
                 stopId, cancelTook, raised, brokerVars, clockVars, histVars>>

(* The gateway reads the account; a failure counts as "nothing held".      *)
GetPositions ==
  /\ pc = "positions"
  /\ pc' = "swap"
  /\ \/ /\ held' = {s \in Symbols : pos[s] # 0}
        /\ mishap' = [s \in Symbols |->
             mishap[s] \cup IF parents[s] # {} THEN {"unfilled"} ELSE {}]
     \/ /\ GatewayFaults
        /\ held' = {}
        /\ mishap' = [s \in Symbols |-> mishap[s] \cup {"blind"}]
  /\ UNCHANGED <<svcVars, engineVars, clientVars, queue, cur, inWindow,
                 stopId, cancelTook, raised, brokerVars, clockVars,
                 nextId, firstId, sentIds, crashes>>

(* Mutant: the queue is copied, not swapped.                               *)
CopiesQueue ==
  /\ pc = "swap"
  /\ pc' = "next"
  /\ inWindow' = (phase # "night")
  /\ queue' = pending
  /\ UNCHANGED <<svcVars, engineVars, clientVars, cur, held, stopId,
                 cancelTook, raised, brokerVars, clockVars, histVars>>

(* The answer is in: read the clock and take the whole queue.              *)
SwapQueue ==
  /\ pc = "swap"
  /\ pc' = "next"
  /\ inWindow' = (phase # "night")
  /\ queue' = pending
  /\ pending' = <<>>
  /\ UNCHANGED <<armed, entriesHalted, stopOrders, transmitted, engineVars,
                 clientVars, cur, held, stopId, cancelTook, raised,
                 brokerVars, clockVars, histVars>>

-----------------------------------------------------------------------------
(* decide: what the drain does with the event at the head of its queue.    *)

HeldAtBroker(ev) == ev.sym \in held

Halts(ev) == armed /\ ~isPaper

Sells(ev) ==
  /\ armed /\ isPaper
  /\ ev.kind = "exit"
  /\ HeldAtBroker(ev)

(* Mutants of Buys: each forgets one guard.                                *)
BuysOnAnyAccount(ev) ==
  /\ armed
  /\ ev.kind = "entry" /\ ~entriesHalted /\ inWindow /\ ~HeldAtBroker(ev)

BuysWhileHeld(ev) ==
  /\ armed /\ isPaper
  /\ ev.kind = "entry" /\ ~entriesHalted /\ inWindow

BuysWhenHalted(ev) ==
  /\ armed /\ isPaper
  /\ ev.kind = "entry" /\ inWindow /\ ~HeldAtBroker(ev)

Buys(ev) ==
  /\ armed /\ isPaper
  /\ ev.kind = "entry"
  /\ ~entriesHalted
  /\ inWindow
  /\ ~HeldAtBroker(ev)
  /\ ev.shares > 0
  /\ ev.stop # 0

Skips(ev) == ~Halts(ev) /\ ~Sells(ev) /\ ~Buys(ev)

(* An exception leaves the drain: the rest of its queue is lost with it    *)
(* and the breaker is not looked at; the loop swallows it.                 *)
Raise ==
  /\ JournalFaults
  /\ pc' = "sleep"
  /\ queue' = <<>>
  /\ cur' = NoEvent
  /\ raised' = TRUE

(* The event is recorded and the drain goes on to the next one.  When the  *)
(* journal write of a fill raises, a sent order is recorded as an error;   *)
(* when the write in the handler raises too, the drain ends.               *)
Settle(ev, outcome) ==
  \/ /\ transmitted' = [transmitted EXCEPT ![ev.id] = outcome]
     /\ pc' = "next"
     /\ cur' = NoEvent
     /\ UNCHANGED <<queue, raised>>
  \/ /\ JournalFaults /\ outcome = "sent"
     /\ transmitted' = [transmitted EXCEPT ![ev.id] = "error"]
     /\ pc' = "next"
     /\ cur' = NoEvent
     /\ UNCHANGED <<queue, raised>>
  \/ /\ Raise
     /\ transmitted' = transmitted

(* log_decision raises before anything is done with the event.             *)
TakeRaises ==
  /\ pc = "next"
  /\ queue # <<>>
  /\ Raise
  /\ UNCHANGED <<svcVars, engineVars, clientVars, held, inWindow, stopId,
                 cancelTook, brokerVars, clockVars, histVars>>

(* Mutant: the journal's word for the outcome goes into the log.           *)
LogsJournalWord ==
  /\ pc = "next"
  /\ queue # <<>>
  /\ Skips(Head(queue))
  /\ transmitted' = [transmitted EXCEPT ![Head(queue).id] = "skipped"]
  /\ queue' = Tail(queue)
  /\ UNCHANGED <<armed, entriesHalted, pending, stopOrders, engineVars,
                 clientVars, pc, cur, held, inWindow, stopId, cancelTook,
                 raised, brokerVars, clockVars, histVars>>

TakeSkip ==
  /\ pc = "next"
  /\ queue # <<>>
  /\ Skips(Head(queue))
  /\ transmitted' = [transmitted EXCEPT ![Head(queue).id] = "skip"]
  /\ queue' = Tail(queue)
  /\ UNCHANGED <<armed, entriesHalted, pending, stopOrders, engineVars,
                 clientVars, pc, cur, held, inWindow, stopId, cancelTook,
                 raised, brokerVars, clockVars, histVars>>

(* Not a paper account: disarm; the rest of the queue is dropped.          *)
TakeHalt ==
  /\ pc = "next"
  /\ queue # <<>>
  /\ Halts(Head(queue))
  /\ armed' = FALSE
  /\ transmitted' = [transmitted EXCEPT ![Head(queue).id] = "halt"]
  /\ queue' = <<>>
  /\ UNCHANGED <<entriesHalted, pending, stopOrders, engineVars, clientVars,
                 pc, cur, held, inWindow, stopId, cancelTook, raised,
                 brokerVars, clockVars, histVars>>

TakeBuy ==
  /\ pc = "next"
  /\ queue # <<>>
  /\ Buys(Head(queue))
  /\ cur' = Head(queue)
  /\ queue' = Tail(queue)
  /\ pc' = "buyResolve"
  /\ UNCHANGED <<svcVars, engineVars, clientVars, held, inWindow, stopId,
                 cancelTook, raised, brokerVars, clockVars, histVars>>

(* The stop id leaves the map before the first await of the exit.          *)
TakeSell ==
  /\ pc = "next"
  /\ queue # <<>>
  /\ Sells(Head(queue))
  /\ cur' = Head(queue)
  /\ queue' = Tail(queue)
  /\ stopId' = stopOrders[Head(queue).sym]
  /\ stopOrders' = [stopOrders EXCEPT ![Head(queue).sym] = NoId]
  /\ cancelTook' = FALSE
  /\ pc' = "sellResolve"
  /\ UNCHANGED <<armed, entriesHalted, pending, transmitted, engineVars,
                 clientVars, held, inWindow, raised, brokerVars, clockVars,
                 histVars>>

-----------------------------------------------------------------------------
(* transmit_entry.                                                         *)

(* resolve_conid: from the cache, or the gateway answers or does not.      *)
BuyResolve ==
  /\ pc = "buyResolve"
  /\ \/ /\ conids' = conids \cup {cur.sym}
        /\ pc' = "buyPlace"
        /\ UNCHANGED <<transmitted, queue, cur, raised>>
     \/ /\ GatewayFaults /\ cur.sym \notin conids
        /\ Settle(cur, "error")
        /\ UNCHANGED conids
  /\ UNCHANGED <<armed, entriesHalted, pending, stopOrders, engineVars,
                 accountKnown, held, inWindow, stopId, cancelTook, brokerVars,
                 clockVars, histVars>>

(* Mutant: the stop child is left out of the bracket.                      *)
AcceptBareEntry(child) ==
  /\ parents' = [parents EXCEPT ![cur.sym] = @ \cup {cur.id}]
  /\ sentIds' = sentIds \cup {cur.id}
  /\ UNCHANGED stops

(* The broker takes the bracket: a parent and, unless it refuses the       *)
(* child, a stop that rests once the parent is filled.                     *)
AcceptBracket(child) ==
  /\ parents' = [parents EXCEPT ![cur.sym] = @ \cup {cur.id}]
  /\ stops' = IF child THEN [stops EXCEPT ![cur.sym] = @ \cup {cur.id}]
              ELSE stops
  /\ sentIds' = sentIds \cup {cur.id}

RefuseBracket == UNCHANGED <<parents, stops, sentIds>>

(* Mutant: the stop's id is not remembered.                                *)
ForgetsStopId ==
  /\ pc = "buyPlace"
  /\ AcceptBracket(TRUE)
  /\ held' = held \cup {cur.sym}
  /\ Settle(cur, "sent")
  /\ UNCHANGED <<armed, entriesHalted, pending, stopOrders, engineVars,
                 clientVars, inWindow, stopId, cancelTook, isPaper, pos, sells,
                 clockVars, nextId, firstId, mishap, crashes>>

(* A reply with the two ids: the second one is the stop to remember.       *)
BuyPlaced ==
  /\ pc = "buyPlace"
  /\ AcceptBracket(TRUE)
  /\ stopOrders' = [stopOrders EXCEPT ![cur.sym] = cur.id]
  /\ held' = held \cup {cur.sym}
  /\ Settle(cur, "sent")
  /\ UNCHANGED <<armed, entriesHalted, pending, engineVars, clientVars,
                 inWindow, stopId, cancelTook, isPaper, pos, sells, clockVars,
                 nextId, firstId, mishap, crashes>>

(* A reply with fewer than two ids: one row for the pair, or an error      *)
(* object, which place_order_with_replies returns like a placement.        *)
BuyPlacedNoStopId ==
  /\ GatewayFaults
  /\ pc = "buyPlace"
  /\ \/ AcceptBracket(TRUE) /\ Note(cur.sym, {"reply_lost"})
     \/ AcceptBracket(FALSE) /\ Note(cur.sym, {"stop_missing"})
     \/ RefuseBracket /\ Note(cur.sym, {"phantom"})
  /\ held' = held \cup {cur.sym}
  /\ Settle(cur, "sent")
  /\ UNCHANGED <<armed, entriesHalted, pending, stopOrders, engineVars,
                 clientVars, inWindow, stopId, cancelTook, isPaper, pos, sells,
                 clockVars, nextId, firstId, crashes>>

(* The session check, the POST or a reply raises, or a warning is not on   *)
(* the allowlist: the order may have been taken all the same (a timeout).  *)
BuyFails ==
  /\ GatewayFaults
  /\ pc = "buyPlace"
  /\ \/ AcceptBracket(TRUE) /\ Note(cur.sym, {"reply_lost"})
     \/ RefuseBracket /\ UNCHANGED mishap
  /\ Settle(cur, "error")
  /\ UNCHANGED <<armed, entriesHalted, pending, stopOrders, engineVars,
                 clientVars, held, inWindow, stopId, cancelTook, isPaper, pos,
                 sells, clockVars, nextId, firstId, crashes>>

-----------------------------------------------------------------------------
(* transmit_exit.                                                          *)

SellResolve ==
  /\ pc = "sellResolve"
  /\ \/ /\ conids' = conids \cup {cur.sym}
        /\ pc' = IF stopId = NoId THEN "sellPlace" ELSE "sellCancel"
        /\ UNCHANGED <<transmitted, queue, cur, raised, mishap>>
     \/ /\ GatewayFaults /\ cur.sym \notin conids
        /\ Settle(cur, "error")
        /\ Note(cur.sym, {"stop_forgotten"})
        /\ UNCHANGED conids
  /\ UNCHANGED <<armed, entriesHalted, pending, stopOrders, engineVars,
                 accountKnown, held, inWindow, stopId, cancelTook, brokerVars,
                 clockVars, nextId, firstId, sentIds, crashes>>

(* Mutant: the whole bracket is cancelled, an unfilled parent included.    *)
CancelsBracket ==
  /\ pc = "sellCancel"
  /\ pc' = "sellPlace"
  /\ stops' = [stops EXCEPT ![cur.sym] = @ \ {stopId}]
  /\ parents' = [parents EXCEPT ![cur.sym] = @ \ {stopId}]
  /\ cancelTook' = (stopId \in stops[cur.sym])
  /\ UNCHANGED <<svcVars, engineVars, clientVars, queue, cur, held, inWindow,
                 stopId, raised, isPaper, pos, sells, clockVars, histVars>>

(* cancel_order takes effect if the stop is still there and the request    *)
(* gets through; whatever it answers or raises, the SELL goes out next.    *)
SellCancel ==
  /\ pc = "sellCancel"
  /\ pc' = "sellPlace"
  /\ \/ /\ stopId \in stops[cur.sym]
        /\ stops' = [stops EXCEPT ![cur.sym] = @ \ {stopId}]
        /\ cancelTook' = TRUE
     \/ /\ GatewayFaults \/ stopId \notin stops[cur.sym]
        /\ UNCHANGED <<stops, cancelTook>>
  /\ UNCHANGED <<svcVars, engineVars, clientVars, queue, cur, held, inWindow,
                 stopId, raised, isPaper, pos, parents, sells, clockVars,
                 histVars>>

(* The market SELL is accepted or not, and the desk learns of a reply or   *)
(* of an exception.                                                        *)
SellPlace ==
  /\ pc = "sellPlace"
  /\ \/ /\ sells' = [sells EXCEPT ![cur.sym] = @ \cup {cur.id}]
        /\ sentIds' = sentIds \cup {cur.id}
        /\ Note(cur.sym, IF cancelTook THEN {}
                         ELSE {"sold_uncancelled", "stop_forgotten"})
     \/ /\ GatewayFaults
        /\ UNCHANGED <<sells, sentIds>>
        /\ Note(cur.sym, IF cancelTook THEN {"close_failed"}
                         ELSE {"stop_forgotten"})
  /\ \/ Settle(cur, "sent")
     \/ GatewayFaults /\ Settle(cur, "error")
  /\ UNCHANGED <<armed, entriesHalted, pending, stopOrders, engineVars,
                 clientVars, held, inWindow, stopId, cancelTook, isPaper, pos,
                 parents, stops, clockVars, nextId, firstId, crashes>>

(* The queue is empty: trip the breaker if the day's intended P&L is at    *)
(* the limit, and go back to sleep.                                        *)
DrainEnd ==
  /\ pc = "next"
  /\ queue = <<>>
  /\ entriesHalted' = (entriesHalted \/ dayPnl <= -LossLimit)
  /\ pc' = "sleep"
  /\ UNCHANGED <<armed, pending, stopOrders, transmitted, engineVars,
                 clientVars, queue, cur, held, inWindow, stopId, cancelTook,
                 raised, brokerVars, clockVars, histVars>>

-----------------------------------------------------------------------------
(* The broker.  DAY orders with outsideRTH false execute in the regular    *)
(* session only.                                                           *)

ParentFills(s) ==
  /\ phase = "regular"
  /\ \E i \in parents[s] :
       parents' = [parents EXCEPT ![s] = @ \ {i}]
  /\ pos' = [pos EXCEPT ![s] = @ + 1]
  /\ UNCHANGED <<svcVars, engineVars, clientVars, drainVars, isPaper, stops,
                 sells, clockVars, histVars>>

StopFills(s) ==
  /\ phase = "regular"
  /\ \E i \in stops[s] \ parents[s] :
       stops' = [stops EXCEPT ![s] = @ \ {i}]
  /\ pos' = [pos EXCEPT ![s] = @ - 1]
  /\ UNCHANGED <<svcVars, engineVars, clientVars, drainVars, isPaper, parents,
                 sells, clockVars, histVars>>

SellFills(s) ==
  /\ phase = "regular"
  /\ \E i \in sells[s] :
       sells' = [sells EXCEPT ![s] = @ \ {i}]
  /\ pos' = [pos EXCEPT ![s] = @ - 1]
  /\ UNCHANGED <<svcVars, engineVars, clientVars, drainVars, isPaper, parents,
                 stops, clockVars, histVars>>

OpeningBell ==
  /\ phase = "pre"
  /\ phase' = "regular"
  /\ UNCHANGED <<svcVars, engineVars, clientVars, drainVars, brokerVars, day,
                 histVars>>

(* 16:00: what has not executed of the day's orders expires.               *)
ClosingBell ==
  /\ phase = "regular"
  /\ phase' = "post"
  /\ parents' = [s \in Symbols |-> {}]
  /\ stops' = [s \in Symbols |-> {}]
  /\ sells' = [s \in Symbols |-> {}]
  /\ mishap' = [s \in Symbols |-> mishap[s]
       \cup (IF pos[s] > 0 THEN {"overnight"} ELSE {})
       \cup (IF parents[s] # {} THEN {"entry_expired"} ELSE {})]
  /\ UNCHANGED <<svcVars, engineVars, clientVars, drainVars, isPaper, pos, day,
                 nextId, firstId, sentIds, crashes>>

(* 20:00, the end of the desk's window, and 04:00 of the next session.     *)
Nightfall ==
  /\ phase = "post"
  /\ day < MaxDay
  /\ phase' = "night"
  /\ UNCHANGED <<svcVars, engineVars, clientVars, drainVars, brokerVars, day,
                 histVars>>

NextMorning ==
  /\ phase = "night"
  /\ phase' = "pre"
  /\ day' = day + 1
  /\ UNCHANGED <<svcVars, engineVars, clientVars, drainVars, brokerVars,
                 histVars>>

-----------------------------------------------------------------------------
(* The process dies at any point and supervisord starts it again; nothing  *)
(* of its state is on disk.                                                *)

Crash ==
  /\ pc # "down"
  /\ crashes < MaxCrash
  /\ crashes' = crashes + 1
  /\ pc' = "down"
  /\ IF pc = "sellPlace" /\ cancelTook
     THEN Note(cur.sym, {"crash_mid_exit"})
     ELSE UNCHANGED mishap
  /\ UNCHANGED <<svcVars, engineVars, clientVars, queue, cur, held, inWindow,
                 stopId, cancelTook, raised, brokerVars, clockVars,
                 nextId, firstId, sentIds>>

Restart ==
  /\ pc = "down"
  /\ armed' = TRUE
  /\ entriesHalted' = FALSE
  /\ pending' = <<>>
  /\ stopOrders' = [s \in Symbols |-> NoId]
  /\ transmitted' = [i \in Ids |-> "none"]
  /\ engine' = [s \in Symbols |-> "watch"]
  /\ engineDay' = day
  /\ dayPnl' = 0
  /\ accountKnown' = AccountConfigured
  /\ conids' = {}
  /\ pc' = "sleep"
  /\ queue' = <<>>
  /\ cur' = NoEvent
  /\ held' = {}
  /\ inWindow' = FALSE
  /\ stopId' = NoId
  /\ cancelTook' = FALSE
  /\ raised' = FALSE
  /\ firstId' = nextId
  /\ UNCHANGED <<brokerVars, clockVars, nextId, sentIds, mishap, crashes>>

-----------------------------------------------------------------------------
Engine ==
  \/ RebuildLive
  \/ \E s \in Symbols : EngineEntry(s) \/ EngineReject(s) \/ EngineExit(s)

Drain ==
  \/ TickStart \/ ScanDone \/ ResolveAccount \/ GetPositions \/ SwapQueue
  \/ TakeRaises \/ TakeSkip \/ TakeHalt \/ TakeBuy \/ TakeSell
  \/ BuyResolve \/ BuyPlaced \/ BuyPlacedNoStopId \/ BuyFails
  \/ SellResolve \/ SellCancel \/ SellPlace
  \/ DrainEnd

Broker ==
  \/ \E s \in Symbols : ParentFills(s) \/ StopFills(s) \/ SellFills(s)
  \/ OpeningBell \/ ClosingBell \/ Nightfall \/ NextMorning

Next == Engine \/ Drain \/ PortfolioRequest \/ Broker \/ Crash \/ Restart

Spec == Init /\ [][Next]_vars

-----------------------------------------------------------------------------
(* Properties.                                                             *)

ServiceType ==
  /\ armed \in BOOLEAN /\ entriesHalted \in BOOLEAN
  /\ pending \in Seq(Event)
  /\ stopOrders \in [Symbols -> Ids \cup {NoId}]
  /\ transmitted \in [Ids -> Outcome]

EngineType ==
  /\ engine \in [Symbols -> {"watch", "holding", "done"}]
  /\ engineDay \in Nat /\ dayPnl \in Int

ClientType == accountKnown \in BOOLEAN /\ conids \subseteq Symbols

DrainType ==
  /\ pc \in PCs
  /\ queue \in Seq(Event)
  /\ cur \in Event \cup {NoEvent}
  /\ held \subseteq Symbols /\ inWindow \in BOOLEAN
  /\ stopId \in Ids \cup {NoId} /\ cancelTook \in BOOLEAN
  /\ raised \in BOOLEAN

BrokerType ==
  /\ isPaper \in BOOLEAN
  /\ pos \in [Symbols -> Int]
  /\ parents \in [Symbols -> SUBSET Ids]
  /\ stops \in [Symbols -> SUBSET Ids]
  /\ sells \in [Symbols -> SUBSET Ids]

ClockType == phase \in Phases /\ day \in Nat

HistoryType ==
  /\ nextId \in 1 .. MaxId + 1 /\ firstId \in 1 .. nextId
  /\ sentIds \subseteq Ids
  /\ mishap \in [Symbols -> SUBSET Mishap]
  /\ crashes \in 0 .. MaxCrash

TypeOK ==
  /\ ServiceType /\ EngineType /\ ClientType /\ DrainType
  /\ BrokerType /\ ClockType /\ HistoryType

(* An account whose id does not start with DU never receives an order: the *)
(* account is looked at again in every drain, and the first event of the   *)
(* first drain that sees such an account disarms the desk (decide, line 37;*)
(* the halt branch of _transmit_pending).                                  *)
PaperOnly == sentIds # {} => isPaper

(* What the account is in for on a symbol: shares held and being bought,   *)
(* less the shares that live stop and closing orders would sell.           *)
Net(s) == pos[s] + Cardinality(parents[s])
            - Cardinality(stops[s]) - Cardinality(sells[s])

(* An exit of s whose cancel took effect, its SELL not yet placed.         *)
Exposed(s) == pc = "sellPlace" /\ cancelTook /\ cur.sym = s

(* Every share held or being bought is covered by a stop or by a closing   *)
(* order: entries go out with their stop, and an exit gives the stop up    *)
(* only between its cancel and its SELL.  The exceptions are named: the    *)
(* broker refused the stop child, the SELL failed after the cancel, the    *)
(* process died between the two, or the DAY stop expired.                  *)
NakedOnlyIf ==
  \A s \in Symbols :
    \/ Net(s) <= IF Exposed(s) THEN 1 ELSE 0
    \/ mishap[s] \cap {"stop_missing", "close_failed", "crash_mid_exit",
                       "overnight"} # {}

(* The desk sells short only after a SELL it sent without having cancelled *)
(* a stop, or when an entry expired unfilled after its exit was sold: no   *)
(* other interleaving of fills, cancels, lost replies, restarts and        *)
(* retries makes an order that sells more than is there.                   *)
ShortOnlyIf ==
  \A s \in Symbols :
    \/ Net(s) >= IF Exposed(s) THEN 1 ELSE 0
    \/ mishap[s] \cap {"sold_uncancelled", "entry_expired"} # {}

(* At most one position or entry per symbol, across drains, restarts and   *)
(* days: the held check of decide and held.add after an entry.  It fails   *)
(* only when the snapshot behind the check failed or was taken before an   *)
(* earlier entry was filled, or when an entry was taken by the broker and  *)
(* the desk saw an exception.                                              *)
OneEntryAtATime ==
  \A s \in Symbols :
    \/ pos[s] + Cardinality(parents[s]) <= 1
    \/ mishap[s] \cap {"blind", "unfilled", "reply_lost"} # {}

(* A live stop order is one the desk can cancel: it is in stop_orders, or  *)
(* it is in the hands of the exit in progress.  Ids are lost with a reply, *)
(* with the process, by an exit that popped the id and ended without a     *)
(* cancel that took effect, or under the id of a second entry, which takes *)
(* a snapshot that failed or was taken too early, or a SELL that outlived  *)
(* its entry: placed after the bell at which the unfilled entry expired.   *)
StopsAreTracked ==
  \A s \in Symbols : \A i \in stops[s] :
    \/ pc = "down" \/ i < firstId
    \/ stopOrders[s] = i
    \/ pc \in {"sellResolve", "sellCancel", "sellPlace"} /\ stopId = i
    \/ mishap[s] \cap {"reply_lost", "stop_forgotten", "blind",
                       "unfilled", "entry_expired"} # {}

(* The drain has an event in hand exactly while it is being sent.          *)
Sending == {"buyResolve", "buyPlace", "sellResolve", "sellCancel", "sellPlace"}

InHand ==
  /\ pc \in Sending => cur \in Event
  /\ pc \notin Sending \cup {"down"} => cur = NoEvent

(* Every event queued by this process is, while the desk stays armed and   *)
(* no exception left the drain, in exactly one place: waiting, taken,      *)
(* in hand, or recorded in the transmit log.                               *)
EveryEventIsSomewhere ==
  armed /\ ~raised /\ pc # "down" =>
    \A i \in firstId .. nextId - 1 :
      LET places == <<i \in IdsOf(pending), i \in IdsOf(queue), cur.id = i,
                      transmitted[i] # "none">>
      IN Cardinality({k \in 1 .. 4 : places[k]}) = 1

(* Once the breaker has tripped, no entry goes out until the process       *)
(* restarts, whatever was queued before and whatever is decided after.     *)
HaltedSendsNoEntry ==
  [][entriesHalted /\ entriesHalted' =>
       \A s \in Symbols : parents'[s] \subseteq parents[s]]_vars

(* Where an event stands, read off the desk's state.                       *)
Fate == [i \in Ids |->
  IF i >= nextId THEN "unborn"
  ELSE IF i \in sentIds THEN "sent"
  ELSE IF i \in IdsOf(pending) \cup IdsOf(queue) \cup {cur.id} THEN "waiting"
  ELSE "dropped"]

Fifo == INSTANCE IntentFifo WITH Last <- MaxId, fate <- Fate

(* The drain delivers each intended event at most once and in order: the   *)
(* queue swap after the awaits, the events queued meanwhile, the held      *)
(* queue and the error paths never send an event again or out of order.    *)
DeliversInOrder == Fifo!Spec

-----------------------------------------------------------------------------
(* Liveness.  The loop swallows its errors and every request has a timeout *)
(* (httpx, 10 s), so the drain's task always goes on; supervisord restarts *)
(* the process; the night ends.                                            *)
Fairness == WF_vars(Drain) /\ WF_vars(Restart) /\ WF_vars(NextMorning)

FairSpec == Spec /\ Fairness

(* Every event that waits is sent, skipped or dropped in the end, unless   *)
(* the desk disarms: no failure makes the drain hold it for ever.  The     *)
(* account id is configured: resolving it may fail for ever.               *)
EveryIntentIsDecided ==
  \A i \in Ids : (Fate[i] = "waiting") ~> (Fate[i] # "waiting" \/ ~armed)

-----------------------------------------------------------------------------
(* What the documents say of the desk and the runs refute.                 *)

(* README.md: exits close only while the broker still holds the symbol     *)
(* (or has an entry in it that is about to be filled).                     *)
ClosesOnlyWhileHeld ==
  [][\A s \in Symbols :
       \/ sells'[s] \subseteq sells[s]
       \/ pos[s] > 0 \/ parents[s] # {}
       \/ phase # "regular"]_vars

=============================================================================
