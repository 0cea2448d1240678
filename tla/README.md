# Momentum desk: a verification project

TLA+ modules that model the momentum desk (`momentum_desk/`), TLC
configurations that check them on small instances, and proofs checked by TLAPS.
Paths below are relative to the repository.

## The system

The desk watches a market feed, runs one breakout strategy on it as a live
engine, and sends the engine's orders to an IBKR paper account through the
Client Portal gateway. Beside that it keeps a simulated practice desk and a
research laboratory. It is one asyncio process under supervisord.

| Part | Code | State | Operations | Talks to |
|---|---|---|---|---|
| service and loop | `server.py` | armed flag, breaker, queue of events, stop ids, latest scan | `scan_once`, `_aggregate`, `_transmit_pending`, `_engine_loop`, `lifespan` | every part |
| order transmission | `live_transmit.py`, `server.py` | (locals of the drain) | `decide`, `transmit_entry`, `transmit_exit` | IBKR client |
| IBKR client | `broker/cp/client.py`, `gateway.py`, `orders.py` | account id, contract cache, keepalive stamp | requests, contract choice, reply walk, keepalive | gateway over HTTP |
| live engine | `live_engine.py`, `dryrun.py` | trackers, open and closed intended orders | `observe`, `on_bar`, `finalize` | called by `_aggregate` |
| tracker | `live_tracker.py` | bars, watch/holding/done, entry | `on_bar`, `end_of_day` | screen and exit functions |
| entry and exit rules | `edge/screen.py`, `exits.py`, `combo.py` | none | `_find_event`, `_find_fade_event`, `simulate_exit_detail`, `simulate_fade_detail` | shared by live and backtest |
| bar aggregator | `live_feed.py` | open minute, first minute and last volume per symbol | `ingest`, `flush` | fed by scans |
| practice desk | `paper.py`, `risk.py`, `broker/sim.py` | open positions, cash, P&L | open, close, update | fed by scans and requests |
| scanner | `scanner.py`, `models.py` | none | `evaluate`, `scan` | fed by scans |
| feed adapters | `adapters/` | enrichment of the day, by symbol | `poll` | Polygon |
| journal | `journal.py` | a file | `record` | called by the service |
| lab store | `edge/store.py`, `edge/lab.py`, `scripts/refresh_lab_runs.py`, `scripts/build_lab_*.py` | four SQLite tables, active strategy | CRUD, runs, leaderboard, seed, sweep | HTTP handlers, other processes |
| account simulation | `edge/portfolio.py`, `combo.py`, `backtest/metrics.py` | equity, trades, curve | `run_simulation`, `run_combo`, `compute_metrics` | providers |
| history client | `backtest/client.py` | disk cache, rate limiter | `get_json` | Polygon, other runs |
| history provider | `backtest/providers.py` | memories of a run | `candidates`, `minutes` | history client |
| search | `edge/optimize.py`, `rules.py`, `gauntlet.py`, the tables of `exits.py` and `screen.py` | none | `eval_config`, `run_ruleset`, `evaluate_cache`, `run_exit_lab`, `run_gauntlet` | lab |
| statistics, features | `edge/stats.py`, `features.py` | none | formulas | search |
| web client, proxy, command line | `web/`, `ib_proxy.py`, `cli.py`, `scripts/` | none that orders depend on | display, forwarding, printing | HTTP, WebSocket |

### What is hard in it

* **Awaits.** `_transmit_pending` awaits the account, the positions and every
  request of every order. In between, the broker fills, cancels and expires,
  and the scan of a `GET /api/signals` appends events to the queue it drains.
  Its decisions rest on positions read once at its head.
* **Failure.** A request may fail, be refused, or be carried out with its reply
  lost; a journal write may raise; an exit may fail after its stop is cancelled.
* **Restarts.** Stop ids, queue, breaker and trackers live in memory only.
* **The day.** Trackers are rebuilt on the first scan of a new day, the rest of
  the service's state is not; DAY orders expire at the broker at 16:00.
* **Order of polls.** Polls run in threads and their results are taken in the
  order in which they finish; bars are cut from them by the minute of day.
* **Streaming against batch.** The tracker recomputes, on every bar, functions
  written for a whole day of bars, and must reach the same trade.
* **Files and tables shared by processes.** The server's threads and the scripts
  use one cache directory and one database; each can be killed between any two
  commits, or inside a write.
* **Slow neighbours.** A vendor that says 429, a gateway whose session is taken
  by another login, a reply that asks a question instead of answering.
* **Looking ahead.** The research decides with a day's bars in hand: a universe,
  an entry or a selected exit may use what was not known at its time.

What makes each part correct, in a sentence each: the transmission sends every
event at most once and in order, only to a paper account, and leaves every
position covered and no more sold than held; the tracker makes the trade the
backtest makes; the aggregator emits each minute once, in order, with its own
volume; the practice desk conserves money and sells what it holds; the store has
its names, runs and active pick in step whatever is renamed, killed or started
again; the simulation never commits more than the account has; the history client
gives every run the answer to its own request, pays once and spaces its calls; the
gateway client reports of an order what is true of it; the research scores alike
in all its tools and decides with what was known at the time.

## Modules

| Module | Models |
|---|---|
| `IntentFifo` | what the transmission promises: numbered events, each sent at most once and in order |
| `Transmit` | the drain of `_transmit_pending`, the engine that feeds it, the client and the broker |
| `MCTransmit` | `Transmit` for TLC |
| `Transmit_proofs` | theorems about `Transmit`: the paper account and the breaker; nothing is lost, and it implements `IntentFifo`; stops, closing orders and second entries |
| `LiveFeed` | overlapping polls, the minute bars cut from them, the day roll |
| `MCLiveFeed` | `LiveFeed` for TLC |
| `LiveFeed_proofs` | theorems about `LiveFeed`: the order of the bars, and the bars themselves |
| `TradeRules` | the entry triggers and the exit simulation, as functions of a day's bars |
| `LiveEngine` | the tracker and the engine of one symbol, streaming `TradeRules` |
| `MCLiveEngine` | `LiveEngine` for TLC: shapes of bars, policies |
| `LiveEngine_proofs` | theorems about `LiveEngine`: the backtest's trade, its entry, its promptness, its stop; about `Fade`: the short side, the screen's outcomes; about `Search`: the folds |
| `RiskRules` | the risk engine's sizing and breaker, as functions |
| `PaperDesk` | the practice desk on the simulated broker, sized by `RiskRules` |
| `MCPaperDesk` | `PaperDesk` for TLC |
| `PaperDesk_proofs` | theorems about `PaperDesk`: the two books, the bound on the loss |
| `Portfolio` | the account simulation of one strategy or a combo, sized by `RiskRules`, and its reports |
| `MCPortfolio` | `Portfolio` for TLC |
| `Portfolio_proofs` | theorems about `Portfolio`: slots, cash and breaker of each entry; accounts and reports |
| `LabStore` | the database of the lab, the server and the sweep on it |
| `MCLabStore` | `LabStore` for TLC |
| `LabStore_proofs` | theorems about `LabStore`: names, picks, seed, sweep and preview |
| `History` | the cached, limited client under several runs |
| `MCHistory` | `History` for TLC |
| `History_proofs` | theorems about `History`: answers, broken files, spacing, payment; about `Universe`: no lookahead in a day's candidates |
| `Contracts` | the choice of a contract among a search's listings |
| `Gateway` | session, keepalive, account, one placement and the portfolio page |
| `MCGateway` | `Gateway` for TLC |
| `Gateway_proofs` | theorems about `Gateway`: the walk's report, the account, the keepalive, the contract |
| `Search` | the tools that score filters and exits, the gauntlet, the screen's bins |
| `Fade` | the short side's entry and exit, and the screen's outcomes, beside `TradeRules` |
| `Universe` | a backtest day's candidates and minutes, from the vendor's bars |
| `Scanner` | the gate, the score and the order of signals; the poll and its caches |
| `Research` | what the four above promise, over every small input |
| `MCResearch` | `Research` for TLC |

The chain of the trading path is `LiveFeed` (bars) to `LiveEngine` (intended
entries and exits) to `Transmit` (orders). Each module takes what the one before
it may produce as a choice over all of it: `LiveEngine` is given any bars in the
order of their minutes, which is what `LiveFeed` shows its tape to be when
snapshots are taken in order, and `Transmit` is given any tracker that goes
watch, holding, done, which is what `LiveEngine` is.

### Transmit

The drain is one asyncio task and is atomic between two awaits. `pc` names the
await it is suspended at; each action runs from one await to the next:

| `pc` | suspended in | next action |
|---|---|---|
| `sleep` | `asyncio.sleep` of `_engine_loop` | `TickStart` |
| `scan` | `scan_once` of the loop | `ScanDone` |
| `account` | `resolve_account_id` | `ResolveAccount` |
| `positions`, `swap` | `get_positions`, before and after the gateway reads the account | `GetPositions`, `SwapQueue` |
| `next` | between two events of the queue | `TakeSkip`, `TakeHalt`, `TakeBuy`, `TakeSell`, `TakeRaises`, `DrainEnd` |
| `buyResolve`, `buyPlace` | the awaits of `transmit_entry` | `BuyResolve`, then `BuyPlaced`, `BuyPlacedNoStopId` or `BuyFails` |
| `sellResolve`, `sellCancel`, `sellPlace` | the awaits of `transmit_exit` | `SellResolve`, `SellCancel`, `SellPlace` |
| `down` | the process is dead | `Restart` |

`next` is not an await: it is there so that one event is one action. The steps
of other parties between two events it allows are also possible at the awaits
around it, except around events that are skipped, where it is a superset.

The variables are the fields of `ScannerService` (`armed`, `entriesHalted`,
`pending`, `stopOrders`, `transmitted`), the engine as the transmission sees it
(`engine`, `engineDay`, `dayPnl`), the client (`accountKnown`, `conids`), the
drain's locals (`queue`, `cur`, `held`, `inWindow`, `stopId`), the account at
the broker (`pos`, `parents`, `stops`, `sells`, `isPaper`) and the clock
(`phase`, `day`). `mishap` is a history of what went wrong for a symbol, noted
at the place where it happens and read by nothing but the properties:
a safety property says "this never happens except after one of these", which is
the strongest thing that is true of code with no recovery.

Abstractions and assumptions. The share count of an exit is that of its entry,
so an order is one unit. The engine is any tracker that goes watch, holding,
done, and either rejects or enters; each exit wins or loses one unit. The
positions endpoint lists exactly the symbols with a position. Nobody trades the
account by hand. An order is taken or not at the moment of its request: one that
the gateway takes only after the desk has given up waiting is not modelled.
Orders are DAY orders with `outsideRTH` false (`broker/cp/orders.py`), so they
execute in the regular session and expire at its end. The stop child rests only
when its parent is filled. `decide`'s guards on share count and stop are kept
in `Buys`; no event of the engine fails them.

### LiveFeed

One symbol. `Fetch` is the feed's answer in the polling thread, where the
snapshot gets its time stamp; `Deliver` is the rest of `scan_once`: the engine
is rebuilt if the day has changed, and `ingest` does one of `First`, `Fold`,
`Reset` and `Roll`, its four ways out. Between them other polls may be
delivered, because the engine loop and every request for signals poll on their
own. `tape` is what the engine of the day has been given. Two things spoil it,
and `mishap` records them when they happen: a snapshot delivered after a later
one (`late`), and a first snapshot of a day that finds the bucket of an earlier
day at the same or an earlier minute (`carried`): the aggregator knows minutes
of the day, not days, and takes it for the same session. Polls of the evening
are over before the next day starts. VWAP goes the way of the close and is left
out; `flush` has no caller in the program.

### TradeRules and LiveEngine

`TradeRules` gives `_find_event` and `simulate_exit_detail` as sets of bar
positions: the trigger is the least position in a set, the exit the first bar
with a reason. Prices are integers in a unit that makes the percentages exact;
a fill is its level before slippage, which moves every fill by the same factor
and no decision. A bar that closed below VWAP is `weak`.

`LiveEngine` has one action for a bar (`Bar`, with `Watch` or `Hold` as in
`SymbolTracker.on_bar`), for the registration, the end of the day and a restart.
`driver` tells `dryrun_day`, which feeds the tracker every bar and closes it at
the end, from the server, which registers a symbol when its first snapshot
passes the gate, loses the tracker in a restart and never finalizes. Sizes are
left out; whether the risk engine takes the plan is a choice. Symbols do not
interact, so one is enough. Bars come with growing minutes, those of one day's
1440 (`tod_of`).

### RiskRules, PaperDesk and Portfolio

`RiskRules` is `RiskEngine.plan` and `daily_loss_limit_hit` in integers. Two
modules are sized by it.

`PaperDesk` has three handlers, atomic once their poll has answered: `Scan`
(`update` at the last prices, listed or not), `Buy` (`trade_open`, whose entry
comes from a poll of its own) and `Sell` (`trade_close`, at the price of the
last scan). As polls may be taken in any order, their prices are any prices. The
exits of one tick touch different symbols, so they are one step. `PlaceOrders`
is the position keeping of `SimBroker`, with blending and flipping. `gapped`
notes the one way a trade loses more than its stop allows: a close by hand at
a price that no scan has held against the stop. Nothing resets the realized P&L
on a new day and a restart forgets all of it, so there is no day in the model.

`Portfolio` is the walk of `run_combo`; `run_simulation` is the case of one long
leg. A step takes the next proposed trade (`Propose`): what has exited by its
minute is booked, then the caps and the plan decide. The proposals are any, in
the order of their entries, each with an exit later that day. Its properties are
written without the walk, from the finished list of trades: what was held, made
and owned at the minute of an entry.

`EquityCurve`, `Monthly` and `Metrics` are the reports on the finished list.

### LabStore

One store method is one transaction and one action; the server's handlers, its
runs in a thread and the sweep's process interleave between them. `proc` says
where each process is: in the seed (`check` a table, `fill` it row by row),
attaching the engine, serving, or at a stage of the sweep. The result of a run is
its configuration: what the run computes is `Portfolio`'s matter, and a score is a
function of the configuration. What a process has left of a loop is a set; the
order in which it is taken is that of the code (`GoesBefore`: the seed's list, the
sentinel after all gauntlets; `Before`: the sweep's list, then the windows), and a
row of the board is ranked by how many are ahead of it. `id`, `owner`, `chosen`,
`moved` and `unread` are history: a row keeps its identity through saves and
renames, which its name does not; `unread` notes that a start could not read the
gauntlet file.

The seed reads two files. The first may be missing or unreadable at any start
(`Start`): then the canonical strategies alone go in, without runs. The second may
be missing, and then nothing is filled, or unreadable, and then `seed` takes it for
an empty one and saves the sentinel by itself (`Reads`). A combo is listed, run and
swept like any strategy, but has no gauntlet and is not `Supported`: the engine
does not run it and the preview shows none.
Dates matter because a run is stamped in UTC and the sweep compares with the
local day: `Late` is the evening in which they differ.

### History

A client is one run with a provider, a limiter and memories of its own; the
directory is shared. A get goes through the awaits of its thread: `read`,
`sleep` (the limiter), `call`, `wait` (a back-off), `write`. Opening a file for
writing empties it, which is a step before the text is in it. `NewRun` is the end
of a run or a kill, wherever it is. `Publish` is the vendor completing a day that
it had only in part. `spoiled` notes the two things that make a file unreadable:
two runs at the same request, and a write cut short.

### Gateway

Three coroutines: the keepalive (`alive`), one placement (`walk`) and the
portfolio page (`page`), with the gateway's session between them, which another
login takes, which expires without tickles and which a login, for any account,
brings back. `Judge` is the loop head of `place_order_with_replies`: the answer
to the fifth confirmation is not looked at. Time is counted in ticks of the
keepalive's sleep; a call has ended by its timeout. In `Transmit` the same
placement is one step with the outcomes that `Gateway` shows it to have.

### Search, Fade, Universe, Scanner and Research

These parts have no state: they are operators, and `Research` states what they
promise over every input of a bounded size. Its state is an input, which a step
makes one element longer; a step is no step of the program. `study` says what the
input is: events of a search, results of a walk-forward, bars of a session, days
of a market, minutes of a day, tickers of a poll, polls of a day, pairs of a
screen. Results, ratios and features are integers in a unit fine enough for every
comparison made; a score is the sums it is a function of (trades, wins, what they
gained, what the others lost, the days' results). The three tools score the same
choice with a least number of trades each, in the code 20, 10 and 5: the model has
the three apart, in that order. The tuner's filter is the rule runner's with bounds
wider by half a unit of its rounded cache (`Widened`).

The market of `Universe` starts as early as an average reaches back; the code
asks the vendor for the 45 days before the window. Bars that the code treats
alike (a missing low or volume and one of zero) are one.

## Runs

| Run | Instance | Shows |
|---|---|---|
| `transmit` | one symbol, 3 events, 2 sessions, 1 crash, gateway faults, account to be resolved | the safety properties and the refinement of `IntentFifo` |
| `transmit_two` | two symbols, 3 events, 1 session, gateway faults | several symbols in one queue, one halting the other |
| `transmit_live` | fairness, 2 events, 2 sessions, 1 crash, journal writes that raise | every waiting event is decided |
| `naive_held` | one symbol, one session, no faults | a statement of the README, refuted by a behaviour of the code |
| `feed` | two pollers, 4 snapshots, 3 minutes, 2 days | the tape is that of the closed minutes, unless a snapshot was late or a bucket carried over |
| `engine` | 3 sessions, 4 exit policies, 4 shapes of bars; 7 bars in a dry run, 5 and a restart under the server | the streamed trade is the backtest's; the entry found again is always the same; exits are prompt; the stop in force never loosens |
| `desk` | two symbols, 4 positions, 3 prices | two books agree; the loss is bounded |
| `portfolio` | two legs, 3 proposed trades, 2 days, with and without compounding | accounts and reports add up; each entry was within slots, cash and breaker |
| `lab` | two names, a single leg and a combo, two windows, 3 runs, 2 requests, kills or files not read, 2 days | a full seed behind its sentinel; history and active pick follow renames; a preview is of the newest run, and there for a single leg that has one; a finished sweep left nobody out |
| `history` | two runs, two requests, 3 gets, 2 attempts, 1 fault, fairness | every answer is its request's; a broken file needs a cause; calls are spaced and paid once; every get ends |
| `gateway` | two accounts, one placement of up to 5 confirmations, 2 faults | the walk's report is true; everyone works on one account; the session is kept |
| `research` | inputs of 2 to 6 elements; minimums of 3, 2 and 1 trades | three scores agree up to their minimums and roundings, and so do two tables; folds are blind and tested once; short mirrors long; nothing decided depends on what comes later; a poll loses no signal and shows nothing stale |

The type invariant of a module is a conjunct of one of its invariants (in
`Transmit` it is one of its own, because it is proved).

Bounds. Three events are an entry, its exit and another entry of the same
symbol (or of another one), which is the shortest history in which an id is
reused, a snapshot is stale for a second entry, or a breaker tripped by an exit
meets an entry. Two sessions are needed for the day roll, the expiry of stops
and the breaker's life; one crash for everything a restart forgets. Symbols are
handled independently apart from the queue and the breaker, which
`transmit_two` covers with two.

In `feed`, four snapshots are two minutes with two each, or a night and a late
snapshot around a roll; three minutes give a bar before and after a reset. In
`engine`, ranges of one bar and holds of two minutes make seven bars a whole
day: range, trigger, the bars that confirm it, exit, and one past the window.
In `desk`, four trades are enough for a loss to trip the breaker while another
position is open, and for the bound to be broken if it did not. In `portfolio`,
three trades make two that overlap and a third that meets their exits, their
loss, or the caps.

In `lab`, two requests or kills are a rename while a run is computed, a rename
after a pick, or a kill in the seed and one after it, or a start without a file
and what follows; the seed has one single leg, and requests save the combo; three
runs are two windows of one strategy and a newer one; two days with an evening are what the sweep's
date can be wrong about. In `history`, two runs and two requests (one of which a
provider remembers, and the vendor completes later) meet in one file; three gets
are one that fills the cache and two that find it. In `gateway`, one placement
meets everything that can happen to it; two faults are a tickle lost and a
session taken. In `research`, three events are scored by all tools, two by two and one by the
tuner alone, with features at a bound, beyond it by what rounding forgives, and
further; six results are two folds of two days with an
embargo and two results on a day; six bars a session with range, base, turn,
exit and one past the window; four days a day with an average of two.

Deadlock checking is off in all runs but `desk`: at its bounds
(the last session, the last event, the last request, the longest input) the model
stops while the program goes on.

Fairness. `Transmit.FairSpec`: the drain's task always goes on, since every
request has a timeout (httpx, 10 s) and the loop swallows errors; supervisord
restarts the process (`autorestart`); night ends. `History.FairSpec`: a thread
goes on, a call ends by its timeout (`urlopen`, 15 s), sleeps end. Nothing is
assumed of the engine, of the broker's fills or of the success of any request.

### The refuted statement

* `ClosesOnlyWhileHeld` (README 85-86): an exit is decided on positions read
  before the queue is sent, and its SELL goes out even if the cancel of the stop
  fails because the stop has just filled. The account goes short.

### Known disagreements

Places where the code is weaker than its documents, or does what a reader would
not expect. The models keep the code's reading; the properties name the cases as
exceptions, or are stated so that they do not need them.

Trading path:

* the loss breaker of the transmission is called daily (`server.py` 97) and
  nothing resets it on a new day; the risk engine's (`risk.py` 26, 83) compares a
  running total and lets go when a later exit wins;
* a symbol registered, or a process restarted, after the day's first bars gets
  another range and another entry than the backtest (README 79-82); a regular
  trade whose day ends is never closed, because the server does not call
  `finalize` (`live_engine.py` 7-9, `live_tracker.py` 50);
* after a restart an exit sells over a stop whose id was lost (`StopsAreTracked`,
  README 85-86); a crash between cancel and SELL leaves a position bare
  (`NakedOnlyIf`); a SELL placed after the bell at which its unfilled entry expired
  sells a later entry (`ShortOnlyIf`, `StopsAreTracked`); an entry in the drain that carries the losing exit still goes
  out (README 138-139); a late poll gives the tracker a minute twice
  (`OrderedWhenPollsAre`, `live_feed.py` 13-14);
* a walk through the broker's warnings that halts after its last confirmation, or
  loses a reply, may leave a working order that the desk takes for none
  (`WalkTellsTruth`, `live_transmit.py` 83-84).

Lab and data:

* the live engine runs the strategy that was active at its start (README
  110-111, `server.py` 383); another pick waits for a restart;
* a response whose write was cut is not replayed but raises on every later read
  (`BrokenOnlyIf`, `backtest/client.py` 9-10);
* an answer that was incomplete when it was cached stays so for every later run;
  a failed enrichment counts as zero for the day (`polygon.py` 140-168), and the
  live average volume includes the day's own partial bar, unlike the backtest's;
* a gauntlet file that cannot be read at the first start is taken for an empty one
  and the sentinel saved, so that no later start reads it either, though the
  sentinel stands for a table that was loaded (`lab.py` 94-100; the exception of
  `SentinelMeansAll`); a seed file that cannot be read at the first start leaves
  the canonical strategies alone for good (`lab.py` 79-86);
* a run that is computed during a rename is filed under the old name (`server.py`
  553-554; the exception of `HistoryFollows`); a strategy that was saved over is
  previewed by the run of its old configuration until it is run again (`server.py`
  584-592);
* no candidates on the day after a market holiday, because the day before it has
  no bars (`trading_days` counts weekdays, `providers.py` 169-175);
* minutes after 11:00 are cut (`providers.py` 303) while intraday trades may be
  held until noon: in a backtest they end at 11:00;
* premarket entries are given the news up to 09:30 and the gap of the 09:30 open;
  `optimize.py` 90 measures a premarket move from an open that `features.py`
  97-101 calls a leak.

Search:

* the last days are "never used for selection" (`gauntlet.py` 16), but the exit
  put to the gauntlet by default is the best over all days (`gauntlet.py` 210),
  and a mean of exactly zero makes it the worst;
* every evaluator scores "through this one function" (`optimize.py` 100-103), but
  each with a least number of trades of its own: 20 for the optimizer
  (`optimize.py` 135), 10 for the rule runner (`rules.py` 81), 5 for the tuner
  (`optimize.py` 282). With 5 to 19 trades one tool reports a score and another
  zeros (`ToolsAgree` allows it there and nowhere else); and the tuner's rounded
  features let in trades beyond a bound by up to half a thousandth;
* a stop fills at its level also when the bar opens beyond it (`exits.py` 126-128);
* the drawdown in percent is of the last peak, not of the one it fell from
  (`metrics.py` 38).

## Proofs

Eight modules of theorems, one for each module with a state of its own that the
program has, for every value of the constants that satisfies their assumptions.
Two of them hold as well what is proved of the parts without a state: `Fade` and
`Search` beside `LiveEngine`, `Universe` beside `History`.
Every safety property of `Transmit`, `LiveFeed`, `LiveEngine`, `PaperDesk`,
`Portfolio`, `LabStore`, `History` and `Gateway` that a run checks is proved.

### Transmit

`Transmit_proofs`, for any set of symbols, any bounds and any setting of the
switches:

* `TypeCorrect`: the type invariant. It is not inductive alone, because
  recording an outcome needs the event in hand to be an event: it is proved
  with `InHand` (the drain has an event in hand exactly while it sends it).
* `PaperCorrect`: no order goes to an account that is not a paper account.
  Inductive with "while an order is being sent, the account is a paper one",
  which the guards of `Buys` and `Sells` establish and no await can disturb.
* `HaltCorrect`: a tripped breaker stops entries. Inductive with "while an
  entry is being sent the breaker has not tripped": only `DrainEnd` trips it,
  and the drain has then nothing in hand.

Its second part first reduces every action to one of a few moves of the
events (`Move`: an event is queued, grabbed, taken up, recorded, ...), and proves the
invariant for the moves. `OrderInv` orders the places an event passes: what
was sent or recorded is older than the event in hand, that one is older than the
drain's queue, and the queue is older than what the engine has queued since.
With `NoneMissing` (an armed process that nothing was raised in has each of its
events somewhere) it gives

* `SomewhereCorrect`: no event is lost or held twice (`EveryEventIsSomewhere`);
* `DeliversCorrect`: `Transmit` implements `IntentFifo`, move by move: a queued
  event maps to `Issue`; an event that the broker gets maps to `Send`, because by
  `OrderInv` it is the oldest of those that wait; an event that is skipped, fails
  or is forgotten maps to `Drop`; all else stutters.

The third part does the same for the account: `BookMove` are the eight
ways in which shares and orders move, and three invariants are proved for them.

* `NakedCorrect`, `ShortCorrect` from `BalanceInv`: the two properties are
  inductive together, with "an order at the broker has an id that was sent"
  (so that a new one is new, and the cardinalities add up) and "no cancel has
  been looked at before it is made".
* `OneEntryCorrect` from `EntryInv`: what the snapshot did not list is free until
  the drain ends, and the event in hand agrees with it.
* `TrackedCorrect` from `TrackInv`: nor does a stop rest under such a symbol, an
  exit that sells without a cancel has given the id up, and the id that the exit
  holds is one of its own symbol.

### LiveFeed

`LiveFeed_proofs`: `OrderCorrect` (`OrderedWhenPollsAre`). A snapshot is numbered
when it is taken and may be delivered in any order. `FlightInv`: those in flight
are of today and their minutes grow with their numbers. `LastInv`: the last one
delivered made the bucket, and none in flight with a later number has an earlier
minute. `OrderInv`: the bars are in order and the bucket's minute comes after
them all; only a late snapshot breaks it, which is the exception of the property.

`TapeCorrect` (`TapeMatchesSnapshots`), by `TapeInv`: unless something was late or
carried over, snapshots are delivered in the order of their minutes, the bucket
is what those of the last minute make, and the tape has, for each minute
before that one, the bar that its snapshots make. A snapshot in the bucket's minute
is one more of those that describe the bucket; one in a later minute leaves the
minutes before it as they were. `Ranks` then turns "a bar for each minute" into
"the k-th bar for the k-th minute".

### LiveEngine

`LiveEngine_proofs`, for bars of any shape, at any growing minutes, in days of any
length, and for every policy. The tracker evaluates on each bar functions that
were written for a whole day, so most of it is about what these functions make
of a list of bars and of a longer one that extends it:

* `EventStays`: an event found in some bars is the one found in more of them.
  The range, the base and the day's high are taken from bars before the
  trigger, and the guards that count bars let a trigger through only when the
  bars that it is taken from are complete. `EventFresh`: one that the last bar
  completes was triggered at most two bars ago.
* `ExitStays`: an exit with a reason of its own, found in a part of the window,
  is that of all of it; the exit at the end of the window may move until
  `WindowCloses`: the tracker waits for a bar past `Deadline`, after which no
  bar falls in the window. `ExitFresh`: one that the last bar makes is on it.

The inductive invariant is `EngineInv`: the types; the tracker's bars are the
day's from its registration on (all of them in a dry run); a watching tracker has
no trade; a holding one has the order of the event in its bars and no exit yet that
it would have signalled (`Held`); a closed one has the exit of that event (`Traded`).

* `StreamCorrect` (`StreamMatchesBatch`), `SteadyCorrect` (`SteadyEntry`) and
  `PromptCorrect` (`Prompt`) follow from it and the lemmas above.
* `StopCorrect` (`StopNeverLoosens`): a percent or ATR trail follows a high-water
  mark over a growing set of bars, and the ATR is taken once, at the entry. The
  structure trail follows a low over a sliding window: while no bar has touched
  the stop, none has a low below it (`StructureRatchets`), so that what enters
  the window cannot pull it down. That an ATR is a number at all needs a fold of the
  library to be one (`SumIsInt`), which is proved from the least set of
  positions for which it would not be, since induction is out of reach.

Of the research, for bars and events of any number, what `ExitsAgree`,
`KnownByThen` and `SelectionIsBlind` look at on a few of them:

* `FadeIsCausal`: the entry of a fade is decided by the bars up to it. The base
  counts the first bars, and the lowest and highest of what is known do not change
  when more is known (`Known`, `KnownFirst`, `KnownLeast`).
* `FadeIsMirror`: the short exit, which `exits.py` writes out a second time, is
  the long one of the bars turned upside down at the entry, with the stop turned
  too. High-water marks, ranges, trails and stops of the mirror are the mirror's
  (`MirrorWater`, `MirrorAtr`, `MirrorTrail`, `MirrorStop`), so each bar ends both
  or neither. It excludes the percentage trail, which takes its share of another
  price.
* `FadeStopNeverRises`: by the mirror from `StopRatchets`, for the percentage trail
  from the fall of the low-water mark. `FadesExitWell` says both of every fade
  that is found in the bars of a day: `FadeTyped` shows that it has the shape
  which the two ask for.
* `OutcomeAgrees`: `screen.py`'s outcome is the exit lab's of the same target, of
  bars whose close is within their range, for any event.
* `FoldsAreApart`: the days are each event's day once and in order (`DaysAre`, by
  their ranks); the folds cover them, do not overlap, and select further than the
  embargo from where they test. That the selection then gives the same exit
  whatever the hidden results are stays with TLC: it is a fact about what
  `SelectSeq` returns, which the prover takes as given without its definition.

### PaperDesk

`PaperDesk_proofs`. Both properties are about sums over the symbols. The library's
fold takes the elements in an order of its own, and what it returns would be shown
by an induction over the set, which is out of reach. Instead, that the sums of all
subsets exist (`SumsExist`), that there is one such function (`SumsAgree`) and that any
element may be taken off (`SumWithout`) are each proved from a subset with the
fewest elements for which it would not hold. From there `SumIsThe`: whatever grows
with each element by its value is the sum.

* `BooksCorrect` (`BooksAgree`) from `BookInv`: symbol by symbol the desk and the
  broker hold the same shares at the same average, and what the desk has banked
  is what the broker made less the fees. The blending and flipping of
  `PlaceOrders` come down to the cases of an order for or against what is held.
* `LossCorrect` (`LossIsBounded`) from `PlanInv`, that each open position risks no
  more than the plan allows (`PlanIs`, the arithmetic of `RiskRules`), and
  `LossInv`, the bound itself: an exit gives at worst what `WorstCase` had counted
  for it already, and an entry is made only while the results are within the limit,
  so that all plans together, at most one for each symbol, are all that can be lost
  beyond it.

### Portfolio

`Portfolio_proofs`, with sums as for `PaperDesk`. The properties are written without the walk, from the finished
list of trades, so the proofs are about what a later trade does to the view of an
earlier entry: nothing. A trade is of use to the minutes after its exit, and the
proposals come in the order of their entries (`ViewStays`).

* `MeansCorrect` (`WithinMeans`) and `BreakerCorrect` (`HonoursBreaker`) from
  `WalkInv` and `SumInv`: what the walk has booked are the trades that have exited by
  its minute, what it holds are the others, and its equity and its result of the
  day are sums over the booked ones. Hence `ViewOfWalk`: the view that the property takes
  of a new trade is the state that the walk decided on.
* `AccountsCorrect` (`Accounts`) from `CurveInv` (the curve is the list of results in
  the order of the exits, and a trade booked later is put after those before it),
  `LegInv` (the legs share the trades) and the reports. A list of trades in the
  order of their exits exists (`SeqOfAll`, by the ranks of its elements),
  and so does the pass that looks for the deepest fall (`WalkExists`); that it
  finds it (`WalkFinds`) is shown by the first position at which it would not.

### LabStore

`LabStore_proofs`. `TableMoves` reduces the actions of the server, the seed and
the sweep to what they do to the tables: a save, a filed run, a delete, a rename,
a pick. `IdsInv` says that no two rows have an id, and that nothing refers to
one that was not given yet: with it a new row is nobody's, and

* `HistoryCorrect` (`HistoryFollows`) and `ChosenCorrect` (`ChosenStaysActive`)
  need no more than their properties said of all rows (`HistoryInv`,
  `ChosenInv`);
* `SentinelCorrect` (`SentinelMeansAll`): `SeedInv`, that a gauntlet that is not
  in the table is still to do for each process that fills it, and that the
  sentinel is taken after all of them, as long as no start has found the file
  unreadable;
* `SweepCorrect` (`SweepCovers`): `SweepInv`, that a pair of the list is still to
  do, failed, or `Refreshed`: it has a run of the sweep's day. What is fresh
  stays so: runs are only added, except that a rename repoints them, and
  then the name is in `moved`; days do not go back;
* `PreviewCorrect` (`PreviewFindsRun`): not an induction over steps but a fact
  about every state. The board has at most one row for each strategy, its newest
  run, so that a preview shows no other; and no more rows than strategies
  (`BoardHasRoom`, an injection), so that the rank of that run is below the limit
  (`BoardShows`) and a single leg has its preview.

### History

`History_proofs`. Keys are injective, because a request is its path and its
parameters.

* `RightCorrect` (`RightAnswer`) from `RightInv`: an answer is in the file of its
  own key, in the hands of who asked for it, in its own place of a memory.
* `BrokenCorrect` (`BrokenOnlyIf`) from `TornInv`: a file that does not parse
  belongs to a write in progress or to a request that is spoiled, and two runs
  at one request have spoiled it.
* `SpacedCorrect` (`Spaced`) from `SpacedInv`: the limiter's stamp (`since`) is
  that of the last call (`gap`), and a sleep lasts for what the interval has left
  of it. The bound on a back-off needs that powers of two are naturals and grow;
  as an induction over the exponent is out of reach, `Powers` gets it from
  the number of subsets of 1 .. n.
* `PaidCorrect` (`PaidOnce`): a step from a settled request that wrote its file
  would be one of a run that is past reading it, and there is none.

Of `Universe`, for markets of any number of days and names:

* `GappersAreKnown`: two markets that are the same at the open of a day (the days
  before, who trades, the opens, the news before the open; `SameAtOpen`) give the
  backtest the same gappers, with the same averages and flags. `ActiveAreKnown`:
  the most active names, for markets that are the same up to the day's end
  (`SameAtClose`); these are chosen with the day's own volume and range, and
  the code offers them for what they are.

### Gateway

`Gateway_proofs`.

* `WalkCorrect` (`WalkTellsTruth`) from `WalkInv`: before the POST there is no
  order, and while a question is to be confirmed the order is pending.
* `AccountCorrect` (`OneAccount`) from `AccountInv`: who uses an account uses the
  client's; who still resolves would find it again unless the login moved.
* `AliveCorrect` (`KeptAlive`) from `AliveInv`: the ticks without a tickle are at
  most a period for each failed one and the time since the last ended. The
  model's cap on the ticks is never reached (`NeverAtTheCap`), so it hides
  nothing.
* `ContractCorrect`: the contract the client keeps is an eligible listing of a
  search that no other eligible one outranks, for searches of any length. No
  run's property says so.

### Assumptions

The proofs assume of the constants what the `ASSUME`s of the modules say, which
TLC evaluates in the runs: bounds are naturals, switches are Booleans, a value
that stands for none is not one of the others. Beyond that, and why the code
justifies it: an interval, a timeout, a retry count and a number of confirmations
are at least one (constants in the code); a search is a list of listings with the
fields that `resolve_conid` reads (`Listing`); a request is its path and its
parameters, which is what its cache file is named by; a day has a minute
(`MaxTod`); a policy's trail is one of the four kinds, its parameter is not
negative and a percent trail gives back at most all (`ExitPolicy`'s values in the
tables of `exits.py`); names and windows are ordered, because the tables sort by them; a
score is a number and the seed's catalogue a list of strategies. Nothing is
assumed of the environment but what the actions of the modules let it do.

### What stays with TLC

* Liveness (`EveryIntentIsDecided`, `GetsEnd`): out of TLAPS' reach.
* `Research` as a specification: its properties speak of folds of lists, of
  selections from lists (`SelectSeq`) and of sorted lists (`SetToSortSeq`, whose
  sorting the checker has but no prover), over inputs of a few elements. The parts
  that can be said without them are proved above: both exits, the outcome, what a
  fade and a day's candidates are known from, the folds. With TLC alone stay the
  agreement of the tools' scores, the blindness of a selection beyond its days,
  the minutes of a replay, the bins of the screen and the poll.

A proof that failed was four times a finding: `StopsAreTracked` was false with a
fourth event (a SELL that is placed after the bell at which its unfilled entry
expired is filled later against the next entry, and the stop of a further entry
then takes the place of that one's in `stop_orders`), which the run's three
events never showed, and now names that case; the type invariant of `LiveFeed` needed a
day of at least one minute; `Portfolio` had no step for a plan of fewer than
no shares, which an equity below zero makes: the code's guard (`shares <= 0`)
refuses it, the model's asked for exactly none; and the screen's outcome was said
to lie above the lowest price after the entry, which a bar that opens past the
target breaks: the fill is at the target, below all that the bar traded. No bar of
the run's had gapped so far; one does now, and `OutcomeIsExit` names the case.

## Plan

Done: the model of every part listed as modelled, the proofs above. What would
come next needs theorems about lists that the library does not have: that
`SelectSeq` and a sort give equal lists for equal elements, from which the
tools' scores, the blind selection and the poll would follow.

## Not modelled

* `edge/stats.py`, `edge/features.py`, the bootstrap, the deflated Sharpe, the
  optimizer's grid and ranking: formulas over real numbers or random draws. The
  gauntlet's verdict is given their outcome.
* the synthetic provider and the mock feed: random walks for tests and
  demonstrations; the seed switched off for tests (`LAB_SEED`).
* in `LiveFeed`, a running total that the vendor corrects to a smaller one within
  the day; in `Scanner`, two polls in threads of their own on the same day caches,
  where the later answer replaces the earlier one, a failed request included, and
  a cache replaced at midnight may be given an answer of the day before.
* the pages that serve a committed snapshot or a fresher file, basic
  authentication, the chart and journal views, the web client, the proxy, the
  command line and the remaining scripts: input and output without state.
* `wait_for_auth` and the gateway's health check, which run before the server;
  `get_quote`, `list_live_orders`, `flush` and `flush_all`, which nothing calls.
* resting and rejected orders of the simulated broker, which the practice desk
  does not cause.
