------------------------------ MODULE LabStore ------------------------------
(***************************************************************************)
(* The Strategy Lab's database and the processes that share it: edge/      *)
(* store.py and the seed of edge/lab.py, the /api/lab handlers and the     *)
(* lifespan of server.py, and scripts/refresh_lab_runs.py.                 *)
(*                                                                         *)
(* The server and the sweep open the same file.  A store method is one     *)
(* transaction and one step; between two of them the other process, and    *)
(* in the server the other handlers, may run.  A run is computed off the   *)
(* event loop from the strategy read before, and filed when it is done.    *)
(***************************************************************************)
EXTENDS Integers, Sequences, FiniteSets

CONSTANTS
  Names,        \* names a strategy can have
  Windows,      \* windows of a run; the first of them is the preview's
  Entry,        \* the gauntlet key of each configuration, None for a combo
  Score,        \* the ranked metric of a run of each configuration
  Catalogue,    \* the seed's strategies: [name, cfg, canonical]
  BoardLimit,   \* limit of the leaderboard
  Late,         \* whether the local evening is the next day in UTC
  MaxOps,       \* bound: requests, kills and files not read
  MaxRuns,      \* bound: runs saved by requests and sweeps
  MaxDay,       \* bound: days
  None, Sentinel

Configs == DOMAIN Entry
Entries == {Entry[c] : c \in Configs} \ {None}

(* The id is history: the row it names, through saves and renames.         *)
Row    == [name : Names, cfg : Configs, id : Nat]

ASSUME LabAssumption ==
  /\ Names \subseteq Nat /\ Windows \subseteq Nat /\ Windows # {}
  /\ Score \in [Configs -> Int]
  /\ Catalogue \in Seq([name : Names, cfg : Configs, canonical : BOOLEAN])
  /\ {BoardLimit, MaxOps, MaxRuns, MaxDay} \subseteq Nat
  /\ Late \in BOOLEAN /\ None \notin Names \cup Row /\ Sentinel \notin Entries

VARIABLES
  strategies,  \* the table, a partial function: name -> [name, cfg, id]
  runs,        \* the table, by id
  active,      \* the row 'active' of meta
  gauntlets,   \* the keys of the table
  proc,        \* what each process does: [at, todo]
  engine,      \* the strategy that the live engine runs, None without
  inflight,    \* the runs that the server computes
  sweep,       \* the sweep's locals: [list, today, fresh, failed]
  date,        \* [day, late]: the local day; late once UTC is a day ahead
  chosen,      \* history: the id of the strategy set active, 0 for none
  born,        \* history: rows ever inserted into strategies
  moved,       \* history: names renamed or deleted since the sweep's list
  unread,      \* history: a gauntlet file was once found unreadable
  ops          \* history: requests served, kills, files not read

store == <<strategies, runs, active, gauntlets>>
history == <<chosen, born, moved, unread, ops>>
vars == <<store, proc, engine, inflight, sweep, date, history>>

Preview == CHOOSE w \in Windows : \A v \in Windows : w <= v

Run    == [strategy : Names, cfg : Configs, window : Windows, utc : Nat,
           owner : Nat, astray : BOOLEAN]
Tables == {"strategies", "canonical", "runs", "gauntlets"}
Procs  == {"server", "sweep"}

Utc == date.day + (IF date.late THEN 1 ELSE 0)

NoSweep == [list |-> {}, today |-> 0, fresh |-> {}, failed |-> {}]

Init ==
  /\ strategies = <<>>
  /\ runs = <<>>
  /\ active = None
  /\ gauntlets = {}
  /\ proc = [p \in Procs |-> [at |-> <<"down">>, todo |-> {}]]
  /\ engine = None
  /\ inflight = {}
  /\ sweep = NoSweep
  /\ date = [day |-> 1, late |-> FALSE]
  /\ chosen = 0
  /\ born = 0
  /\ moved = {}
  /\ unread = FALSE
  /\ ops = 0

-----------------------------------------------------------------------------
(* LabStore.                                                               *)

GetStrategy(n) == IF n \in DOMAIN strategies THEN strategies[n] ELSE None

(* An insert, or the update of the row in conflict.                        *)
SaveStrategy(n, c) ==
  LET new == n \notin DOMAIN strategies
      row == [name |-> n, cfg |-> c,
              id |-> IF new THEN born + 1 ELSE strategies[n].id]
  IN /\ strategies' = [m \in DOMAIN strategies \cup {n} |->
                         IF m = n THEN row ELSE strategies[m]]
     /\ born' = IF new THEN born + 1 ELSE born

(* A strategy in a request, or a run of the seed's: of no stored row.      *)
Inline(n, c) == [name |-> n, cfg |-> c, id |-> 0]

(* The name that the owner of a run has now.                               *)
NameOf(id) ==
  LET held == {n \in DOMAIN strategies : strategies[n].id = id}
  IN IF held = {} THEN None ELSE CHOOSE n \in held : TRUE

SaveRun(row, w) ==
  runs' = Append(runs,
    [strategy |-> row.name, cfg |-> row.cfg, window |-> w, utc |-> Utc,
     owner |-> row.id, astray |-> NameOf(row.id) # row.name])

(* Mutant: one row for each strategy, whatever the window.                 *)
NewestOfStrategy(i) == \A j \in DOMAIN runs :
  runs[j].strategy = runs[i].strategy => j <= i

(* The newest run of its strategy and window.                              *)
Newest(i) == \A j \in DOMAIN runs :
  runs[j].strategy = runs[i].strategy /\ runs[j].window = runs[i].window
    => j <= i

(* The best first; equals stay in the order of their ids.                  *)
Ahead(i, j) ==
  \/ Score[runs[i].cfg] > Score[runs[j].cfg]
  \/ Score[runs[i].cfg] = Score[runs[j].cfg] /\ i < j

(* The rows of the leaderboard: positions of runs, up to a limit.          *)
Leaderboard(W, limit) ==
  LET rows == {i \in DOMAIN runs : Newest(i) /\ runs[i].window \in W}
  IN {i \in rows : Cardinality({j \in rows : Ahead(j, i)}) < limit}

(* The configuration carries its own name.                                 *)
Renamed(row, new) == [row EXCEPT !.name = new]

(* Mutant: the history stays under the old name.                           *)
KeepRuns(old, new) == runs

RepointRuns(old, new) ==
  [i \in DOMAIN runs |->
     IF runs[i].strategy = old THEN [runs[i] EXCEPT !.strategy = new]
     ELSE runs[i]]

(* Mutant: the active name stays.                                          *)
KeepActive(old, new) == active

RepointActive(old, new) == IF active = old THEN new ELSE active

-----------------------------------------------------------------------------
(* The seed, step by step: a table is filled only when it is found empty,  *)
(* one commit for each row.  A seed file that cannot be read leaves the    *)
(* canonical strategies for their table, and no runs.                      *)

(* build_lab_seed: the canonical strategies have a run of every window,    *)
(* the swept ones of the first.                                            *)
SeedWindows(s) == IF s.canonical THEN Windows ELSE {Preview}

SeedRuns ==
  {r \in [pos : DOMAIN Catalogue, window : Windows] :
     r.window \in SeedWindows(Catalogue[r.pos])}

(* build_lab_gauntlets: one for each entry of the seed's single legs.      *)
SeedGauntlets == {Entry[Catalogue[i].cfg] : i \in DOMAIN Catalogue} \ {None}

(* What a table is filled with: positions of the catalogue, runs, keys.    *)
SeedOf(table) ==
  CASE table = "strategies" -> DOMAIN Catalogue
    [] table = "canonical"  -> {i \in DOMAIN Catalogue : Catalogue[i].canonical}
    [] table = "runs"       -> SeedRuns
    [] table = "gauntlets"  -> SeedGauntlets \cup {Sentinel}

IsEmpty(table) ==
  CASE table \in {"strategies", "canonical"} -> DOMAIN strategies = {}
    [] table = "runs"       -> runs = <<>>
    [] table = "gauntlets"  -> Sentinel \notin gauntlets

(* What its file has for a table when it is found empty: the sentinel is   *)
(* saved even when the gauntlets cannot be read, but not without a file.   *)
Reads(table) ==
  IF ~IsEmpty(table) THEN {{}}
  ELSE IF table = "gauntlets" THEN {SeedOf(table), {Sentinel}, {}}
  ELSE {SeedOf(table)}

(* Bound: a file that is missing or unreadable counts as a request does.   *)
Counts(bad) ==
  IF bad THEN ops < MaxOps /\ ops' = ops + 1 ELSE UNCHANGED ops

RunGoesBefore(x, y) ==
  \/ x.pos < y.pos
  \/ x.pos = y.pos /\ x.window < y.window

(* Mutant: the sentinel goes first.                                        *)
SentinelFirst(table, x, y) ==
  CASE table \in {"strategies", "canonical"} -> x < y
    [] table = "runs"       -> RunGoesBefore(x, y)
    [] table = "gauntlets"  -> x = Sentinel /\ y # Sentinel

(* The rows go in in the order of the file, the sentinel after all others. *)
GoesBefore(table, x, y) ==
  CASE table \in {"strategies", "canonical"} -> x < y
    [] table = "runs"       -> RunGoesBefore(x, y)
    [] table = "gauntlets"  -> x # Sentinel /\ y = Sentinel

(* Where a process goes when a table is done.                              *)
After(p, table) ==
  CASE table = "strategies" -> <<"check", "runs">>
    [] table \in {"canonical", "runs"} -> <<"check", "gauntlets">>
    [] table = "gauntlets"  -> IF p = "server" THEN <<"attach">> ELSE <<"list">>

Fill(p, table, items) ==
  proc' = [proc EXCEPT ![p] =
    [at |-> IF items = {} THEN After(p, table) ELSE <<"fill", table>>,
     todo |-> items]]

SeedCheck(p, table) ==
  /\ proc[p].at = <<"check", table>>
  /\ \E items \in Reads(table) :
       /\ Fill(p, table, items)
       /\ unread' = (unread \/ items = {Sentinel})
       /\ Counts(IsEmpty(table) /\ items # SeedOf(table))
  /\ UNCHANGED <<store, engine, inflight, sweep, date, chosen, born, moved>>

SeedSave(p, table) ==
  /\ proc[p].at = <<"fill", table>>
  /\ \E item \in proc[p].todo :
       /\ \A x \in proc[p].todo : ~GoesBefore(table, x, item)
       /\ Fill(p, table, proc[p].todo \ {item})
       /\ \/ /\ table \in {"strategies", "canonical"}
             /\ SaveStrategy(Catalogue[item].name, Catalogue[item].cfg)
             /\ UNCHANGED <<runs, active, gauntlets>>
          \/ /\ table = "runs"
             /\ SaveRun(Inline(Catalogue[item.pos].name, Catalogue[item.pos].cfg),
                        item.window)
             /\ UNCHANGED <<strategies, active, gauntlets, born>>
          \/ /\ table = "gauntlets"
             /\ gauntlets' = gauntlets \cup {item}
             /\ UNCHANGED <<strategies, runs, active, born>>
  /\ UNCHANGED <<engine, inflight, sweep, date, chosen, moved, unread, ops>>

Seed(p) == \E t \in Tables : SeedCheck(p, t) \/ SeedSave(p, t)

Goto(p, at) == proc' = [proc EXCEPT ![p].at = at]

(* Stored, and of one leg.                                                 *)
Supported(row) == row # None /\ Entry[row.cfg] # None

(* The live engine runs the active strategy, when it is supported.         *)
AttachEngine ==
  LET row == GetStrategy(active)
  IN /\ proc["server"].at = <<"attach">>
     /\ Goto("server", <<"serve">>)
     /\ engine' = IF Supported(row) THEN row ELSE None
     /\ UNCHANGED <<store, inflight, sweep, date, history>>

-----------------------------------------------------------------------------
(* The handlers of the server.                                             *)

Serve ==
  /\ proc["server"].at = <<"serve">>
  /\ ops < MaxOps
  /\ ops' = ops + 1
  /\ UNCHANGED <<gauntlets, proc, engine, sweep, date, unread>>

Moves(n) == moved' = IF sweep.list = {} THEN {} ELSE moved \cup {n}

LabSaveStrategy(n, c) ==
  /\ Serve
  /\ SaveStrategy(n, c)
  /\ UNCHANGED <<runs, active, inflight, chosen, moved>>

LabDeleteStrategy(n) ==
  /\ Serve
  /\ n \in DOMAIN strategies
  /\ strategies' = [m \in DOMAIN strategies \ {n} |-> strategies[m]]
  /\ Moves(n)
  /\ UNCHANGED <<runs, active, inflight, chosen, born>>

(* The one commit is inside set_active, or the last line: all or nothing.  *)
LabRenameStrategy(old, new) ==
  /\ Serve
  /\ old # new
  /\ old \in DOMAIN strategies /\ new \notin DOMAIN strategies
  /\ strategies' = [m \in (DOMAIN strategies \ {old}) \cup {new} |->
       IF m = new THEN Renamed(strategies[old], new) ELSE strategies[m]]
  /\ runs' = RepointRuns(old, new)
  /\ active' = RepointActive(old, new)
  /\ Moves(old)
  /\ UNCHANGED <<inflight, chosen, born>>

(* The name is not looked up.                                              *)
LabSetActive(n) ==
  /\ Serve
  /\ active' = n
  /\ chosen' = IF n \in DOMAIN strategies THEN strategies[n].id ELSE 0
  /\ UNCHANGED <<strategies, runs, inflight, born, moved>>

(* A run of a stored strategy, or of the one in the request.               *)
LabRunStart(n, c, w) ==
  /\ Serve
  /\ Len(runs) + Cardinality(inflight) < MaxRuns
  /\ inflight' = inflight \cup
       {[row |-> IF GetStrategy(n) # None THEN strategies[n]
                 ELSE Inline(n, c), window |-> w]}
  /\ UNCHANGED <<strategies, runs, active, chosen, born, moved>>

LabRunEnd(r) ==
  /\ r \in inflight
  /\ inflight' = inflight \ {r}
  /\ SaveRun(r.row, r.window)
  /\ UNCHANGED <<strategies, active, gauntlets, proc, engine, sweep, date,
                 history>>

(* What the handlers that only read answer.                                *)
LabGauntlet(n) ==
  LET row == GetStrategy(n)
  IN row # None /\ Entry[row.cfg] \in gauntlets

(* The run that the preview shows, 0 where none is available.              *)
LabDryrun(n) ==
  LET mine == {i \in Leaderboard({Preview}, BoardLimit) : runs[i].strategy = n}
  IN IF ~Supported(GetStrategy(n)) \/ mine = {} THEN 0
     ELSE CHOOSE i \in mine : \A j \in mine : ~Ahead(j, i)

-----------------------------------------------------------------------------
(* The sweep.                                                              *)

SweepList ==
  /\ proc["sweep"].at = <<"list">>
  /\ Goto("sweep", <<"look">>)
  /\ sweep' = [list |-> {strategies[n] : n \in DOMAIN strategies},
               today |-> date.day, fresh |-> {}, failed |-> {}]
  /\ moved' = {}
  /\ UNCHANGED <<store, engine, inflight, date, chosen, born, unread, ops>>

(* Mutant: a strategy with a fresh run of any window is skipped.           *)
FreshOfAny(S, today) ==
  {<<runs[i].strategy, w>> : i \in {j \in S : runs[j].utc = today},
                             w \in Windows}

(* The pairs whose run on the leaderboard is of today.                     *)
Fresh(S, today) ==
  {<<runs[i].strategy, runs[i].window>> : i \in {j \in S : runs[j].utc = today}}

(* Window after window, strategies in the order of their names.            *)
Before(a, b) ==
  \/ a.window < b.window
  \/ a.window = b.window /\ a.row.name < b.row.name

SweepLook ==
  /\ proc["sweep"].at = <<"look">>
  /\ proc' = [proc EXCEPT !["sweep"] =
       [at |-> <<"run">>, todo |-> [row : sweep.list, window : Windows]]]
  /\ sweep' = [sweep EXCEPT !.fresh =
       UNION {Fresh(Leaderboard({w}, 10000), sweep.today) : w \in Windows}]
  /\ UNCHANGED <<store, engine, inflight, date, history>>

(* The next pair: skipped, run and filed, or failed.  Bound: one failure.  *)
SweepRun ==
  /\ proc["sweep"].at = <<"run">>
  /\ \E r \in proc["sweep"].todo :
       LET pair == <<r.row.name, r.window>>
       IN /\ \A x \in proc["sweep"].todo : ~Before(x, r)
          /\ proc' = [proc EXCEPT !["sweep"].todo = @ \ {r}]
          /\ \/ pair \in sweep.fresh /\ UNCHANGED <<runs, sweep>>
             \/ /\ pair \notin sweep.fresh
                /\ Len(runs) < MaxRuns
                /\ SaveRun(r.row, r.window)
                /\ UNCHANGED sweep
             \/ /\ pair \notin sweep.fresh /\ sweep.failed = {}
                /\ sweep' = [sweep EXCEPT !.failed = @ \cup {pair}]
                /\ UNCHANGED runs
  /\ UNCHANGED <<strategies, active, gauntlets, engine, inflight, date, history>>

SweepDone ==
  /\ proc["sweep"] = [at |-> <<"run">>, todo |-> {}]
  /\ Goto("sweep", <<"done">>)
  /\ UNCHANGED <<store, engine, inflight, sweep, date, history>>

-----------------------------------------------------------------------------
(* A process starts with the seed, and reads the file of it or cannot.     *)
Start(p) ==
  /\ proc[p].at \in {<<"down">>, <<"done">>}
  /\ \E table \in {"strategies", "canonical"} :
       /\ proc' = [proc EXCEPT ![p] = [at |-> <<"check", table>>, todo |-> {}]]
       /\ Counts(table = "canonical")
  /\ sweep' = IF p = "sweep" THEN NoSweep ELSE sweep
  /\ UNCHANGED <<store, engine, inflight, date, chosen, born, moved, unread>>

(* A process is killed; what it had not committed is gone.  (A sweep's     *)
(* end is its own: SweepDone.)                                             *)
Kill(p) ==
  /\ proc[p].at # <<"down">> /\ ops < MaxOps
  /\ ops' = ops + 1
  /\ proc' = [proc EXCEPT ![p] = [at |-> <<"down">>, todo |-> {}]]
  /\ engine' = IF p = "server" THEN None ELSE engine
  /\ inflight' = IF p = "server" THEN {} ELSE inflight
  /\ sweep' = IF p = "sweep" THEN NoSweep ELSE sweep
  /\ UNCHANGED <<store, date, chosen, born, moved, unread>>

(* The evening, when UTC is a day ahead, and the next morning.             *)
Clock ==
  /\ date.day < MaxDay
  /\ date' = IF Late /\ ~date.late THEN [date EXCEPT !.late = TRUE]
             ELSE [day |-> date.day + 1, late |-> FALSE]
  /\ UNCHANGED <<store, proc, engine, inflight, sweep, history>>

Next ==
  \/ \E p \in Procs : Start(p) \/ Kill(p) \/ Seed(p)
  \/ \E n \in Names, c \in Configs : LabSaveStrategy(n, c)
  \/ \E n \in Names : LabDeleteStrategy(n) \/ LabSetActive(n)
  \/ \E n, m \in Names : LabRenameStrategy(n, m)
  \/ \E n \in Names, c \in Configs, w \in Windows : LabRunStart(n, c, w)
  \/ \E r \in inflight : LabRunEnd(r)
  \/ AttachEngine
  \/ SweepList \/ SweepLook \/ SweepRun \/ SweepDone
  \/ Clock

Spec == Init /\ [][Next]_vars

-----------------------------------------------------------------------------
(* The tables have the store's columns, and a row carries its own name:    *)
(* the sweep files its runs under the name inside the configuration.       *)
TypeOK ==
  /\ DOMAIN strategies \subseteq Names
  /\ \A n \in DOMAIN strategies : strategies[n] \in Row /\ strategies[n].name = n
  /\ runs \in Seq(Run)
  /\ active \in Names \cup {None}
  /\ gauntlets \subseteq Entries \cup {Sentinel}
  /\ engine \in Row \cup {None}
  /\ inflight \subseteq [row : Row, window : Windows]
  /\ sweep.list \subseteq Row
  /\ sweep.fresh \cup sweep.failed \subseteq Names \X Windows
  /\ unread \in BOOLEAN

(* A gauntlet of the seed is there for every strategy that has one once    *)
(* the sentinel is, though either process may have been killed while it    *)
(* filled the table: nobody fills it again.  The exception is a start that *)
(* found the file unreadable: seed takes it for an empty one, and saves    *)
(* the sentinel all the same.                                              *)
SentinelMeansAll ==
  /\ TypeOK
  /\ Sentinel \in gauntlets /\ ~unread =>
    \A n \in DOMAIN strategies :
      Entry[strategies[n].cfg] \in SeedGauntlets => LabGauntlet(n)

(* A strategy takes its history along: as long as it is stored, every run  *)
(* it had when it was renamed is filed under the name it has now.  A run   *)
(* that was being computed then is the exception.                          *)
HistoryFollows ==
  \A i \in DOMAIN runs :
    ~runs[i].astray /\ NameOf(runs[i].owner) # None
      => runs[i].strategy = NameOf(runs[i].owner)

(* As long as the strategy that was set active is stored, no sequence of   *)
(* saves, renames and deletes makes another one active, so a restart       *)
(* attaches the engine to it.                                              *)
ChosenStaysActive ==
  chosen # 0 /\ NameOf(chosen) # None => active = NameOf(chosen)

(* A preview is of the newest run of its strategy and window, whatever has *)
(* been filed, renamed or deleted since; and a stored strategy of one leg  *)
(* with such a run has one, unless more names have one than the board      *)
(* shows.                                                                  *)
PreviewFindsRun ==
  \A n \in Names :
    LET mine == {i \in DOMAIN runs :
                   runs[i].strategy = n /\ runs[i].window = Preview}
        all  == {runs[i].strategy :
                   i \in {j \in DOMAIN runs : runs[j].window = Preview}}
    IN /\ LabDryrun(n) # 0 =>
            LabDryrun(n) \in mine /\ \A i \in mine : i <= LabDryrun(n)
       /\ /\ Supported(GetStrategy(n)) /\ mine # {}
          /\ Cardinality(all) <= BoardLimit
          => LabDryrun(n) # 0

(* A finished sweep has left nobody out, however often it was killed and   *)
(* started again: each strategy and window of its list has a run of its    *)
(* day or later, has failed, or went by another name meanwhile.            *)
SweepCovers ==
  proc["sweep"].at = <<"done">> =>
    \A row \in sweep.list, w \in Windows :
      \/ <<row.name, w>> \in sweep.failed
      \/ row.name \in moved
      \/ \E i \in DOMAIN runs :
           /\ runs[i].strategy = row.name /\ runs[i].window = w
           /\ runs[i].utc >= sweep.today

=============================================================================
