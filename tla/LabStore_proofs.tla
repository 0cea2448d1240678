-------------------------- MODULE LabStore_proofs ---------------------------
(***************************************************************************)
(* Proofs about LabStore, for every set of names and of windows, every     *)
(* catalogue, and every number of requests, kills, runs and days.          *)
(***************************************************************************)
EXTENDS LabStore, FiniteSetTheorems, WellFoundedInduction, TLAPS

Seeds  == DOMAIN Catalogue \cup SeedRuns \cup Entries \cup {Sentinel}
Pairs  == [row : Row, window : Windows]
Stages == {<<"down">>, <<"attach">>, <<"serve">>, <<"list">>, <<"look">>,
           <<"run">>, <<"done">>}
            \cup {<<"check", t>> : t \in Tables} \cup {<<"fill", t>> : t \in Tables}

(* What the processes have yet to do.                                      *)
ProcInv ==
  /\ proc \in [Procs -> [at : Stages, todo : SUBSET (Seeds \cup Pairs)]]
  /\ \A p \in Procs, t \in Tables :
       proc[p].at = <<"fill", t>> => proc[p].todo \subseteq SeedOf(t)
  /\ proc["sweep"].at = <<"run">> =>
       proc["sweep"].todo \subseteq [row : sweep.list, window : Windows]

TypeInv ==
  /\ TypeOK /\ ProcInv
  /\ sweep \in [list : SUBSET Row, today : Nat, fresh : SUBSET (Names \X Windows),
                failed : SUBSET (Names \X Windows)]
  /\ date \in [day : Nat, late : BOOLEAN]
  /\ born \in Nat /\ chosen \in Nat

(* No two rows are the same one, and nothing refers to a row that has not  *)
(* been inserted yet.                                                      *)
IdsInv ==
  /\ \A n \in DOMAIN strategies : strategies[n].id \in 1 .. born
  /\ \A n, m \in DOMAIN strategies : strategies[n].id = strategies[m].id => n = m
  /\ chosen <= born
  /\ \A i \in DOMAIN runs : runs[i].owner <= born
  /\ \A r \in inflight : r.row.id <= born
  /\ \A row \in sweep.list : row.id <= born

HistoryInv ==
  \A i \in DOMAIN runs, n \in DOMAIN strategies :
    ~runs[i].astray /\ strategies[n].id = runs[i].owner => runs[i].strategy = n

ChosenInv ==
  \A n \in DOMAIN strategies : strategies[n].id = chosen => active = n

(* The gauntlets that are not there yet are still to do, and the sentinel  *)
(* goes last, while no file was unreadable.                                *)
SeedInv ==
  ~unread =>
    /\ Sentinel \in gauntlets => SeedGauntlets \subseteq gauntlets
    /\ \A p \in Procs : proc[p].at = <<"fill", "gauntlets">> =>
         SeedGauntlets \subseteq gauntlets \cup proc[p].todo

(* The run that the sweep counts on, or the name is another one's now.     *)
Refreshed(n, w) ==
  \/ n \in moved
  \/ \E i \in DOMAIN runs : /\ runs[i].strategy = n /\ runs[i].window = w
                            /\ runs[i].utc >= sweep.today

SweepInv ==
  /\ sweep.today <= date.day
  /\ sweep.list # {} => \A pair \in sweep.fresh : Refreshed(pair[1], pair[2])
  /\ proc["sweep"].at \in {<<"run">>, <<"done">>} =>
       \A row \in sweep.list, w \in Windows :
         \/ <<row.name, w>> \in sweep.failed
         \/ Refreshed(row.name, w)
         \/ /\ proc["sweep"].at = <<"run">>
            /\ [row |-> row, window |-> w] \in proc["sweep"].todo

-----------------------------------------------------------------------------
(* What the definitions mean.                                              *)
LEMMA Places ==
  ASSUME NEW t \in Tables, NEW u \in Tables
  PROVE  /\ <<"fill", t>> \in Stages /\ <<"check", t>> \in Stages
         /\ <<"fill", t>> = <<"fill", u>> => t = u
         /\ <<"fill", t>> # <<"check", u>>
         /\ \A x \in {"down", "attach", "serve", "list", "look", "run", "done"} :
              <<x>> \in Stages /\ <<x>> # <<"fill", t>> /\ <<x>> # <<"check", t>>
BY DEF Stages

LEMMA AfterIs ==
  ASSUME NEW p \in Procs, NEW t \in Tables
  PROVE  /\ After(p, t) \in Stages
         /\ After(p, t) \notin {<<"run">>, <<"done">>}
         /\ \A u \in Tables : After(p, t) # <<"fill", u>>
BY Places DEF After, Tables, Procs

LEMMA CatalogueIs ==
  ASSUME NEW i \in DOMAIN Catalogue
  PROVE  Catalogue[i].name \in Names /\ Catalogue[i].cfg \in Configs
<1> DEFINE S == [name : Names, cfg : Configs, canonical : BOOLEAN]
<1>1. Catalogue \in Seq(S)
  BY LabAssumption
<1>2. \A s \in S : s.name \in Names /\ s.cfg \in Configs
  OBVIOUS
<1> HIDE DEF S
<1> QED BY <1>1, <1>2

LEMMA SeedOfIs ==
  ASSUME NEW t \in Tables
  PROVE  SeedOf(t) \subseteq Seeds
<1>1. SeedGauntlets \subseteq Entries
  BY CatalogueIs DEF SeedGauntlets, Entries
<1> QED BY <1>1 DEF SeedOf, Seeds, Tables

(* A table is filled with its rows, with the sentinel alone or with none.  *)
LEMMA ReadsIs ==
  ASSUME NEW t \in Tables, NEW items \in Reads(t)
  PROVE  /\ items \subseteq SeedOf(t)
         /\ items \in {{}, {Sentinel}} \/ items = SeedOf(t)
<1>1. Sentinel \in SeedOf("gauntlets")
  BY DEF SeedOf
<1> QED BY <1>1 DEF Reads

LEMMA InlineTyped ==
  ASSUME NEW n \in Names, NEW c \in Configs
  PROVE  Inline(n, c) \in Row /\ Inline(n, c).id = 0
BY DEF Inline, Row

(* A save leaves one row of each name.                                     *)
LEMMA SaveTyped ==
  ASSUME TypeInv, NEW n \in Names, NEW c \in Configs, SaveStrategy(n, c)
  PROVE  /\ DOMAIN strategies' = DOMAIN strategies \cup {n}
         /\ DOMAIN strategies' \subseteq Names /\ born' \in Nat
         /\ \A m \in DOMAIN strategies' :
              strategies'[m] \in Row /\ strategies'[m].name = m
         /\ \A m \in DOMAIN strategies \ {n} : strategies'[m] = strategies[m]
         /\ \/ /\ n \in DOMAIN strategies /\ born' = born
               /\ strategies'[n].id = strategies[n].id
            \/ /\ n \notin DOMAIN strategies /\ born' = born + 1
               /\ strategies'[n].id = born + 1
<1>1. /\ \A m \in DOMAIN strategies : strategies[m] \in Row /\ strategies[m].name = m
      /\ born \in Nat /\ DOMAIN strategies \subseteq Names
  BY DEF TypeInv, TypeOK
<1>2. CASE n \in DOMAIN strategies
  <2>1. strategies[n].id \in Nat
    BY <1>1, <1>2 DEF Row
  <2>2. PICK row \in Row : /\ row.name = n /\ row.id = strategies[n].id
                           /\ strategies' = [m \in DOMAIN strategies \cup {n} |->
                                               IF m = n THEN row ELSE strategies[m]]
    BY <1>2, <2>1 DEF SaveStrategy, Row
  <2>3. born' = born
    BY <1>2 DEF SaveStrategy
  <2> QED BY <1>1, <1>2, <2>2, <2>3
<1>3. CASE n \notin DOMAIN strategies
  <2>1. born + 1 \in Nat
    BY <1>1
  <2>2. PICK row \in Row : /\ row.name = n /\ row.id = born + 1
                           /\ strategies' = [m \in DOMAIN strategies \cup {n} |->
                                               IF m = n THEN row ELSE strategies[m]]
    BY <1>3, <2>1 DEF SaveStrategy, Row
  <2>3. born' = born + 1
    BY <1>3 DEF SaveStrategy
  <2> QED BY <1>1, <1>3, <2>2, <2>3
<1> QED BY <1>2, <1>3

(* A run is filed after all others.                                        *)
LEMMA FileTyped ==
  ASSUME TypeInv, NEW row \in Row, NEW w \in Windows, SaveRun(row, w)
  PROVE  /\ runs' \in Seq(Run)
         /\ DOMAIN runs' = DOMAIN runs \cup {Len(runs) + 1}
         /\ Len(runs) + 1 \notin DOMAIN runs
         /\ \A i \in DOMAIN runs : runs'[i] = runs[i]
         /\ LET last == runs'[Len(runs) + 1]
            IN /\ last.strategy = row.name /\ last.window = w
               /\ last.owner = row.id /\ last.utc = Utc
               /\ last.astray <=> NameOf(row.id) # row.name
<1>1. runs \in Seq(Run) /\ Utc \in Nat
  BY DEF TypeInv, TypeOK, Utc
<1>2. PICK last \in Run :
        /\ runs' = Append(runs, last)
        /\ last.strategy = row.name /\ last.window = w
        /\ last.owner = row.id /\ last.utc = Utc
        /\ last.astray <=> NameOf(row.id) # row.name
  <2>1. PICK b \in BOOLEAN : b = (NameOf(row.id) # row.name)
    OBVIOUS
  <2>2. PICK last : last = [strategy |-> row.name, cfg |-> row.cfg, window |-> w,
                            utc |-> Utc, owner |-> row.id, astray |-> b]
    OBVIOUS
  <2>3. runs' = Append(runs, last)
    BY <2>1, <2>2 DEF SaveRun
  <2>4. last \in Run
    BY <1>1, <2>2 DEF Run, Row
  <2>5. last.astray <=> NameOf(row.id) # row.name
    BY <2>1, <2>2
  <2> QED BY <2>2, <2>3, <2>4, <2>5
<1> QED BY <1>1, <1>2

LEMMA RepointTyped ==
  ASSUME TypeInv, NEW old \in Names, NEW new \in Names, runs' = RepointRuns(old, new)
  PROVE  /\ runs' \in Seq(Run) /\ DOMAIN runs' = DOMAIN runs
         /\ \A i \in DOMAIN runs :
              /\ runs'[i].strategy = IF runs[i].strategy = old THEN new
                                     ELSE runs[i].strategy
              /\ runs'[i].window = runs[i].window /\ runs'[i].utc = runs[i].utc
              /\ runs'[i].owner = runs[i].owner /\ runs'[i].astray = runs[i].astray
<1>1. runs \in Seq(Run) /\ \A i \in DOMAIN runs : runs[i] \in Run
  BY DEF TypeInv, TypeOK
<1>2. /\ DOMAIN runs' = DOMAIN runs
      /\ \A i \in DOMAIN runs :
           runs'[i] = IF runs[i].strategy = old THEN [runs[i] EXCEPT !.strategy = new]
                      ELSE runs[i]
      /\ runs' = [i \in 1 .. Len(runs) |-> runs'[i]]
  BY <1>1 DEF RepointRuns
<1>3. ASSUME NEW i \in DOMAIN runs
      PROVE  /\ runs'[i] \in Run
             /\ runs'[i].strategy = IF runs[i].strategy = old THEN new
                                    ELSE runs[i].strategy
             /\ runs'[i].window = runs[i].window /\ runs'[i].utc = runs[i].utc
             /\ runs'[i].owner = runs[i].owner /\ runs'[i].astray = runs[i].astray
  BY <1>1, <1>2 DEF Run
<1>4. Len(runs) \in Nat /\ DOMAIN runs = 1 .. Len(runs)
  BY <1>1
<1>5. runs' \in Seq(Run)
  BY <1>2, <1>3, <1>4
<1> QED BY <1>2, <1>3, <1>5

(* The next table, or the rest of this one.                                *)
LEMMA FillTyped ==
  ASSUME TypeInv, NEW p \in Procs, NEW t \in Tables, NEW items,
         items \subseteq SeedOf(t), Fill(p, t, items), sweep' = sweep
  PROVE  /\ ProcInv'
         /\ \A q \in Procs \ {p} : proc'[q] = proc[q]
         /\ proc'[p].at \notin {<<"run">>, <<"done">>}
         /\ proc'[p].todo = items
         /\ \A u \in Tables : proc'[p].at = <<"fill", u>> => u = t /\ items # {}
<1>1. proc \in [Procs -> [at : Stages, todo : SUBSET (Seeds \cup Pairs)]]
  BY DEF TypeInv, ProcInv
<1>2. PICK at \in Stages :
        /\ proc' = [proc EXCEPT ![p] = [at |-> at, todo |-> items]]
        /\ at \notin {<<"run">>, <<"done">>}
        /\ \A u \in Tables : at = <<"fill", u>> => u = t /\ items # {}
  <2>1. CASE items = {}
    BY <2>1, AfterIs DEF Fill
  <2>2. CASE items # {}
    BY <2>2, Places DEF Fill
  <2> QED BY <2>1, <2>2
<1>3. /\ proc'[p].at = at /\ proc'[p].todo = items
      /\ \A q \in Procs \ {p} : proc'[q] = proc[q]
      /\ proc' \in [Procs -> [at : Stages, todo : SUBSET (Seeds \cup Pairs)]]
  BY <1>1, <1>2, SeedOfIs
<1>4. ASSUME NEW q \in Procs, NEW u \in Tables, proc'[q].at = <<"fill", u>>
      PROVE  proc'[q].todo \subseteq SeedOf(u)
  BY <1>2, <1>3, <1>4 DEF TypeInv, ProcInv
<1>5. proc'["sweep"].at = <<"run">> =>
        proc'["sweep"].todo \subseteq [row : sweep'.list, window : Windows]
  BY <1>2, <1>3 DEF TypeInv, ProcInv, Procs
<1> QED BY <1>2, <1>3, <1>4, <1>5 DEF ProcInv

LEMMA ProcKept == ProcInv /\ UNCHANGED <<proc, sweep>> => ProcInv'
BY DEF ProcInv

(* A process goes on without a table to fill.                              *)
LEMMA MoveTyped ==
  ASSUME TypeInv, NEW p \in Procs, NEW at \in Stages, NEW todo,
         proc' = [proc EXCEPT ![p] = [at |-> at, todo |-> todo]],
         todo \subseteq Seeds \cup Pairs,
         \A t \in Tables : at # <<"fill", t>>,
         at = <<"run">> => todo \subseteq [row : sweep'.list, window : Windows],
         p = "sweep" \/ sweep' = sweep
  PROVE  /\ ProcInv' /\ proc'[p].at = at /\ proc'[p].todo = todo
         /\ \A q \in Procs \ {p} : proc'[q] = proc[q]
<1>1. proc \in [Procs -> [at : Stages, todo : SUBSET (Seeds \cup Pairs)]]
  BY DEF TypeInv, ProcInv
<1>2. /\ proc'[p].at = at /\ proc'[p].todo = todo
      /\ \A q \in Procs \ {p} : proc'[q] = proc[q]
      /\ proc' \in [Procs -> [at : Stages, todo : SUBSET (Seeds \cup Pairs)]]
  BY <1>1
<1>3. ASSUME NEW q \in Procs, NEW u \in Tables, proc'[q].at = <<"fill", u>>
      PROVE  proc'[q].todo \subseteq SeedOf(u)
  BY <1>2, <1>3 DEF TypeInv, ProcInv
<1>4. proc'["sweep"].at = <<"run">> =>
        proc'["sweep"].todo \subseteq [row : sweep'.list, window : Windows]
  BY <1>2 DEF TypeInv, ProcInv, Procs
<1> QED BY <1>2, <1>3, <1>4 DEF ProcInv

LEMMA GotoTyped ==
  ASSUME TypeInv, NEW p \in Procs,
         NEW at \in {<<"serve">>, <<"look">>, <<"done">>}, Goto(p, at),
         p = "sweep" \/ sweep' = sweep
  PROVE  /\ ProcInv' /\ proc'[p].at = at
         /\ \A q \in Procs \ {p} : proc'[q] = proc[q]
<1>1. /\ proc[p] \in [at : Stages, todo : SUBSET (Seeds \cup Pairs)]
      /\ proc \in [Procs -> [at : Stages, todo : SUBSET (Seeds \cup Pairs)]]
  BY DEF TypeInv, ProcInv
<1>2. PICK todo : todo = proc[p].todo
  OBVIOUS
<1>3. [proc[p] EXCEPT !.at = at] = [at |-> at, todo |-> todo]
  BY <1>1, <1>2
<1>4. proc' = [proc EXCEPT ![p] = [at |-> at, todo |-> todo]]
  BY <1>3, <1>1 DEF Goto
<1>5. at \in Stages /\ at # <<"run">> /\ \A t \in Tables : at # <<"fill", t>>
  BY Places DEF Stages
<1>6. todo \subseteq Seeds \cup Pairs
  BY <1>1, <1>2
<1> QED BY <1>4, <1>5, <1>6, MoveTyped

LEMMA TypeInit == Init => TypeInv
<1> SUFFICES ASSUME Init PROVE TypeInv
  OBVIOUS
<1>1. TypeOK
  <2>1. unread \in BOOLEAN
    BY DEF Init
  <2>2. /\ strategies = <<>> /\ runs = <<>> /\ active = None /\ gauntlets = {}
        /\ engine = None /\ inflight = {} /\ sweep = NoSweep
    BY DEF Init
  <2> QED BY <2>1, <2>2 DEF TypeOK, NoSweep
<1>2. ProcInv
  <2>1. <<"down">> \in Stages /\ <<"down">> # <<"run">>
    BY DEF Stages
  <2>2. \A p \in Procs : proc[p] = [at |-> <<"down">>, todo |-> {}]
    BY DEF Init
  <2>3. \A t \in Tables : <<"down">> # <<"fill", t>>
    BY Places
  <2>4. proc \in [Procs -> [at : Stages, todo : SUBSET (Seeds \cup Pairs)]]
    BY <2>1 DEF Init
  <2> QED BY <2>1, <2>2, <2>3, <2>4 DEF ProcInv, Procs
<1> QED BY <1>1, <1>2 DEF Init, TypeInv, NoSweep

-----------------------------------------------------------------------------
(* Types are preserved, one lemma for each process.                        *)

LEMMA SeedTypes ==
  ASSUME TypeInv, NEW p \in Procs, Seed(p)
  PROVE  TypeInv'
<1>1. ASSUME NEW t \in Tables, SeedCheck(p, t) PROVE TypeInv'
  <2>1. PICK items \in Reads(t) :
          Fill(p, t, items) /\ unread' = (unread \/ items = {Sentinel})
    BY <1>1 DEF SeedCheck
  <2>2. UNCHANGED <<store, engine, inflight, sweep, date, chosen, born>>
    BY <1>1 DEF SeedCheck
  <2>3. ProcInv'
    BY <2>1, <2>2, ReadsIs, FillTyped
  <2>4. unread' \in BOOLEAN
    BY <2>1
  <2> QED BY <2>2, <2>3, <2>4 DEF TypeInv, TypeOK, store
<1>2. ASSUME NEW t \in Tables, SeedSave(p, t) PROVE TypeInv'
  <2>1. PICK item \in proc[p].todo :
          /\ Fill(p, t, proc[p].todo \ {item})
          /\ \/ /\ t \in {"strategies", "canonical"}
                /\ SaveStrategy(Catalogue[item].name, Catalogue[item].cfg)
                /\ UNCHANGED <<runs, active, gauntlets>>
             \/ /\ t = "runs"
                /\ SaveRun(Inline(Catalogue[item.pos].name, Catalogue[item.pos].cfg),
                           item.window)
                /\ UNCHANGED <<strategies, active, gauntlets, born>>
             \/ /\ t = "gauntlets"
                /\ gauntlets' = gauntlets \cup {item}
                /\ UNCHANGED <<strategies, runs, active, born>>
    BY <1>2 DEF SeedSave
  <2>2. /\ proc[p].at = <<"fill", t>>
        /\ UNCHANGED <<engine, inflight, sweep, date, chosen, unread>>
    BY <1>2 DEF SeedSave
  <2>3. proc[p].todo \subseteq SeedOf(t)
    BY <2>2 DEF TypeInv, ProcInv
  <2>4. ProcInv'
    BY <2>1, <2>2, <2>3, FillTyped
  <2>5. CASE t \in {"strategies", "canonical"}
    <3>1. Catalogue[item].name \in Names /\ Catalogue[item].cfg \in Configs
      BY <2>3, <2>5, CatalogueIs DEF SeedOf
    <3>2. /\ DOMAIN strategies' \subseteq Names /\ born' \in Nat
          /\ \A n \in DOMAIN strategies' :
               strategies'[n] \in Row /\ strategies'[n].name = n
      <4>1. SaveStrategy(Catalogue[item].name, Catalogue[item].cfg)
        BY <2>1, <2>5
      <4> QED BY <3>1, <4>1, SaveTyped
    <3>3. UNCHANGED <<runs, active, gauntlets>>
      BY <2>1, <2>5
    <3> QED BY <2>2, <2>4, <3>2, <3>3 DEF TypeInv, TypeOK
  <2>6. CASE t = "runs"
    <3>1. item \in SeedRuns
      BY <2>3, <2>6 DEF SeedOf
    <3>2. item.pos \in DOMAIN Catalogue /\ item.window \in Windows
      BY <3>1 DEF SeedRuns
    <3>3. Inline(Catalogue[item.pos].name, Catalogue[item.pos].cfg) \in Row
      BY <3>2, CatalogueIs, InlineTyped
    <3>4. runs' \in Seq(Run)
      BY <2>1, <2>6, <3>2, <3>3, FileTyped
    <3>5. UNCHANGED <<strategies, active, gauntlets, born>>
      BY <2>1, <2>6
    <3> QED BY <2>2, <2>4, <3>4, <3>5 DEF TypeInv, TypeOK
  <2>7. CASE t = "gauntlets"
    <3>1. item \in Entries \cup {Sentinel}
      BY <2>3, <2>7, CatalogueIs DEF SeedOf, SeedGauntlets, Entries
    <3>2. gauntlets' = gauntlets \cup {item} /\ UNCHANGED <<strategies, runs, active, born>>
      BY <2>1, <2>7
    <3> QED BY <2>2, <2>4, <3>1, <3>2 DEF TypeInv, TypeOK
  <2> QED BY <2>5, <2>6, <2>7 DEF Tables
<1> QED BY <1>1, <1>2 DEF Seed

LEMMA ServerTypes ==
  ASSUME TypeInv,
         \/ \E n \in Names, c \in Configs : LabSaveStrategy(n, c)
         \/ \E n \in Names : LabDeleteStrategy(n) \/ LabSetActive(n)
         \/ \E n, m \in Names : LabRenameStrategy(n, m)
         \/ \E n \in Names, c \in Configs, w \in Windows : LabRunStart(n, c, w)
         \/ \E r \in inflight : LabRunEnd(r)
         \/ AttachEngine
  PROVE  TypeInv'
<1>a. /\ DOMAIN strategies \subseteq Names /\ born \in Nat
      /\ \A n \in DOMAIN strategies :
           /\ strategies[n] \in Row /\ strategies[n].name = n
           /\ strategies[n].id \in Nat /\ strategies[n].cfg \in Configs
      /\ inflight \subseteq [row : Row, window : Windows]
  BY DEF TypeInv, TypeOK, Row
<1>b. Serve => ProcInv' /\ UNCHANGED <<gauntlets, proc, engine, sweep, date, unread>>
  BY ProcKept DEF Serve, TypeInv
<1>1. ASSUME NEW n \in Names, NEW c \in Configs, LabSaveStrategy(n, c)
      PROVE  TypeInv'
  <2>1. /\ DOMAIN strategies' \subseteq Names /\ born' \in Nat
        /\ \A m \in DOMAIN strategies' :
             strategies'[m] \in Row /\ strategies'[m].name = m
    <3>1. SaveStrategy(n, c)
      BY <1>1 DEF LabSaveStrategy
    <3> QED BY <3>1, SaveTyped
  <2>2. Serve /\ UNCHANGED <<runs, active, inflight, chosen>>
    BY <1>1 DEF LabSaveStrategy
  <2> QED BY <1>b, <2>1, <2>2 DEF TypeInv, TypeOK
<1>2. ASSUME NEW n \in Names, LabDeleteStrategy(n) PROVE TypeInv'
  <2>1. /\ Serve /\ UNCHANGED <<runs, active, inflight, chosen, born>>
        /\ strategies' = [m \in DOMAIN strategies \ {n} |-> strategies[m]]
    BY <1>2 DEF LabDeleteStrategy
  <2>2. /\ DOMAIN strategies' \subseteq Names
        /\ \A m \in DOMAIN strategies' :
             strategies'[m] \in Row /\ strategies'[m].name = m
    BY <1>a, <2>1
  <2> QED BY <1>b, <2>1, <2>2 DEF TypeInv, TypeOK
<1>3. ASSUME NEW n \in Names, LabSetActive(n) PROVE TypeInv'
  <2>1. /\ Serve /\ active' = n /\ UNCHANGED <<strategies, runs, inflight, born>>
        /\ chosen' = IF n \in DOMAIN strategies THEN strategies[n].id ELSE 0
    BY <1>3 DEF LabSetActive
  <2>2. chosen' \in Nat
    BY <1>a, <2>1
  <2> QED BY <1>b, <2>1, <2>2 DEF TypeInv, TypeOK
<1>4. ASSUME NEW old \in Names, NEW new \in Names, LabRenameStrategy(old, new)
      PROVE  TypeInv'
  <2>1. /\ Serve /\ old \in DOMAIN strategies
        /\ strategies' = [m \in (DOMAIN strategies \ {old}) \cup {new} |->
             IF m = new THEN Renamed(strategies[old], new) ELSE strategies[m]]
        /\ runs' = RepointRuns(old, new) /\ active' = RepointActive(old, new)
        /\ UNCHANGED <<inflight, chosen, born>>
    BY <1>4 DEF LabRenameStrategy
  <2>2. Renamed(strategies[old], new) \in Row /\ Renamed(strategies[old], new).name = new
    BY <1>a, <2>1 DEF Renamed, Row
  <2>3. /\ DOMAIN strategies' \subseteq Names
        /\ \A m \in DOMAIN strategies' :
             strategies'[m] \in Row /\ strategies'[m].name = m
    BY <1>a, <2>1, <2>2
  <2>4. runs' \in Seq(Run)
    BY <2>1, RepointTyped
  <2>5. active' \in Names \cup {None}
    BY <2>1 DEF RepointActive, TypeInv, TypeOK
  <2> QED BY <1>b, <2>1, <2>3, <2>4, <2>5 DEF TypeInv, TypeOK
<1>5. ASSUME NEW n \in Names, NEW c \in Configs, NEW w \in Windows, LabRunStart(n, c, w)
      PROVE  TypeInv'
  <2>1. PICK row : /\ row = IF GetStrategy(n) # None THEN strategies[n] ELSE Inline(n, c)
                   /\ inflight' = inflight \cup {[row |-> row, window |-> w]}
    BY <1>5 DEF LabRunStart
  <2>2. row \in Row
    BY <1>a, <2>1, InlineTyped DEF GetStrategy
  <2>3. inflight' \subseteq [row : Row, window : Windows]
    BY <1>a, <2>1, <2>2
  <2>4. Serve /\ UNCHANGED <<strategies, runs, active, chosen, born>>
    BY <1>5 DEF LabRunStart
  <2> QED BY <1>b, <2>3, <2>4 DEF TypeInv, TypeOK
<1>6. ASSUME NEW r \in inflight, LabRunEnd(r) PROVE TypeInv'
  <2>1. /\ inflight' = inflight \ {r} /\ SaveRun(r.row, r.window)
        /\ UNCHANGED <<strategies, active, gauntlets, proc, engine, sweep, date,
                       history>>
    BY <1>6 DEF LabRunEnd
  <2>2. r.row \in Row /\ r.window \in Windows
    BY <1>a
  <2>3. runs' \in Seq(Run)
    BY <2>1, <2>2, FileTyped
  <2>4. ProcInv'
    BY <2>1, ProcKept DEF TypeInv
  <2> QED BY <2>1, <2>3, <2>4 DEF TypeInv, TypeOK, history
<1>7. CASE AttachEngine
  <2>1. /\ Goto("server", <<"serve">>)
        /\ UNCHANGED <<store, inflight, sweep, date, history>>
    BY <1>7 DEF AttachEngine
  <2>2. engine' \in Row \cup {None}
    BY <1>a, <1>7 DEF AttachEngine, GetStrategy
  <2>3. ProcInv'
    BY <2>1, GotoTyped DEF Procs
  <2> QED BY <2>1, <2>2, <2>3 DEF TypeInv, TypeOK, store, history
<1> QED BY <1>1, <1>2, <1>3, <1>4, <1>5, <1>6, <1>7

(* One pair of the sweep.                                                  *)
LEMMA SweepRunIs ==
  ASSUME TypeInv, SweepRun
  PROVE  \E row \in sweep.list, w \in Windows :
           /\ proc["sweep"].at = <<"run">>
           /\ proc' = [proc EXCEPT !["sweep"] =
                [at   |-> <<"run">>,
                 todo |-> proc["sweep"].todo \ {[row |-> row, window |-> w]}]]
           /\ \/ <<row.name, w>> \in sweep.fresh /\ UNCHANGED <<runs, sweep>>
              \/ SaveRun(row, w) /\ UNCHANGED sweep
              \/ /\ sweep' = [sweep EXCEPT
                                !.failed = sweep.failed \cup {<<row.name, w>>}]
                 /\ UNCHANGED runs
<1>1. PICK r \in proc["sweep"].todo :
        /\ proc' = [proc EXCEPT !["sweep"].todo = @ \ {r}]
        /\ \/ <<r.row.name, r.window>> \in sweep.fresh /\ UNCHANGED <<runs, sweep>>
           \/ SaveRun(r.row, r.window) /\ UNCHANGED sweep
           \/ /\ sweep' = [sweep EXCEPT
                             !.failed = @ \cup {<<r.row.name, r.window>>}]
              /\ UNCHANGED runs
  BY DEF SweepRun
<1>2. proc["sweep"].at = <<"run">>
  BY DEF SweepRun
<1>3. /\ proc["sweep"] \in [at : Stages, todo : SUBSET (Seeds \cup Pairs)]
      /\ proc \in [Procs -> [at : Stages, todo : SUBSET (Seeds \cup Pairs)]]
      /\ proc["sweep"].todo \subseteq [row : sweep.list, window : Windows]
  BY <1>2 DEF TypeInv, ProcInv, Procs
<1>4. PICK row \in sweep.list, w \in Windows :
        r.row = row /\ r.window = w /\ r = [row |-> row, window |-> w]
  BY <1>3
<1>5. PICK todo : todo = proc["sweep"].todo \ {r}
  OBVIOUS
<1>6. [proc["sweep"] EXCEPT !.todo = todo] = [at |-> <<"run">>, todo |-> todo]
  BY <1>2, <1>3
<1>7. proc' = [proc EXCEPT !["sweep"] = [at |-> <<"run">>, todo |-> todo]]
  BY <1>1, <1>3, <1>5, <1>6 DEF Procs
<1> QED BY <1>1, <1>2, <1>4, <1>5, <1>7

(* What the sweep takes for fresh are runs that it saw.                    *)
LEMMA SweepLookIs ==
  ASSUME TypeInv, SweepLook
  PROVE  /\ proc' = [proc EXCEPT !["sweep"] =
              [at |-> <<"run">>, todo |-> [row : sweep.list, window : Windows]]]
         /\ sweep' = [sweep EXCEPT !.fresh = sweep'.fresh]
         /\ \A pair \in sweep'.fresh : \E i \in DOMAIN runs :
              /\ pair = <<runs[i].strategy, runs[i].window>>
              /\ runs[i].utc = sweep.today
         /\ UNCHANGED <<store, engine, inflight, date, history>>
<1> DEFINE seen(w) == Fresh(Leaderboard({w}, 10000), sweep.today)
           fresh == UNION {seen(w) : w \in Windows}
<1>1. sweep' = [sweep EXCEPT !.fresh = fresh]
  BY DEF SweepLook
<1>2. ASSUME NEW pair \in fresh
      PROVE  \E i \in DOMAIN runs : /\ pair = <<runs[i].strategy, runs[i].window>>
                                    /\ runs[i].utc = sweep.today
  <2> HIDE DEF seen
  <2>1. PICK w \in Windows : pair \in seen(w)
    OBVIOUS
  <2>2. Leaderboard({w}, 10000) \subseteq DOMAIN runs
    BY DEF Leaderboard
  <2>3. PICK S : S = Leaderboard({w}, 10000)
    OBVIOUS
  <2>4. pair \in Fresh(S, sweep.today)
    BY <2>1, <2>3 DEF seen
  <2>5. PICK i \in {j \in S : runs[j].utc = sweep.today} :
          pair = <<runs[i].strategy, runs[i].window>>
    BY <2>4, Zenon DEF Fresh
  <2>6. i \in S /\ runs[i].utc = sweep.today
    BY <2>5
  <2>7. i \in DOMAIN runs
    BY <2>2, <2>3, <2>6
  <2> QED BY <2>5, <2>6, <2>7
<1>3. /\ proc' = [proc EXCEPT !["sweep"] =
            [at |-> <<"run">>, todo |-> [row : sweep.list, window : Windows]]]
      /\ UNCHANGED <<store, engine, inflight, date, history>>
  BY DEF SweepLook
<1> HIDE DEF fresh
<1>4. sweep'.fresh = fresh
  BY <1>1 DEF TypeInv
<1> QED BY <1>1, <1>2, <1>3, <1>4

LEMMA SweepTypes ==
  ASSUME TypeInv, SweepList \/ SweepLook \/ SweepRun \/ SweepDone
  PROVE  TypeInv'
<1>a. /\ \A n \in DOMAIN strategies : strategies[n] \in Row
      /\ \A i \in DOMAIN runs : runs[i].strategy \in Names /\ runs[i].window \in Windows
      /\ \A row \in sweep.list : row \in Row /\ row.name \in Names
      /\ sweep \in [list : SUBSET Row, today : Nat,
                    fresh : SUBSET (Names \X Windows),
                    failed : SUBSET (Names \X Windows)]
  <2>1. /\ \A n \in DOMAIN strategies : strategies[n] \in Row
        /\ runs \in Seq(Run)
        /\ sweep \in [list : SUBSET Row, today : Nat,
                      fresh : SUBSET (Names \X Windows),
                      failed : SUBSET (Names \X Windows)]
    BY DEF TypeInv, TypeOK
  <2>2. \A i \in DOMAIN runs : runs[i] \in Run
    BY <2>1
  <2>3. \A i \in DOMAIN runs : runs[i].strategy \in Names /\ runs[i].window \in Windows
    BY <2>2 DEF Run
  <2>4. \A row \in sweep.list : row \in Row
    BY <2>1
  <2>5. \A row \in Row : row.name \in Names
    BY DEF Row
  <2> QED BY <2>1, <2>3, <2>4, <2>5
<1>1. CASE SweepList
  <2>1. /\ Goto("sweep", <<"look">>)
        /\ sweep' = [list |-> {strategies[n] : n \in DOMAIN strategies},
                     today |-> date.day, fresh |-> {}, failed |-> {}]
        /\ UNCHANGED <<store, engine, inflight, date, chosen, born, unread>>
    BY <1>1 DEF SweepList
  <2>2. ProcInv'
    BY <2>1, GotoTyped DEF Procs
  <2>3. sweep' \in [list : SUBSET Row, today : Nat, fresh : SUBSET (Names \X Windows),
                    failed : SUBSET (Names \X Windows)]
    BY <1>a, <2>1 DEF TypeInv
  <2> QED BY <2>1, <2>2, <2>3 DEF TypeInv, TypeOK, store
<1>2. CASE SweepLook
  <2>1. /\ proc' = [proc EXCEPT !["sweep"] =
              [at |-> <<"run">>, todo |-> [row : sweep.list, window : Windows]]]
        /\ sweep' = [sweep EXCEPT !.fresh = sweep'.fresh]
        /\ \A pair \in sweep'.fresh : \E i \in DOMAIN runs :
             pair = <<runs[i].strategy, runs[i].window>>
        /\ UNCHANGED <<store, engine, inflight, date, history>>
    BY <1>2, SweepLookIs
  <2>2. sweep'.fresh \subseteq Names \X Windows
    BY <1>a, <2>1
  <2>3. /\ sweep' \in [list : SUBSET Row, today : Nat, fresh : SUBSET (Names \X Windows),
                       failed : SUBSET (Names \X Windows)]
        /\ sweep'.list = sweep.list
    BY <1>a, <2>1, <2>2
  <2>4. ProcInv'
    <3>1. PICK todo : todo = [row : sweep.list, window : Windows]
      OBVIOUS
    <3>2. todo \subseteq Seeds \cup Pairs
      BY <1>a, <3>1 DEF Pairs
    <3>3. todo \subseteq [row : sweep'.list, window : Windows]
      BY <2>3, <3>1
    <3>4. <<"run">> \in Stages /\ \A t \in Tables : <<"run">> # <<"fill", t>>
      BY Places DEF Stages
    <3>5. proc' = [proc EXCEPT !["sweep"] = [at |-> <<"run">>, todo |-> todo]]
      BY <2>1, <3>1
    <3> QED BY <3>2, <3>3, <3>4, <3>5, MoveTyped DEF Procs
  <2> QED BY <2>1, <2>3, <2>4 DEF TypeInv, TypeOK, store, history
<1>3. CASE SweepRun
  <2>1. PICK row \in sweep.list, w \in Windows :
           /\ proc["sweep"].at = <<"run">>
           /\ proc' = [proc EXCEPT !["sweep"] =
                [at   |-> <<"run">>,
                 todo |-> proc["sweep"].todo \ {[row |-> row, window |-> w]}]]
           /\ \/ UNCHANGED <<runs, sweep>>
              \/ SaveRun(row, w) /\ UNCHANGED sweep
              \/ /\ sweep' = [sweep EXCEPT
                                !.failed = sweep.failed \cup {<<row.name, w>>}]
                 /\ UNCHANGED runs
    BY <1>3, SweepRunIs
  <2>2. UNCHANGED <<strategies, active, gauntlets, engine, inflight, date, history>>
    BY <1>3 DEF SweepRun
  <2>3. /\ sweep' \in [list : SUBSET Row, today : Nat, fresh : SUBSET (Names \X Windows),
                       failed : SUBSET (Names \X Windows)]
        /\ sweep'.list = sweep.list
    <3>1. <<row.name, w>> \in Names \X Windows
      BY <1>a
    <3>2. PICK f : f = sweep.failed \cup {<<row.name, w>>}
      OBVIOUS
    <3>3. f \subseteq Names \X Windows
      BY <1>a, <3>1, <3>2
    <3> QED BY <1>a, <2>1, <3>2, <3>3
  <2>4. ProcInv'
    <3>1. /\ proc["sweep"].todo \subseteq [row : sweep.list, window : Windows]
          /\ proc["sweep"].todo \subseteq Seeds \cup Pairs
      BY <2>1 DEF TypeInv, ProcInv, Procs
    <3>2. <<"run">> \in Stages /\ \A t \in Tables : <<"run">> # <<"fill", t>>
      BY Places DEF Stages
    <3> DEFINE rest == proc["sweep"].todo \ {[row |-> row, window |-> w]}
    <3>3. PICK todo : todo = rest
      OBVIOUS
    <3>4. todo \subseteq Seeds \cup Pairs /\ todo \subseteq [row : sweep'.list, window : Windows]
      BY <2>3, <3>1, <3>3
    <3>5. proc' = [proc EXCEPT !["sweep"] = [at |-> <<"run">>, todo |-> todo]]
      BY <2>1, <3>3
    <3> QED BY <3>2, <3>4, <3>5, MoveTyped DEF Procs
  <2>5. runs' \in Seq(Run)
    <3>1. row \in Row
      BY <1>a
    <3>2. runs \in Seq(Run)
      BY DEF TypeInv, TypeOK
    <3> QED BY <2>1, <3>1, <3>2, FileTyped
  <2> QED BY <2>2, <2>3, <2>4, <2>5 DEF TypeInv, TypeOK, history
<1>4. CASE SweepDone
  <2>1. /\ Goto("sweep", <<"done">>)
        /\ UNCHANGED <<store, engine, inflight, sweep, date, history>>
    BY <1>4 DEF SweepDone
  <2>2. ProcInv'
    BY <2>1, GotoTyped DEF Procs
  <2> QED BY <2>1, <2>2 DEF TypeInv, TypeOK, store, history
<1> QED BY <1>1, <1>2, <1>3, <1>4

(* A process starts or is killed.                                          *)
LEMMA ProcessIs ==
  ASSUME TypeInv, NEW p \in Procs, Start(p) \/ Kill(p)
  PROVE  /\ \E at \in {<<"check", "strategies">>, <<"check", "canonical">>,
                       <<"down">>} :
              proc' = [proc EXCEPT ![p] = [at |-> at, todo |-> {}]]
         /\ ProcInv'
         /\ \A q \in Procs \ {p} : proc'[q] = proc[q]
         /\ proc'[p].at \notin {<<"run">>, <<"done">>}
         /\ \A t \in Tables : proc'[p].at # <<"fill", t>>
         /\ sweep' = IF p = "sweep" THEN NoSweep ELSE sweep
         /\ inflight' \subseteq inflight /\ engine' \in {engine, None}
         /\ UNCHANGED <<store, date, chosen, born, moved, unread>>
<1>1. PICK at \in {<<"check", "strategies">>, <<"check", "canonical">>, <<"down">>} :
        proc' = [proc EXCEPT ![p] = [at |-> at, todo |-> {}]]
  BY DEF Start, Kill
<1>2. /\ sweep' = IF p = "sweep" THEN NoSweep ELSE sweep
      /\ inflight' \subseteq inflight /\ engine' \in {engine, None}
      /\ UNCHANGED <<store, date, chosen, born, moved, unread>>
  BY DEF Start, Kill
<1>3. /\ at \in Stages /\ at \notin {<<"run">>, <<"done">>}
      /\ \A t \in Tables : at # <<"fill", t>>
  BY Places DEF Stages, Tables
<1>4. p = "sweep" \/ sweep' = sweep
  BY <1>2
<1>5. PICK todo : todo = {}
  OBVIOUS
<1>6. /\ proc' = [proc EXCEPT ![p] = [at |-> at, todo |-> todo]]
      /\ todo \subseteq Seeds \cup Pairs
  BY <1>1, <1>5
<1>7. /\ ProcInv' /\ proc'[p].at = at
      /\ \A q \in Procs \ {p} : proc'[q] = proc[q]
  BY <1>3, <1>4, <1>6, MoveTyped
<1> QED BY <1>1, <1>2, <1>3, <1>7

LEMMA TypeStep == TypeInv /\ [Next]_vars => TypeInv'
<1> SUFFICES ASSUME TypeInv, [Next]_vars PROVE TypeInv'
  OBVIOUS
<1>1. ASSUME NEW p \in Procs, Start(p) \/ Kill(p) PROVE TypeInv'
  <2>1. /\ ProcInv' /\ sweep' = IF p = "sweep" THEN NoSweep ELSE sweep
        /\ inflight' \subseteq inflight /\ engine' \in {engine, None}
        /\ UNCHANGED <<store, date, chosen, born, moved, unread>>
    BY <1>1, ProcessIs
  <2> QED BY <2>1 DEF TypeInv, TypeOK, store, NoSweep
<1>2. CASE Clock
  <2>1. UNCHANGED <<store, proc, engine, inflight, sweep, history>>
    BY <1>2 DEF Clock
  <2>2. date' \in [day : Nat, late : BOOLEAN]
    <3>1. PICK d \in Nat, l \in BOOLEAN : date = [day |-> d, late |-> l]
      BY DEF TypeInv
    <3>2. date' = [day |-> d, late |-> TRUE] \/ date' = [day |-> d + 1, late |-> FALSE]
      BY <1>2, <3>1 DEF Clock
    <3>3. d + 1 \in Nat
      BY <3>1
    <3>4. CASE date' = [day |-> d, late |-> TRUE]
      BY <3>1, <3>4
    <3>5. CASE date' = [day |-> d + 1, late |-> FALSE]
      BY <3>3, <3>5
    <3> QED BY <3>2, <3>4, <3>5
  <2>3. ProcInv'
    BY <2>1, ProcKept DEF TypeInv
  <2> QED BY <2>1, <2>2, <2>3 DEF TypeInv, TypeOK, store, history
<1>3. CASE UNCHANGED vars
  BY <1>3, ProcKept DEF TypeInv, TypeOK, vars, store, history
<1> QED BY <1>1, <1>2, <1>3, SeedTypes, ServerTypes, SweepTypes DEF Next

(* The tables keep their columns, and a process its place.                 *)
THEOREM TypeCorrect == Spec => []TypeInv
<1> QED BY TypeInit, TypeStep, PTL DEF Spec

-----------------------------------------------------------------------------
(* What a step does to the tables of strategies and of runs, and that no   *)
(* process holds a row that has not been inserted.                         *)
Known == /\ \A r \in inflight : r.row.id <= born
         /\ \A row \in sweep.list : row.id <= born

Saved == \E n \in Names, c \in Configs :
  SaveStrategy(n, c) /\ UNCHANGED <<runs, active, chosen>>

Filed == \E row \in Row, w \in Windows :
  /\ row.id <= born /\ SaveRun(row, w)
  /\ UNCHANGED <<strategies, active, chosen, born>>

Deleted == \E n \in Names :
  /\ strategies' = [m \in DOMAIN strategies \ {n} |-> strategies[m]]
  /\ UNCHANGED <<runs, active, chosen, born>>

RenamedTo == \E old, new \in Names :
  /\ old \in DOMAIN strategies /\ new \notin DOMAIN strategies
  /\ strategies' = [m \in (DOMAIN strategies \ {old}) \cup {new} |->
       IF m = new THEN Renamed(strategies[old], new) ELSE strategies[m]]
  /\ runs' = RepointRuns(old, new) /\ active' = RepointActive(old, new)
  /\ Moves(old)
  /\ UNCHANGED <<chosen, born>>

Activated == \E n \in Names :
  /\ active' = n
  /\ chosen' = IF n \in DOMAIN strategies THEN strategies[n].id ELSE 0
  /\ UNCHANGED <<strategies, runs, born>>

LEMMA IdsAreNat ==
  ASSUME TypeInv
  PROVE  /\ born \in Nat /\ chosen \in Nat
         /\ \A n \in DOMAIN strategies : n \in Names /\ strategies[n].id \in Nat
         /\ \A i \in DOMAIN runs : runs[i] \in Run /\ runs[i].owner \in Nat
         /\ \A r \in inflight : r.row \in Row /\ r.row.id \in Nat /\ r.window \in Windows
         /\ \A row \in sweep.list : row \in Row /\ row.id \in Nat
<1>1. /\ born \in Nat /\ chosen \in Nat /\ runs \in Seq(Run)
      /\ DOMAIN strategies \subseteq Names
      /\ \A n \in DOMAIN strategies : strategies[n] \in Row
      /\ inflight \subseteq [row : Row, window : Windows]
      /\ sweep.list \subseteq Row
  BY DEF TypeInv, TypeOK
<1>2. \A row \in Row : row.id \in Nat
  BY DEF Row
<1>3. \A i \in DOMAIN runs : runs[i] \in Run
  BY <1>1
<1>4. \A run \in Run : run.owner \in Nat
  BY DEF Run
<1> QED BY <1>1, <1>2, <1>3, <1>4

LEMMA SaveKeepsKnown ==
  ASSUME TypeInv, Known, inflight' \subseteq inflight, sweep'.list = sweep.list,
         born' = born \/ born' = born + 1
  PROVE  Known'
BY IdsAreNat DEF Known

LEMMA TableMoves ==
  ASSUME TypeInv, IdsInv, [Next]_vars
  PROVE  /\ \/ Saved \/ Filed \/ Deleted \/ RenamedTo \/ Activated
            \/ UNCHANGED <<strategies, runs, active, chosen, born>>
         /\ Known'
<1>a. Known
  BY DEF Known, IdsInv
<1>b. Serve => UNCHANGED <<gauntlets, proc, engine, sweep, date>>
  BY DEF Serve
<1> DEFINE Goal == /\ \/ Saved \/ Filed \/ Deleted \/ RenamedTo \/ Activated
                      \/ UNCHANGED <<strategies, runs, active, chosen, born>>
                   /\ Known'
<1> SUFFICES Goal
  OBVIOUS
<1>1. ASSUME NEW p \in Procs, Start(p) \/ Kill(p) PROVE Goal
  <2>1. /\ UNCHANGED <<store, chosen, born>> /\ inflight' \subseteq inflight
        /\ sweep' = IF p = "sweep" THEN NoSweep ELSE sweep
    BY <1>1, ProcessIs
  <2>2. UNCHANGED <<strategies, runs, active, chosen, born>>
    BY <2>1 DEF store
  <2> QED BY <1>a, <2>1, <2>2 DEF Known, NoSweep
<1>2. ASSUME NEW p \in Procs, NEW t \in Tables, SeedCheck(p, t) PROVE Goal
  BY <1>a, <1>2 DEF SeedCheck, store, history, Known
<1>3. ASSUME NEW p \in Procs, NEW t \in Tables, SeedSave(p, t) PROVE Goal
  <2>1. PICK item \in proc[p].todo :
          \/ /\ t \in {"strategies", "canonical"}
             /\ SaveStrategy(Catalogue[item].name, Catalogue[item].cfg)
             /\ UNCHANGED <<runs, active>>
          \/ /\ t = "runs"
             /\ SaveRun(Inline(Catalogue[item.pos].name, Catalogue[item.pos].cfg),
                        item.window)
             /\ UNCHANGED <<strategies, active, born>>
          \/ UNCHANGED <<strategies, runs, active, born>>
    BY <1>3 DEF SeedSave
  <2>2. /\ proc[p].at = <<"fill", t>> /\ UNCHANGED <<inflight, sweep, chosen>>
    BY <1>3 DEF SeedSave
  <2>3. item \in SeedOf(t)
    BY <2>2 DEF TypeInv, ProcInv
  <2>4. CASE /\ t \in {"strategies", "canonical"} /\ UNCHANGED <<runs, active>>
             /\ SaveStrategy(Catalogue[item].name, Catalogue[item].cfg)
    <3>1. Catalogue[item].name \in Names /\ Catalogue[item].cfg \in Configs
      BY <2>3, <2>4, CatalogueIs DEF SeedOf
    <3>2. Saved
      BY <2>2, <2>4, <3>1 DEF Saved
    <3>3. born' = born \/ born' = born + 1
      BY <2>4 DEF SaveStrategy
    <3> QED BY <1>a, <2>2, <3>2, <3>3, SaveKeepsKnown
  <2>5. CASE /\ t = "runs" /\ UNCHANGED <<strategies, active, born>>
             /\ SaveRun(Inline(Catalogue[item.pos].name, Catalogue[item.pos].cfg),
                        item.window)
    <3>1. item \in SeedRuns
      BY <2>3, <2>5 DEF SeedOf
    <3>2. item.pos \in DOMAIN Catalogue /\ item.window \in Windows
      BY <3>1 DEF SeedRuns
    <3>3. PICK row \in Row :
            row = Inline(Catalogue[item.pos].name, Catalogue[item.pos].cfg) /\ row.id = 0
      BY <3>2, CatalogueIs, InlineTyped
    <3>4. row.id <= born /\ SaveRun(row, item.window)
      BY <2>5, <3>3, IdsAreNat
    <3>5. Filed
      BY <2>2, <2>5, <3>2, <3>3, <3>4 DEF Filed
    <3> QED BY <1>a, <2>2, <2>5, <3>5 DEF Known
  <2>6. CASE UNCHANGED <<strategies, runs, active, born>>
    BY <1>a, <2>2, <2>6 DEF Known
  <2> QED BY <2>1, <2>4, <2>5, <2>6
<1>4. ASSUME NEW n \in Names, NEW c \in Configs, LabSaveStrategy(n, c) PROVE Goal
  <2>1. /\ SaveStrategy(n, c) /\ UNCHANGED <<runs, active, chosen, inflight, sweep>>
    BY <1>4, <1>b DEF LabSaveStrategy
  <2>2. born' = born \/ born' = born + 1
    BY <2>1 DEF SaveStrategy
  <2> QED BY <1>a, <2>1, <2>2, SaveKeepsKnown DEF Saved
<1>5. ASSUME NEW n \in Names, LabDeleteStrategy(n) PROVE Goal
  <2>1. /\ strategies' = [m \in DOMAIN strategies \ {n} |-> strategies[m]]
        /\ UNCHANGED <<runs, active, chosen, born, inflight, sweep>>
    BY <1>5, <1>b DEF LabDeleteStrategy
  <2> QED BY <1>a, <2>1 DEF Deleted, Known
<1>6. ASSUME NEW n \in Names, LabSetActive(n) PROVE Goal
  <2>1. /\ active' = n /\ UNCHANGED <<strategies, runs, born, inflight, sweep>>
        /\ chosen' = IF n \in DOMAIN strategies THEN strategies[n].id ELSE 0
    BY <1>6, <1>b DEF LabSetActive
  <2> QED BY <1>a, <2>1 DEF Activated, Known
<1>7. ASSUME NEW old \in Names, NEW new \in Names, LabRenameStrategy(old, new) PROVE Goal
  <2>1. /\ old \in DOMAIN strategies /\ new \notin DOMAIN strategies
        /\ strategies' = [m \in (DOMAIN strategies \ {old}) \cup {new} |->
             IF m = new THEN Renamed(strategies[old], new) ELSE strategies[m]]
        /\ runs' = RepointRuns(old, new) /\ active' = RepointActive(old, new)
        /\ Moves(old) /\ UNCHANGED <<chosen, born, inflight, sweep>>
    BY <1>7, <1>b DEF LabRenameStrategy
  <2> QED BY <1>a, <2>1 DEF RenamedTo, Known
<1>8. ASSUME NEW n \in Names, NEW c \in Configs, NEW w \in Windows, LabRunStart(n, c, w)
      PROVE  Goal
  <2>1. PICK row : /\ row = IF GetStrategy(n) # None THEN strategies[n] ELSE Inline(n, c)
                   /\ inflight' = inflight \cup {[row |-> row, window |-> w]}
    BY <1>8 DEF LabRunStart
  <2>2. UNCHANGED <<strategies, runs, active, chosen, born, sweep>>
    BY <1>8, <1>b DEF LabRunStart
  <2>3. row.id <= born
    <3>1. CASE n \in DOMAIN strategies /\ row = strategies[n]
      BY <3>1, IdsAreNat DEF IdsInv
    <3>2. CASE row = Inline(n, c)
      BY <3>2, IdsAreNat, InlineTyped
    <3> QED BY <2>1, <3>1, <3>2 DEF GetStrategy
  <2> QED BY <1>a, <2>1, <2>2, <2>3 DEF Known
<1>9. ASSUME NEW r \in inflight, LabRunEnd(r) PROVE Goal
  <2>1. /\ inflight' = inflight \ {r} /\ SaveRun(r.row, r.window)
        /\ UNCHANGED <<strategies, active, chosen, born, sweep>>
    BY <1>9 DEF LabRunEnd, history
  <2>2. r.row \in Row /\ r.window \in Windows /\ r.row.id <= born
    BY <1>a, IdsAreNat DEF Known
  <2> QED BY <1>a, <2>1, <2>2 DEF Filed, Known
<1>10. CASE UNCHANGED vars
  BY <1>a, <1>10 DEF vars, store, history, Known
<1>11. CASE SweepList
  <2>1. /\ sweep'.list = {strategies[n] : n \in DOMAIN strategies}
        /\ UNCHANGED <<strategies, runs, active, chosen, born, inflight>>
    BY <1>11 DEF SweepList, store
  <2>2. \A row \in sweep'.list : row.id <= born
    BY <2>1, IdsAreNat DEF IdsInv
  <2> QED BY <1>a, <2>1, <2>2 DEF Known
<1>12. CASE SweepLook
  <2>1. /\ sweep' = [sweep EXCEPT !.fresh = sweep'.fresh]
        /\ UNCHANGED <<store, inflight, history>>
    BY <1>12, SweepLookIs
  <2>2. sweep'.list = sweep.list
    BY <2>1 DEF TypeInv
  <2> QED BY <1>a, <2>1, <2>2 DEF Known, store, history
<1>13. CASE SweepRun
  <2>1. PICK row \in sweep.list, w \in Windows :
          \/ UNCHANGED <<runs, sweep>>
          \/ SaveRun(row, w) /\ UNCHANGED sweep
          \/ /\ sweep' = [sweep EXCEPT !.failed = sweep.failed \cup {<<row.name, w>>}]
             /\ UNCHANGED runs
    BY <1>13, SweepRunIs
  <2>2. UNCHANGED <<strategies, active, inflight, chosen, born>>
    BY <1>13 DEF SweepRun, history
  <2>3. sweep'.list = sweep.list
    BY <2>1 DEF TypeInv
  <2>4. row \in Row /\ row.id <= born
    BY <1>a, IdsAreNat DEF Known
  <2> QED BY <1>a, <2>1, <2>2, <2>3, <2>4 DEF Filed, Known
<1>14. CASE SweepDone
  BY <1>a, <1>14 DEF SweepDone, store, history, Known
<1>15. CASE AttachEngine
  BY <1>a, <1>15 DEF AttachEngine, store, history, Known
<1>16. CASE Clock
  BY <1>a, <1>16 DEF Clock, store, history, Known
<1> HIDE DEF Goal
<1>17. ASSUME NEW p \in Procs, Start(p) \/ Kill(p) \/ Seed(p) PROVE Goal
  BY <1>1, <1>2, <1>3, <1>17 DEF Seed
<1>18. ASSUME \/ \E n \in Names, c \in Configs : LabSaveStrategy(n, c)
              \/ \E n \in Names : LabDeleteStrategy(n) \/ LabSetActive(n)
              \/ \E n, m \in Names : LabRenameStrategy(n, m)
              \/ \E n \in Names, c \in Configs, w \in Windows : LabRunStart(n, c, w)
              \/ \E r \in inflight : LabRunEnd(r)
       PROVE  Goal
  BY <1>4, <1>5, <1>6, <1>7, <1>8, <1>9, <1>18
<1> QED
  BY <1>10, <1>11, <1>12, <1>13, <1>14, <1>17, <1>18, <1>15, <1>16 DEF Next

(* A rename moves one row to a name that nobody has.                       *)
LEMMA RenameIs ==
  ASSUME TypeInv, NEW old \in Names, NEW new \in Names,
         old \in DOMAIN strategies, new \notin DOMAIN strategies,
         strategies' = [m \in (DOMAIN strategies \ {old}) \cup {new} |->
           IF m = new THEN Renamed(strategies[old], new) ELSE strategies[m]]
  PROVE  /\ DOMAIN strategies' = (DOMAIN strategies \ {old}) \cup {new}
         /\ strategies'[new].id = strategies[old].id
         /\ \A m \in DOMAIN strategies \ {old} : strategies'[m] = strategies[m]
<1>1. strategies[old] \in Row
  BY DEF TypeInv, TypeOK
<1>2. Renamed(strategies[old], new).id = strategies[old].id
  BY <1>1 DEF Renamed, Row
<1> QED BY <1>2

LEMMA IdsStep == TypeInv /\ IdsInv /\ [Next]_vars => IdsInv'
<1> SUFFICES ASSUME TypeInv, IdsInv, [Next]_vars PROVE IdsInv'
  OBVIOUS
<1>a. /\ born \in Nat /\ chosen \in Nat
      /\ \A n \in DOMAIN strategies : strategies[n].id \in Nat
      /\ \A i \in DOMAIN runs : runs[i].owner \in Nat
  BY IdsAreNat
<1>b. Known'
  BY TableMoves
<1>1. CASE Saved
  <2>1. PICK n \in Names, c \in Configs :
          SaveStrategy(n, c) /\ UNCHANGED <<runs, active, chosen>>
    BY <1>1 DEF Saved
  <2>2. /\ DOMAIN strategies' = DOMAIN strategies \cup {n}
        /\ \A m \in DOMAIN strategies \ {n} : strategies'[m] = strategies[m]
        /\ \/ /\ n \in DOMAIN strategies /\ born' = born
              /\ strategies'[n].id = strategies[n].id
           \/ /\ n \notin DOMAIN strategies /\ born' = born + 1
              /\ strategies'[n].id = born + 1
    BY <2>1, SaveTyped
  <2>3. ASSUME NEW m \in DOMAIN strategies'
        PROVE  /\ strategies'[m].id \in 1 .. born'
               /\ m \in DOMAIN strategies => strategies'[m].id = strategies[m].id
    BY <1>a, <2>2, <2>3 DEF IdsInv
  <2>4. ASSUME NEW m \in DOMAIN strategies', NEW k \in DOMAIN strategies',
               strategies'[m].id = strategies'[k].id
        PROVE  m = k
    BY <1>a, <2>2, <2>3, <2>4 DEF IdsInv
  <2> QED BY <1>a, <1>b, <2>1, <2>2, <2>3, <2>4 DEF IdsInv, Known
<1>2. CASE Filed
  <2>1. PICK row \in Row, w \in Windows :
          /\ row.id <= born /\ SaveRun(row, w)
          /\ UNCHANGED <<strategies, active, chosen, born>>
    BY <1>2 DEF Filed
  <2>2. \A i \in DOMAIN runs' : runs'[i].owner <= born
    BY <2>1, FileTyped DEF IdsInv
  <2> QED BY <1>b, <2>1, <2>2 DEF IdsInv, Known
<1>3. CASE Deleted
  <2>1. PICK n \in Names :
          /\ strategies' = [m \in DOMAIN strategies \ {n} |-> strategies[m]]
          /\ UNCHANGED <<runs, active, chosen, born>>
    BY <1>3 DEF Deleted
  <2> QED BY <1>b, <2>1 DEF IdsInv, Known
<1>4. CASE RenamedTo
  <2>1. PICK old \in Names, new \in Names :
          /\ old \in DOMAIN strategies /\ new \notin DOMAIN strategies
          /\ strategies' = [m \in (DOMAIN strategies \ {old}) \cup {new} |->
               IF m = new THEN Renamed(strategies[old], new) ELSE strategies[m]]
          /\ runs' = RepointRuns(old, new) /\ UNCHANGED <<chosen, born>>
    BY <1>4 DEF RenamedTo
  <2>2. /\ DOMAIN strategies' = (DOMAIN strategies \ {old}) \cup {new}
        /\ strategies'[new].id = strategies[old].id
        /\ \A m \in DOMAIN strategies \ {old} : strategies'[m] = strategies[m]
    BY <2>1, RenameIs
  <2>3. /\ DOMAIN runs' = DOMAIN runs
        /\ \A i \in DOMAIN runs : runs'[i].owner = runs[i].owner
    BY <2>1, RepointTyped
  <2>4. \A m \in DOMAIN strategies' : strategies'[m].id \in 1 .. born
    BY <2>1, <2>2 DEF IdsInv
  <2>5. ASSUME NEW m \in DOMAIN strategies', NEW k \in DOMAIN strategies',
               strategies'[m].id = strategies'[k].id
        PROVE  m = k
    BY <2>1, <2>2, <2>5 DEF IdsInv
  <2> QED BY <1>b, <2>1, <2>3, <2>4, <2>5 DEF IdsInv, Known
<1>5. CASE Activated
  <2>1. PICK n \in Names :
          /\ chosen' = IF n \in DOMAIN strategies THEN strategies[n].id ELSE 0
          /\ UNCHANGED <<strategies, runs, born>>
    BY <1>5 DEF Activated
  <2>2. chosen' <= born
    BY <1>a, <2>1 DEF IdsInv
  <2> QED BY <1>b, <2>1, <2>2 DEF IdsInv, Known
<1>6. CASE UNCHANGED <<strategies, runs, active, chosen, born>>
  BY <1>b, <1>6 DEF IdsInv, Known
<1> QED BY <1>1, <1>2, <1>3, <1>4, <1>5, <1>6, TableMoves

-----------------------------------------------------------------------------
(* A row's name, among names that are of one row each.                     *)
LEMMA NameOfIs ==
  ASSUME TypeInv, IdsInv
  PROVE  /\ \A n \in DOMAIN strategies : NameOf(strategies[n].id) = n
         /\ \A id : NameOf(id) # None =>
              /\ NameOf(id) \in DOMAIN strategies
              /\ strategies[NameOf(id)].id = id
         /\ None \notin DOMAIN strategies
<1>1. ASSUME NEW n \in DOMAIN strategies
      PROVE  NameOf(strategies[n].id) = n
  <2>1. {m \in DOMAIN strategies : strategies[m].id = strategies[n].id} = {n}
    BY DEF IdsInv
  <2> QED BY <2>1 DEF NameOf
<1>2. ASSUME NEW id, NameOf(id) # None
      PROVE  NameOf(id) \in DOMAIN strategies /\ strategies[NameOf(id)].id = id
  <2> DEFINE held == {m \in DOMAIN strategies : strategies[m].id = id}
  <2>1. held # {} /\ NameOf(id) = CHOOSE n \in held : TRUE
    BY <1>2 DEF NameOf
  <2>2. NameOf(id) \in held
    BY <2>1
  <2> QED BY <2>2
<1>3. None \notin DOMAIN strategies
  BY LabAssumption DEF TypeInv, TypeOK
<1> QED BY <1>1, <1>2, <1>3

LEMMA HistoryStep == TypeInv /\ IdsInv /\ HistoryInv /\ [Next]_vars => HistoryInv'
<1> SUFFICES ASSUME TypeInv, IdsInv, HistoryInv, [Next]_vars,
                    NEW i \in DOMAIN runs', NEW n \in DOMAIN strategies',
                    ~runs'[i].astray, strategies'[n].id = runs'[i].owner
             PROVE  runs'[i].strategy = n
  BY DEF HistoryInv
<1>a. /\ born \in Nat /\ \A k \in DOMAIN runs : runs[k].owner \in Nat
  BY IdsAreNat
<1>1. CASE Saved
  <2>1. PICK m \in Names, c \in Configs :
          SaveStrategy(m, c) /\ UNCHANGED <<runs, active, chosen>>
    BY <1>1 DEF Saved
  <2>2. /\ DOMAIN strategies' = DOMAIN strategies \cup {m}
        /\ \A k \in DOMAIN strategies \ {m} : strategies'[k] = strategies[k]
        /\ \/ /\ m \in DOMAIN strategies /\ strategies'[m].id = strategies[m].id
           \/ strategies'[m].id = born + 1
    BY <2>1, SaveTyped
  <2>3. runs[i].owner # born + 1
    BY <1>a, <2>1 DEF IdsInv
  <2> QED BY <2>1, <2>2, <2>3 DEF HistoryInv
<1>2. CASE Filed
  <2>1. PICK row \in Row, w \in Windows :
          /\ SaveRun(row, w) /\ UNCHANGED <<strategies, active, chosen, born>>
    BY <1>2 DEF Filed
  <2>2. CASE i \in DOMAIN runs
    BY <2>1, <2>2, FileTyped DEF HistoryInv
  <2>3. CASE i = Len(runs) + 1
    <3>1. /\ runs'[i].strategy = row.name /\ runs'[i].owner = row.id
          /\ runs'[i].astray <=> NameOf(row.id) # row.name
      BY <2>1, <2>3, FileTyped
    <3>2. NameOf(row.id) = row.name
      BY <3>1
    <3>3. NameOf(row.id) = n
      BY <2>1, <3>1, NameOfIs
    <3> QED BY <3>1, <3>2, <3>3
  <2> QED BY <2>1, <2>2, <2>3, FileTyped
<1>3. CASE Deleted
  BY <1>3 DEF Deleted, HistoryInv
<1>4. CASE RenamedTo
  <2>1. PICK old \in Names, new \in Names :
          /\ old \in DOMAIN strategies /\ new \notin DOMAIN strategies
          /\ strategies' = [m \in (DOMAIN strategies \ {old}) \cup {new} |->
               IF m = new THEN Renamed(strategies[old], new) ELSE strategies[m]]
          /\ runs' = RepointRuns(old, new)
    BY <1>4 DEF RenamedTo
  <2>2. /\ DOMAIN strategies' = (DOMAIN strategies \ {old}) \cup {new}
        /\ strategies'[new].id = strategies[old].id
        /\ \A m \in DOMAIN strategies \ {old} : strategies'[m] = strategies[m]
    BY <2>1, RenameIs
  <2>3. /\ i \in DOMAIN runs
        /\ runs'[i].strategy = IF runs[i].strategy = old THEN new ELSE runs[i].strategy
        /\ runs'[i].owner = runs[i].owner /\ runs'[i].astray = runs[i].astray
    BY <2>1, RepointTyped
  <2>4. CASE n = new
    BY <2>1, <2>2, <2>3, <2>4 DEF HistoryInv
  <2>5. CASE n \in DOMAIN strategies \ {old}
    BY <2>2, <2>3, <2>5 DEF HistoryInv
  <2> QED BY <2>2, <2>4, <2>5
<1>5. CASE Activated \/ UNCHANGED <<strategies, runs, active, chosen, born>>
  BY <1>5 DEF Activated, HistoryInv
<1> QED BY <1>1, <1>2, <1>3, <1>4, <1>5, TableMoves

LEMMA ChosenStep == TypeInv /\ IdsInv /\ ChosenInv /\ [Next]_vars => ChosenInv'
<1> SUFFICES ASSUME TypeInv, IdsInv, ChosenInv, [Next]_vars,
                    NEW n \in DOMAIN strategies', strategies'[n].id = chosen'
             PROVE  active' = n
  BY DEF ChosenInv
<1>a. born \in Nat /\ chosen \in Nat /\ chosen # born + 1
  BY IdsAreNat DEF IdsInv
<1>1. CASE Saved
  <2>1. PICK m \in Names, c \in Configs :
          SaveStrategy(m, c) /\ UNCHANGED <<runs, active, chosen>>
    BY <1>1 DEF Saved
  <2>2. /\ DOMAIN strategies' = DOMAIN strategies \cup {m}
        /\ \A k \in DOMAIN strategies \ {m} : strategies'[k] = strategies[k]
        /\ \/ /\ m \in DOMAIN strategies /\ strategies'[m].id = strategies[m].id
           \/ strategies'[m].id = born + 1
    BY <2>1, SaveTyped
  <2> QED BY <1>a, <2>1, <2>2 DEF ChosenInv
<1>2. CASE Filed \/ Deleted \/ UNCHANGED <<strategies, runs, active, chosen, born>>
  BY <1>2 DEF Filed, Deleted, ChosenInv
<1>3. CASE RenamedTo
  <2>1. PICK old \in Names, new \in Names :
          /\ old \in DOMAIN strategies /\ new \notin DOMAIN strategies
          /\ strategies' = [m \in (DOMAIN strategies \ {old}) \cup {new} |->
               IF m = new THEN Renamed(strategies[old], new) ELSE strategies[m]]
          /\ active' = RepointActive(old, new) /\ UNCHANGED <<chosen, born>>
    BY <1>3 DEF RenamedTo
  <2>2. /\ DOMAIN strategies' = (DOMAIN strategies \ {old}) \cup {new}
        /\ strategies'[new].id = strategies[old].id
        /\ \A m \in DOMAIN strategies \ {old} : strategies'[m] = strategies[m]
    BY <2>1, RenameIs
  <2>3. active' = IF active = old THEN new ELSE active
    BY <2>1 DEF RepointActive
  <2> QED BY <2>1, <2>2, <2>3 DEF ChosenInv
<1>4. CASE Activated
  <2>1. PICK m \in Names :
          /\ active' = m /\ UNCHANGED <<strategies, runs, born>>
          /\ chosen' = IF m \in DOMAIN strategies THEN strategies[m].id ELSE 0
    BY <1>4 DEF Activated
  <2>2. strategies[n].id # 0
    BY <2>1 DEF IdsInv
  <2> QED BY <2>1, <2>2 DEF IdsInv
<1> QED BY <1>1, <1>2, <1>3, <1>4, TableMoves

LEMMA NamesInit == Init => IdsInv /\ HistoryInv /\ ChosenInv
BY DEF Init, IdsInv, HistoryInv, ChosenInv, NoSweep

(* A strategy takes its history along, through every sequence of saves,    *)
(* renames and deletes, by any number of handlers and sweeps.              *)
THEOREM HistoryCorrect == Spec => []HistoryFollows
<1>1. TypeInv /\ IdsInv /\ HistoryInv => HistoryFollows
  BY NameOfIs DEF HistoryInv, HistoryFollows
<1> QED BY <1>1, NamesInit, IdsStep, HistoryStep, TypeCorrect, PTL DEF Spec

(* Nothing but another choice makes another strategy active while the one  *)
(* that was set is stored.                                                 *)
THEOREM ChosenCorrect == Spec => []ChosenStaysActive
<1>1. TypeInv /\ IdsInv /\ ChosenInv => ChosenStaysActive
  BY NameOfIs DEF ChosenInv, ChosenStaysActive
<1> QED BY <1>1, NamesInit, IdsStep, ChosenStep, TypeCorrect, PTL DEF Spec

-----------------------------------------------------------------------------
(* The seed of the gauntlets.                                              *)

LEMMA SentinelApart == SeedGauntlets \subseteq Entries /\ Sentinel \notin SeedGauntlets
BY CatalogueIs, LabAssumption DEF SeedGauntlets, Entries

(* A process that goes to a place without a table leaves SeedInv alone.    *)
LEMMA SeedKept ==
  ASSUME SeedInv, NEW p \in Procs, UNCHANGED <<gauntlets, unread>>,
         proc'[p].at # <<"fill", "gauntlets">>,
         \A q \in Procs \ {p} : proc'[q] = proc[q]
  PROVE  SeedInv'
BY DEF SeedInv

LEMMA SeedStep == TypeInv /\ SeedInv /\ [Next]_vars => SeedInv'
<1> SUFFICES ASSUME TypeInv, SeedInv, [Next]_vars PROVE SeedInv'
  OBVIOUS
<1>a. <<"fill", "gauntlets">> \notin {<<"serve">>, <<"look">>, <<"run">>, <<"done">>}
  BY Places DEF Tables
<1>1. CASE UNCHANGED <<proc, gauntlets, unread>>
  BY <1>1 DEF SeedInv
<1>2. ASSUME NEW p \in Procs, Start(p) \/ Kill(p) PROVE SeedInv'
  <2>1. /\ \A q \in Procs \ {p} : proc'[q] = proc[q]
        /\ proc'[p].at # <<"fill", "gauntlets">>
        /\ UNCHANGED <<gauntlets, unread>>
    BY <1>2, ProcessIs DEF store, Tables
  <2> QED BY <2>1, SeedKept
<1>3. ASSUME NEW p \in Procs, NEW t \in Tables, SeedCheck(p, t) PROVE SeedInv'
  <2>1. PICK items \in Reads(t) :
          Fill(p, t, items) /\ unread' = (unread \/ items = {Sentinel})
    BY <1>3 DEF SeedCheck
  <2>2. sweep' = sweep /\ gauntlets' = gauntlets
    BY <1>3 DEF SeedCheck, store
  <2>3. /\ items \subseteq SeedOf(t)
        /\ items \in {{}, {Sentinel}} \/ items = SeedOf(t)
    BY <2>1, ReadsIs
  <2>4. /\ \A q \in Procs \ {p} : proc'[q] = proc[q]
        /\ proc'[p].todo = items
        /\ proc'[p].at = <<"fill", "gauntlets">> => t = "gauntlets" /\ items # {}
    BY <2>1, <2>2, <2>3, FillTyped DEF Tables
  <2>5. t = "gauntlets" /\ items # {} /\ ~unread' => SeedGauntlets \subseteq items
    BY <2>1, <2>3 DEF SeedOf
  <2>6. ~unread' => ~unread
    BY <2>1
  <2> QED BY <2>2, <2>4, <2>5, <2>6 DEF SeedInv
<1>4. ASSUME NEW p \in Procs, NEW t \in Tables, SeedSave(p, t) PROVE SeedInv'
  <2>1. PICK item \in proc[p].todo :
          /\ \A x \in proc[p].todo : ~GoesBefore(t, x, item)
          /\ Fill(p, t, proc[p].todo \ {item})
          /\ \/ t # "gauntlets" /\ gauntlets' = gauntlets
             \/ t = "gauntlets" /\ gauntlets' = gauntlets \cup {item}
    BY <1>4 DEF SeedSave, Tables
  <2>2. proc[p].at = <<"fill", t>> /\ UNCHANGED <<sweep, unread>>
    BY <1>4 DEF SeedSave
  <2>3. proc[p].todo \subseteq SeedOf(t)
    BY <2>2 DEF TypeInv, ProcInv
  <2>4. PICK items : items = proc[p].todo \ {item}
    OBVIOUS
  <2>5. items \subseteq SeedOf(t) /\ Fill(p, t, items)
    BY <2>1, <2>3, <2>4
  <2>6. /\ \A q \in Procs \ {p} : proc'[q] = proc[q]
        /\ proc'[p].todo = items
        /\ proc'[p].at = <<"fill", "gauntlets">> => t = "gauntlets"
    BY <2>2, <2>5, FillTyped DEF Tables
  <2>7. CASE t # "gauntlets"
    <3>1. gauntlets' = gauntlets /\ proc'[p].at # <<"fill", "gauntlets">>
      BY <2>1, <2>6, <2>7
    <3> QED BY <2>2, <2>6, <3>1, SeedKept
  <2>8. CASE t = "gauntlets"
    <3> SUFFICES ASSUME ~unread PROVE SeedInv'
      BY <2>2 DEF SeedInv
    <3>1. gauntlets' = gauntlets \cup {item}
      BY <2>1, <2>8
    <3>2. SeedGauntlets \subseteq gauntlets \cup proc[p].todo
      BY <2>2, <2>8 DEF SeedInv
    <3>3. item = Sentinel => proc[p].todo = {Sentinel}
      BY <2>1, <2>8 DEF GoesBefore
    <3>4. Sentinel \in gauntlets' => SeedGauntlets \subseteq gauntlets'
      BY <3>1, <3>2, <3>3, SentinelApart DEF SeedInv
    <3>5. SeedGauntlets \subseteq gauntlets' \cup proc'[p].todo
      BY <2>4, <2>6, <3>1, <3>2
    <3>6. ASSUME NEW q \in Procs, proc'[q].at = <<"fill", "gauntlets">>
          PROVE  SeedGauntlets \subseteq gauntlets' \cup proc'[q].todo
      <4>1. CASE q = p
        BY <3>5, <4>1
      <4>2. CASE q # p
        BY <2>6, <3>1, <3>6, <4>2 DEF SeedInv
      <4> QED BY <4>1, <4>2
    <3> QED BY <3>4, <3>6 DEF SeedInv
  <2> QED BY <2>7, <2>8
<1>5. CASE AttachEngine
  <2>1. Goto("server", <<"serve">>) /\ UNCHANGED <<sweep, gauntlets, unread>>
    BY <1>5 DEF AttachEngine, store, history
  <2>2. /\ proc'["server"].at = <<"serve">>
        /\ \A q \in Procs \ {"server"} : proc'[q] = proc[q]
    BY <2>1, GotoTyped DEF Procs
  <2> QED BY <1>a, <2>1, <2>2, SeedKept DEF Procs
<1>6. CASE SweepList \/ SweepLook \/ SweepRun \/ SweepDone
  <2>1. proc \in [Procs -> [at : Stages, todo : SUBSET (Seeds \cup Pairs)]]
    BY DEF TypeInv, ProcInv
  <2>2. /\ UNCHANGED <<gauntlets, unread>>
        /\ \A q \in Procs \ {"sweep"} : proc'[q] = proc[q]
        /\ proc'["sweep"].at \in {<<"look">>, <<"run">>, <<"done">>}
    <3>1. CASE SweepList
      BY <2>1, <3>1 DEF SweepList, Goto, store, Procs
    <3>2. CASE SweepLook
      BY <2>1, <3>2 DEF SweepLook, store, history, Procs
    <3>3. CASE SweepRun
      BY <2>1, <3>3 DEF SweepRun, history, Procs
    <3>4. CASE SweepDone
      BY <2>1, <3>4 DEF SweepDone, Goto, store, history, Procs
    <3> QED BY <1>6, <3>1, <3>2, <3>3, <3>4
  <2> QED BY <1>a, <2>2, SeedKept DEF Procs
<1>7. ASSUME \/ \E n \in Names, c \in Configs : LabSaveStrategy(n, c)
             \/ \E n \in Names : LabDeleteStrategy(n) \/ LabSetActive(n)
             \/ \E n, m \in Names : LabRenameStrategy(n, m)
             \/ \E n \in Names, c \in Configs, w \in Windows : LabRunStart(n, c, w)
             \/ \E r \in inflight : LabRunEnd(r)
             \/ Clock \/ UNCHANGED vars
      PROVE  UNCHANGED <<proc, gauntlets, unread>>
  BY <1>7 DEF LabSaveStrategy, LabDeleteStrategy, LabSetActive, LabRenameStrategy,
              LabRunStart, LabRunEnd, Clock, Serve, vars, store, history
<1> QED BY <1>1, <1>2, <1>3, <1>4, <1>5, <1>6, <1>7 DEF Next, Seed

(* A gauntlet of the seed is there for every strategy that has one once    *)
(* the sentinel is, wherever the processes that filled the table were      *)
(* killed, and unless one of them found the file unreadable.               *)
THEOREM SentinelCorrect == Spec => []SentinelMeansAll
<1>1. Init => SeedInv
  <2>1. <<"down">> # <<"fill", "gauntlets">>
    BY Places DEF Tables
  <2> QED BY <2>1 DEF Init, SeedInv
<1>2. TypeInv /\ SeedInv => SentinelMeansAll
  <2> SUFFICES ASSUME TypeInv, SeedInv PROVE SentinelMeansAll
    OBVIOUS
  <2>1. TypeOK /\ \A n \in DOMAIN strategies : strategies[n] # None
    BY LabAssumption DEF TypeInv, TypeOK
  <2> QED BY <2>1 DEF SeedInv, SentinelMeansAll, LabGauntlet, GetStrategy
<1> QED BY <1>1, <1>2, SeedStep, TypeCorrect, PTL DEF Spec

-----------------------------------------------------------------------------
(* The sweep.                                                              *)

LEMMA MovedGrows ==
  ASSUME TypeInv, [Next]_vars, ~SweepList, sweep.list # {}
  PROVE  moved \subseteq moved'
<1>1. ASSUME NEW p \in Procs, Start(p) \/ Kill(p) PROVE moved' = moved
  BY <1>1, ProcessIs
<1>2. ASSUME NEW p \in Procs, NEW t \in Tables, SeedCheck(p, t) \/ SeedSave(p, t)
      PROVE  moved' = moved
  BY <1>2 DEF SeedCheck, SeedSave
<1>3. ASSUME NEW n \in Names, LabDeleteStrategy(n) PROVE moved \subseteq moved'
  BY <1>3 DEF LabDeleteStrategy, Moves
<1>4. ASSUME NEW n \in Names, NEW m \in Names, LabRenameStrategy(n, m)
      PROVE  moved \subseteq moved'
  BY <1>4 DEF LabRenameStrategy, Moves
<1>5. ASSUME \/ \E n \in Names, c \in Configs : LabSaveStrategy(n, c)
             \/ \E n \in Names : LabSetActive(n)
             \/ \E n \in Names, c \in Configs, w \in Windows : LabRunStart(n, c, w)
             \/ \E r \in inflight : LabRunEnd(r)
      PROVE  moved' = moved
  BY <1>5 DEF LabSaveStrategy, LabSetActive, LabRunStart, LabRunEnd, history
<1>6. ASSUME AttachEngine \/ SweepLook \/ SweepRun \/ SweepDone \/ Clock \/ UNCHANGED vars
      PROVE  moved' = moved
  BY <1>6 DEF AttachEngine, SweepLook, SweepRun, SweepDone, Clock, vars, history
<1> QED BY <1>1, <1>2, <1>3, <1>4, <1>5, <1>6 DEF Next, Seed

(* What the sweep counts on stays, or the name is noted as moved.          *)
LEMMA RefreshedKept ==
  ASSUME TypeInv, IdsInv, [Next]_vars, ~SweepList, sweep.list # {},
         sweep'.today = sweep.today, NEW n, NEW w, Refreshed(n, w)
  PROVE  \/ n \in moved'
         \/ \E i \in DOMAIN runs' :
              /\ runs'[i].strategy = n /\ runs'[i].window = w
              /\ runs'[i].utc >= sweep'.today
<1>1. moved \subseteq moved'
  BY MovedGrows
<1>2. CASE n \in moved
  BY <1>1, <1>2
<1>3. ASSUME NEW i \in DOMAIN runs, runs[i].strategy = n, runs[i].window = w,
             runs[i].utc >= sweep.today
      PROVE  \/ n \in moved'
             \/ /\ i \in DOMAIN runs'
                /\ runs'[i].strategy = n /\ runs'[i].window = w
                /\ runs'[i].utc = runs[i].utc
  <2>1. CASE UNCHANGED runs
    BY <1>3, <2>1
  <2>2. CASE Filed
    <3>1. PICK row \in Row, v \in Windows : SaveRun(row, v)
      BY <2>2 DEF Filed
    <3> QED BY <1>3, <3>1, FileTyped
  <2>3. CASE RenamedTo
    <3>1. PICK old \in Names, new \in Names :
            runs' = RepointRuns(old, new) /\ Moves(old)
      BY <2>3 DEF RenamedTo
    <3>2. old \in moved'
      BY <3>1 DEF Moves
    <3>3. /\ i \in DOMAIN runs'
          /\ runs'[i].strategy = IF runs[i].strategy = old THEN new ELSE runs[i].strategy
          /\ runs'[i].window = runs[i].window /\ runs'[i].utc = runs[i].utc
      BY <3>1, RepointTyped
    <3> QED BY <1>3, <3>2, <3>3
  <2> QED BY <2>1, <2>2, <2>3, TableMoves DEF Saved, Deleted, Activated
<1> QED BY <1>2, <1>3 DEF Refreshed

LEMMA DaysPass == TypeInv /\ [Next]_vars => date'.day >= date.day /\ date.day \in Nat
<1> SUFFICES ASSUME TypeInv, [Next]_vars PROVE date'.day >= date.day /\ date.day \in Nat
  OBVIOUS
<1>1. date.day \in Nat
  BY DEF TypeInv
<1>2. CASE Clock
  BY <1>1, <1>2 DEF Clock, TypeInv
<1>3. ASSUME NEW p \in Procs, Start(p) \/ Kill(p) PROVE date' = date
  BY <1>3 DEF Start, Kill
<1>4. ASSUME NEW p \in Procs, NEW t \in Tables, SeedCheck(p, t) \/ SeedSave(p, t)
      PROVE  date' = date
  BY <1>4 DEF SeedCheck, SeedSave
<1>5. ASSUME \/ \E n \in Names, c \in Configs : LabSaveStrategy(n, c)
             \/ \E n \in Names : LabDeleteStrategy(n) \/ LabSetActive(n)
             \/ \E n, m \in Names : LabRenameStrategy(n, m)
             \/ \E n \in Names, c \in Configs, w \in Windows : LabRunStart(n, c, w)
             \/ \E r \in inflight : LabRunEnd(r)
      PROVE  date' = date
  BY <1>5 DEF LabSaveStrategy, LabDeleteStrategy, LabSetActive, LabRenameStrategy,
              LabRunStart, LabRunEnd, Serve
<1>6. ASSUME AttachEngine \/ SweepList \/ SweepLook \/ SweepRun \/ SweepDone \/ UNCHANGED vars
      PROVE  date' = date
  BY <1>6 DEF AttachEngine, SweepList, SweepLook, SweepRun, SweepDone, vars
<1> QED BY <1>1, <1>2, <1>3, <1>4, <1>5, <1>6 DEF Next, Seed

(* Refreshed, after a step.                                                *)
RefreshedNext(n, w) ==
  \/ n \in moved'
  \/ \E i \in DOMAIN runs' : /\ runs'[i].strategy = n /\ runs'[i].window = w
                             /\ runs'[i].utc >= sweep'.today

LEMMA SweepNext ==
  ASSUME sweep'.today <= date'.day,
         sweep'.list # {} =>
           \A pair \in sweep'.fresh : RefreshedNext(pair[1], pair[2]),
         proc'["sweep"].at \in {<<"run">>, <<"done">>} =>
           \A row \in sweep'.list, w \in Windows :
             \/ <<row.name, w>> \in sweep'.failed
             \/ RefreshedNext(row.name, w)
             \/ /\ proc'["sweep"].at = <<"run">>
                /\ [row |-> row, window |-> w] \in proc'["sweep"].todo
  PROVE  SweepInv'
BY DEF SweepInv, Refreshed, RefreshedNext

(* The sweep itself does not move.                                         *)
LEMMA SweepKept ==
  ASSUME TypeInv, IdsInv, SweepInv, [Next]_vars, ~SweepList, sweep' = sweep,
         \/ proc'["sweep"] = proc["sweep"]
         \/ proc'["sweep"].at \notin {<<"run">>, <<"done">>}
  PROVE  SweepInv'
<1>1. sweep'.today <= date'.day
  <2>1. sweep.today \in Nat /\ sweep.today <= date.day /\ date'.day \in Nat
    BY TypeStep DEF SweepInv, TypeInv
  <2> QED BY <2>1, DaysPass
<1>2. ASSUME NEW n, NEW w, sweep.list # {}, Refreshed(n, w) PROVE RefreshedNext(n, w)
  BY <1>2, RefreshedKept DEF RefreshedNext
<1>3. sweep'.list # {} =>
        \A pair \in sweep'.fresh : RefreshedNext(pair[1], pair[2])
  BY <1>2 DEF SweepInv
<1>4. ASSUME proc'["sweep"].at \in {<<"run">>, <<"done">>},
             NEW row \in sweep'.list, NEW w \in Windows
      PROVE  \/ <<row.name, w>> \in sweep'.failed
             \/ RefreshedNext(row.name, w)
             \/ /\ proc'["sweep"].at = <<"run">>
                /\ [row |-> row, window |-> w] \in proc'["sweep"].todo
  <2>1. proc'["sweep"] = proc["sweep"] /\ sweep.list # {} /\ row \in sweep.list
    BY <1>4
  <2>2. \/ <<row.name, w>> \in sweep.failed
        \/ Refreshed(row.name, w)
        \/ /\ proc["sweep"].at = <<"run">>
           /\ [row |-> row, window |-> w] \in proc["sweep"].todo
    BY <1>4, <2>1 DEF SweepInv
  <2> QED BY <1>2, <2>1, <2>2
<1> QED BY <1>1, <1>3, <1>4, SweepNext

LEMMA ListMoves ==
  ASSUME TypeInv, SweepList
  PROVE  proc["sweep"].at = <<"list">> /\ proc'["sweep"] # proc["sweep"]
<1>1. proc["sweep"].at = <<"list">> /\ <<"list">> # <<"look">>
  BY DEF SweepList
<1>2. proc'["sweep"].at = <<"look">>
  BY GotoTyped DEF SweepList, Procs
<1> QED BY <1>1, <1>2

LEMMA SweepStep == TypeInv /\ IdsInv /\ SweepInv /\ [Next]_vars => SweepInv'
<1> SUFFICES ASSUME TypeInv, IdsInv, SweepInv, [Next]_vars PROVE SweepInv'
  OBVIOUS
<1>a. /\ proc \in [Procs -> [at : Stages, todo : SUBSET (Seeds \cup Pairs)]]
      /\ sweep \in [list : SUBSET Row, today : Nat, fresh : SUBSET (Names \X Windows),
                    failed : SUBSET (Names \X Windows)]
      /\ date.day \in Nat /\ Utc \in Nat /\ Utc >= date.day /\ sweep.today <= date.day
  BY DEF TypeInv, ProcInv, SweepInv, Utc
<1>1. ASSUME NEW p \in Procs, Start(p) \/ Kill(p) PROVE SweepInv'
  <2>1. /\ sweep' = IF p = "sweep" THEN NoSweep ELSE sweep
        /\ proc'[p].at \notin {<<"run">>, <<"done">>} /\ date' = date
        /\ \A q \in Procs \ {p} : proc'[q] = proc[q]
    BY <1>1, ProcessIs
  <2>2. CASE p = "sweep"
    BY <1>a, <2>1, <2>2, SweepNext DEF NoSweep
  <2>3. CASE p # "sweep"
    <3>1. proc'["sweep"] = proc["sweep"] /\ sweep' = sweep
      BY <2>1, <2>3 DEF Procs
    <3> QED BY <3>1, ListMoves, SweepKept
  <2> QED BY <2>2, <2>3
<1>2. ASSUME NEW p \in Procs, NEW t \in Tables, SeedCheck(p, t) \/ SeedSave(p, t)
      PROVE  SweepInv'
  <2>1. sweep' = sweep /\ proc[p].at \in {<<"check", t>>, <<"fill", t>>}
    BY <1>2 DEF SeedCheck, SeedSave
  <2>2. PICK items : items \subseteq SeedOf(t) /\ Fill(p, t, items)
    <3>1. CASE SeedCheck(p, t)
      BY <3>1, ReadsIs DEF SeedCheck
    <3>2. CASE SeedSave(p, t)
      <4>1. proc[p].todo \subseteq SeedOf(t)
        BY <3>2 DEF SeedSave, TypeInv, ProcInv
      <4>2. PICK item : Fill(p, t, proc[p].todo \ {item})
        BY <3>2 DEF SeedSave
      <4> QED BY <4>1, <4>2
    <3> QED BY <1>2, <3>1, <3>2
  <2>3. /\ \A q \in Procs \ {p} : proc'[q] = proc[q]
        /\ proc'[p].at \notin {<<"run">>, <<"done">>}
    BY <2>1, <2>2, FillTyped
  <2>4. CASE p = "sweep"
    <3>1. ~SweepList
      BY <2>1, <2>4, ListMoves, Places
    <3> QED BY <2>1, <2>3, <2>4, <3>1, SweepKept
  <2>5. CASE p # "sweep"
    <3>1. proc'["sweep"] = proc["sweep"]
      BY <2>3, <2>5 DEF Procs
    <3> QED BY <2>1, <3>1, ListMoves, SweepKept
  <2> QED BY <2>4, <2>5
<1>3. ASSUME \/ \E n \in Names, c \in Configs : LabSaveStrategy(n, c)
             \/ \E n \in Names : LabDeleteStrategy(n) \/ LabSetActive(n)
             \/ \E n, m \in Names : LabRenameStrategy(n, m)
             \/ \E n \in Names, c \in Configs, w \in Windows : LabRunStart(n, c, w)
             \/ \E r \in inflight : LabRunEnd(r)
             \/ Clock \/ UNCHANGED vars
      PROVE  SweepInv'
  <2>1. UNCHANGED <<proc, sweep>>
    BY <1>3 DEF LabSaveStrategy, LabDeleteStrategy, LabSetActive, LabRenameStrategy,
                LabRunStart, LabRunEnd, Clock, Serve, vars
  <2> QED BY <2>1, ListMoves, SweepKept
<1>4. CASE AttachEngine
  <2>1. Goto("server", <<"serve">>) /\ sweep' = sweep
    BY <1>4 DEF AttachEngine
  <2>2. proc'["sweep"] = proc["sweep"]
    BY <2>1, GotoTyped DEF Procs
  <2> QED BY <2>1, <2>2, ListMoves, SweepKept
<1>5. CASE SweepList
  <2>1. /\ Goto("sweep", <<"look">>) /\ date' = date
        /\ sweep'.today = date.day /\ sweep'.fresh = {}
    BY <1>5 DEF SweepList
  <2>2. proc'["sweep"].at = <<"look">>
    BY <2>1, GotoTyped DEF Procs
  <2> QED BY <1>a, <2>1, <2>2, SweepNext
<1>6. CASE SweepLook
  <2>1. /\ proc' = [proc EXCEPT !["sweep"] =
              [at |-> <<"run">>, todo |-> [row : sweep.list, window : Windows]]]
        /\ sweep' = [sweep EXCEPT !.fresh = sweep'.fresh]
        /\ \A pair \in sweep'.fresh : \E i \in DOMAIN runs :
             /\ pair = <<runs[i].strategy, runs[i].window>>
             /\ runs[i].utc = sweep.today
        /\ UNCHANGED <<store, date>>
    BY <1>6, SweepLookIs
  <2>2. sweep'.list = sweep.list /\ sweep'.today = sweep.today /\ runs' = runs
    BY <1>a, <2>1 DEF store
  <2>3. ASSUME NEW pair \in sweep'.fresh PROVE RefreshedNext(pair[1], pair[2])
    <3>1. PICK i \in DOMAIN runs : /\ pair = <<runs[i].strategy, runs[i].window>>
                                   /\ runs[i].utc = sweep.today
      BY <2>1
    <3>2. pair[1] = runs[i].strategy /\ pair[2] = runs[i].window
      BY <3>1
    <3> QED BY <1>a, <2>2, <3>1, <3>2 DEF RefreshedNext
  <2>4. /\ proc'["sweep"].at = <<"run">>
        /\ proc'["sweep"].todo = [row : sweep.list, window : Windows]
    BY <1>a, <2>1 DEF Procs
  <2>5. \A row \in sweep'.list, w \in Windows :
          [row |-> row, window |-> w] \in proc'["sweep"].todo
    BY <2>2, <2>4
  <2> QED BY <1>a, <2>1, <2>2, <2>3, <2>4, <2>5, SweepNext
<1>7. CASE SweepRun
  <2>1. PICK row \in sweep.list, w \in Windows :
          /\ proc["sweep"].at = <<"run">>
          /\ proc' = [proc EXCEPT !["sweep"] =
               [at   |-> <<"run">>,
                todo |-> proc["sweep"].todo \ {[row |-> row, window |-> w]}]]
          /\ \/ <<row.name, w>> \in sweep.fresh /\ UNCHANGED <<runs, sweep>>
             \/ SaveRun(row, w) /\ UNCHANGED sweep
             \/ /\ sweep' = [sweep EXCEPT
                               !.failed = sweep.failed \cup {<<row.name, w>>}]
                /\ UNCHANGED runs
    BY <1>7, SweepRunIs
  <2>2. date' = date /\ moved' = moved /\ ~SweepList
    <3>1. date' = date /\ moved' = moved
      BY <1>7 DEF SweepRun, history
    <3>2. <<"run">> # <<"list">>
      OBVIOUS
    <3> QED BY <2>1, <3>1, <3>2, ListMoves
  <2>3. /\ sweep'.today = sweep.today /\ sweep'.list = sweep.list
        /\ sweep'.fresh = sweep.fresh /\ sweep.failed \subseteq sweep'.failed
    BY <1>a, <2>1
  <2>4. sweep.list # {}
    BY <2>1
  <2>5. ASSUME NEW n, NEW v, Refreshed(n, v) PROVE RefreshedNext(n, v)
    BY <2>2, <2>3, <2>4, <2>5, RefreshedKept DEF RefreshedNext
  <2>6. <<row.name, w>> \in sweep'.failed \/ RefreshedNext(row.name, w)
    <3>1. CASE <<row.name, w>> \in sweep.fresh
      <4>1. PICK pair \in sweep.fresh : pair = <<row.name, w>>
        BY <3>1
      <4>2. Refreshed(pair[1], pair[2])
        BY <2>4 DEF SweepInv
      <4>3. pair[1] = row.name /\ pair[2] = w
        BY <4>1
      <4> QED BY <2>5, <4>2, <4>3
    <3>2. CASE SaveRun(row, w)
      <4>1. row \in Row
        BY <1>a
      <4>2. /\ Len(runs) + 1 \in DOMAIN runs'
            /\ runs'[Len(runs) + 1].strategy = row.name
            /\ runs'[Len(runs) + 1].window = w
            /\ runs'[Len(runs) + 1].utc = Utc
        BY <3>2, <4>1, FileTyped
      <4>3. Utc >= sweep'.today
        BY <1>a, <2>3
      <4> QED BY <4>2, <4>3 DEF RefreshedNext
    <3>3. CASE sweep' = [sweep EXCEPT !.failed = sweep.failed \cup {<<row.name, w>>}]
      BY <1>a, <3>3
    <3> QED BY <2>1, <3>1, <3>2, <3>3
  <2>7. /\ proc'["sweep"].at = <<"run">>
        /\ proc'["sweep"].todo = proc["sweep"].todo \ {[row |-> row, window |-> w]}
    BY <1>a, <2>1 DEF Procs
  <2>8. ASSUME NEW r \in sweep'.list, NEW v \in Windows
        PROVE  \/ <<r.name, v>> \in sweep'.failed
               \/ RefreshedNext(r.name, v)
               \/ [row |-> r, window |-> v] \in proc'["sweep"].todo
    <3>1. \/ <<r.name, v>> \in sweep.failed
          \/ Refreshed(r.name, v)
          \/ [row |-> r, window |-> v] \in proc["sweep"].todo
      BY <2>1, <2>3 DEF SweepInv
    <3>2. CASE [row |-> r, window |-> v] = [row |-> row, window |-> w]
      <4>1. r = row /\ v = w
        BY <3>2
      <4> QED BY <2>6, <4>1
    <3>3. CASE [row |-> r, window |-> v] # [row |-> row, window |-> w]
      BY <2>3, <2>5, <2>7, <3>1, <3>3
    <3> QED BY <3>2, <3>3
  <2>9. \A pair \in sweep'.fresh : RefreshedNext(pair[1], pair[2])
    BY <2>3, <2>4, <2>5 DEF SweepInv
  <2> QED BY <1>a, <2>2, <2>3, <2>7, <2>8, <2>9, SweepNext
<1>8. CASE SweepDone
  <2>1. /\ proc["sweep"] = [at |-> <<"run">>, todo |-> {}] /\ Goto("sweep", <<"done">>)
        /\ UNCHANGED <<store, sweep, date, history>>
    BY <1>8 DEF SweepDone
  <2>2. proc'["sweep"].at = <<"done">>
    BY <2>1, GotoTyped DEF Procs
  <2>3. UNCHANGED <<runs, moved>>
    BY <2>1 DEF store, history
  <2>4. \A n, w : Refreshed(n, w) => RefreshedNext(n, w)
    BY <2>1, <2>3 DEF Refreshed, RefreshedNext
  <2>5. proc["sweep"].at = <<"run">> /\ proc["sweep"].todo = {}
    BY <2>1
  <2>6. \A row \in sweep.list, w \in Windows :
          <<row.name, w>> \in sweep.failed \/ Refreshed(row.name, w)
    BY <2>5 DEF SweepInv
  <2>7. sweep.list # {} =>
          \A pair \in sweep.fresh : RefreshedNext(pair[1], pair[2])
    BY <2>4 DEF SweepInv
  <2> QED BY <1>a, <2>1, <2>2, <2>4, <2>6, <2>7, SweepNext
<1> QED BY <1>1, <1>2, <1>3, <1>4, <1>5, <1>6, <1>7, <1>8 DEF Next, Seed

(* A finished sweep has left nobody out, however often it was killed and   *)
(* started again, and whatever the server did meanwhile.                   *)
THEOREM SweepCorrect == Spec => []SweepCovers
<1>1. Init => IdsInv /\ SweepInv
  <2>1. <<"down">> \notin {<<"run">>, <<"done">>}
    OBVIOUS
  <2>2. Init => proc["sweep"].at = <<"down">>
    BY DEF Init, Procs
  <2>3. Init => sweep.today <= date.day /\ sweep.list = {}
    BY DEF Init, NoSweep
  <2> QED BY <2>1, <2>2, <2>3, NamesInit DEF SweepInv
<1>2. TypeInv /\ SweepInv => SweepCovers
  <2>1. <<"done">> # <<"run">>
    OBVIOUS
  <2> SUFFICES ASSUME SweepInv, proc["sweep"].at = <<"done">>,
                      NEW row \in sweep.list, NEW w \in Windows
               PROVE  \/ <<row.name, w>> \in sweep.failed
                      \/ row.name \in moved
                      \/ \E i \in DOMAIN runs :
                           /\ runs[i].strategy = row.name /\ runs[i].window = w
                           /\ runs[i].utc >= sweep.today
    BY DEF SweepCovers
  <2>2. <<row.name, w>> \in sweep.failed \/ Refreshed(row.name, w)
    BY <2>1 DEF SweepInv
  <2> QED BY <2>2 DEF Refreshed
<1> QED BY <1>1, <1>2, IdsStep, SweepStep, TypeCorrect, PTL DEF Spec

-----------------------------------------------------------------------------
(* The preview.                                                            *)

LEMMA LeastNatural ==
  ASSUME NEW T, T \subseteq Nat, T # {}
  PROVE  \E x \in T : \A y \in T : x <= y
<1>1. PICK x \in T : \A y \in T : <<y, x>> \notin OpToRel(<, Nat)
  BY NatLessThanWellFounded, WFMin
<1>2. ASSUME NEW y \in T PROVE x <= y
  <2>1. ~(y < x)
    BY <1>1 DEF OpToRel
  <2> QED BY <2>1
<1> QED BY <1>2

LEMMA LastOf ==
  ASSUME NEW N \in Nat, NEW S \in SUBSET (1 .. N), S # {}
  PROVE  \E m \in S : \A i \in S : i <= m
<1> DEFINE T == {N - i : i \in S}
<1>1. T \subseteq Nat /\ T # {}
  <2>1. ASSUME NEW i \in S PROVE N - i \in Nat
    <3>1. i \in 1 .. N
      OBVIOUS
    <3> QED BY <3>1
  <2>2. T \subseteq Nat
    <3> DEFINE d(i) == N - i
    <3>1. T = {d(i) : i \in S} /\ \A i \in S : d(i) \in Nat
      BY <2>1
    <3> HIDE DEF T, d
    <3> QED BY <3>1
  <2> QED BY <2>2
<1>2. PICK x \in T : \A y \in T : x <= y
  <2> HIDE DEF T
  <2> QED BY <1>1, LeastNatural
<1>3. PICK m \in S : x = N - m
  OBVIOUS
<1>4. ASSUME NEW i \in S PROVE i <= m
  <2>1. N - i \in T /\ i \in 1 .. N /\ m \in 1 .. N
    OBVIOUS
  <2>2. N - m <= N - i
    BY <1>2, <1>3, <2>1
  <2> QED BY <2>1, <2>2
<1> QED BY <1>4

(* A strategy has one row on the board of a window, and the board has no   *)
(* more rows than strategies.                                              *)
LEMMA BoardHasRoom ==
  ASSUME TypeInv, NEW w
  PROVE  LET rows == {i \in DOMAIN runs : Newest(i) /\ runs[i].window = w}
             all  == {runs[i].strategy : i \in {j \in DOMAIN runs : runs[j].window = w}}
         IN /\ IsFiniteSet(rows) /\ Cardinality(rows) <= Cardinality(all)
            /\ Cardinality(rows) \in Nat /\ Cardinality(all) \in Nat
            /\ \A i, j \in rows : runs[i].strategy = runs[j].strategy => i = j
<1> DEFINE rows == {i \in DOMAIN runs : Newest(i) /\ runs[i].window = w}
           has  == {i \in DOMAIN runs : runs[i].window = w}
           all  == {runs[i].strategy : i \in has}
           f    == [i \in rows |-> runs[i].strategy]
           g    == [i \in has |-> runs[i].strategy]
<1>1. DOMAIN runs = 1 .. Len(runs) /\ Len(runs) \in Nat
  BY DEF TypeInv, TypeOK
<1>2. IsFiniteSet(DOMAIN runs)
  BY <1>1, FS_Interval
<1>3. IsFiniteSet(has) /\ IsFiniteSet(rows) /\ Cardinality(rows) \in Nat
  <2>1. has \in SUBSET DOMAIN runs /\ rows \in SUBSET DOMAIN runs
    OBVIOUS
  <2> HIDE DEF has, rows
  <2>2. IsFiniteSet(has) /\ IsFiniteSet(rows)
    BY <1>2, <2>1, FS_Subset
  <2> QED BY <2>2, FS_CardinalityType
<1>4. g \in Surjection(has, all)
  BY DEF Surjection
<1>5. IsFiniteSet(all)
  <2> HIDE DEF has, all, g
  <2> QED BY <1>3, <1>4, FS_Surjection
<1>6. ASSUME NEW i \in rows, NEW j \in rows, runs[i].strategy = runs[j].strategy
      PROVE  i = j
  <2>1. i \in DOMAIN runs /\ j \in DOMAIN runs /\ i \in Int /\ j \in Int
    BY <1>1
  <2>2. Newest(i) /\ Newest(j) /\ runs[i].window = runs[j].window
    OBVIOUS
  <2>3. j <= i /\ i <= j
    BY <1>6, <2>1, <2>2 DEF Newest
  <2> QED BY <2>1, <2>3
<1>7. f \in Injection(rows, all)
  <2>1. f \in [rows -> all] /\ DOMAIN f = rows
    OBVIOUS
  <2>2. \A i, j \in rows : f[i] = f[j] => i = j
    BY <1>6
  <2> QED BY <2>1, <2>2 DEF Injection, IsInjective
<1>8. Cardinality(rows) <= Cardinality(all) /\ Cardinality(all) \in Nat
  <2> HIDE DEF rows, all, f
  <2> QED BY <1>5, <1>7, FS_Injection, FS_CardinalityType
<1> QED BY <1>3, <1>6, <1>8

(* The newest run of a strategy and window has a row.                      *)
LEMMA NewestHasRow ==
  ASSUME TypeInv, NEW n, NEW w,
         NEW m \in {i \in DOMAIN runs : runs[i].strategy = n /\ runs[i].window = w},
         \A i \in DOMAIN runs :
           runs[i].strategy = n /\ runs[i].window = w => i <= m
  PROVE  Newest(m)
BY DEF Newest

(* Every strategy that has a run of the window has a row on a board that   *)
(* has room for them all.                                                  *)
LEMMA BoardShows ==
  ASSUME TypeInv, NEW w,
         NEW m \in {i \in DOMAIN runs : Newest(i) /\ runs[i].window = w},
         Cardinality({runs[i].strategy : i \in {j \in DOMAIN runs : runs[j].window = w}})
           <= BoardLimit
  PROVE  m \in Leaderboard({w}, BoardLimit)
<1> DEFINE all  == {runs[i].strategy : i \in {j \in DOMAIN runs : runs[j].window = w}}
           rows == {i \in DOMAIN runs : Newest(i) /\ runs[i].window = w}
<1>1. DOMAIN runs = 1 .. Len(runs) /\ Len(runs) \in Nat
  BY DEF TypeInv, TypeOK
<1>2. /\ IsFiniteSet(rows) /\ Cardinality(rows) <= Cardinality(all)
      /\ Cardinality(rows) \in Nat /\ Cardinality(all) \in Nat
  BY BoardHasRoom
<1>3. ~Ahead(m, m)
  <2>1. m \in Int /\ runs[m] \in Run
    BY <1>1 DEF TypeInv, TypeOK
  <2>2. Score[runs[m].cfg] \in Int
    BY <2>1, LabAssumption DEF Run
  <2> QED BY <2>1, <2>2 DEF Ahead
<1>4. Cardinality({j \in rows : Ahead(j, m)}) < BoardLimit
  <2> DEFINE better == {j \in rows : Ahead(j, m)}
  <2>1. better \in SUBSET (rows \ {m})
    BY <1>3
  <2>2. BoardLimit \in Nat /\ m \in rows /\ Cardinality(all) <= BoardLimit
    BY LabAssumption
  <2> HIDE DEF better, rows, all
  <2>3. IsFiniteSet(rows \ {m}) /\ Cardinality(rows \ {m}) = Cardinality(rows) - 1
    BY <1>2, <2>2, FS_RemoveElement
  <2>4. Cardinality(better) <= Cardinality(rows \ {m}) /\ IsFiniteSet(better)
    BY <2>1, <2>3, FS_Subset
  <2>5. Cardinality(better) \in Nat
    BY <2>4, FS_CardinalityType
  <2>6. Cardinality(better) < BoardLimit
    BY <1>2, <2>2, <2>3, <2>4, <2>5
  <2> QED BY <2>6 DEF better
<1> QED BY <1>4 DEF Leaderboard

LEMMA PreviewIs == TypeInv => PreviewFindsRun
<1> SUFFICES ASSUME TypeInv, NEW n \in Names PROVE
      LET mine == {i \in DOMAIN runs : runs[i].strategy = n /\ runs[i].window = Preview}
          all  == {runs[i].strategy : i \in {j \in DOMAIN runs : runs[j].window = Preview}}
      IN /\ LabDryrun(n) # 0 =>
              LabDryrun(n) \in mine /\ \A i \in mine : i <= LabDryrun(n)
         /\ Supported(GetStrategy(n)) /\ mine # {} /\ Cardinality(all) <= BoardLimit
              => LabDryrun(n) # 0
  BY DEF PreviewFindsRun
<1> DEFINE mine  == {i \in DOMAIN runs : runs[i].strategy = n /\ runs[i].window = Preview}
           all   == {runs[i].strategy : i \in {j \in DOMAIN runs : runs[j].window = Preview}}
           rows  == {i \in DOMAIN runs : Newest(i) /\ runs[i].window = Preview}
           shown == {i \in Leaderboard({Preview}, BoardLimit) : runs[i].strategy = n}
<1>1. DOMAIN runs = 1 .. Len(runs) /\ Len(runs) \in Nat
  BY DEF TypeInv, TypeOK
<1>2. shown \subseteq {i \in rows : runs[i].strategy = n}
  BY DEF Leaderboard
<1>3. \A i, j \in rows : runs[i].strategy = runs[j].strategy => i = j
  BY BoardHasRoom
<1>4. ASSUME NEW i \in DOMAIN runs, Newest(i), runs[i].strategy = n,
             runs[i].window = Preview, NEW j \in mine
      PROVE  j <= i
  BY <1>4 DEF Newest
<1>5. ~(~Supported(GetStrategy(n)) \/ shown = {}) =>
        LabDryrun(n) \in shown
  <2> SUFFICES ASSUME Supported(GetStrategy(n)), shown # {}
               PROVE  LabDryrun(n) \in shown
    OBVIOUS
  <2>1. PICK m \in shown : TRUE
    OBVIOUS
  <2>2. shown = {m}
    BY <1>2, <1>3, <2>1
  <2>3. ~Ahead(m, m)
    <3>1. m \in DOMAIN runs
      BY <1>2, <2>1
    <3>3. m \in Int /\ runs[m] \in Run
      BY <1>1, <3>1 DEF TypeInv, TypeOK
    <3>2. Score[runs[m].cfg] \in Int
      BY <3>3, LabAssumption DEF Run
    <3> QED BY <3>2, <3>3 DEF Ahead
  <2>4. LabDryrun(n) = CHOOSE i \in shown : \A j \in shown : ~Ahead(j, i)
    BY DEF LabDryrun
  <2> QED BY <2>2, <2>3, <2>4
<1>6. (~Supported(GetStrategy(n)) \/ shown = {}) => LabDryrun(n) = 0
  BY DEF LabDryrun
<1>7. ASSUME LabDryrun(n) # 0
      PROVE  LabDryrun(n) \in mine /\ \A i \in mine : i <= LabDryrun(n)
  BY <1>2, <1>4, <1>5, <1>6, <1>7
<1>8. ASSUME Supported(GetStrategy(n)), mine # {}, Cardinality(all) <= BoardLimit
      PROVE  LabDryrun(n) # 0
  <2>1. PICK m \in mine : \A i \in mine : i <= m
    <3>1. mine \in SUBSET (1 .. Len(runs))
      BY <1>1
    <3> HIDE DEF mine
    <3> QED BY <1>1, <1>8, <3>1, LastOf
  <2>2. m \in rows
    BY <2>1, NewestHasRow
  <2>3. m \in shown
    BY <1>8, <2>1, <2>2, BoardShows
  <2>4. LabDryrun(n) \in DOMAIN runs
    BY <1>2, <1>5, <1>8, <2>3
  <2> QED BY <1>1, <2>4
<1> QED BY <1>7, <1>8

(* A preview is of the strategy's newest run of the preview's window, and  *)
(* a stored strategy of one leg that has such a run has a preview: the     *)
(* board has a place for it, as long as no more names have one than it     *)
(* shows.                                                                  *)
THEOREM PreviewCorrect == Spec => []PreviewFindsRun
<1> QED BY TypeCorrect, PreviewIs, PTL

=============================================================================
