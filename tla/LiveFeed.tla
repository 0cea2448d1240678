------------------------------ MODULE LiveFeed ------------------------------
(***************************************************************************)
(* The live tape of one symbol: polls of the feed, the minute bars that    *)
(* live_feed.py cuts from their snapshots, and the bars the engine of the  *)
(* day is given (scan_once and _aggregate of server.py).                   *)
(*                                                                         *)
(* A poll runs in a thread: its snapshot is stamped when the feed answers, *)
(* and scan_once goes on with it later, when the symbol's enrichment is    *)
(* done.  The engine loop polls, and so does every GET /api/signals, so    *)
(* several polls may be in flight and finish in any order.  A symbol is in *)
(* a poll only while the adapter's filter lists it.                        *)
(***************************************************************************)
EXTENDS Integers, Sequences, FiniteSets, FiniteSetsExt

CONSTANTS
  Pollers,   \* the coroutines that may have a poll in flight
  Prices,
  MaxTod,    \* minutes of a day, from 1
  MaxDay,    \* bound: days, from 0
  MaxSnaps   \* bound: snapshots taken

ASSUME FeedAssumption ==
  /\ MaxTod \in Nat \ {0} /\ MaxDay \in Nat /\ MaxSnaps \in Nat
  /\ Prices \subseteq Nat

VARIABLES
  day, tod,    \* the clock, Eastern time
  cum,         \* the day's volume
  taken,       \* snapshots taken so far
  inFlight,    \* per poller: NoSnap, or the snapshot it brings
  bucket,      \* MinuteBarAggregator._bucket for the symbol
  firstTod,    \* _first_tod
  lastCum,     \* _last_cum
  engineDay,   \* LiveEngine.day
  tape,        \* the bars the tracker of that day was given
  delivered,   \* history: the snapshots ingested, in this order
  mishap       \* history: "late" snapshots, a "carried" bucket

clockVars == <<day, tod>>
aggVars   == <<bucket, firstTod, lastCum>>
vars == <<clockVars, cum, taken, inFlight, aggVars, engineDay, tape, delivered,
          mishap>>

NoSnap   == [tod |-> 0]
NoBucket == [tod |-> 0]

NewBucket(s) == [tod |-> s.tod, o |-> s.last, h |-> s.last, l |-> s.last,
                 c |-> s.last, cum |-> s.cum]

Init ==
  /\ day = 0 /\ tod = 1
  /\ cum = 0
  /\ taken = 0
  /\ inFlight = [p \in Pollers |-> NoSnap]
  /\ bucket = NoBucket
  /\ firstTod = 0
  /\ lastCum = 0
  /\ engineDay = 0
  /\ tape = <<>>
  /\ delivered = <<>>
  /\ mishap = {}

-----------------------------------------------------------------------------
Minute ==
  /\ tod < MaxTod
  /\ tod' = tod + 1
  /\ UNCHANGED <<day, cum, taken, inFlight, aggVars, engineDay, tape,
                 delivered, mishap>>

(* A new day; the polls of the evening are done by then.                   *)
NewDay ==
  /\ day < MaxDay
  /\ \A p \in Pollers : inFlight[p] = NoSnap
  /\ day' = day + 1
  /\ tod' = 1
  /\ cum' = 0
  /\ UNCHANGED <<taken, inFlight, aggVars, engineDay, tape, delivered, mishap>>

(* The feed answers a poll that lists the symbol.                          *)
Fetch(p) ==
  /\ inFlight[p] = NoSnap
  /\ taken < MaxSnaps
  /\ taken' = taken + 1
  /\ \E traded \in {0, 1}, price \in Prices :
       /\ cum' = cum + traded
       /\ inFlight' = [inFlight EXCEPT ![p] =
            [day |-> day, tod |-> tod, last |-> price, cum |-> cum',
             n |-> taken']]
  /\ UNCHANGED <<clockVars, aggVars, engineDay, tape, delivered, mishap>>

(* The bar of a bucket that closes.                                        *)
Emit(b) ==
  [t |-> b.tod - firstTod, o |-> b.o, h |-> b.h, l |-> b.l, c |-> b.c,
   v |-> Max({0, b.cum - lastCum}), cum |-> b.cum, tod |-> b.tod]

(* What the tracker has: a new day's first scan builds the engine again.   *)
TapeOfDay == IF engineDay = day THEN tape ELSE <<>>

First(s) ==
  /\ bucket = NoBucket
  /\ bucket' = NewBucket(s)
  /\ firstTod' = IF firstTod = 0 THEN s.tod ELSE firstTod
  /\ tape' = TapeOfDay
  /\ UNCHANGED lastCum

(* Mutant: a snapshot moves the close only.                                *)
FoldCloseOnly(s) ==
  /\ bucket # NoBucket
  /\ s.tod = bucket.tod
  /\ bucket' = [bucket EXCEPT !.c = s.last, !.cum = Max({@, s.cum})]
  /\ tape' = TapeOfDay
  /\ UNCHANGED <<firstTod, lastCum>>

Fold(s) ==
  /\ bucket # NoBucket
  /\ s.tod = bucket.tod
  /\ bucket' = [bucket EXCEPT !.h = Max({@, s.last}), !.l = Min({@, s.last}),
                              !.c = s.last, !.cum = Max({@, s.cum})]
  /\ tape' = TapeOfDay
  /\ UNCHANGED <<firstTod, lastCum>>

(* Mutant: the bucket that is given up is emitted first.                   *)
ResetEmits(s) ==
  /\ bucket # NoBucket
  /\ s.tod < bucket.tod
  /\ tape' = Append(TapeOfDay, Emit(bucket))
  /\ bucket' = NewBucket(s)
  /\ firstTod' = s.tod
  /\ lastCum' = 0

(* The clock moved backwards: a new session, or a late snapshot.           *)
Reset(s) ==
  /\ bucket # NoBucket
  /\ s.tod < bucket.tod
  /\ bucket' = NewBucket(s)
  /\ firstTod' = s.tod
  /\ lastCum' = 0
  /\ tape' = TapeOfDay

Roll(s) ==
  /\ bucket # NoBucket
  /\ s.tod > bucket.tod
  /\ tape' = Append(TapeOfDay, Emit(bucket))
  /\ lastCum' = bucket.cum
  /\ bucket' = NewBucket(s)
  /\ UNCHANGED firstTod

Ingest(s) == First(s) \/ Fold(s) \/ Reset(s) \/ Roll(s)

(* The rest of scan_once, with the snapshot that the poll brought.         *)
Deliver(p) ==
  LET s == inFlight[p]
      last == delivered[Len(delivered)]
  IN /\ s # NoSnap
     /\ inFlight' = [inFlight EXCEPT ![p] = NoSnap]
     /\ engineDay' = day
     /\ Ingest(s)
     /\ delivered' = Append(delivered, s)
     /\ mishap' = mishap
          \cup (IF delivered # <<>> /\ last.n > s.n THEN {"late"} ELSE {})
          \cup (IF delivered # <<>> /\ last.day < s.day /\ last.tod <= s.tod
                THEN {"carried"} ELSE {})
     /\ UNCHANGED <<clockVars, cum, taken>>

Next ==
  \/ Minute \/ NewDay
  \/ \E p \in Pollers : Fetch(p) \/ Deliver(p)

Spec == Init /\ [][Next]_vars

-----------------------------------------------------------------------------
(* Properties.                                                             *)

TypeOK ==
  /\ day \in 0 .. MaxDay /\ tod \in 1 .. MaxTod
  /\ cum \in Nat /\ lastCum \in Nat /\ taken \in 0 .. MaxSnaps
  /\ bucket.tod \in 0 .. MaxTod /\ firstTod \in 0 .. MaxTod
  /\ engineDay \in 0 .. day
  /\ \A k \in DOMAIN tape : tape[k].v \in Nat /\ tape[k].t \in Nat
  /\ mishap \subseteq {"late", "carried"}

(* The reference: the bars of a day, one for each minute with a snapshot   *)
(* but the last such minute, each made from all snapshots of its minute.   *)
SnapsOf(d, m) == {k \in DOMAIN delivered :
                    delivered[k].day = d /\ delivered[k].tod = m}

MinutesOf(d) == {delivered[k].tod : k \in {j \in DOMAIN delivered :
                                             delivered[j].day = d}}

VolumeAt(d, m) == Max({delivered[k].cum : k \in SnapsOf(d, m)})

BarOf(d, m) ==
  LET S == SnapsOf(d, m)
      before == {j \in MinutesOf(d) : j < m}
  IN [t |-> m - Min(MinutesOf(d)), tod |-> m,
      o |-> delivered[Min(S)].last, c |-> delivered[Max(S)].last,
      h |-> Max({delivered[k].last : k \in S}),
      l |-> Min({delivered[k].last : k \in S}),
      cum |-> VolumeAt(d, m),
      v |-> VolumeAt(d, m) - IF before = {} THEN 0
                             ELSE VolumeAt(d, Max(before))]

ClosedMinutes(d) == {m \in MinutesOf(d) : \E j \in MinutesOf(d) : j > m}

(* live_feed.py: the tracker is given exactly the closed minutes of its    *)
(* day, each once, in order, with the prices of all its snapshots and the  *)
(* volume traded since the bar before: the bars a backtest would see.  It  *)
(* fails only when snapshots were ingested out of order, or when a bucket  *)
(* of an earlier day was taken for one of today.                           *)
TapeMatchesSnapshots ==
  mishap = {} =>
    LET minutes == ClosedMinutes(engineDay)
    IN /\ Len(tape) = Cardinality(minutes)
       /\ \A k \in DOMAIN tape :
            LET m == CHOOSE m \in minutes :
                       Cardinality({j \in minutes : j < m}) = k - 1
            IN tape[k] = BarOf(engineDay, m)

(* Bars are in order as long as snapshots are: a bucket carried over the   *)
(* night may spoil a bar but never the order of the tracker's bars.  No    *)
(* bar has a negative volume.                                              *)
OrderedWhenPollsAre ==
  /\ TypeOK
  /\ "late" \notin mishap =>
       \A j, k \in DOMAIN tape : j < k => tape[j].tod < tape[k].tod

=============================================================================
