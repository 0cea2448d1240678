-------------------------- MODULE LiveFeed_proofs ---------------------------
(***************************************************************************)
(* Proofs about LiveFeed, for every number of polls in flight, of minutes, *)
(* of days and of snapshots.                                               *)
(***************************************************************************)
EXTENDS LiveFeed, FiniteSetTheorems, WellFoundedInduction, TLAPS

Snap   == [day : 0 .. MaxDay, tod : 1 .. MaxTod, last : Prices, cum : Nat,
           n : 1 .. MaxSnaps]
Bucket == [tod : 1 .. MaxTod, o : Prices, h : Prices, l : Prices, c : Prices,
           cum : Nat]
Bar    == [t : Nat, o : Prices, h : Prices, l : Prices, c : Prices, v : Nat,
           cum : Nat, tod : 1 .. MaxTod]

(* TypeOK, with the shape of the records; a bar's minute is counted from   *)
(* one that was not later.                                                 *)
TypeInv ==
  /\ day \in 0 .. MaxDay /\ tod \in 1 .. MaxTod
  /\ cum \in Nat /\ lastCum \in Nat /\ taken \in 0 .. MaxSnaps
  /\ inFlight \in [Pollers -> Snap \cup {NoSnap}]
  /\ bucket \in Bucket \cup {NoBucket}
  /\ firstTod \in 0 .. MaxTod /\ firstTod <= bucket.tod
  /\ engineDay \in 0 .. day
  /\ tape \in Seq(Bar)
  /\ delivered \in Seq(Snap)
  /\ mishap \subseteq {"late", "carried"}

Last == delivered[Len(delivered)]

(* Snapshots are numbered in the order of their minutes and volumes: those *)
(* in flight, which are of today, among each other and after the last one  *)
(* delivered, which made the bucket.                                       *)
FlightInv ==
  /\ \A p \in Pollers : inFlight[p] # NoSnap =>
       /\ inFlight[p].day = day /\ inFlight[p].tod <= tod
       /\ inFlight[p].n <= taken /\ inFlight[p].cum <= cum
  /\ \A p, q \in Pollers :
       inFlight[p] # NoSnap /\ inFlight[q] # NoSnap
         /\ inFlight[p].n <= inFlight[q].n
       => inFlight[p].tod <= inFlight[q].tod /\ inFlight[p].cum <= inFlight[q].cum

LastInv ==
  /\ delivered = <<>> <=> bucket = NoBucket
  /\ delivered = <<>> => tape = <<>> /\ firstTod = 0
  /\ delivered # <<>> =>
       /\ Last.tod = bucket.tod /\ Last.day = engineDay /\ Last.n <= taken
       /\ engineDay = day => Last.tod <= tod /\ Last.cum <= cum
       /\ \A p \in Pollers :
            inFlight[p] # NoSnap /\ Last.n <= inFlight[p].n /\ engineDay = day
              => Last.tod <= inFlight[p].tod /\ Last.cum <= inFlight[p].cum

(* As long as no snapshot was late, the bars are in order, and the bucket  *)
(* comes after them.                                                       *)
OrderInv ==
  "late" \notin mishap =>
    /\ \A j, k \in DOMAIN tape : j < k => tape[j].tod < tape[k].tod
    /\ \A k \in DOMAIN tape : tape[k].tod < bucket.tod

-----------------------------------------------------------------------------
(* What is folded into a bucket.                                           *)
LEMMA MaxOfTwo ==
  ASSUME NEW a \in Int, NEW b \in Int
  PROVE  Max({a, b}) = IF a >= b THEN a ELSE b
<1> DEFINE m == CHOOSE x \in {a, b} : \A y \in {a, b} : x >= y
<1>1. \E x \in {a, b} : \A y \in {a, b} : x >= y
  OBVIOUS
<1>2. m \in {a, b} /\ \A y \in {a, b} : m >= y
  BY <1>1
<1>3. Max({a, b}) = m
  BY DEF Max
<1> HIDE DEF m
<1>4. m = IF a >= b THEN a ELSE b
  BY <1>2
<1> QED BY <1>3, <1>4

LEMMA MinOfTwo ==
  ASSUME NEW a \in Int, NEW b \in Int
  PROVE  Min({a, b}) = IF a <= b THEN a ELSE b
<1> DEFINE m == CHOOSE x \in {a, b} : \A y \in {a, b} : x <= y
<1>1. \E x \in {a, b} : \A y \in {a, b} : x <= y
  OBVIOUS
<1>2. m \in {a, b} /\ \A y \in {a, b} : m <= y
  BY <1>1
<1>3. Min({a, b}) = m
  BY DEF Min
<1> HIDE DEF m
<1>4. m = IF a <= b THEN a ELSE b
  BY <1>2
<1> QED BY <1>3, <1>4

LEMMA Marks == NoSnap \notin Snap /\ NoBucket \notin Bucket /\ NoBucket.tod = 0
BY DEF NoSnap, NoBucket, Snap, Bucket

LEMMA NewBucketTyped ==
  ASSUME NEW s \in Snap
  PROVE  NewBucket(s) \in Bucket /\ NewBucket(s).tod = s.tod
BY DEF NewBucket, Snap, Bucket

(* The bar of a bucket.                                                    *)
LEMMA EmitTyped ==
  ASSUME TypeInv, bucket # NoBucket
  PROVE  Emit(bucket) \in Bar /\ Emit(bucket).tod = bucket.tod
<1>1. /\ bucket \in Bucket /\ firstTod \in Nat /\ bucket.tod \in Nat
      /\ bucket.cum - lastCum \in Int
  BY FeedAssumption DEF TypeInv, Bucket
<1>2. bucket.tod - firstTod \in Nat
  BY <1>1 DEF TypeInv
<1>3. Max({0, bucket.cum - lastCum}) \in Nat
  BY <1>1, MaxOfTwo
<1> QED BY <1>1, <1>2, <1>3 DEF Emit, Bar, Bucket

(* A snapshot of the bucket's minute.                                      *)
LEMMA FoldTyped ==
  ASSUME TypeInv, NEW s \in Snap, Fold(s)
  PROVE  bucket' \in Bucket /\ bucket'.tod = bucket.tod /\ s.tod = bucket.tod
<1>1. bucket \in Bucket /\ Prices \subseteq Nat
  BY FeedAssumption DEF TypeInv, Fold
<1>2. Max({bucket.h, s.last}) \in Prices /\ Min({bucket.l, s.last}) \in Prices
  <2>1. bucket.h \in Prices /\ bucket.l \in Prices /\ s.last \in Prices
    BY <1>1 DEF Bucket, Snap
  <2>2. \A x \in Prices : x \in Int
    BY FeedAssumption
  <2>3. Max({bucket.h, s.last}) \in Prices
    BY <2>1, <2>2, MaxOfTwo
  <2>4. Min({bucket.l, s.last}) \in Prices
    BY <2>1, <2>2, MinOfTwo
  <2> QED BY <2>3, <2>4
<1>3. Max({bucket.cum, s.cum}) \in Nat
  <2>1. bucket.cum \in Nat /\ s.cum \in Nat
    BY <1>1 DEF Bucket, Snap
  <2> QED BY <2>1, MaxOfTwo
<1>4. bucket' = [bucket EXCEPT !.h = Max({bucket.h, s.last}),
                               !.l = Min({bucket.l, s.last}),
                               !.c = s.last, !.cum = Max({bucket.cum, s.cum})]
  BY DEF Fold
<1>5. bucket' = [tod |-> bucket.tod, o |-> bucket.o, h |-> Max({bucket.h, s.last}),
                 l |-> Min({bucket.l, s.last}), c |-> s.last,
                 cum |-> Max({bucket.cum, s.cum})]
  BY <1>1, <1>4 DEF Bucket
<1> QED BY <1>1, <1>2, <1>3, <1>5 DEF Fold, Bucket, Snap

(* What a snapshot does to the bucket and the tape.                        *)
LEMMA IngestIs ==
  ASSUME TypeInv, NEW s \in Snap, Ingest(s)
  PROVE  /\ bucket' \in Bucket /\ bucket'.tod = s.tod
         /\ firstTod' \in 0 .. MaxTod /\ firstTod' <= s.tod
         /\ lastCum' \in Nat
         /\ \/ tape' = TapeOfDay
            \/ /\ bucket # NoBucket /\ s.tod > bucket.tod
               /\ tape' = Append(TapeOfDay, Emit(bucket))
<1>a. /\ s.tod \in 1 .. MaxTod /\ s.tod \in 0 .. MaxTod /\ s.tod <= s.tod
      /\ firstTod \in 0 .. MaxTod /\ firstTod <= bucket.tod /\ lastCum \in Nat
      /\ bucket \in Bucket \cup {NoBucket}
      /\ MaxTod \in Nat
  BY FeedAssumption DEF TypeInv, Snap
<1>b. NewBucket(s) \in Bucket /\ NewBucket(s).tod = s.tod
  BY NewBucketTyped
<1>1. CASE First(s)
  <2>1. firstTod = 0
    BY <1>1, <1>a, Marks DEF First
  <2>2. firstTod' = s.tod /\ bucket' = NewBucket(s) /\ tape' = TapeOfDay
        /\ lastCum' = lastCum
    BY <1>1, <2>1 DEF First
  <2> QED BY <1>a, <1>b, <2>2
<1>2. CASE Fold(s)
  <2>1. firstTod' = firstTod /\ lastCum' = lastCum /\ tape' = TapeOfDay
    BY <1>2 DEF Fold
  <2> QED BY <1>2, <1>a, <2>1, FoldTyped
<1>3. CASE Reset(s)
  <2>1. firstTod' = s.tod /\ bucket' = NewBucket(s) /\ tape' = TapeOfDay
        /\ lastCum' = 0
    BY <1>3 DEF Reset
  <2> QED BY <1>a, <1>b, <2>1
<1>4. CASE Roll(s)
  <2>1. /\ bucket # NoBucket /\ s.tod > bucket.tod
        /\ firstTod' = firstTod /\ bucket' = NewBucket(s)
        /\ tape' = Append(TapeOfDay, Emit(bucket)) /\ lastCum' = bucket.cum
    BY <1>4 DEF Roll
  <2>2. bucket.tod \in Nat /\ bucket.cum \in Nat
    BY <1>a, <2>1, FeedAssumption DEF Bucket
  <2>3. firstTod' <= s.tod
    BY <1>a, <2>1, <2>2
  <2> QED BY <1>a, <1>b, <2>1, <2>2, <2>3
<1> QED BY <1>1, <1>2, <1>3, <1>4 DEF Ingest

-----------------------------------------------------------------------------
(* Types.                                                                  *)
LEMMA TypeInit == Init => TypeInv
<1> SUFFICES ASSUME Init PROVE TypeInv
  OBVIOUS
<1>1. inFlight \in [Pollers -> Snap \cup {NoSnap}]
  BY DEF Init
<1>2. tape \in Seq(Bar) /\ delivered \in Seq(Snap)
  BY DEF Init
<1> QED BY <1>1, <1>2, FeedAssumption, Marks DEF Init, TypeInv

LEMMA TypeStep == TypeInv /\ [Next]_vars => TypeInv'
<1> SUFFICES ASSUME TypeInv, [Next]_vars PROVE TypeInv'
  OBVIOUS
<1> USE FeedAssumption
<1>1. CASE Minute
  BY <1>1 DEF TypeInv, Minute, aggVars
<1>2. CASE NewDay
  BY <1>2 DEF TypeInv, NewDay, aggVars
<1>3. ASSUME NEW p \in Pollers, Fetch(p) PROVE TypeInv'
  <2>1. PICK traded \in {0, 1}, price \in Prices :
          /\ cum' = cum + traded
          /\ inFlight' = [inFlight EXCEPT ![p] =
               [day |-> day, tod |-> tod, last |-> price, cum |-> cum', n |-> taken']]
    BY <1>3 DEF Fetch
  <2>2. cum' \in Nat /\ taken' \in 1 .. MaxSnaps
    BY <1>3, <2>1 DEF TypeInv, Fetch
  <2>3. [day |-> day, tod |-> tod, last |-> price, cum |-> cum', n |-> taken'] \in Snap
    BY <2>2 DEF TypeInv, Snap
  <2>4. inFlight' \in [Pollers -> Snap \cup {NoSnap}]
    BY <2>1, <2>3 DEF TypeInv
  <2>5. UNCHANGED <<day, tod, bucket, firstTod, lastCum, engineDay, tape, delivered, mishap>>
    BY <1>3 DEF Fetch, clockVars, aggVars
  <2> QED BY <2>2, <2>4, <2>5 DEF TypeInv
<1>4. ASSUME NEW p \in Pollers, Deliver(p) PROVE TypeInv'
  <2>1. PICK s \in Snap : s = inFlight[p] /\ Ingest(s)
    BY <1>4 DEF Deliver, TypeInv
  <2>2. /\ bucket' \in Bucket /\ bucket'.tod = s.tod
        /\ firstTod' \in 0 .. MaxTod /\ firstTod' <= s.tod
        /\ lastCum' \in Nat
    BY <2>1, IngestIs
  <2>3. tape' \in Seq(Bar)
    <3>1. TapeOfDay \in Seq(Bar)
      BY DEF TapeOfDay, TypeInv
    <3>2. CASE tape' = TapeOfDay
      BY <3>1, <3>2
    <3>3. CASE bucket # NoBucket /\ tape' = Append(TapeOfDay, Emit(bucket))
      BY <3>1, <3>3, EmitTyped
    <3> QED BY <2>1, <3>2, <3>3, IngestIs
  <2>4. delivered' \in Seq(Snap)
    BY <1>4, <2>1 DEF Deliver, TypeInv
  <2>5. inFlight' \in [Pollers -> Snap \cup {NoSnap}]
    BY <1>4 DEF Deliver, TypeInv
  <2>6. engineDay' = day /\ UNCHANGED <<day, tod, cum, taken>>
    BY <1>4 DEF Deliver, clockVars
  <2>7. mishap' \subseteq {"late", "carried"}
    BY <1>4 DEF Deliver, TypeInv
  <2> QED BY <2>2, <2>3, <2>4, <2>5, <2>6, <2>7 DEF TypeInv
<1>5. CASE UNCHANGED vars
  BY <1>5 DEF TypeInv, vars, clockVars, aggVars
<1> QED BY <1>1, <1>2, <1>3, <1>4, <1>5 DEF Next

(* The clock, the polls, the bucket and the tape are well-formed.          *)
THEOREM TypeCorrect == Spec => []TypeInv
<1> QED BY TypeInit, TypeStep, PTL DEF Spec

-----------------------------------------------------------------------------
(* The order of the snapshots.                                             *)

LEMMA FlightStep == TypeInv /\ FlightInv /\ [Next]_vars => FlightInv'
<1> SUFFICES ASSUME TypeInv, FlightInv, [Next]_vars PROVE FlightInv'
  OBVIOUS
<1>a. /\ inFlight \in [Pollers -> Snap \cup {NoSnap}] /\ tod \in Nat /\ taken \in Nat
      /\ \A p \in Pollers : inFlight[p] # NoSnap =>
           inFlight[p].n \in Nat /\ inFlight[p].tod \in Nat /\ inFlight[p].cum \in Nat
      /\ cum \in Nat
  BY FeedAssumption DEF TypeInv, Snap
<1>1. CASE Minute
  <2>1. tod' = tod + 1 /\ UNCHANGED <<day, inFlight, taken, cum>>
    BY <1>1 DEF Minute
  <2> QED BY <1>a, <2>1 DEF FlightInv
<1>2. CASE NewDay
  BY <1>2 DEF NewDay, FlightInv
<1>3. ASSUME NEW p \in Pollers, Fetch(p) PROVE FlightInv'
  <2>0. PICK price \in Prices :
          inFlight' = [inFlight EXCEPT ![p] =
            [day |-> day, tod |-> tod, last |-> price, cum |-> cum', n |-> taken']]
    BY <1>3 DEF Fetch
  <2>a. PICK s :
          /\ inFlight' = [inFlight EXCEPT ![p] = s]
          /\ s = [day |-> day, tod |-> tod, last |-> price, cum |-> cum', n |-> taken']
    BY <2>0
  <2>1. /\ inFlight' = [inFlight EXCEPT ![p] = s]
        /\ s.day = day /\ s.tod = tod /\ s.n = taken' /\ s.cum = cum'
    BY <2>a
  <2>2. taken' = taken + 1 /\ UNCHANGED <<day, tod>> /\ cum' \in Nat /\ cum <= cum'
    BY <1>3, <1>a DEF Fetch, clockVars
  <2>3. inFlight'[p] = s /\ \A q \in Pollers \ {p} : inFlight'[q] = inFlight[q]
    BY <1>a, <2>1
  <2>4. ASSUME NEW q \in Pollers, inFlight'[q] # NoSnap
        PROVE  /\ inFlight'[q].day = day' /\ inFlight'[q].tod <= tod'
               /\ inFlight'[q].n <= taken' /\ inFlight'[q].cum <= cum'
    <3>1. CASE q = p
      BY <1>a, <2>1, <2>2, <2>3, <3>1
    <3>2. CASE q # p
      BY <1>a, <2>2, <2>3, <2>4, <3>2 DEF FlightInv
    <3> QED BY <3>1, <3>2
  <2>5. ASSUME NEW q \in Pollers, NEW r \in Pollers,
               inFlight'[q] # NoSnap, inFlight'[r] # NoSnap,
               inFlight'[q].n <= inFlight'[r].n
        PROVE  inFlight'[q].tod <= inFlight'[r].tod /\ inFlight'[q].cum <= inFlight'[r].cum
    <3>1. CASE r = p
      BY <1>a, <2>1, <2>2, <2>3, <2>4, <2>5, <3>1
    <3>2. CASE r # p /\ q = p
      BY <1>a, <2>1, <2>2, <2>3, <2>5, <3>2 DEF FlightInv
    <3>3. CASE r # p /\ q # p
      BY <2>3, <2>5, <3>3 DEF FlightInv
    <3> QED BY <3>1, <3>2, <3>3
  <2> QED BY <2>4, <2>5 DEF FlightInv
<1>4. ASSUME NEW p \in Pollers, Deliver(p) PROVE FlightInv'
  <2>1. inFlight'[p] = NoSnap /\ \A q \in Pollers \ {p} : inFlight'[q] = inFlight[q]
    BY <1>4, <1>a DEF Deliver
  <2>2. UNCHANGED <<day, tod, taken, cum>>
    BY <1>4 DEF Deliver, clockVars
  <2> QED BY <2>1, <2>2 DEF FlightInv
<1>5. CASE UNCHANGED vars
  BY <1>5 DEF FlightInv, vars, clockVars
<1> QED BY <1>1, <1>2, <1>3, <1>4, <1>5 DEF Next

LEMMA LastStep == TypeInv /\ FlightInv /\ LastInv /\ [Next]_vars => LastInv'
<1> SUFFICES ASSUME TypeInv, FlightInv, LastInv, [Next]_vars PROVE LastInv'
  OBVIOUS
<1>a. /\ inFlight \in [Pollers -> Snap \cup {NoSnap}] /\ tod \in Nat /\ taken \in Nat
      /\ \A p \in Pollers : inFlight[p] # NoSnap =>
           inFlight[p].n \in Nat /\ inFlight[p].tod \in Nat /\ inFlight[p].cum \in Nat
      /\ cum \in Nat
      /\ delivered \in Seq(Snap)
  BY FeedAssumption DEF TypeInv, Snap
<1>b. delivered # <<>> => /\ Last \in Snap /\ Last.n \in Nat /\ Last.tod \in Nat
                          /\ Last.cum \in Nat
  <2>1. delivered # <<>> => Last \in Snap
    BY <1>a DEF Last
  <2>2. \A x \in Snap : x.n \in Nat /\ x.tod \in Nat /\ x.cum \in Nat
    BY FeedAssumption DEF Snap
  <2> QED BY <2>1, <2>2
<1>1. CASE Minute
  <2>1. /\ tod' = tod + 1
        /\ UNCHANGED <<day, cum, inFlight, taken, bucket, firstTod, engineDay, tape, delivered>>
        /\ Last' = Last
    BY <1>1 DEF Minute, aggVars, Last
  <2> QED BY <1>a, <1>b, <2>1 DEF LastInv
<1>2. CASE NewDay
  <2>1. /\ day' = day + 1 /\ engineDay' = engineDay /\ engineDay <= day /\ day \in Nat
        /\ engineDay \in Nat
        /\ UNCHANGED <<inFlight, taken, bucket, firstTod, tape, delivered>>
        /\ Last' = Last
    BY <1>2, FeedAssumption DEF NewDay, aggVars, Last, TypeInv
  <2>2. engineDay' # day'
    BY <2>1
  <2> QED BY <2>1, <2>2 DEF LastInv
<1>3. ASSUME NEW p \in Pollers, Fetch(p) PROVE LastInv'
  <2>0. PICK price \in Prices :
          inFlight' = [inFlight EXCEPT ![p] =
            [day |-> day, tod |-> tod, last |-> price, cum |-> cum', n |-> taken']]
    BY <1>3 DEF Fetch
  <2>a. PICK s :
          /\ inFlight' = [inFlight EXCEPT ![p] = s]
          /\ s = [day |-> day, tod |-> tod, last |-> price, cum |-> cum', n |-> taken']
    BY <2>0
  <2>1. /\ inFlight' = [inFlight EXCEPT ![p] = s]
        /\ s.day = day /\ s.tod = tod /\ s.n = taken' /\ s.cum = cum'
    BY <2>a
  <2>2. /\ taken' = taken + 1
        /\ UNCHANGED <<day, tod, bucket, firstTod, engineDay, tape, delivered>>
        /\ Last' = Last /\ cum' \in Nat /\ cum <= cum'
    BY <1>3, <1>a DEF Fetch, clockVars, aggVars, Last
  <2>3. inFlight'[p] = s /\ \A q \in Pollers \ {p} : inFlight'[q] = inFlight[q]
    BY <1>a, <2>1
  <2> QED BY <1>a, <1>b, <2>1, <2>2, <2>3 DEF LastInv
<1>4. ASSUME NEW p \in Pollers, Deliver(p) PROVE LastInv'
  <2>1. PICK s \in Snap : s = inFlight[p] /\ s # NoSnap /\ Ingest(s)
    BY <1>4 DEF Deliver, TypeInv
  <2>2. bucket' \in Bucket /\ bucket'.tod = s.tod
    BY <2>1, IngestIs
  <2>3. delivered' = Append(delivered, s)
    BY <1>4, <2>1 DEF Deliver
  <2>4. delivered' # <<>> /\ Last' = s
    BY <1>a, <2>1, <2>3 DEF Last
  <2>5. engineDay' = day /\ UNCHANGED <<day, tod, taken, cum>>
    BY <1>4 DEF Deliver, clockVars
  <2>6. inFlight'[p] = NoSnap /\ \A q \in Pollers \ {p} : inFlight'[q] = inFlight[q]
    BY <1>4, <1>a DEF Deliver
  <2>7. s.day = day /\ s.tod <= tod /\ s.n <= taken /\ s.cum <= cum
    BY <2>1 DEF FlightInv
  <2>8. ASSUME NEW q \in Pollers, inFlight'[q] # NoSnap, s.n <= inFlight'[q].n
        PROVE  s.tod <= inFlight'[q].tod /\ s.cum <= inFlight'[q].cum
    BY <2>1, <2>6, <2>8 DEF FlightInv
  <2> QED BY <2>2, <2>4, <2>5, <2>7, <2>8, Marks DEF LastInv
<1>5. CASE UNCHANGED vars
  <2>1. /\ UNCHANGED <<day, tod, cum, inFlight, taken, bucket, firstTod, engineDay, tape, delivered>>
        /\ Last' = Last
    BY <1>5 DEF vars, clockVars, aggVars, Last
  <2> QED BY <2>1 DEF LastInv
<1> QED BY <1>1, <1>2, <1>3, <1>4, <1>5 DEF Next

-----------------------------------------------------------------------------
(* The order of the bars.                                                  *)

(* A snapshot that is not late is of a later day than the bucket, or not   *)
(* before it.                                                              *)
LEMMA NotBefore ==
  ASSUME TypeInv, FlightInv, LastInv, NEW p \in Pollers, inFlight[p] # NoSnap,
         delivered # <<>>, ~(Last.n > inFlight[p].n), engineDay = day
  PROVE  bucket.tod <= inFlight[p].tod /\ Last.cum <= inFlight[p].cum
<1>1. inFlight[p] \in Snap /\ Last \in Snap
  BY FeedAssumption DEF TypeInv, Last
<1>2. Last.n <= inFlight[p].n
  BY <1>1, FeedAssumption DEF Snap
<1> QED BY <1>2 DEF LastInv

LEMMA OrderStep ==
  TypeInv /\ FlightInv /\ LastInv /\ OrderInv /\ [Next]_vars => OrderInv'
<1> SUFFICES ASSUME TypeInv, FlightInv, LastInv, OrderInv, [Next]_vars,
                    "late" \notin mishap'
             PROVE  OrderInv'
  BY DEF OrderInv
<1>1. CASE UNCHANGED <<tape, bucket, mishap>>
  BY <1>1 DEF OrderInv
<1>2. ASSUME NEW p \in Pollers, Deliver(p) PROVE OrderInv'
  <2>1. PICK s \in Snap : s = inFlight[p] /\ s # NoSnap /\ Ingest(s)
    BY <1>2 DEF Deliver, TypeInv
  <2>2. /\ "late" \notin mishap
        /\ delivered # <<>> => ~(Last.n > s.n)
    BY <1>2, <2>1 DEF Deliver, Last
  <2>3. bucket'.tod = s.tod /\ s.tod \in Nat
    BY <2>1, IngestIs, FeedAssumption DEF Snap
  <2> DEFINE old == TapeOfDay
  <2>4. old \in Seq(Bar)
    BY DEF TapeOfDay, TypeInv
  <2>5. /\ \A j, k \in DOMAIN old : j < k => old[j].tod < old[k].tod
        /\ \A k \in DOMAIN old : old[k].tod < bucket.tod
    BY <2>2 DEF OrderInv, TapeOfDay
  <2>6. \A k \in DOMAIN old : old[k].tod < s.tod /\ old[k].tod \in Nat
    <3>1. CASE engineDay # day \/ delivered = <<>>
      BY <3>1 DEF LastInv, TapeOfDay
    <3>2. CASE engineDay = day /\ delivered # <<>>
      <4>1. bucket.tod <= s.tod
        BY <2>1, <2>2, <3>2, NotBefore
      <4>2. bucket \in Bucket
        BY <3>2 DEF LastInv, TypeInv
      <4>3. bucket.tod \in Nat
        BY <4>2, FeedAssumption DEF Bucket
      <4>4. \A k \in DOMAIN old : old[k] \in Bar
        BY <2>4
      <4>5. \A k \in DOMAIN old : old[k].tod \in Nat
        BY <4>4, FeedAssumption DEF Bar
      <4> QED BY <2>3, <2>5, <4>1, <4>3, <4>5
    <3> QED BY <3>1, <3>2
  <2>7. CASE tape' = old
    BY <2>2, <2>3, <2>5, <2>6, <2>7 DEF OrderInv
  <2>8. CASE bucket # NoBucket /\ s.tod > bucket.tod /\ tape' = Append(old, Emit(bucket))
    <3> DEFINE bar == Emit(bucket)
    <3>1. bar \in Bar /\ bar.tod = bucket.tod
      BY <2>8, EmitTyped
    <3>2. bucket.tod \in Nat
      BY <2>8, FeedAssumption DEF TypeInv, Bucket
    <3> HIDE DEF bar, old
    <3>3. /\ DOMAIN tape' = 1 .. Len(old) + 1 /\ DOMAIN old = 1 .. Len(old)
          /\ Len(old) \in Nat
          /\ \A k \in DOMAIN old : tape'[k] = old[k]
          /\ tape'[Len(old) + 1] = bar
      BY <2>4, <2>8, <3>1 DEF bar
    <3>4. \A k \in DOMAIN tape' : tape'[k].tod < s.tod
      <4>1. ASSUME NEW k \in DOMAIN tape' PROVE tape'[k].tod < s.tod
        <5>1. CASE k \in DOMAIN old
          BY <2>6, <3>3, <5>1
        <5>2. CASE k = Len(old) + 1
          BY <2>3, <2>8, <3>1, <3>2, <3>3, <5>2
        <5> QED BY <3>3, <5>1, <5>2
      <4> QED BY <4>1
    <3>5. ASSUME NEW j \in DOMAIN tape', NEW k \in DOMAIN tape', j < k
          PROVE  tape'[j].tod < tape'[k].tod
      <4>1. j \in DOMAIN old
        BY <3>3, <3>5
      <4>2. CASE k \in DOMAIN old
        BY <2>5, <3>3, <3>5, <4>1, <4>2
      <4>3. CASE k = Len(old) + 1
        BY <2>5, <3>1, <3>3, <4>1, <4>3
      <4> QED BY <3>3, <4>2, <4>3
    <3> QED BY <2>3, <3>4, <3>5 DEF OrderInv
  <2> QED BY <2>1, <2>7, <2>8, IngestIs
<1>3. CASE \/ Minute \/ NewDay \/ (\E p \in Pollers : Fetch(p)) \/ UNCHANGED vars
  BY <1>1, <1>3 DEF Minute, NewDay, Fetch, vars, aggVars
<1> QED BY <1>2, <1>3 DEF Next

(* Bars are in order as long as snapshots are, for every number of polls   *)
(* in flight, and over every number of days.                               *)
THEOREM OrderCorrect == Spec => []OrderedWhenPollsAre
<1>1. Init => FlightInv /\ LastInv /\ OrderInv
  <2> SUFFICES ASSUME Init PROVE FlightInv /\ LastInv /\ OrderInv
    OBVIOUS
  <2>1. /\ \A p \in Pollers : inFlight[p] = NoSnap
        /\ delivered = <<>> /\ bucket = NoBucket /\ tape = <<>> /\ firstTod = 0
    BY DEF Init
  <2> QED BY <2>1 DEF FlightInv, LastInv, OrderInv
<1>2. TypeInv /\ OrderInv => OrderedWhenPollsAre
  <2> SUFFICES ASSUME TypeInv, OrderInv PROVE OrderedWhenPollsAre
    OBVIOUS
  <2>1. bucket.tod \in 0 .. MaxTod
    BY Marks, FeedAssumption DEF TypeInv, Bucket
  <2>2. \A k \in DOMAIN tape : tape[k] \in Bar
    BY DEF TypeInv
  <2>3. \A k \in DOMAIN tape : tape[k].v \in Nat /\ tape[k].t \in Nat
    BY <2>2 DEF Bar
  <2>4. TypeOK
    BY <2>1, <2>3 DEF TypeInv, TypeOK
  <2> QED BY <2>4 DEF OrderInv, OrderedWhenPollsAre
<1> QED BY <1>1, <1>2, FlightStep, LastStep, OrderStep, TypeCorrect, PTL DEF Spec

-----------------------------------------------------------------------------
(* The bars that a list of snapshots makes: TapeMatchesSnapshots' BarOf,   *)
(* for any list.                                                           *)

IsMax(x, S) == x \in S /\ \A y \in S : y <= x
IsMin(x, S) == x \in S /\ \A y \in S : x <= y

SnapsAt(q, d, m)  == {k \in DOMAIN q : q[k].day = d /\ q[k].tod = m}
MinutesIn(q, d)   == {m \in 1 .. MaxTod : SnapsAt(q, d, m) # {}}
Before(q, d, m)   == {j \in MinutesIn(q, d) : j < m}
LastsAt(q, d, m)  == {q[k].last : k \in SnapsAt(q, d, m)}
CumsAt(q, d, m)   == {q[k].cum : k \in SnapsAt(q, d, m)}
VolumeIn(q, d, m) == Max(CumsAt(q, d, m))
Base(q, d, m)     == IF Before(q, d, m) = {} THEN 0
                     ELSE VolumeIn(q, d, Max(Before(q, d, m)))

BarIn(q, d, m) ==
  LET S == SnapsAt(q, d, m)
  IN [t |-> m - Min(MinutesIn(q, d)), tod |-> m,
      o |-> q[Min(S)].last, c |-> q[Max(S)].last,
      h |-> Max(LastsAt(q, d, m)), l |-> Min(LastsAt(q, d, m)),
      cum |-> VolumeIn(q, d, m), v |-> VolumeIn(q, d, m) - Base(q, d, m)]

(* Snapshots are delivered day by day, and minute by minute.               *)
InOrder(q) ==
  \A j, k \in DOMAIN q : j < k =>
    /\ q[j].day <= q[k].day
    /\ q[j].day = q[k].day => q[j].tod <= q[k].tod /\ q[j].cum <= q[k].cum

(* The bucket b is what the snapshots of the last minute make, first the   *)
(* first minute of the day, and base the volume of the one before.         *)
FilledBy(b, first, base, q, d) ==
  LET S == SnapsAt(q, d, b.tod)
  IN /\ IsMax(Len(q), S) /\ b.c = q[Len(q)].last
     /\ \E k \in S : IsMin(k, S) /\ b.o = q[k].last
     /\ IsMax(b.h, LastsAt(q, d, b.tod)) /\ IsMin(b.l, LastsAt(q, d, b.tod))
     /\ IsMax(b.cum, CumsAt(q, d, b.tod))
     /\ IsMin(first, MinutesIn(q, d))
     /\ base = Base(q, d, b.tod) /\ base <= b.cum

(* The tape has the bar of each minute before the bucket's.                *)
MadeOf(t, q, d, top) ==
  /\ {t[k].tod : k \in DOMAIN t} = Before(q, d, top)
  /\ \A k \in DOMAIN t : t[k] = BarIn(q, d, t[k].tod)

TapeInv ==
  mishap = {} =>
    /\ InOrder(delivered)
    /\ delivered = <<>> => lastCum = 0
    /\ delivered # <<>> => FilledBy(bucket, firstTod, lastCum, delivered, engineDay)
    /\ MadeOf(tape, delivered, engineDay, bucket.tod)

LEMMA MaxIs ==
  ASSUME NEW S, S \subseteq Int, NEW x, IsMax(x, S)
  PROVE  Max(S) = x
<1> DEFINE m == CHOOSE z \in S : \A y \in S : z >= y
<1>1. \A y \in S : x >= y
  BY DEF IsMax
<1>2. m \in S /\ \A y \in S : m >= y
  BY <1>1 DEF IsMax
<1> HIDE DEF m
<1>3. m = x
  BY <1>1, <1>2 DEF IsMax
<1> QED BY <1>3 DEF Max, m

LEMMA MinIs ==
  ASSUME NEW S, S \subseteq Int, NEW x, IsMin(x, S)
  PROVE  Min(S) = x
<1> DEFINE m == CHOOSE z \in S : \A y \in S : z =< y
<1>2. m \in S /\ \A y \in S : m =< y
  BY DEF IsMin
<1> HIDE DEF m
<1>3. m = x
  BY <1>2 DEF IsMin
<1> QED BY <1>3 DEF Min, m

LEMMA MaxOfMore ==
  ASSUME NEW S, S \subseteq Int, NEW x, IsMax(x, S), NEW y \in Int
  PROVE  IsMax(Max({x, y}), S \cup {y})
<1>1. x \in S /\ x \in Int /\ \A z \in S : z \in Int /\ z <= x
  BY DEF IsMax
<1>2. Max({x, y}) = IF x >= y THEN x ELSE y
  BY <1>1, MaxOfTwo
<1>3. CASE x >= y
  BY <1>1, <1>2, <1>3 DEF IsMax
<1>4. CASE ~(x >= y)
  <2>1. Max({x, y}) = y /\ \A z \in S : z <= y
    BY <1>1, <1>2, <1>4
  <2> QED BY <1>1, <1>4, <2>1 DEF IsMax
<1> QED BY <1>3, <1>4

LEMMA MinOfMore ==
  ASSUME NEW S, S \subseteq Int, NEW x, IsMin(x, S), NEW y \in Int
  PROVE  IsMin(Min({x, y}), S \cup {y})
<1>1. x \in S /\ x \in Int /\ \A z \in S : z \in Int /\ x <= z
  BY DEF IsMin
<1>2. Min({x, y}) = IF x <= y THEN x ELSE y
  BY <1>1, MinOfTwo
<1>3. CASE x <= y
  BY <1>1, <1>2, <1>3 DEF IsMin
<1>4. CASE ~(x <= y)
  <2>1. Min({x, y}) = y /\ \A z \in S : y <= z
    BY <1>1, <1>2, <1>4
  <2> QED BY <1>1, <1>4, <2>1 DEF IsMin
<1> QED BY <1>3, <1>4

LEMMA SnapIs ==
  ASSUME NEW x \in Snap
  PROVE  /\ x.day \in Nat /\ x.tod \in 1 .. MaxTod /\ x.tod \in Nat
         /\ x.last \in Prices /\ x.last \in Nat /\ x.cum \in Nat
         /\ x.n \in Nat
<1>1. /\ x.day \in 0 .. MaxDay /\ x.tod \in 1 .. MaxTod
      /\ x.last \in Prices /\ x.cum \in Nat /\ x.n \in 1 .. MaxSnaps
  BY DEF Snap
<1>2. x.day \in Nat /\ x.tod \in Nat /\ x.n \in Nat
  BY <1>1
<1>3. x.last \in Nat
  BY <1>1, FeedAssumption
<1> QED BY <1>1, <1>2, <1>3

LEMMA BucketHas ==
  ASSUME NEW b \in Bucket
  PROVE  /\ b.tod \in 1 .. MaxTod /\ b.tod \in Nat /\ b.cum \in Nat
         /\ b.o \in Nat /\ b.h \in Nat /\ b.l \in Nat /\ b.c \in Nat
<1>1. /\ b.tod \in 1 .. MaxTod /\ b.cum \in Nat
      /\ b.o \in Prices /\ b.h \in Prices /\ b.l \in Prices /\ b.c \in Prices
  BY DEF Bucket
<1>2. b.tod \in Nat
  BY <1>1
<1> QED BY <1>1, <1>2, FeedAssumption

LEMMA SnapsAre ==
  ASSUME NEW q \in Seq(Snap)
  PROVE  /\ Len(q) \in Nat /\ DOMAIN q = 1 .. Len(q)
         /\ \A k \in DOMAIN q :
              /\ q[k] \in Snap /\ k \in Int
              /\ q[k].day \in Nat /\ q[k].tod \in 1 .. MaxTod /\ q[k].tod \in Nat
              /\ q[k].last \in Prices /\ q[k].last \in Nat /\ q[k].cum \in Nat
              /\ q[k].n \in Nat
<1>1. Len(q) \in Nat /\ DOMAIN q = 1 .. Len(q)
  OBVIOUS
<1>2. \A k \in DOMAIN q : q[k] \in Snap /\ k \in Int
  OBVIOUS
<1> QED BY <1>1, <1>2, SnapIs

(* The ends of a set of positions or minutes.                              *)
LEMMA LeastNatural ==
  ASSUME NEW T, T \subseteq Nat, T # {}
  PROVE  \E x \in T : IsMin(x, T)
<1>1. PICK x \in T : \A y \in T : <<y, x>> \notin OpToRel(<, Nat)
  BY NatLessThanWellFounded, WFMin
<1>2. ASSUME NEW y \in T PROVE x <= y
  <2>1. ~(y < x)
    BY <1>1 DEF OpToRel
  <2> QED BY <2>1
<1> QED BY <1>2 DEF IsMin

LEMMA Ends ==
  ASSUME NEW N \in Nat, NEW S \in SUBSET (1 .. N), S # {}
  PROVE  /\ Max(S) \in S /\ \A y \in S : y <= Max(S)
         /\ Min(S) \in S /\ \A y \in S : Min(S) <= y
<1>1. PICK x \in S : IsMin(x, S)
  <2>1. S \subseteq Nat
    OBVIOUS
  <2> QED BY <2>1, LeastNatural
<1> DEFINE T == {N - y : y \in S}
<1>2. PICK z \in T : IsMin(z, T)
  <2>1. T \subseteq Nat /\ T # {}
    OBVIOUS
  <2> HIDE DEF T
  <2> QED BY <2>1, LeastNatural
<1>3. PICK w \in S : z = N - w
  OBVIOUS
<1>4. \A y \in S : N - y \in T
  OBVIOUS
<1>5. IsMax(w, S)
  <2>1. ASSUME NEW y \in S PROVE y <= w
    <3>1. z <= N - y
      BY <1>2, <1>4 DEF IsMin
    <3> QED BY <1>3, <3>1
  <2> QED BY <2>1 DEF IsMax
<1>6. Max(S) = w /\ Min(S) = x
  <2>1. S \subseteq Int
    OBVIOUS
  <2> QED BY <1>1, <1>5, <2>1, MaxIs, MinIs
<1> QED BY <1>1, <1>5, <1>6 DEF IsMax, IsMin

Extended(q, s, r) == q \in Seq(Snap) /\ s \in Snap /\ r = Append(q, s)

(* One more snapshot is in its own minute.                                 *)
LEMMA SnapsGrow ==
  ASSUME NEW q, NEW s, NEW r, Extended(q, s, r)
  PROVE  /\ r \in Seq(Snap) /\ Len(r) = Len(q) + 1
         /\ \A k \in DOMAIN q : r[k] = q[k]
         /\ r[Len(r)] = s
         /\ \A d, m : SnapsAt(r, d, m) =
              IF s.day = d /\ s.tod = m THEN SnapsAt(q, d, m) \cup {Len(r)}
              ELSE SnapsAt(q, d, m)
<1>1. r \in Seq(Snap) /\ Len(r) = Len(q) + 1 /\ r[Len(r)] = s
      /\ \A k \in DOMAIN q : r[k] = q[k]
  BY DEF Extended
<1>2. DOMAIN r = DOMAIN q \cup {Len(r)} /\ Len(r) \notin DOMAIN q
  <2>1. Len(q) \in Nat /\ DOMAIN q = 1 .. Len(q) /\ DOMAIN r = 1 .. Len(q) + 1
    BY <1>1 DEF Extended
  <2> QED BY <1>1, <2>1
<1>3. ASSUME NEW d, NEW m
      PROVE  SnapsAt(r, d, m) = IF s.day = d /\ s.tod = m THEN SnapsAt(q, d, m) \cup {Len(r)}
                                ELSE SnapsAt(q, d, m)
  BY <1>1, <1>2 DEF SnapsAt
<1> QED BY <1>1, <1>3

LEMMA MinutesGrow ==
  ASSUME NEW q, NEW s, NEW r, Extended(q, s, r), NEW d
  PROVE  MinutesIn(r, d) = IF s.day = d THEN MinutesIn(q, d) \cup {s.tod}
                           ELSE MinutesIn(q, d)
<1>1. s.tod \in 1 .. MaxTod
  BY DEF Snap, Extended
<1>2. ASSUME NEW m
      PROVE  SnapsAt(r, d, m) # {} <=> SnapsAt(q, d, m) # {} \/ (s.day = d /\ s.tod = m)
  <2>1. SnapsAt(r, d, m) = IF s.day = d /\ s.tod = m THEN SnapsAt(q, d, m) \cup {Len(r)}
                           ELSE SnapsAt(q, d, m)
    BY SnapsGrow
  <2> QED BY <2>1
<1> QED BY <1>1, <1>2 DEF MinutesIn

(* The minutes of a day before one of its own.                             *)
LEMMA MinutesAre ==
  ASSUME NEW q, NEW d
  PROVE  /\ MaxTod \in Nat /\ MinutesIn(q, d) \in SUBSET (1 .. MaxTod)
         /\ \A j \in MinutesIn(q, d) : j \in Int
         /\ \A m : /\ Before(q, d, m) \in SUBSET (1 .. MaxTod)
                   /\ Before(q, d, m) # {} => Max(Before(q, d, m)) \in Before(q, d, m)
<1>1. MaxTod \in Nat /\ MinutesIn(q, d) \in SUBSET (1 .. MaxTod)
  BY FeedAssumption DEF MinutesIn
<1>2. ASSUME NEW m PROVE Before(q, d, m) \in SUBSET (1 .. MaxTod)
  BY <1>1 DEF Before
<1>3. ASSUME NEW m, Before(q, d, m) # {} PROVE Max(Before(q, d, m)) \in Before(q, d, m)
  BY <1>1, <1>2, <1>3, Ends
<1> QED BY <1>1, <1>2, <1>3

(* What was traded before a minute, as long as nothing of an earlier       *)
(* minute comes.                                                           *)
LEMMA MinuteStays ==
  ASSUME NEW q, NEW s, NEW r, Extended(q, s, r), NEW j \in Int, j < s.tod, NEW d
  PROVE  /\ SnapsAt(r, d, j) = SnapsAt(q, d, j)
         /\ LastsAt(r, d, j) = LastsAt(q, d, j)
         /\ VolumeIn(r, d, j) = VolumeIn(q, d, j)
<1>1. SnapsAt(r, d, j) = SnapsAt(q, d, j)
  <2>1. s.tod # j
    BY FeedAssumption DEF Snap, Extended
  <2> QED BY <2>1, SnapsGrow
<1>2. \A k \in SnapsAt(q, d, j) : r[k] = q[k]
  BY SnapsGrow DEF SnapsAt
<1> QED BY <1>1, <1>2 DEF VolumeIn, LastsAt, CumsAt

LEMMA BaseStays ==
  ASSUME NEW q, NEW s, NEW r, Extended(q, s, r), NEW m \in Int, m <= s.tod
  PROVE  Base(r, s.day, m) = Base(q, s.day, m)
<1> DEFINE d == s.day
<1>a. /\ \A j \in MinutesIn(q, d) : j \in Int
      /\ s.tod \in Int
  BY MinutesAre, FeedAssumption DEF Snap, Extended
<1>1. Before(r, d, m) = Before(q, d, m)
  <2>1. MinutesIn(r, d) = MinutesIn(q, d) \cup {s.tod}
    BY MinutesGrow
  <2> QED BY <1>a, <2>1 DEF Before
<1>2. CASE Before(q, d, m) = {}
  BY <1>1, <1>2 DEF Base
<1>3. CASE Before(q, d, m) # {}
  <2>1. PICK j : j = Max(Before(q, d, m)) /\ j \in Before(q, d, m)
    BY MinutesAre, <1>3
  <2>2. j < s.tod /\ j \in Int
    BY <2>1, <1>a DEF Before
  <2>3. VolumeIn(r, d, j) = VolumeIn(q, d, j)
    BY <2>2, MinuteStays
  <2> QED BY <1>1, <1>3, <2>1, <2>3 DEF Base
<1> QED BY <1>2, <1>3

(* The bar of a minute that is over stays.                                 *)
LEMMA BarStays ==
  ASSUME NEW q, NEW s, NEW r, Extended(q, s, r),
         NEW first, IsMin(first, MinutesIn(q, s.day)),
         NEW m \in MinutesIn(q, s.day), m < s.tod
  PROVE  BarIn(r, s.day, m) = BarIn(q, s.day, m)
<1> DEFINE d == s.day
<1>a. m \in Int /\ \A j \in MinutesIn(q, d) : j \in Int
  BY MinutesAre
<1>b. s.tod \in Int
  BY FeedAssumption DEF Snap, Extended
<1>1. /\ SnapsAt(r, d, m) = SnapsAt(q, d, m)
      /\ LastsAt(r, d, m) = LastsAt(q, d, m)
      /\ VolumeIn(r, d, m) = VolumeIn(q, d, m)
  BY <1>a, MinuteStays
<1>2. Base(r, d, m) = Base(q, d, m)
  <2>1. m <= s.tod
    BY <1>a, <1>b
  <2> QED BY <1>a, <2>1, BaseStays
<1>3. Min(MinutesIn(r, d)) = Min(MinutesIn(q, d))
  <2>1. MinutesIn(r, d) = MinutesIn(q, d) \cup {s.tod}
    BY MinutesGrow
  <2>2. first \in Int /\ first <= m /\ first < s.tod
    BY <1>a, <1>b DEF IsMin
  <2>3. IsMin(first, MinutesIn(r, d))
    BY <1>a, <1>b, <2>1, <2>2 DEF IsMin
  <2>4. MinutesIn(r, d) \subseteq Int /\ MinutesIn(q, d) \subseteq Int
    BY MinutesAre
  <2> QED BY <2>3, <2>4, MinIs
<1>4. r[Min(SnapsAt(q, d, m))] = q[Min(SnapsAt(q, d, m))]
      /\ r[Max(SnapsAt(q, d, m))] = q[Max(SnapsAt(q, d, m))]
  <2>1. SnapsAt(q, d, m) # {} /\ SnapsAt(q, d, m) \in SUBSET (1 .. Len(q))
        /\ Len(q) \in Nat /\ DOMAIN q = 1 .. Len(q)
    BY SnapsAre DEF MinutesIn, SnapsAt, Extended
  <2>2. Min(SnapsAt(q, d, m)) \in DOMAIN q /\ Max(SnapsAt(q, d, m)) \in DOMAIN q
    BY <2>1, Ends
  <2> QED BY <2>2, SnapsGrow
<1> QED BY <1>1, <1>2, <1>3, <1>4 DEF BarIn

(* A full bucket makes the bar of its minute.                              *)
LEMMA BucketIs ==
  ASSUME NEW q \in Seq(Snap), NEW d, NEW b \in Bucket, NEW first, NEW base \in Int,
         FilledBy(b, first, base, q, d)
  PROVE  BarIn(q, d, b.tod) =
           [t |-> b.tod - first, tod |-> b.tod, o |-> b.o, c |-> b.c, h |-> b.h,
            l |-> b.l, cum |-> b.cum, v |-> b.cum - base]
<1> DEFINE S == SnapsAt(q, d, b.tod)
<1>1. S \subseteq Int /\ LastsAt(q, d, b.tod) \subseteq Int /\ CumsAt(q, d, b.tod) \subseteq Int
  BY SnapsAre DEF SnapsAt, LastsAt, CumsAt
<1>2. Max(S) = Len(q) /\ q[Max(S)].last = b.c
  BY <1>1, MaxIs DEF FilledBy
<1>3. q[Min(S)].last = b.o
  BY <1>1, MinIs DEF FilledBy
<1>4. Max(LastsAt(q, d, b.tod)) = b.h /\ Min(LastsAt(q, d, b.tod)) = b.l
  BY <1>1, MinIs, MaxIs DEF FilledBy
<1>5. VolumeIn(q, d, b.tod) = b.cum
  BY <1>1, MaxIs DEF FilledBy, VolumeIn
<1>6. Min(MinutesIn(q, d)) = first
  <2>1. MinutesIn(q, d) \subseteq Int
    BY MinutesAre
  <2> QED BY <2>1, MinIs DEF FilledBy
<1>7. Base(q, d, b.tod) = base
  BY DEF FilledBy
<1> QED BY <1>2, <1>3, <1>4, <1>5, <1>6, <1>7 DEF BarIn

-----------------------------------------------------------------------------
(* What one more snapshot makes of the bucket and the tape.                *)

(* The last snapshot is of the latest minute.                              *)
LEMMA LastIsLatest ==
  ASSUME NEW q \in Seq(Snap), InOrder(q), NEW l, l = q[Len(q)], NEW k \in DOMAIN q
  PROVE  /\ q[k].day <= l.day
         /\ q[k].day = l.day => q[k].tod <= l.tod /\ q[k].cum <= l.cum
<1>1. /\ Len(q) \in Nat /\ k \in 1 .. Len(q) /\ Len(q) \in DOMAIN q
      /\ l.day \in Int /\ l.tod \in Int /\ l.cum \in Int
  BY SnapsAre
<1>2. CASE k = Len(q)
  BY <1>1, <1>2
<1>3. CASE k < Len(q)
  BY <1>1, <1>3 DEF InOrder
<1> QED BY <1>1, <1>2, <1>3

LEMMA InOrderGrows ==
  ASSUME NEW q, NEW s, NEW r, Extended(q, s, r), InOrder(q),
         q # <<>> => /\ q[Len(q)].day <= s.day
                     /\ q[Len(q)].day = s.day =>
                          q[Len(q)].tod <= s.tod /\ q[Len(q)].cum <= s.cum
  PROVE  InOrder(r)
<1>1. /\ q \in Seq(Snap) /\ s \in Snap /\ r \in Seq(Snap)
      /\ Len(q) \in Nat /\ DOMAIN q = 1 .. Len(q) /\ DOMAIN r = 1 .. Len(q) + 1
      /\ r[Len(q) + 1] = s /\ \A k \in DOMAIN q : r[k] = q[k]
  BY SnapsGrow, SnapsAre DEF Extended
<1>2. s.day \in Int /\ s.tod \in Int /\ s.cum \in Int
  BY <1>1, FeedAssumption DEF Snap
<1> SUFFICES ASSUME NEW j \in DOMAIN r, NEW k \in DOMAIN r, j < k
             PROVE  /\ r[j].day <= r[k].day
                    /\ r[j].day = r[k].day => r[j].tod <= r[k].tod /\ r[j].cum <= r[k].cum
  BY DEF InOrder
<1>3. j \in DOMAIN q
  BY <1>1
<1>4. CASE k \in DOMAIN q
  BY <1>1, <1>3, <1>4 DEF InOrder
<1>5. CASE k = Len(q) + 1
  <2>1. PICK l : l = q[Len(q)] /\ q # <<>> /\ Len(q) \in DOMAIN q
    BY <1>1, <1>3
  <2>2. /\ q[j].day <= l.day
        /\ q[j].day = l.day => q[j].tod <= l.tod /\ q[j].cum <= l.cum
    BY <1>1, <1>3, <2>1, LastIsLatest
  <2>3. /\ l.day \in Int /\ l.tod \in Int /\ l.cum \in Int
        /\ q[j].day \in Int /\ q[j].tod \in Int /\ q[j].cum \in Int
    BY <1>1, <1>3, <2>1, SnapsAre
  <2>4. l.day <= s.day /\ (l.day = s.day => l.tod <= s.tod /\ l.cum <= s.cum)
    BY <2>1
  <2>5. r[j] = q[j] /\ r[k] = s
    BY <1>1, <1>3, <1>5
  <2> QED BY <1>2, <2>2, <2>3, <2>4, <2>5
<1> QED BY <1>1, <1>4, <1>5

(* The bucket's minute is the latest of its day.                           *)
LEMMA BucketIsLatest ==
  ASSUME NEW q \in Seq(Snap), InOrder(q), q # <<>>, NEW d, d = q[Len(q)].day,
         NEW m \in MinutesIn(q, d)
  PROVE  m <= q[Len(q)].tod
<1>1. PICK k \in DOMAIN q : q[k].day = d /\ q[k].tod = m
  BY DEF MinutesIn, SnapsAt
<1> QED BY <1>1, LastIsLatest

(* The first snapshot of a day.                                            *)
LEMMA FirstFills ==
  ASSUME NEW q, NEW s, NEW r, Extended(q, s, r),
         \A k \in DOMAIN q : q[k].day # s.day
  PROVE  /\ FilledBy(NewBucket(s), s.tod, 0, r, s.day)
         /\ MadeOf(<<>>, r, s.day, s.tod)
<1> DEFINE d == s.day
           b == NewBucket(s)
<1>1. \A m : SnapsAt(q, d, m) = {}
  BY DEF SnapsAt
<1>2. SnapsAt(r, d, s.tod) = {Len(r)} /\ r[Len(r)] = s
  BY <1>1, SnapsGrow
<1>3. MinutesIn(r, d) = {s.tod}
  <2>1. MinutesIn(q, d) = {}
    BY <1>1 DEF MinutesIn
  <2> QED BY <2>1, MinutesGrow
<1>4. s.tod \in Int /\ s.cum \in Nat /\ s.last \in Int /\ Len(r) \in Int
  <2>1. s \in Snap /\ r \in Seq(Snap)
    BY SnapsGrow DEF Extended
  <2> QED BY <2>1, SnapIs, SnapsAre
<1>5. /\ b.tod = s.tod /\ b.o = s.last /\ b.h = s.last /\ b.l = s.last
      /\ b.c = s.last /\ b.cum = s.cum
  BY DEF NewBucket
<1>6. Before(r, d, s.tod) = {}
  BY <1>3, <1>4 DEF Before
<1> HIDE DEF b, d
<1>7. FilledBy(b, s.tod, 0, r, d)
  BY <1>2, <1>3, <1>4, <1>5, <1>6 DEF FilledBy, IsMax, IsMin, Base, LastsAt, CumsAt
<1>8. MadeOf(<<>>, r, d, s.tod)
  <2>1. DOMAIN <<>> = {}
    OBVIOUS
  <2>2. {<<>>[k].tod : k \in {}} = {}
    OBVIOUS
  <2> QED BY <1>6, <2>1, <2>2 DEF MadeOf
<1> QED BY <1>7, <1>8 DEF b, d

(* One more snapshot of the bucket's minute.                               *)
LEMMA FoldFills ==
  ASSUME NEW q, NEW s, NEW r, Extended(q, s, r), NEW b \in Bucket,
         NEW first, NEW base \in Int,
         FilledBy(b, first, base, q, s.day), s.tod = b.tod,
         NEW c, c.tod = b.tod, c.o = b.o, c.c = s.last,
         c.h = Max({b.h, s.last}), c.l = Min({b.l, s.last}),
         c.cum = Max({b.cum, s.cum})
  PROVE  FilledBy(c, first, base, r, s.day)
<1> DEFINE d == s.day
           S == SnapsAt(q, d, b.tod)
           T == SnapsAt(r, d, b.tod)
<1>a. /\ q \in Seq(Snap) /\ s \in Snap /\ r \in Seq(Snap) /\ Len(r) = Len(q) + 1
      /\ Len(q) \in Nat /\ r[Len(r)] = s
      /\ b.h \in Int /\ b.l \in Int /\ b.cum \in Int /\ b.tod \in Int
      /\ s.last \in Int /\ s.cum \in Int
  <2>1. q \in Seq(Snap) /\ s \in Snap
    BY DEF Extended
  <2> QED BY <2>1, SnapsGrow, SnapsAre, SnapIs, BucketHas
<1>1. T = S \cup {Len(r)} /\ \A k \in S : r[k] = q[k]
  <2>1. T = S \cup {Len(r)}
    BY SnapsGrow
  <2>2. \A k \in S : r[k] = q[k]
    BY SnapsGrow DEF SnapsAt
  <2> QED BY <2>1, <2>2
<1>2. S \subseteq 1 .. Len(q)
  BY <1>a, SnapsAre DEF SnapsAt
<1>3. LastsAt(r, d, b.tod) = LastsAt(q, d, b.tod) \cup {s.last}
      /\ CumsAt(r, d, b.tod) = CumsAt(q, d, b.tod) \cup {s.cum}
  <2>1. T = S \cup {Len(r)} /\ r[Len(r)] = s /\ \A k \in S : r[k] = q[k]
    BY <1>a, <1>1
  <2>2. {r[k].last : k \in T} = {q[k].last : k \in S} \cup {s.last}
    <3> HIDE DEF S, T
    <3> QED BY <2>1
  <2>3. {r[k].cum : k \in T} = {q[k].cum : k \in S} \cup {s.cum}
    <3> HIDE DEF S, T
    <3> QED BY <2>1
  <2> QED BY <2>2, <2>3 DEF LastsAt, CumsAt
<1>4. LastsAt(q, d, b.tod) \subseteq Int /\ CumsAt(q, d, b.tod) \subseteq Int
  BY <1>a, SnapsAre DEF SnapsAt, LastsAt, CumsAt
<1>5. IsMax(Len(r), T) /\ c.c = r[Len(r)].last
  BY <1>a, <1>1, <1>2 DEF IsMax
<1>6. \E k \in T : IsMin(k, T) /\ c.o = r[k].last
  <2>1. PICK k \in S : IsMin(k, S) /\ b.o = q[k].last
    BY DEF FilledBy
  <2> QED BY <1>a, <1>1, <1>2, <2>1 DEF IsMin
<1>7. IsMax(c.h, LastsAt(r, d, b.tod))
  <2>2. IsMax(b.h, LastsAt(q, d, b.tod))
    BY DEF FilledBy
  <2>3. s.last \in Int /\ LastsAt(q, d, b.tod) \subseteq Int
    BY <1>a, <1>4
  <2>4. IsMax(Max({b.h, s.last}), LastsAt(q, d, b.tod) \cup {s.last})
    BY <2>2, <2>3, MaxOfMore
  <2> QED BY <1>3, <2>4
<1>8. IsMin(c.l, LastsAt(r, d, b.tod))
  <2>2. IsMin(b.l, LastsAt(q, d, b.tod))
    BY DEF FilledBy
  <2>3. s.last \in Int /\ LastsAt(q, d, b.tod) \subseteq Int
    BY <1>a, <1>4
  <2>4. IsMin(Min({b.l, s.last}), LastsAt(q, d, b.tod) \cup {s.last})
    BY <2>2, <2>3, MinOfMore
  <2> QED BY <1>3, <2>4
<1>9. IsMax(c.cum, CumsAt(r, d, b.tod)) /\ b.cum <= c.cum /\ c.cum \in Int
  <2>2. IsMax(b.cum, CumsAt(q, d, b.tod))
    BY DEF FilledBy
  <2>3. IsMax(c.cum, CumsAt(r, d, b.tod))
    BY <1>a, <1>3, <1>4, <2>2, MaxOfMore
  <2>4. b.cum <= c.cum /\ c.cum \in Int
    BY <1>a, MaxOfTwo
  <2> QED BY <2>3, <2>4
<1>10. MinutesIn(r, d) = MinutesIn(q, d)
  <2>1. MinutesIn(r, d) = MinutesIn(q, d) \cup {s.tod}
    BY MinutesGrow
  <2>2. s.tod \in MinutesIn(q, d)
    <3>1. S # {}
      BY DEF FilledBy, IsMax
    <3> QED BY <3>1, <1>a DEF MinutesIn, Snap
  <2> QED BY <2>1, <2>2
<1>11. IsMin(first, MinutesIn(r, d))
  BY <1>10 DEF FilledBy
<1>12. Base(r, d, b.tod) = Base(q, d, b.tod)
  BY <1>a, BaseStays
<1>13. base = Base(r, d, c.tod) /\ base <= c.cum
  <2>1. base = Base(q, d, b.tod) /\ base <= b.cum /\ c.tod = b.tod
    BY DEF FilledBy
  <2>2. base <= b.cum /\ b.cum <= c.cum /\ b.cum \in Int /\ c.cum \in Int
    BY <1>9, <1>a, <2>1
  <2>3. base <= c.cum
    BY <2>2
  <2> QED BY <1>12, <2>1, <2>3
<1> QED BY <1>5, <1>6, <1>7, <1>8, <1>9, <1>11, <1>13 DEF FilledBy

(* The first snapshot of a later minute.                                   *)
LEMMA RollFills ==
  ASSUME NEW q, NEW s, NEW r, Extended(q, s, r), NEW b \in Bucket,
         NEW first, NEW base \in Int,
         FilledBy(b, first, base, q, s.day), b.tod < s.tod,
         \A m \in MinutesIn(q, s.day) : m <= b.tod, b.cum <= s.cum
  PROVE  FilledBy(NewBucket(s), first, b.cum, r, s.day)
<1> DEFINE d == s.day
           c == NewBucket(s)
<1>a. /\ q \in Seq(Snap) /\ s \in Snap /\ r \in Seq(Snap)
      /\ Len(r) \in Int /\ r[Len(r)] = s
      /\ b.cum \in Int /\ b.tod \in Int /\ b.tod \in 1 .. MaxTod
      /\ s.last \in Int /\ s.cum \in Int /\ s.tod \in Int
  <2>1. q \in Seq(Snap) /\ s \in Snap
    BY DEF Extended
  <2>2. r \in Seq(Snap) /\ r[Len(r)] = s
    BY SnapsGrow
  <2> QED BY <2>1, <2>2, SnapsAre, SnapIs, BucketHas
<1>1. /\ c.tod = s.tod /\ c.o = s.last /\ c.h = s.last /\ c.l = s.last
      /\ c.c = s.last /\ c.cum = s.cum
  BY DEF NewBucket
<1>2. \A m \in MinutesIn(q, d) : m \in Int
  BY MinutesAre
<1>3. SnapsAt(q, d, s.tod) = {}
  <2>1. s.tod \notin MinutesIn(q, d)
    BY <1>a
  <2> QED BY <2>1, <1>a, SnapIs DEF MinutesIn
<1>4. SnapsAt(r, d, s.tod) = {Len(r)}
  BY <1>3, SnapsGrow
<1>5. MinutesIn(r, d) = MinutesIn(q, d) \cup {s.tod}
  BY MinutesGrow
<1>6. first \in MinutesIn(q, d) /\ \A m \in MinutesIn(q, d) : first <= m
  BY DEF FilledBy, IsMin
<1>7. IsMin(first, MinutesIn(r, d))
  BY <1>a, <1>2, <1>5, <1>6 DEF IsMin
<1>8. b.tod \in MinutesIn(q, d)
  BY <1>a DEF FilledBy, IsMax, MinutesIn
<1>9. Before(q, d, s.tod) = MinutesIn(q, d)
  BY <1>a, <1>2 DEF Before
<1>10. Max(MinutesIn(q, d)) = b.tod
  <2>1. IsMax(b.tod, MinutesIn(q, d)) /\ MinutesIn(q, d) \subseteq Int
    BY <1>2, <1>8 DEF IsMax
  <2> QED BY <2>1, MaxIs
<1>11. VolumeIn(q, d, b.tod) = b.cum
  <2>1. IsMax(b.cum, CumsAt(q, d, b.tod))
    BY DEF FilledBy
  <2>2. CumsAt(q, d, b.tod) \subseteq Int
    BY <1>a, SnapsAre DEF CumsAt, SnapsAt
  <2> QED BY <2>1, <2>2, MaxIs DEF VolumeIn
<1>12. Base(r, d, s.tod) = b.cum
  <2>1. Base(q, d, s.tod) = b.cum
    BY <1>8, <1>9, <1>10, <1>11 DEF Base
  <2>2. s.tod <= s.tod
    BY <1>a
  <2> QED BY <2>1, <2>2, <1>a, BaseStays
<1> HIDE DEF c
<1>13. LastsAt(r, d, c.tod) = {s.last} /\ CumsAt(r, d, c.tod) = {s.cum}
  BY <1>a, <1>1, <1>4 DEF LastsAt, CumsAt
<1>14. /\ IsMax(Len(r), SnapsAt(r, d, c.tod)) /\ IsMin(Len(r), SnapsAt(r, d, c.tod))
       /\ Len(r) \in SnapsAt(r, d, c.tod)
       /\ IsMax(c.h, LastsAt(r, d, c.tod)) /\ IsMin(c.l, LastsAt(r, d, c.tod))
       /\ IsMax(c.cum, CumsAt(r, d, c.tod))
  BY <1>a, <1>1, <1>4, <1>13 DEF IsMax, IsMin
<1> QED BY <1>a, <1>1, <1>7, <1>12, <1>14 DEF FilledBy, c

(* The tape stays what the snapshots made, and gets the bucket's bar.      *)
LEMMA TapeStays ==
  ASSUME NEW q, NEW s, NEW r, Extended(q, s, r), NEW t \in Seq(Bar), NEW top \in Int,
         NEW first, IsMin(first, MinutesIn(q, s.day)),
         MadeOf(t, q, s.day, top), top <= s.tod
  PROVE  MadeOf(t, r, s.day, top)
<1> DEFINE d == s.day
<1>a. s.tod \in Int /\ \A m \in MinutesIn(q, d) : m \in Int
  BY SnapIs, MinutesAre DEF Extended
<1>1. Before(r, d, top) = Before(q, d, top)
  <2>1. MinutesIn(r, d) = MinutesIn(q, d) \cup {s.tod}
    BY MinutesGrow
  <2> QED BY <1>a, <2>1 DEF Before
<1>2. ASSUME NEW k \in DOMAIN t PROVE t[k] = BarIn(r, d, t[k].tod)
  <2>1. PICK m : m = t[k].tod /\ m \in Before(q, d, top) /\ t[k] = BarIn(q, d, m)
    BY DEF MadeOf
  <2>2. m \in MinutesIn(q, d) /\ m < s.tod
    BY <1>a, <2>1 DEF Before
  <2>3. BarIn(r, d, m) = BarIn(q, d, m)
    BY <2>2, BarStays
  <2> QED BY <2>1, <2>3
<1>3. {t[k].tod : k \in DOMAIN t} = Before(r, d, top)
  BY <1>1 DEF MadeOf
<1> QED BY <1>2, <1>3 DEF MadeOf

LEMMA TapeGrows ==
  ASSUME NEW q, NEW s, NEW r, Extended(q, s, r), NEW t \in Seq(Bar), NEW m \in Int,
         NEW first, IsMin(first, MinutesIn(q, s.day)),
         MadeOf(t, q, s.day, m), m < s.tod, m \in MinutesIn(q, s.day),
         \A j \in MinutesIn(q, s.day) : j <= m,
         NEW bar \in Bar, bar = BarIn(q, s.day, m), bar.tod = m
  PROVE  MadeOf(Append(t, bar), r, s.day, s.tod)
<1> DEFINE d == s.day
           u == Append(t, bar)
<1>a. s.tod \in Int /\ \A j \in MinutesIn(q, d) : j \in Int
  BY SnapIs, MinutesAre DEF Extended
<1>1. MadeOf(t, r, d, m)
  <2>1. m <= s.tod
    BY <1>a
  <2> QED BY <2>1, TapeStays
<1>2. /\ Len(t) \in Nat /\ DOMAIN t = 1 .. Len(t) /\ DOMAIN u = 1 .. Len(t) + 1
      /\ u[Len(t) + 1] = bar /\ \A k \in DOMAIN t : u[k] = t[k]
  OBVIOUS
<1>3. bar = BarIn(r, d, m)
  BY BarStays
<1>4. Before(r, d, s.tod) = Before(r, d, m) \cup {m}
  <2>1. MinutesIn(r, d) = MinutesIn(q, d) \cup {s.tod}
    BY MinutesGrow
  <2>2. \A j \in MinutesIn(q, d) : j <= m /\ j \in Int
    BY <1>a
  <2>3. m \in MinutesIn(q, d)
    OBVIOUS
  <2>4. ASSUME NEW j \in MinutesIn(q, d) \cup {s.tod}
        PROVE  j < s.tod <=> j < m \/ j = m
    <3>1. CASE j \in MinutesIn(q, d)
      BY <1>a, <2>2, <3>1
    <3>2. CASE j = s.tod
      BY <1>a, <3>2
    <3> QED BY <3>1, <3>2
  <2> HIDE DEF d
  <2> QED BY <2>1, <2>3, <2>4 DEF Before
<1> HIDE DEF u
<1>5. DOMAIN u = DOMAIN t \cup {Len(t) + 1}
  BY <1>2
<1>6. {u[k].tod : k \in DOMAIN u} = {t[k].tod : k \in DOMAIN t} \cup {m}
  BY <1>2, <1>5
<1>7. \A k \in DOMAIN u : u[k] = BarIn(r, d, u[k].tod)
  BY <1>1, <1>2, <1>3, <1>5 DEF MadeOf
<1>8. {u[k].tod : k \in DOMAIN u} = Before(r, d, s.tod)
  BY <1>1, <1>4, <1>6 DEF MadeOf
<1>9. MadeOf(u, r, d, s.tod)
  BY <1>7, <1>8 DEF MadeOf
<1> QED BY <1>9 DEF u

-----------------------------------------------------------------------------
(* The tape in the run of the system.                                      *)

LEMMA TapeStep ==
  TypeInv /\ FlightInv /\ LastInv /\ TapeInv /\ [Next]_vars => TapeInv'
<1> SUFFICES ASSUME TypeInv, FlightInv, LastInv, TapeInv, [Next]_vars, mishap' = {}
             PROVE  TapeInv'
  BY DEF TapeInv
<1>1. CASE UNCHANGED <<delivered, engineDay, aggVars, tape, mishap>>
  BY <1>1 DEF TapeInv, aggVars
<1>2. ASSUME NEW p \in Pollers, Deliver(p) PROVE TapeInv'
  <2>1. PICK s \in Snap : s = inFlight[p] /\ s # NoSnap /\ Ingest(s)
    BY <1>2 DEF Deliver, TypeInv
  <2>2. /\ mishap = {} /\ engineDay' = day /\ delivered' = Append(delivered, s)
        /\ delivered # <<>> =>
             ~(Last.n > s.n) /\ ~(Last.day < s.day /\ Last.tod <= s.tod)
    BY <1>2, <2>1 DEF Deliver, Last
  <2>3. s.day = day
    BY <2>1 DEF FlightInv
  <2>4. PICK q, r : q = delivered /\ r = delivered'
    OBVIOUS
  <2>5. Extended(q, s, r) /\ q \in Seq(Snap) /\ r # <<>>
    BY <2>2, <2>4 DEF TypeInv, Extended
  <2>6. /\ InOrder(q) /\ (q = <<>> => lastCum = 0)
        /\ q # <<>> => FilledBy(bucket, firstTod, lastCum, q, engineDay)
        /\ MadeOf(tape, q, engineDay, bucket.tod)
    BY <2>2, <2>4 DEF TapeInv
  <2>a. s.day \in Int /\ s.tod \in Int /\ s.cum \in Int /\ s.last \in Int
    BY SnapIs
  <2>b. PICK l : l = q[Len(q)]
    OBVIOUS
  <2>c. q # <<>> => /\ l = Last /\ Len(q) \in DOMAIN q /\ l.day \in Int /\ l.tod \in Int
                    /\ l.cum \in Int /\ l.day = engineDay /\ l.tod = bucket.tod
                    /\ bucket \in Bucket /\ bucket # NoBucket
    <3> SUFFICES ASSUME q # <<>>
                 PROVE  /\ l = Last /\ Len(q) \in DOMAIN q /\ l.day \in Int /\ l.tod \in Int
                        /\ l.cum \in Int /\ l.day = engineDay /\ l.tod = bucket.tod
                        /\ bucket \in Bucket /\ bucket # NoBucket
      OBVIOUS
    <3>1. Len(q) \in DOMAIN q
      BY <2>5
    <3>2. l = Last
      BY <2>4, <2>b DEF Last
    <3>3. bucket # NoBucket /\ l.day = engineDay /\ l.tod = bucket.tod
      BY <2>4, <3>2 DEF LastInv
    <3>4. l.day \in Int /\ l.tod \in Int /\ l.cum \in Int
      BY <2>5, <2>b, <3>1, SnapsAre
    <3>5. bucket \in Bucket
      BY <3>3 DEF TypeInv
    <3> QED BY <3>1, <3>2, <3>3, <3>4, <3>5
  <2>d. q # <<>> /\ engineDay = day => bucket.tod <= s.tod /\ l.cum <= s.cum
    <3> SUFFICES ASSUME q # <<>>, engineDay = day
                 PROVE  bucket.tod <= s.tod /\ l.cum <= s.cum
      OBVIOUS
    <3>1. ~(Last.n > inFlight[p].n) /\ delivered # <<>> /\ inFlight[p] # NoSnap
      BY <2>1, <2>2, <2>4
    <3> QED BY <2>1, <2>c, <3>1, NotBefore
  <2>e. q # <<>> => l.day <= s.day /\ (l.day = s.day => l.tod <= s.tod /\ l.cum <= s.cum)
    <3>1. q # <<>> => engineDay <= day
      BY <2>c, <2>3 DEF TypeInv
    <3> QED BY <2>3, <2>c, <2>d, <3>1
  <2>7. InOrder(r)
    BY <2>5, <2>6, <2>b, <2>e, InOrderGrows
  <2>8. SUFFICES /\ FilledBy(bucket', firstTod', lastCum', r, s.day)
                 /\ MadeOf(tape', r, s.day, bucket'.tod)
    BY <2>2, <2>3, <2>4, <2>5, <2>7 DEF TapeInv
  <2>9. ASSUME \A k \in DOMAIN q : q[k].day # s.day,
               bucket' = NewBucket(s), firstTod' = s.tod, lastCum' = 0, tape' = <<>>
        PROVE  /\ FilledBy(bucket', firstTod', lastCum', r, s.day)
               /\ MadeOf(tape', r, s.day, bucket'.tod)
    <3>1. bucket'.tod = s.tod
      BY <2>9 DEF NewBucket
    <3> QED BY <2>5, <2>9, <3>1, FirstFills
  <2>10. CASE q = <<>>
    <3>1. bucket = NoBucket /\ firstTod = 0 /\ tape = <<>> /\ lastCum = 0
      BY <2>4, <2>6, <2>10 DEF LastInv
    <3>2. First(s)
      <4>1. bucket.tod = 0 /\ s.tod > 0
        BY <3>1, Marks DEF Snap
      <4> QED BY <2>1, <3>1 DEF Ingest, Fold, Reset, Roll
    <3>3. /\ bucket' = NewBucket(s) /\ firstTod' = s.tod /\ lastCum' = 0 /\ tape' = <<>>
      BY <3>1, <3>2 DEF First, TapeOfDay
    <3>4. \A k \in DOMAIN q : q[k].day # s.day
      BY <2>10
    <3> QED BY <2>9, <3>3, <3>4
  <2>11. CASE q # <<>> /\ engineDay # day
    <3>1. l.day < s.day
      BY <2>3, <2>a, <2>c, <2>e, <2>11
    <3>2. s.tod < bucket.tod
      <4>1. ~(Last.tod <= s.tod)
        BY <2>2, <2>4, <2>c, <2>11, <3>1
      <4> QED BY <2>a, <2>c, <2>11, <4>1
    <3>3. Reset(s)
      BY <2>1, <2>a, <2>c, <2>11, <3>2 DEF Ingest, First, Fold, Roll
    <3>4. \A k \in DOMAIN q : q[k].day # s.day
      <4> SUFFICES ASSUME NEW k \in DOMAIN q PROVE q[k].day # s.day
        OBVIOUS
      <4>1. q[k].day <= l.day /\ q[k].day \in Int
        BY <2>5, <2>6, <2>b, LastIsLatest, SnapsAre
      <4> QED BY <2>a, <2>c, <2>11, <3>1, <4>1
    <3>5. bucket' = NewBucket(s) /\ firstTod' = s.tod /\ lastCum' = 0 /\ tape' = <<>>
      BY <2>11, <3>3 DEF Reset, TapeOfDay
    <3> QED BY <2>9, <3>4, <3>5
  <2>12. CASE q # <<>> /\ engineDay = day
    <3>1. PICK b \in Bucket : b = bucket /\ b # NoBucket
      BY <2>c, <2>12
    <3>a. b.tod \in Int /\ b.cum \in Int /\ firstTod \in Int /\ lastCum \in Int /\ lastCum \in Nat
      BY BucketHas DEF TypeInv
    <3>2. /\ FilledBy(b, firstTod, lastCum, q, s.day) /\ MadeOf(tape, q, s.day, b.tod)
          /\ TapeOfDay = tape /\ b.tod <= s.tod /\ l.cum <= s.cum
      BY <2>3, <2>6, <2>d, <2>12, <3>1 DEF TapeOfDay
    <3>3. IsMin(firstTod, MinutesIn(q, s.day))
      BY <3>2 DEF FilledBy
    <3>4. CASE Fold(s)
      <4>1. /\ s.tod = b.tod /\ bucket'.tod = b.tod /\ bucket'.o = b.o /\ bucket'.c = s.last
            /\ bucket'.h = Max({b.h, s.last}) /\ bucket'.l = Min({b.l, s.last})
            /\ bucket'.cum = Max({b.cum, s.cum})
            /\ tape' = tape /\ firstTod' = firstTod /\ lastCum' = lastCum
        BY <3>1, <3>2, <3>4 DEF Fold, Bucket
      <4>2. FilledBy(bucket', firstTod, lastCum, r, s.day)
        BY <2>5, <3>a, <3>2, <4>1, FoldFills
      <4>3. MadeOf(tape, r, s.day, b.tod)
        BY <2>5, <3>a, <3>2, <3>3, TapeStays DEF TypeInv
      <4> QED BY <4>1, <4>2, <4>3
    <3>5. CASE Roll(s)
      <4>1. /\ b.tod < s.tod /\ bucket' = NewBucket(s) /\ lastCum' = b.cum
            /\ firstTod' = firstTod /\ tape' = Append(tape, Emit(b))
        BY <2>a, <3>a, <3>1, <3>2, <3>5 DEF Roll
      <4>2. \A m \in MinutesIn(q, s.day) : m <= b.tod
        BY <2>3, <2>5, <2>6, <2>b, <2>c, <2>12, <3>1, BucketIsLatest
      <4>3. b.cum <= s.cum
        <5>1. PICK k \in DOMAIN q : q[k].day = s.day /\ q[k].cum = b.cum
          BY <3>2 DEF FilledBy, IsMax, CumsAt, SnapsAt
        <5>2. b.cum <= l.cum
          BY <2>3, <2>5, <2>6, <2>b, <2>c, <2>12, <5>1, LastIsLatest
        <5> QED BY <2>a, <2>c, <2>12, <3>a, <3>2, <5>2
      <4>4. FilledBy(bucket', firstTod', lastCum', r, s.day)
        BY <2>5, <3>a, <3>2, <4>1, <4>2, <4>3, RollFills
      <4>5. /\ Emit(b) = BarIn(q, s.day, b.tod) /\ Emit(b) \in Bar /\ Emit(b).tod = b.tod
        <5>1. lastCum <= b.cum
          BY <3>2 DEF FilledBy
        <5>2. Max({0, b.cum - lastCum}) = b.cum - lastCum
          BY <3>a, <5>1, MaxOfTwo
        <5>3. BarIn(q, s.day, b.tod) =
                [t |-> b.tod - firstTod, tod |-> b.tod, o |-> b.o, c |-> b.c, h |-> b.h,
                 l |-> b.l, cum |-> b.cum, v |-> b.cum - lastCum]
          BY <2>5, <3>a, <3>2, BucketIs
        <5>4. Emit(b) \in Bar
          BY <3>1, EmitTyped DEF TypeInv
        <5> QED BY <5>2, <5>3, <5>4 DEF Emit
      <4>6. b.tod \in MinutesIn(q, s.day)
        <5>1. b.tod \in 1 .. MaxTod
          BY BucketHas
        <5> QED BY <3>2, <5>1 DEF FilledBy, IsMax, MinutesIn
      <4>7. MadeOf(Append(tape, Emit(b)), r, s.day, s.tod)
        <5>1. tape \in Seq(Bar)
          BY DEF TypeInv
        <5> QED BY <2>5, <3>a, <3>2, <3>3, <4>1, <4>2, <4>5, <4>6, <5>1, TapeGrows
      <4>8. bucket'.tod = s.tod
        BY <4>1 DEF NewBucket
      <4> QED BY <4>1, <4>4, <4>7, <4>8
    <3> QED BY <2>1, <2>a, <3>a, <3>1, <3>2, <3>4, <3>5 DEF Ingest, First, Reset
  <2> QED BY <2>10, <2>11, <2>12
<1>3. CASE Minute \/ NewDay \/ (\E p \in Pollers : Fetch(p)) \/ UNCHANGED vars
  BY <1>1, <1>3 DEF Minute, NewDay, Fetch, vars, aggVars
<1> QED BY <1>2, <1>3 DEF Next

-----------------------------------------------------------------------------
(* The tape against the reference: its k-th bar is of the k-th minute.     *)

(* The k-th value of a set, the one with k - 1 below it.                   *)
Kth(S, k) == CHOOSE m \in S : Cardinality({j \in S : j < m}) = k - 1

(* Values in rising order are in the order of their set.                   *)
LEMMA Ranks ==
  ASSUME NEW n \in Nat, NEW f \in [1 .. n -> Int],
         \A j, k \in 1 .. n : j < k => f[j] < f[k],
         NEW S, S = {f[k] : k \in 1 .. n}
  PROVE  /\ Cardinality(S) = n
         /\ \A k \in 1 .. n : Kth(S, k) = f[k]
<1>1. \A j, k \in 1 .. n : f[j] < f[k] <=> j < k
  OBVIOUS
<1>2. ASSUME NEW k \in 0 .. n
      PROVE  Cardinality({f[j] : j \in 1 .. k}) = k
  <2> DEFINE T == {f[j] : j \in 1 .. k}
             g == [j \in 1 .. k |-> f[j]]
  <2>1. g \in [1 .. k -> T]
    OBVIOUS
  <2>2. \A i, j \in 1 .. k : f[i] = f[j] => i = j
    BY <1>1
  <2>3. g \in Bijection(1 .. k, T)
    <3>1. \A i, j \in 1 .. k : g[i] = g[j] => i = j
      BY <2>2
    <3>2. \A y \in T : \E j \in 1 .. k : g[j] = y
      OBVIOUS
    <3> HIDE DEF g, T
    <3> QED BY <2>1, <3>1, <3>2 DEF Bijection, Injection, Surjection, IsInjective
  <2>4. IsFiniteSet(1 .. k) /\ Cardinality(1 .. k) = k
    BY FS_Interval
  <2> HIDE DEF g, T
  <2>5. ExistsBijection(1 .. k, T)
    BY <2>3 DEF ExistsBijection
  <2>6. Cardinality(T) = k
    BY <2>4, <2>5, FS_Bijection
  <2> QED BY <2>6 DEF T
<1>3. ASSUME NEW k \in 1 .. n
      PROVE  /\ f[k] \in S
             /\ Cardinality({j \in S : j < f[k]}) = k - 1
  <2>1. {j \in S : j < f[k]} = {f[j] : j \in 1 .. k - 1}
    BY <1>1
  <2> QED BY <1>2, <2>1
<1>4. Cardinality(S) = n
  BY <1>2
<1>5. ASSUME NEW k \in 1 .. n
      PROVE  Kth(S, k) = f[k]
  <2>1. PICK c : c = Kth(S, k) /\ c \in S /\ Cardinality({j \in S : j < c}) = k - 1
    BY <1>3 DEF Kth
  <2>2. PICK i \in 1 .. n : c = f[i]
    BY <2>1
  <2>3. i - 1 = k - 1
    BY <1>3, <2>1, <2>2
  <2>4. i = k
    BY <2>3
  <2> QED BY <2>1, <2>2, <2>4
<1> QED BY <1>3, <1>4, <1>5

(* The closed minutes are those before the bucket's.                       *)
LEMMA ClosedAre ==
  ASSUME TypeInv, LastInv, TapeInv, mishap = {}
  PROVE  ClosedMinutes(engineDay) = Before(delivered, engineDay, bucket.tod)
<1> DEFINE d == engineDay
           M == MinutesIn(delivered, d)
<1>1. delivered \in Seq(Snap)
  BY DEF TypeInv
<1>2. MinutesOf(d) = M
  <2>1. \A k \in DOMAIN delivered : delivered[k].tod \in 1 .. MaxTod
    BY <1>1, SnapsAre
  <2> QED BY <2>1 DEF MinutesOf, MinutesIn, SnapsAt
<1>3. \A m \in M : m \in Int
  BY <1>1, MinutesAre
<1>4. CASE delivered = <<>>
  <2>1. M = {}
    BY <1>4 DEF MinutesIn, SnapsAt
  <2> QED BY <1>2, <2>1 DEF ClosedMinutes, Before
<1>5. CASE delivered # <<>>
  <2>1. /\ InOrder(delivered) /\ FilledBy(bucket, firstTod, lastCum, delivered, d)
    BY <1>5 DEF TapeInv
  <2>2. /\ bucket \in Bucket /\ d = delivered[Len(delivered)].day
        /\ bucket.tod = delivered[Len(delivered)].tod
    BY <1>5 DEF TypeInv, LastInv, Last
  <2>3. \A m \in M : m <= bucket.tod
    BY <1>1, <1>5, <2>1, <2>2, BucketIsLatest
  <2>4. bucket.tod \in M
    <3>1. bucket.tod \in 1 .. MaxTod
      BY <2>2, BucketHas
    <3> QED BY <2>1, <3>1 DEF FilledBy, IsMax, MinutesIn
  <2>5. \A m \in M : (\E j \in M : j > m) <=> m < bucket.tod
    <3> HIDE DEF M
    <3> QED BY <1>3, <2>3, <2>4
  <2> HIDE DEF M
  <2>6. ClosedMinutes(d) = {m \in M : m < bucket.tod}
    BY <1>2, <2>5 DEF ClosedMinutes
  <2> QED BY <2>6 DEF Before, M
<1> QED BY <1>4, <1>5

LEMMA TapeMatches ==
  TypeInv /\ LastInv /\ OrderInv /\ TapeInv => TapeMatchesSnapshots
<1> SUFFICES ASSUME TypeInv, LastInv, OrderInv, TapeInv, mishap = {}
             PROVE  LET minutes == ClosedMinutes(engineDay)
                    IN /\ Len(tape) = Cardinality(minutes)
                       /\ \A k \in DOMAIN tape :
                            LET m == CHOOSE m \in minutes :
                                       Cardinality({j \in minutes : j < m}) = k - 1
                            IN tape[k] = BarOf(engineDay, m)
  BY DEF TapeMatchesSnapshots
<1>1. PICK S : S = ClosedMinutes(engineDay)
  OBVIOUS
<1>2. S = {tape[k].tod : k \in DOMAIN tape}
      /\ \A k \in DOMAIN tape : tape[k] = BarIn(delivered, engineDay, tape[k].tod)
  BY <1>1, ClosedAre DEF TapeInv, MadeOf
<1>3. PICK n \in Nat : n = Len(tape) /\ DOMAIN tape = 1 .. n
  BY DEF TypeInv
<1>4. \A k \in 1 .. n : tape[k].tod \in Int
  <2>1. \A k \in 1 .. n : tape[k] \in Bar
    BY <1>3 DEF TypeInv
  <2> QED BY <2>1, FeedAssumption DEF Bar
<1>5. PICK f : f = [k \in 1 .. n |-> tape[k].tod]
  OBVIOUS
<1>6. f \in [1 .. n -> Int] /\ \A k \in 1 .. n : f[k] = tape[k].tod
  BY <1>4, <1>5
<1>7. \A j, k \in 1 .. n : j < k => f[j] < f[k]
  BY <1>3, <1>6 DEF OrderInv
<1>8. S = {f[k] : k \in 1 .. n}
  BY <1>2, <1>3, <1>6
<1>9. /\ Cardinality(S) = n
      /\ \A k \in 1 .. n : Kth(S, k) = f[k]
  BY <1>6, <1>7, <1>8, Ranks
<1>10. \A m : BarOf(engineDay, m) = BarIn(delivered, engineDay, m)
  <2>1. \A m : SnapsOf(engineDay, m) = SnapsAt(delivered, engineDay, m)
    BY DEF SnapsOf, SnapsAt
  <2>2. \A m : VolumeAt(engineDay, m) = VolumeIn(delivered, engineDay, m)
    BY <2>1 DEF VolumeAt, VolumeIn, CumsAt
  <2>3. MinutesOf(engineDay) = MinutesIn(delivered, engineDay)
    <3>1. \A k \in DOMAIN delivered : delivered[k].tod \in 1 .. MaxTod
      BY SnapsAre DEF TypeInv
    <3> QED BY <3>1 DEF MinutesOf, MinutesIn, SnapsAt
  <2> QED BY <2>1, <2>2, <2>3 DEF BarOf, BarIn, Base, Before, LastsAt
<1>11. \A k \in DOMAIN tape :
         tape[k] = BarOf(engineDay, Kth(S, k))
  BY <1>2, <1>3, <1>6, <1>9, <1>10
<1> QED BY <1>1, <1>3, <1>9, <1>11 DEF Kth

(* The tracker of a day is given the bar of each closed minute once, in    *)
(* order, with the prices of all its snapshots and the volume traded since *)
(* the bar before, unless a snapshot was late or a bucket was carried over *)
(* a night (MinuteBarAggregator.ingest under scan_once).                   *)
THEOREM TapeCorrect == Spec => []TapeMatchesSnapshots
<1>1. Init => FlightInv /\ LastInv /\ OrderInv /\ TapeInv
  <2> SUFFICES ASSUME Init PROVE FlightInv /\ LastInv /\ OrderInv /\ TapeInv
    OBVIOUS
  <2>1. /\ \A p \in Pollers : inFlight[p] = NoSnap
        /\ delivered = <<>> /\ bucket = NoBucket /\ tape = <<>> /\ firstTod = 0
        /\ lastCum = 0
    BY DEF Init
  <2>2. DOMAIN delivered = {} /\ DOMAIN tape = {}
    BY <2>1
  <2>3. {tape[k].tod : k \in DOMAIN tape} = {}
    BY <2>2
  <2>4. Before(delivered, engineDay, bucket.tod) = {}
    BY <2>2 DEF Before, MinutesIn, SnapsAt
  <2>5. InOrder(delivered) /\ MadeOf(tape, delivered, engineDay, bucket.tod)
    BY <2>2, <2>3, <2>4 DEF InOrder, MadeOf
  <2> QED BY <2>1, <2>5 DEF FlightInv, LastInv, OrderInv, TapeInv
<1> QED BY <1>1, TypeStep, FlightStep, LastStep, OrderStep, TapeStep, TapeMatches,
           TypeCorrect, PTL DEF Spec

=============================================================================
