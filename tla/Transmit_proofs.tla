--------------------------- MODULE Transmit_proofs ---------------------------
(***************************************************************************)
(* Proofs about Transmit, for any symbols, bounds and switches: first the  *)
(* types, the paper account and the breaker; then the order and identity   *)
(* of the events; then what the account holds.                             *)
(***************************************************************************)
EXTENDS Transmit, FiniteSetTheorems, TLAPS

-----------------------------------------------------------------------------
(* Types.                                                                  *)

LEMMA EmptyQueue == <<>> \in Seq(Event)
  OBVIOUS

LEMMA HeadTail ==
  ASSUME queue \in Seq(Event), queue # <<>>
  PROVE  Head(queue) \in Event /\ Tail(queue) \in Seq(Event)
  OBVIOUS

(* Settling the event in hand keeps the types of what it touches.          *)
LEMMA SettleType ==
  ASSUME ServiceType, DrainType, cur \in Event,
         NEW outcome \in {"sent", "error"}, Settle(cur, outcome)
  PROVE  /\ transmitted' \in [Ids -> Outcome]
         /\ pc' \in {"next", "sleep"}
         /\ queue' \in Seq(Event)
         /\ cur' = NoEvent
         /\ raised' \in BOOLEAN
<1>1. cur.id \in Ids
  BY DEF Event
<1>2. transmitted' \in [Ids -> Outcome]
  BY <1>1 DEF Settle, Raise, Outcome, ServiceType
<1>3. queue' = queue \/ queue' = <<>>
  BY DEF Settle, Raise
<1>4. queue' \in Seq(Event)
  BY <1>3, EmptyQueue DEF DrainType
<1>5. pc' \in {"next", "sleep"} /\ cur' = NoEvent
  BY DEF Settle, Raise
<1>6. raised' \in BOOLEAN
  BY DEF Settle, Raise, DrainType
<1>7. QED
  BY <1>2, <1>4, <1>5, <1>6

(* Queueing an event keeps the queue's and the counter's types.            *)
LEMMA QueueType ==
  ASSUME ServiceType, HistoryType, nextId <= MaxId,
         NEW s \in Symbols, NEW kind \in {"entry", "exit"}, Queue(kind, s)
  PROVE  /\ pending' \in Seq(Event)
         /\ nextId' \in nextId .. MaxId + 1
<1>1. nextId \in Ids /\ nextId \in Nat
  BY BoundsAssumption DEF HistoryType, Ids
<1>2. pending \in Seq(Event)
  BY DEF ServiceType
<1> DEFINE ev == [id |-> nextId, kind |-> kind, sym |-> s,
                  shares |-> 1, stop |-> 1]
<1>3. ev \in Event
  BY <1>1 DEF Event
<1>4. Append(pending, ev) \in Seq(Event)
  BY <1>2, <1>3
<1>5. \/ pending' = Append(pending, ev) /\ nextId' = nextId + 1
      \/ pending' = pending /\ nextId' = nextId
  BY DEF Queue
<1>6. QED
  BY <1>1, <1>2, <1>4, <1>5, BoundsAssumption

LEMMA TypeInit == Init => TypeOK /\ InHand
<1> SUFFICES ASSUME Init PROVE TypeOK /\ InHand
  OBVIOUS
<1>1. ServiceType
  BY EmptyQueue DEF Init, ServiceType, Outcome
<1>2. EngineType /\ ClientType /\ ClockType
  BY SwitchAssumption DEF Init, EngineType, ClientType, ClockType, Phases
<1>3. DrainType
  BY EmptyQueue DEF Init, DrainType, PCs
<1>4. BrokerType
  BY DEF Init, BrokerType
<1>5. HistoryType
  BY BoundsAssumption DEF Init, HistoryType
<1>6. InHand
  BY DEF Init, InHand, Sending
<1>7. QED
  BY <1>1, <1>2, <1>3, <1>4, <1>5, <1>6 DEF TypeOK

LEMMA TypeStep == TypeOK /\ InHand /\ [Next]_vars => TypeOK'
<1> SUFFICES ASSUME TypeOK, InHand, [Next]_vars PROVE TypeOK'
  OBVIOUS
<1> USE DEF TypeOK
<1>1. CASE RebuildLive
  <2>1. EngineType'
    BY <1>1 DEF RebuildLive, EngineType, ClockType
  <2>2. ServiceType' /\ ClientType' /\ DrainType' /\ BrokerType' /\ ClockType' /\ HistoryType'
    BY <1>1 DEF RebuildLive, ServiceType, ClientType, DrainType,
       BrokerType, ClockType, HistoryType, svcVars, clientVars,
       drainVars, brokerVars, clockVars, histVars
  <2>3. QED
    BY <2>1, <2>2 DEF TypeOK
<1>2. ASSUME NEW s \in Symbols, EngineEntry(s) PROVE TypeOK'
  <2>0. pending' \in Seq(Event) /\ nextId' \in nextId .. MaxId + 1
    BY <1>2, QueueType DEF EngineEntry
  <2>1. ServiceType'
    BY <1>2, <2>0 DEF EngineEntry, ServiceType
  <2>2. EngineType'
    BY <1>2 DEF EngineEntry, EngineType
  <2>3. HistoryType'
    BY <1>2, <2>0, BoundsAssumption DEF EngineEntry, HistoryType
  <2>4. ClientType' /\ DrainType' /\ BrokerType' /\ ClockType'
    BY <1>2 DEF EngineEntry, ClientType, DrainType, BrokerType,
       ClockType, clientVars, drainVars, brokerVars, clockVars
  <2>5. QED
    BY <2>1, <2>2, <2>3, <2>4 DEF TypeOK
<1>3. ASSUME NEW s \in Symbols, EngineReject(s) PROVE TypeOK'
  <2>1. EngineType'
    BY <1>3 DEF EngineReject, EngineType
  <2>2. ServiceType' /\ ClientType' /\ DrainType' /\ BrokerType' /\ ClockType' /\ HistoryType'
    BY <1>3 DEF EngineReject, ServiceType, ClientType, DrainType,
       BrokerType, ClockType, HistoryType, svcVars, clientVars,
       drainVars, brokerVars, clockVars, histVars
  <2>3. QED
    BY <2>1, <2>2 DEF TypeOK
<1>4. ASSUME NEW s \in Symbols, EngineExit(s) PROVE TypeOK'
  <2>0. pending' \in Seq(Event) /\ nextId' \in nextId .. MaxId + 1
    BY <1>4, QueueType DEF EngineExit
  <2>1. ServiceType'
    BY <1>4, <2>0 DEF EngineExit, ServiceType
  <2>2. EngineType'
    BY <1>4 DEF EngineExit, EngineType
  <2>3. HistoryType'
    BY <1>4, <2>0, BoundsAssumption DEF EngineExit, HistoryType
  <2>4. ClientType' /\ DrainType' /\ BrokerType' /\ ClockType'
    BY <1>4 DEF EngineExit, ClientType, DrainType, BrokerType,
       ClockType, clientVars, drainVars, brokerVars, clockVars
  <2>5. QED
    BY <2>1, <2>2, <2>3, <2>4 DEF TypeOK
<1>5. CASE TickStart
  <2>1. DrainType'
    BY <1>5, EmptyQueue DEF TickStart, DrainType, PCs
  <2>2. ServiceType' /\ EngineType' /\ ClientType' /\ BrokerType' /\ ClockType' /\ HistoryType'
    BY <1>5 DEF TickStart, ServiceType, EngineType, ClientType,
       BrokerType, ClockType, HistoryType, svcVars, engineVars,
       clientVars, brokerVars, clockVars, histVars
  <2>3. QED
    BY <2>1, <2>2 DEF TypeOK
<1>6. CASE ScanDone
  <2>1. DrainType'
    BY <1>6, EmptyQueue DEF ScanDone, DrainType, PCs
  <2>2. ServiceType' /\ EngineType' /\ ClientType' /\ BrokerType' /\ ClockType' /\ HistoryType'
    BY <1>6 DEF ScanDone, ServiceType, EngineType, ClientType,
       BrokerType, ClockType, HistoryType, svcVars, engineVars,
       clientVars, brokerVars, clockVars, histVars
  <2>3. QED
    BY <2>1, <2>2 DEF TypeOK
<1>7. CASE ResolveAccount
  <2>1. ClientType'
    BY <1>7 DEF ResolveAccount, ClientType
  <2>2. DrainType'
    BY <1>7, EmptyQueue DEF ResolveAccount, DrainType, PCs
  <2>3. ServiceType' /\ EngineType' /\ BrokerType' /\ ClockType' /\ HistoryType'
    BY <1>7 DEF ResolveAccount, ServiceType, EngineType, BrokerType,
       ClockType, HistoryType, svcVars, engineVars, brokerVars,
       clockVars, histVars
  <2>4. QED
    BY <2>1, <2>2, <2>3 DEF TypeOK
<1>8. CASE GetPositions
  <2>1. DrainType'
    BY <1>8, EmptyQueue DEF GetPositions, DrainType, PCs
  <2>2. HistoryType'
    BY <1>8, BoundsAssumption DEF GetPositions, HistoryType, Mishap
  <2>3. ServiceType' /\ EngineType' /\ ClientType' /\ BrokerType' /\ ClockType'
    BY <1>8 DEF GetPositions, ServiceType, EngineType, ClientType,
       BrokerType, ClockType, svcVars, engineVars, clientVars,
       brokerVars, clockVars
  <2>4. QED
    BY <2>1, <2>2, <2>3 DEF TypeOK
<1>9. CASE SwapQueue
  <2>1. ServiceType'
    BY <1>9, EmptyQueue DEF SwapQueue, ServiceType
  <2>2. DrainType'
    BY <1>9, EmptyQueue DEF SwapQueue, DrainType, PCs, ServiceType
  <2>3. EngineType' /\ ClientType' /\ BrokerType' /\ ClockType' /\ HistoryType'
    BY <1>9 DEF SwapQueue, EngineType, ClientType, BrokerType,
       ClockType, HistoryType, engineVars, clientVars, brokerVars,
       clockVars, histVars
  <2>4. QED
    BY <2>1, <2>2, <2>3 DEF TypeOK
<1>10. CASE TakeRaises
  <2>1. DrainType'
    BY <1>10, EmptyQueue DEF TakeRaises, DrainType, PCs, Raise
  <2>2. ServiceType' /\ EngineType' /\ ClientType' /\ BrokerType' /\ ClockType' /\ HistoryType'
    BY <1>10 DEF TakeRaises, ServiceType, EngineType, ClientType,
       BrokerType, ClockType, HistoryType, svcVars, engineVars,
       clientVars, brokerVars, clockVars, histVars
  <2>3. QED
    BY <2>1, <2>2 DEF TypeOK
<1>11. CASE TakeSkip
  <2>1. Head(queue) \in Event /\ Tail(queue) \in Seq(Event)
    BY <1>11, HeadTail DEF TakeSkip, DrainType
  <2>2. ServiceType'
    BY <1>11, <2>1, EmptyQueue DEF TakeSkip, ServiceType, Outcome, Event
  <2>3. DrainType'
    BY <1>11, <2>1, EmptyQueue DEF TakeSkip, DrainType
  <2>4. EngineType' /\ ClientType' /\ BrokerType' /\ ClockType' /\ HistoryType'
    BY <1>11 DEF TakeSkip, EngineType, ClientType, BrokerType,
       ClockType, HistoryType, engineVars, clientVars, brokerVars,
       clockVars, histVars
  <2>5. QED
    BY <2>1, <2>2, <2>3, <2>4 DEF TypeOK
<1>12. CASE TakeHalt
  <2>1. Head(queue) \in Event /\ Tail(queue) \in Seq(Event)
    BY <1>12, HeadTail DEF TakeHalt, DrainType
  <2>2. ServiceType'
    BY <1>12, <2>1, EmptyQueue DEF TakeHalt, ServiceType, Outcome, Event
  <2>3. DrainType'
    BY <1>12, <2>1, EmptyQueue DEF TakeHalt, DrainType
  <2>4. EngineType' /\ ClientType' /\ BrokerType' /\ ClockType' /\ HistoryType'
    BY <1>12 DEF TakeHalt, EngineType, ClientType, BrokerType,
       ClockType, HistoryType, engineVars, clientVars, brokerVars,
       clockVars, histVars
  <2>5. QED
    BY <2>1, <2>2, <2>3, <2>4 DEF TypeOK
<1>13. CASE TakeBuy
  <2>1. Head(queue) \in Event /\ Tail(queue) \in Seq(Event)
    BY <1>13, HeadTail DEF TakeBuy, DrainType
  <2>2. DrainType'
    BY <1>13, <2>1, EmptyQueue DEF TakeBuy, DrainType, PCs
  <2>3. ServiceType' /\ EngineType' /\ ClientType' /\ BrokerType' /\ ClockType' /\ HistoryType'
    BY <1>13 DEF TakeBuy, ServiceType, EngineType, ClientType,
       BrokerType, ClockType, HistoryType, svcVars, engineVars,
       clientVars, brokerVars, clockVars, histVars
  <2>4. QED
    BY <2>1, <2>2, <2>3 DEF TypeOK
<1>14. CASE TakeSell
  <2>1. Head(queue) \in Event /\ Tail(queue) \in Seq(Event)
    BY <1>14, HeadTail DEF TakeSell, DrainType
  <2>2. ServiceType'
    BY <1>14, <2>1, EmptyQueue DEF TakeSell, ServiceType, Event
  <2>3. DrainType'
    BY <1>14, <2>1, EmptyQueue DEF TakeSell, DrainType, PCs, Event,
       ServiceType
  <2>4. EngineType' /\ ClientType' /\ BrokerType' /\ ClockType' /\ HistoryType'
    BY <1>14 DEF TakeSell, EngineType, ClientType, BrokerType,
       ClockType, HistoryType, engineVars, clientVars, brokerVars,
       clockVars, histVars
  <2>5. QED
    BY <2>1, <2>2, <2>3, <2>4 DEF TypeOK
<1>15. CASE BuyResolve
  <2>1. cur \in Event
    BY <1>15 DEF BuyResolve, InHand, Sending
  <2>2. ServiceType'
    BY <1>15, <2>1, SettleType, EmptyQueue DEF BuyResolve, ServiceType,
       DrainType
  <2>3. ClientType'
    BY <1>15, <2>1 DEF BuyResolve, ClientType, Event
  <2>4. DrainType'
    BY <1>15, <2>1, SettleType, EmptyQueue DEF BuyResolve, DrainType,
       PCs, ServiceType
  <2>5. EngineType' /\ BrokerType' /\ ClockType' /\ HistoryType'
    BY <1>15 DEF BuyResolve, EngineType, BrokerType, ClockType,
       HistoryType, engineVars, brokerVars, clockVars, histVars
  <2>6. QED
    BY <2>1, <2>2, <2>3, <2>4, <2>5 DEF TypeOK
<1>16. CASE BuyPlaced
  <2>1. cur \in Event
    BY <1>16 DEF BuyPlaced, InHand, Sending
  <2>2. ServiceType'
    BY <1>16, <2>1, SettleType, EmptyQueue DEF BuyPlaced, ServiceType,
       Event, DrainType
  <2>3. DrainType'
    BY <1>16, <2>1, SettleType, EmptyQueue DEF BuyPlaced, DrainType,
       Event, PCs, ServiceType
  <2>4. BrokerType'
    BY <1>16, <2>1 DEF BuyPlaced, BrokerType, AcceptBracket, Event
  <2>5. HistoryType'
    BY <1>16, <2>1, BoundsAssumption DEF BuyPlaced, HistoryType,
       AcceptBracket, Event
  <2>6. EngineType' /\ ClientType' /\ ClockType'
    BY <1>16 DEF BuyPlaced, EngineType, ClientType, ClockType,
       engineVars, clientVars, clockVars
  <2>7. QED
    BY <2>1, <2>2, <2>3, <2>4, <2>5, <2>6 DEF TypeOK
<1>17. CASE BuyPlacedNoStopId
  <2>1. cur \in Event
    BY <1>17 DEF BuyPlacedNoStopId, InHand, Sending
  <2>2. ServiceType'
    BY <1>17, <2>1, SettleType, EmptyQueue DEF BuyPlacedNoStopId,
       ServiceType, DrainType
  <2>3. DrainType'
    BY <1>17, <2>1, SettleType, EmptyQueue DEF BuyPlacedNoStopId,
       DrainType, Event, PCs, ServiceType
  <2>4. BrokerType'
    BY <1>17, <2>1 DEF BuyPlacedNoStopId, BrokerType, AcceptBracket,
       RefuseBracket, Event
  <2>5. HistoryType'
    BY <1>17, <2>1, BoundsAssumption DEF BuyPlacedNoStopId, HistoryType,
       AcceptBracket, RefuseBracket, Note, Mishap, Event
  <2>6. EngineType' /\ ClientType' /\ ClockType'
    BY <1>17 DEF BuyPlacedNoStopId, EngineType, ClientType, ClockType,
       engineVars, clientVars, clockVars
  <2>7. QED
    BY <2>1, <2>2, <2>3, <2>4, <2>5, <2>6 DEF TypeOK
<1>18. CASE BuyFails
  <2>1. cur \in Event
    BY <1>18 DEF BuyFails, InHand, Sending
  <2>2. ServiceType'
    BY <1>18, <2>1, SettleType, EmptyQueue DEF BuyFails, ServiceType,
       DrainType
  <2>3. DrainType'
    BY <1>18, <2>1, SettleType, EmptyQueue DEF BuyFails, DrainType, PCs,
       ServiceType
  <2>4. BrokerType'
    BY <1>18, <2>1 DEF BuyFails, BrokerType, AcceptBracket,
       RefuseBracket, Event
  <2>5. HistoryType'
    BY <1>18, <2>1, BoundsAssumption DEF BuyFails, HistoryType,
       AcceptBracket, RefuseBracket, Note, Mishap, Event
  <2>6. EngineType' /\ ClientType' /\ ClockType'
    BY <1>18 DEF BuyFails, EngineType, ClientType, ClockType,
       engineVars, clientVars, clockVars
  <2>7. QED
    BY <2>1, <2>2, <2>3, <2>4, <2>5, <2>6 DEF TypeOK
<1>19. CASE SellResolve
  <2>1. cur \in Event
    BY <1>19 DEF SellResolve, InHand, Sending
  <2>2. ServiceType'
    BY <1>19, <2>1, SettleType, EmptyQueue DEF SellResolve, ServiceType,
       DrainType
  <2>3. ClientType'
    BY <1>19, <2>1 DEF SellResolve, ClientType, Event
  <2>4. DrainType'
    BY <1>19, <2>1, SettleType, EmptyQueue DEF SellResolve, DrainType,
       PCs, ServiceType
  <2>5. HistoryType'
    BY <1>19, <2>1, BoundsAssumption DEF SellResolve, HistoryType, Note,
       Mishap, Event
  <2>6. EngineType' /\ BrokerType' /\ ClockType'
    BY <1>19 DEF SellResolve, EngineType, BrokerType, ClockType,
       engineVars, brokerVars, clockVars
  <2>7. QED
    BY <2>1, <2>2, <2>3, <2>4, <2>5, <2>6 DEF TypeOK
<1>20. CASE SellCancel
  <2>1. cur \in Event
    BY <1>20 DEF SellCancel, InHand, Sending
  <2>2. DrainType'
    BY <1>20, <2>1, EmptyQueue DEF SellCancel, DrainType, PCs
  <2>3. BrokerType'
    BY <1>20, <2>1 DEF SellCancel, BrokerType, Event
  <2>4. ServiceType' /\ EngineType' /\ ClientType' /\ ClockType' /\ HistoryType'
    BY <1>20 DEF SellCancel, ServiceType, EngineType, ClientType,
       ClockType, HistoryType, svcVars, engineVars, clientVars,
       clockVars, histVars
  <2>5. QED
    BY <2>1, <2>2, <2>3, <2>4 DEF TypeOK
<1>21. CASE SellPlace
  <2>1. cur \in Event
    BY <1>21 DEF SellPlace, InHand, Sending
  <2>2. ServiceType'
    BY <1>21, <2>1, SettleType, EmptyQueue DEF SellPlace, ServiceType,
       DrainType
  <2>3. DrainType'
    BY <1>21, <2>1, SettleType, EmptyQueue DEF SellPlace, DrainType,
       PCs, ServiceType
  <2>4. BrokerType'
    BY <1>21, <2>1 DEF SellPlace, BrokerType, Event
  <2>5. HistoryType'
    BY <1>21, <2>1, BoundsAssumption DEF SellPlace, HistoryType, Note,
       Mishap, Event
  <2>6. EngineType' /\ ClientType' /\ ClockType'
    BY <1>21 DEF SellPlace, EngineType, ClientType, ClockType,
       engineVars, clientVars, clockVars
  <2>7. QED
    BY <2>1, <2>2, <2>3, <2>4, <2>5, <2>6 DEF TypeOK
<1>22. CASE DrainEnd
  <2>1. ServiceType'
    BY <1>22, EmptyQueue DEF DrainEnd, ServiceType
  <2>2. DrainType'
    BY <1>22, EmptyQueue DEF DrainEnd, DrainType, PCs
  <2>3. EngineType' /\ ClientType' /\ BrokerType' /\ ClockType' /\ HistoryType'
    BY <1>22 DEF DrainEnd, EngineType, ClientType, BrokerType,
       ClockType, HistoryType, engineVars, clientVars, brokerVars,
       clockVars, histVars
  <2>4. QED
    BY <2>1, <2>2, <2>3 DEF TypeOK
<1>23. CASE PortfolioRequest
  <2>1. ClientType'
    BY <1>23 DEF PortfolioRequest, ClientType
  <2>2. ServiceType' /\ EngineType' /\ DrainType' /\ BrokerType' /\ ClockType' /\ HistoryType'
    BY <1>23 DEF PortfolioRequest, ServiceType, EngineType, DrainType,
       BrokerType, ClockType, HistoryType, svcVars, engineVars,
       drainVars, brokerVars, clockVars, histVars
  <2>3. QED
    BY <2>1, <2>2 DEF TypeOK
<1>24. ASSUME NEW s \in Symbols, ParentFills(s) PROVE TypeOK'
  <2>1. BrokerType'
    BY <1>24 DEF ParentFills, BrokerType
  <2>2. ServiceType' /\ EngineType' /\ ClientType' /\ DrainType' /\ ClockType' /\ HistoryType'
    BY <1>24 DEF ParentFills, ServiceType, EngineType, ClientType,
       DrainType, ClockType, HistoryType, svcVars, engineVars,
       clientVars, drainVars, clockVars, histVars
  <2>3. QED
    BY <2>1, <2>2 DEF TypeOK
<1>25. ASSUME NEW s \in Symbols, StopFills(s) PROVE TypeOK'
  <2>1. BrokerType'
    BY <1>25 DEF StopFills, BrokerType
  <2>2. ServiceType' /\ EngineType' /\ ClientType' /\ DrainType' /\ ClockType' /\ HistoryType'
    BY <1>25 DEF StopFills, ServiceType, EngineType, ClientType,
       DrainType, ClockType, HistoryType, svcVars, engineVars,
       clientVars, drainVars, clockVars, histVars
  <2>3. QED
    BY <2>1, <2>2 DEF TypeOK
<1>26. ASSUME NEW s \in Symbols, SellFills(s) PROVE TypeOK'
  <2>1. BrokerType'
    BY <1>26 DEF SellFills, BrokerType
  <2>2. ServiceType' /\ EngineType' /\ ClientType' /\ DrainType' /\ ClockType' /\ HistoryType'
    BY <1>26 DEF SellFills, ServiceType, EngineType, ClientType,
       DrainType, ClockType, HistoryType, svcVars, engineVars,
       clientVars, drainVars, clockVars, histVars
  <2>3. QED
    BY <2>1, <2>2 DEF TypeOK
<1>27. CASE OpeningBell
  <2>1. ClockType'
    BY <1>27 DEF OpeningBell, ClockType, Phases
  <2>2. ServiceType' /\ EngineType' /\ ClientType' /\ DrainType' /\ BrokerType' /\ HistoryType'
    BY <1>27 DEF OpeningBell, ServiceType, EngineType, ClientType,
       DrainType, BrokerType, HistoryType, svcVars, engineVars,
       clientVars, drainVars, brokerVars, histVars
  <2>3. QED
    BY <2>1, <2>2 DEF TypeOK
<1>28. CASE ClosingBell
  <2>1. BrokerType'
    BY <1>28 DEF ClosingBell, BrokerType
  <2>2. ClockType'
    BY <1>28 DEF ClosingBell, ClockType, Phases
  <2>3. HistoryType'
    BY <1>28, BoundsAssumption DEF ClosingBell, HistoryType, Mishap
  <2>4. ServiceType' /\ EngineType' /\ ClientType' /\ DrainType'
    BY <1>28 DEF ClosingBell, ServiceType, EngineType, ClientType,
       DrainType, svcVars, engineVars, clientVars, drainVars
  <2>5. QED
    BY <2>1, <2>2, <2>3, <2>4 DEF TypeOK
<1>29. CASE Nightfall
  <2>1. ClockType'
    BY <1>29 DEF Nightfall, ClockType, Phases
  <2>2. ServiceType' /\ EngineType' /\ ClientType' /\ DrainType' /\ BrokerType' /\ HistoryType'
    BY <1>29 DEF Nightfall, ServiceType, EngineType, ClientType,
       DrainType, BrokerType, HistoryType, svcVars, engineVars,
       clientVars, drainVars, brokerVars, histVars
  <2>3. QED
    BY <2>1, <2>2 DEF TypeOK
<1>30. CASE NextMorning
  <2>1. ClockType'
    BY <1>30 DEF NextMorning, ClockType, Phases
  <2>2. ServiceType' /\ EngineType' /\ ClientType' /\ DrainType' /\ BrokerType' /\ HistoryType'
    BY <1>30 DEF NextMorning, ServiceType, EngineType, ClientType,
       DrainType, BrokerType, HistoryType, svcVars, engineVars,
       clientVars, drainVars, brokerVars, histVars
  <2>3. QED
    BY <2>1, <2>2 DEF TypeOK
<1>31. CASE Crash
  <2>1. DrainType'
    BY <1>31, BoundsAssumption, EmptyQueue DEF Crash, DrainType, PCs
  <2>2. HistoryType'
    BY <1>31, BoundsAssumption DEF Crash, HistoryType, Note, Mishap,
       Event, InHand, Sending
  <2>3. ServiceType' /\ EngineType' /\ ClientType' /\ BrokerType' /\ ClockType'
    BY <1>31 DEF Crash, ServiceType, EngineType, ClientType, BrokerType,
       ClockType, svcVars, engineVars, clientVars, brokerVars, clockVars
  <2>4. QED
    BY <2>1, <2>2, <2>3 DEF TypeOK
<1>32. CASE Restart
  <2>1. ServiceType'
    BY <1>32, SwitchAssumption, EmptyQueue DEF Restart, ServiceType,
       Outcome
  <2>2. EngineType'
    BY <1>32, SwitchAssumption DEF Restart, EngineType, ClockType
  <2>3. ClientType'
    BY <1>32, SwitchAssumption DEF Restart, ClientType
  <2>4. DrainType'
    BY <1>32, SwitchAssumption, EmptyQueue DEF Restart, DrainType, PCs
  <2>5. HistoryType'
    BY <1>32, BoundsAssumption, SwitchAssumption DEF Restart,
       HistoryType
  <2>6. BrokerType' /\ ClockType'
    BY <1>32 DEF Restart, BrokerType, ClockType, brokerVars, clockVars
  <2>7. QED
    BY <2>1, <2>2, <2>3, <2>4, <2>5, <2>6 DEF TypeOK
<1>33. CASE UNCHANGED vars
  BY <1>33 DEF vars, svcVars, engineVars, clientVars, drainVars,
     brokerVars, clockVars, histVars, ServiceType, EngineType, ClientType,
     DrainType, BrokerType, ClockType, HistoryType
<1>34. QED
  BY <1>1, <1>2, <1>3, <1>4, <1>5, <1>6, <1>7, <1>8, <1>9, <1>10, <1>11,
     <1>12, <1>13, <1>14, <1>15, <1>16, <1>17, <1>18, <1>19, <1>20, <1>21,
     <1>22, <1>23, <1>24, <1>25, <1>26, <1>27, <1>28, <1>29, <1>30, <1>31,
     <1>32, <1>33 DEF Next, Engine, Drain, Broker


(* An event is in hand exactly while its send is under way.                *)
LEMMA InHandStep == TypeOK /\ InHand /\ [Next]_vars => InHand'
<1> SUFFICES ASSUME TypeOK, InHand, [Next]_vars PROVE InHand'
  OBVIOUS
<1> USE DEF InHand, Sending
<1>1. CASE TakeBuy \/ TakeSell
  BY <1>1, HeadTail DEF TakeBuy, TakeSell, TypeOK, DrainType
<1>2. CASE BuyResolve
  BY <1>2 DEF BuyResolve, Settle, Raise
<1>3. CASE BuyPlaced \/ BuyPlacedNoStopId \/ BuyFails
  BY <1>3 DEF BuyPlaced, BuyPlacedNoStopId, BuyFails, Settle, Raise
<1>4. CASE SellResolve
  BY <1>4 DEF SellResolve, Settle, Raise
<1>5. CASE SellCancel \/ SellPlace
  BY <1>5 DEF SellCancel, SellPlace, Settle, Raise
<1>6. CASE TakeRaises \/ TakeSkip \/ TakeHalt \/ DrainEnd
  BY <1>6 DEF TakeRaises, TakeSkip, TakeHalt, DrainEnd, Raise
<1>7. CASE TickStart \/ ScanDone \/ ResolveAccount \/ GetPositions \/ SwapQueue
  BY <1>7 DEF TickStart, ScanDone, ResolveAccount, GetPositions, SwapQueue
<1>8. CASE Engine \/ PortfolioRequest
  BY <1>8 DEF Engine, RebuildLive, EngineEntry, EngineReject, EngineExit,
     PortfolioRequest, drainVars
<1>9. CASE Broker
  BY <1>9 DEF Broker, ParentFills, StopFills, SellFills, OpeningBell,
     ClosingBell, Nightfall, NextMorning, drainVars
<1>10. CASE Crash \/ Restart
  BY <1>10 DEF Crash, Restart
<1>11. CASE UNCHANGED vars
  BY <1>11 DEF vars, drainVars
<1>12. QED
  BY <1>1, <1>2, <1>3, <1>4, <1>5, <1>6, <1>7, <1>8, <1>9, <1>10, <1>11
     DEF Next, Drain

(* The type invariant holds in every reachable state, whatever the bounds  *)
(* and the switches: every drain is left with the event in hand put down.  *)
THEOREM TypeCorrect == Spec => [](TypeOK /\ InHand)
<1>1. Init => TypeOK /\ InHand
  BY TypeInit
<1>2. TypeOK /\ InHand /\ [Next]_vars => (TypeOK /\ InHand)'
  BY TypeStep, InHandStep
<1>3. QED
  BY <1>1, <1>2, PTL DEF Spec

-----------------------------------------------------------------------------
(* The guards that hold while an order is being sent.                      *)

(* decide looked at the account before the drain took the event up.        *)
PaperInv == PaperOnly /\ (pc \in Sending => isPaper)

LEMMA PaperStep == PaperInv /\ [Next]_vars => PaperInv'
<1> SUFFICES ASSUME PaperInv, [Next]_vars PROVE PaperInv'
  OBVIOUS
<1> USE DEF PaperInv, PaperOnly, Sending
<1>1. CASE TakeBuy \/ TakeSell
  BY <1>1 DEF TakeBuy, TakeSell, Buys, Sells, brokerVars, histVars
<1>2. CASE BuyResolve \/ SellResolve
  BY <1>2 DEF BuyResolve, SellResolve, Settle, Raise, brokerVars, histVars
<1>3. CASE BuyPlaced \/ BuyPlacedNoStopId \/ BuyFails
  BY <1>3 DEF BuyPlaced, BuyPlacedNoStopId, BuyFails
<1>4. CASE SellCancel \/ SellPlace
  BY <1>4 DEF SellCancel, SellPlace, histVars
<1>5. CASE TakeRaises \/ TakeSkip \/ TakeHalt \/ DrainEnd
  BY <1>5 DEF TakeRaises, TakeSkip, TakeHalt, DrainEnd, Raise, brokerVars,
     histVars
<1>6. CASE TickStart \/ ScanDone \/ ResolveAccount \/ GetPositions \/ SwapQueue
  BY <1>6 DEF TickStart, ScanDone, ResolveAccount, GetPositions, SwapQueue,
     brokerVars, histVars
<1>7. CASE Engine \/ PortfolioRequest
  BY <1>7 DEF Engine, RebuildLive, EngineEntry, EngineReject, EngineExit,
     PortfolioRequest, drainVars, brokerVars, histVars
<1>8. CASE Broker
  BY <1>8 DEF Broker, ParentFills, StopFills, SellFills, OpeningBell,
     ClosingBell, Nightfall, NextMorning, drainVars, brokerVars, histVars
<1>9. CASE Crash \/ Restart
  BY <1>9 DEF Crash, Restart, brokerVars
<1>10. CASE UNCHANGED vars
  BY <1>10 DEF vars, drainVars, brokerVars, histVars
<1>11. QED
  BY <1>1, <1>2, <1>3, <1>4, <1>5, <1>6, <1>7, <1>8, <1>9, <1>10
     DEF Next, Drain

(* No order ever goes to an account whose id does not start with DU.       *)
THEOREM PaperCorrect == Spec => []PaperOnly
<1>1. Init => PaperInv
  BY DEF Init, PaperInv, PaperOnly, Sending
<1>2. PaperInv => PaperOnly
  BY DEF PaperInv
<1>3. QED
  BY <1>1, <1>2, PaperStep, PTL DEF Spec

(* The breaker is looked at when the drain takes an entry up, and it trips *)
(* only between drains.                                                    *)
HaltInv == pc \in {"buyResolve", "buyPlace"} => ~entriesHalted

LEMMA HaltStep == HaltInv /\ [Next]_vars => HaltInv'
<1> SUFFICES ASSUME HaltInv, [Next]_vars PROVE HaltInv'
  OBVIOUS
<1> USE DEF HaltInv
<1>1. CASE TakeBuy \/ TakeSell
  BY <1>1 DEF TakeBuy, TakeSell, Buys, svcVars
<1>2. CASE BuyResolve \/ SellResolve
  BY <1>2 DEF BuyResolve, SellResolve, Settle, Raise, svcVars
<1>3. CASE BuyPlaced \/ BuyPlacedNoStopId \/ BuyFails
  BY <1>3 DEF BuyPlaced, BuyPlacedNoStopId, BuyFails, Settle, Raise
<1>4. CASE SellCancel \/ SellPlace
  BY <1>4 DEF SellCancel, SellPlace, Settle, Raise
<1>5. CASE TakeRaises \/ TakeSkip \/ TakeHalt \/ DrainEnd
  BY <1>5 DEF TakeRaises, TakeSkip, TakeHalt, DrainEnd, Raise
<1>6. CASE TickStart \/ ScanDone \/ ResolveAccount \/ GetPositions \/ SwapQueue
  BY <1>6 DEF TickStart, ScanDone, ResolveAccount, GetPositions, SwapQueue
<1>7. CASE Engine \/ PortfolioRequest
  BY <1>7 DEF Engine, RebuildLive, EngineEntry, EngineReject, EngineExit,
     PortfolioRequest, drainVars, svcVars
<1>8. CASE Broker
  BY <1>8 DEF Broker, ParentFills, StopFills, SellFills, OpeningBell,
     ClosingBell, Nightfall, NextMorning, drainVars, svcVars
<1>9. CASE Crash \/ Restart
  BY <1>9 DEF Crash, Restart
<1>10. CASE UNCHANGED vars
  BY <1>10 DEF vars, drainVars, svcVars
<1>11. QED
  BY <1>1, <1>2, <1>3, <1>4, <1>5, <1>6, <1>7, <1>8, <1>9, <1>10
     DEF Next, Drain

(* Only the three outcomes of an entry's POST enlarge the open entries.    *)
LEMMA EntriesGrow ==
  ASSUME TypeOK, [Next]_vars, pc # "buyPlace", NEW s \in Symbols
  PROVE  parents'[s] \subseteq parents[s]
<1> USE DEF TypeOK, BrokerType
<1>1. CASE \E t \in Symbols : ParentFills(t)
  BY <1>1 DEF ParentFills
<1>2. CASE ClosingBell
  BY <1>2 DEF ClosingBell
<1>3. CASE parents' = parents
  BY <1>3
<1>4. CASE BuyPlaced \/ BuyPlacedNoStopId \/ BuyFails
  BY <1>4 DEF BuyPlaced, BuyPlacedNoStopId, BuyFails
<1>5. CASE Drain /\ ~(BuyPlaced \/ BuyPlacedNoStopId \/ BuyFails)
  BY <1>3, <1>5 DEF Drain, TickStart, ScanDone, ResolveAccount, GetPositions,
     SwapQueue, TakeRaises, TakeSkip, TakeHalt, TakeBuy, TakeSell, BuyResolve,
     SellResolve, SellCancel, SellPlace, DrainEnd, brokerVars
<1>6. CASE Engine \/ PortfolioRequest \/ Crash \/ Restart \/ UNCHANGED vars
  BY <1>3, <1>6 DEF Engine, RebuildLive, EngineEntry, EngineReject,
     EngineExit, PortfolioRequest, Crash, Restart, vars, brokerVars
<1>7. CASE Broker /\ ~(\E t \in Symbols : ParentFills(t)) /\ ~ClosingBell
  BY <1>3, <1>7 DEF Broker, StopFills, SellFills, OpeningBell, Nightfall,
     NextMorning, brokerVars
<1>8. QED
  BY <1>1, <1>2, <1>4, <1>5, <1>6, <1>7 DEF Next

(* Once the breaker has tripped no entry goes out, in any interleaving of  *)
(* scans, drains and restarts.                                             *)
THEOREM HaltCorrect == Spec => HaltedSendsNoEntry
<1>1. Init => HaltInv
  BY DEF Init, HaltInv
<1>2. TypeOK /\ HaltInv /\ [Next]_vars =>
        (entriesHalted /\ entriesHalted' =>
           \A s \in Symbols : parents'[s] \subseteq parents[s])
  BY EntriesGrow DEF HaltInv
<1>3. QED
  BY <1>1, <1>2, HaltStep, TypeCorrect, PTL DEF Spec, HaltedSendsNoEntry

-----------------------------------------------------------------------------
(***************************************************************************)
(* Where each event is, and that the drain delivers them as IntentFifo     *)
(* promises.                                                               *)
(***************************************************************************)

-----------------------------------------------------------------------------
(* The ids of a queue.                                                     *)

Sorted(seq) ==
  \A j, k \in 1 .. Len(seq) : j < k => seq[j].id < seq[k].id

(* The empty queue has no ids.                                             *)
LEMMA IdsEmpty == IdsOf(<<>>) = {} /\ Sorted(<<>>)
  BY DEF IdsOf, Sorted

(* A queue holds the id of its head and the ids of its tail; sorted, the   *)
(* head's is below the tail's.                                             *)
LEMMA IdsHeadTail ==
  ASSUME NEW seq \in Seq(Event), seq # <<>>
  PROVE  /\ IdsOf(seq) = {Head(seq).id} \cup IdsOf(Tail(seq))
         /\ Sorted(seq) => /\ Sorted(Tail(seq))
                           /\ \A i \in IdsOf(Tail(seq)) : Head(seq).id < i
<1>1. /\ Len(seq) \in Nat \ {0}
      /\ Len(Tail(seq)) = Len(seq) - 1
      /\ Head(seq) = seq[1]
      /\ \A k \in 1 .. Len(seq) - 1 : Tail(seq)[k] = seq[k + 1]
  OBVIOUS
<1>2. IdsOf(seq) \subseteq {Head(seq).id} \cup IdsOf(Tail(seq))
  <2> SUFFICES ASSUME NEW k \in 1 .. Len(seq)
               PROVE  \/ seq[k].id = Head(seq).id
                      \/ \E j \in 1 .. Len(Tail(seq)) :
                           seq[k].id = Tail(seq)[j].id
    BY DEF IdsOf
  <2>1. CASE k = 1
    BY <1>1, <2>1
  <2>2. CASE k > 1
    <3>1. k - 1 \in 1 .. Len(Tail(seq))
      BY <1>1, <2>2
    <3>2. Tail(seq)[k - 1] = seq[k]
      BY <1>1, <2>2
    <3>3. QED
      BY <3>1, <3>2
  <2>3. QED
    BY <2>1, <2>2, <1>1
<1>3. ASSUME NEW j \in 1 .. Len(Tail(seq))
      PROVE  /\ j + 1 \in 1 .. Len(seq)
             /\ Tail(seq)[j] = seq[j + 1]
  BY <1>1
<1>4. {Head(seq).id} \cup IdsOf(Tail(seq)) \subseteq IdsOf(seq)
  <2>1. Head(seq).id \in IdsOf(seq)
    BY <1>1 DEF IdsOf
  <2>2. IdsOf(Tail(seq)) \subseteq IdsOf(seq)
    BY <1>3 DEF IdsOf
  <2>3. QED
    BY <2>1, <2>2
<1>5. ASSUME Sorted(seq) PROVE Sorted(Tail(seq))
  BY <1>1, <1>3, <1>5 DEF Sorted
<1>6. ASSUME Sorted(seq), NEW i \in IdsOf(Tail(seq))
      PROVE  Head(seq).id < i
  BY <1>1, <1>3, <1>6 DEF Sorted, IdsOf
<1>7. QED
  BY <1>2, <1>4, <1>5, <1>6

(* Appending an event adds its id, and keeps the queue sorted when the id  *)
(* is above all of the others.                                             *)
LEMMA IdsAppend ==
  ASSUME NEW seq \in Seq(Event), NEW ev \in Event
  PROVE  /\ IdsOf(Append(seq, ev)) = IdsOf(seq) \cup {ev.id}
         /\ Sorted(seq) /\ (\A i \in IdsOf(seq) : i < ev.id)
              => Sorted(Append(seq, ev))
<1> DEFINE new == Append(seq, ev)
<1>1. /\ Len(seq) \in Nat
      /\ Len(new) = Len(seq) + 1
      /\ new[Len(seq) + 1] = ev
      /\ \A k \in 1 .. Len(seq) : new[k] = seq[k]
  OBVIOUS
<1> HIDE DEF new
<1>2. IdsOf(new) \subseteq IdsOf(seq) \cup {ev.id}
  <2> SUFFICES ASSUME NEW k \in 1 .. Len(new)
               PROVE  new[k].id \in IdsOf(seq) \cup {ev.id}
    BY DEF IdsOf
  <2>1. k \in 1 .. Len(seq) \/ k = Len(seq) + 1
    BY <1>1
  <2>2. QED
    BY <1>1, <2>1 DEF IdsOf
<1>3. IdsOf(seq) \cup {ev.id} \subseteq IdsOf(new)
  <2>1. Len(seq) + 1 \in 1 .. Len(new) /\ 1 .. Len(seq) \subseteq 1 .. Len(new)
    BY <1>1
  <2>2. ev.id \in IdsOf(new)
    BY <1>1, <2>1 DEF IdsOf
  <2>3. IdsOf(seq) \subseteq IdsOf(new)
    BY <1>1, <2>1 DEF IdsOf
  <2>4. QED
    BY <2>2, <2>3
<1>4. ASSUME Sorted(seq), \A i \in IdsOf(seq) : i < ev.id
      PROVE  Sorted(new)
  <2> SUFFICES ASSUME NEW j \in 1 .. Len(new), NEW k \in 1 .. Len(new), j < k
               PROVE  new[j].id < new[k].id
    BY DEF Sorted
  <2>1. j \in 1 .. Len(seq) /\ (k \in 1 .. Len(seq) \/ k = Len(seq) + 1)
    BY <1>1
  <2>2. QED
    BY <1>1, <1>4, <2>1 DEF Sorted, IdsOf
<1>5. QED
  BY <1>2, <1>3, <1>4 DEF new

(* The ids of a queue of events are ids.                                   *)
LEMMA IdsTyped ==
  ASSUME NEW seq \in Seq(Event)
  PROVE  IdsOf(seq) \subseteq Ids
<1>1. \A k \in 1 .. Len(seq) : seq[k] \in Event
  OBVIOUS
<1>2. QED
  BY <1>1 DEF IdsOf, Event

-----------------------------------------------------------------------------
(* What a step can do to the events: the eight moves.                      *)

eventVars == <<pending, queue, cur, nextId, firstId, sentIds, transmitted>>

InDrain == Sending \cup {"next"}

(* Nothing happens to any event.                                           *)
Stay ==
  /\ UNCHANGED eventVars
  /\ armed' = armed /\ raised' = raised
  /\ pc = "down" => pc' = "down"
  /\ pc' \in InDrain \cup {"down"} \/ pc \notin InDrain \cup {"down"}
       \/ queue = <<>>

(* The engine queues the next event.                                       *)
Enqueue ==
  /\ nextId \in Ids
  /\ \E ev \in Event : ev.id = nextId /\ pending' = Append(pending, ev)
  /\ nextId' = nextId + 1
  /\ UNCHANGED <<queue, cur, firstId, sentIds, transmitted, armed, raised, pc>>

(* The drain takes the whole queue.                                        *)
Grab ==
  /\ pc = "swap" /\ pc' = "next"
  /\ queue' = pending /\ pending' = <<>>
  /\ UNCHANGED <<cur, nextId, firstId, sentIds, transmitted, armed, raised>>

(* The drain takes up the event at the head of its queue.                  *)
TakeUp ==
  /\ pc = "next" /\ pc' \in Sending
  /\ queue # <<>>
  /\ cur' = Head(queue) /\ queue' = Tail(queue)
  /\ UNCHANGED <<pending, nextId, firstId, sentIds, transmitted, armed, raised>>

(* The drain records the event at the head of its queue and, when it       *)
(* disarms, drops the others.                                              *)
Record ==
  /\ pc = "next" /\ pc' = "next"
  /\ queue # <<>>
  /\ \E outcome \in Outcome \ {"none"} :
       transmitted' = [transmitted EXCEPT ![Head(queue).id] = outcome]
  /\ \/ queue' = Tail(queue) /\ armed' = armed
     \/ queue' = <<>> /\ armed' = FALSE
  /\ UNCHANGED <<pending, cur, nextId, firstId, sentIds, raised>>

(* An exception ends the drain before an event is taken up.                *)
Abandon ==
  /\ pc = "next" /\ pc' = "sleep"
  /\ queue' = <<>> /\ raised' = TRUE
  /\ cur' = NoEvent
  /\ UNCHANGED <<pending, nextId, firstId, sentIds, transmitted>>

(* The event in hand is sent or not, and recorded or lost with the rest of *)
(* the drain's queue.                                                      *)
Conclude ==
  /\ pc \in Sending
  /\ cur \in Event /\ cur' = NoEvent
  /\ sentIds' \in {sentIds, sentIds \cup {cur.id}}
  /\ \/ /\ pc' = "next" /\ queue' = queue /\ raised' = raised
        /\ \E outcome \in Outcome \ {"none"} :
             transmitted' = [transmitted EXCEPT ![cur.id] = outcome]
     \/ /\ pc' = "sleep" /\ queue' = <<>> /\ raised' = TRUE
        /\ transmitted' = transmitted
  /\ UNCHANGED <<pending, nextId, firstId, armed>>

(* The process starts again and has forgotten them all.                    *)
Forget ==
  /\ pc' = "sleep"
  /\ pending' = <<>> /\ queue' = <<>> /\ cur' = NoEvent
  /\ transmitted' = [i \in Ids |-> "none"]
  /\ firstId' = nextId
  /\ UNCHANGED <<nextId, sentIds>>

Move == Stay \/ Enqueue \/ Grab \/ TakeUp \/ Record \/ Abandon \/ Conclude
          \/ Forget

(* An entry or an exit of the engine queues an event or leaves none.       *)
LEMMA QueueMoves ==
  ASSUME TypeOK, pc # "down", nextId <= MaxId,
         NEW s \in Symbols, NEW kind \in {"entry", "exit"}, Queue(kind, s),
         UNCHANGED <<armed, transmitted, firstId, sentIds, drainVars>>
  PROVE  Stay \/ Enqueue
<1> DEFINE ev == [id |-> nextId, kind |-> kind, sym |-> s,
                  shares |-> 1, stop |-> 1]
<1>1. nextId \in Ids
  BY BoundsAssumption DEF TypeOK, HistoryType, Ids
<1>2. ev \in Event /\ ev.id = nextId
  BY <1>1 DEF Event
<1>3. \/ pending' = Append(pending, ev) /\ nextId' = nextId + 1
      \/ pending' = pending /\ nextId' = nextId
  BY DEF Queue
<1>4. CASE pending' = pending /\ nextId' = nextId
  BY <1>4 DEF Stay, eventVars, drainVars
<1>5. CASE pending' = Append(pending, ev) /\ nextId' = nextId + 1
  BY <1>1, <1>2, <1>5 DEF Enqueue, drainVars
<1>6. QED
  BY <1>3, <1>4, <1>5

(* Settling the event in hand concludes it.                                *)
LEMMA SettleConcludes ==
  ASSUME TypeOK, InHand, pc \in Sending,
         NEW outcome \in {"sent", "error"}, Settle(cur, outcome),
         sentIds' \in {sentIds, sentIds \cup {cur.id}},
         UNCHANGED <<pending, nextId, firstId, armed>>
  PROVE  Conclude
<1>1. cur \in Event
  BY DEF InHand
<1>2. QED
  BY <1>1 DEF Conclude, Settle, Raise, Outcome

(* Every step is one of the moves.                                         *)
LEMMA EveryStepMoves == TypeOK /\ InHand /\ [Next]_vars => Move
<1> SUFFICES ASSUME TypeOK, InHand, [Next]_vars PROVE Move
  OBVIOUS
<1> USE DEF Move
<1>1. ASSUME NEW s \in Symbols, EngineEntry(s) \/ EngineExit(s)
      PROVE  Stay \/ Enqueue
  BY <1>1, QueueMoves DEF EngineEntry, EngineExit
<1>2. CASE \/ RebuildLive \/ PortfolioRequest
           \/ \E s \in Symbols : EngineReject(s)
  BY <1>2 DEF RebuildLive, PortfolioRequest, EngineReject, Stay, eventVars,
     svcVars, drainVars, histVars
<1>3. CASE TickStart \/ ScanDone \/ ResolveAccount
  BY <1>3 DEF TickStart, ScanDone, ResolveAccount, Stay, eventVars, InDrain,
     Sending, svcVars, histVars
<1>4. CASE GetPositions
  BY <1>4 DEF GetPositions, Stay, eventVars, InDrain, Sending, svcVars
<1>5. CASE SwapQueue
  BY <1>5 DEF SwapQueue, Grab, histVars
<1>6. CASE TakeRaises
  BY <1>6 DEF TakeRaises, Raise, Abandon, svcVars, histVars
<1>7. CASE TakeSkip \/ TakeHalt
  BY <1>7 DEF TakeSkip, TakeHalt, Record, Outcome, histVars
<1>8. CASE TakeBuy \/ TakeSell
  BY <1>8 DEF TakeBuy, TakeSell, TakeUp, Sending, svcVars, histVars
<1>9. CASE BuyResolve
  <2>1. CASE Settle(cur, "error")
    BY <1>9, <2>1, SettleConcludes DEF BuyResolve, Sending, histVars
  <2>2. CASE pc' = "buyPlace" /\ UNCHANGED <<transmitted, queue, cur, raised>>
    BY <1>9, <2>2 DEF BuyResolve, Stay, eventVars, InDrain, Sending, histVars
  <2>3. QED
    BY <1>9, <2>1, <2>2 DEF BuyResolve
<1>10. CASE BuyPlaced
  BY <1>10, SettleConcludes DEF BuyPlaced, AcceptBracket, Sending
<1>11. CASE BuyPlacedNoStopId
  BY <1>11, SettleConcludes
     DEF BuyPlacedNoStopId, AcceptBracket, RefuseBracket, Sending
<1>12. CASE BuyFails
  BY <1>12, SettleConcludes DEF BuyFails, AcceptBracket, RefuseBracket, Sending
<1>13. CASE SellResolve
  <2>1. CASE Settle(cur, "error")
    BY <1>13, <2>1, SettleConcludes DEF SellResolve, Sending
  <2>2. CASE /\ pc' \in {"sellPlace", "sellCancel"}
             /\ UNCHANGED <<transmitted, queue, cur, raised>>
    BY <1>13, <2>2 DEF SellResolve, Stay, eventVars, InDrain, Sending
  <2>3. QED
    BY <1>13, <2>1, <2>2 DEF SellResolve
<1>14. CASE SellCancel
  BY <1>14 DEF SellCancel, Stay, eventVars, InDrain, Sending, svcVars, histVars
<1>15. CASE SellPlace
  BY <1>15, SettleConcludes DEF SellPlace, Sending
<1>16. CASE DrainEnd
  BY <1>16 DEF DrainEnd, Stay, eventVars, histVars
<1>17. CASE Broker
  BY <1>17 DEF Broker, ParentFills, StopFills, SellFills, OpeningBell,
     ClosingBell, Nightfall, NextMorning, Stay, eventVars, svcVars, drainVars,
     histVars
<1>18. CASE Crash
  BY <1>18 DEF Crash, Stay, eventVars, InDrain, svcVars
<1>19. CASE Restart
  BY <1>19 DEF Restart, Forget
<1>20. CASE UNCHANGED vars
  BY <1>20 DEF vars, Stay, eventVars, svcVars, drainVars, histVars
<1>21. QED
  BY <1>1, <1>2, <1>3, <1>4, <1>5, <1>6, <1>7, <1>8, <1>9, <1>10, <1>11,
     <1>12, <1>13, <1>14, <1>15, <1>16, <1>17, <1>18, <1>19, <1>20
     DEF Next, Engine, Drain

-----------------------------------------------------------------------------
(* The inductive invariant: ids grow from the broker through the log and   *)
(* the hand of the drain to its queue and to the queue of the engine.      *)

Queued == IdsOf(queue) \cup IdsOf(pending)

Logged == {i \in Ids : transmitted[i] # "none"}

(* The two queues are sorted, and the drain's is older than the engine's.  *)
QueuesSorted ==
  /\ Sorted(queue) /\ Sorted(pending)
  /\ \A i \in IdsOf(queue), j \in IdsOf(pending) : i < j

(* What waits was created by this process, after the event in hand.        *)
QueuedRange ==
  \A i \in Queued : firstId <= i /\ i < nextId /\ cur.id < i

CurRange == cur # NoEvent => firstId <= cur.id /\ cur.id < nextId

(* What was sent, by this process or an earlier one, is older than what    *)
(* waits and than the event in hand.                                       *)
SentBefore ==
  \A i \in sentIds :
    /\ i < nextId
    /\ cur # NoEvent => i < cur.id
    /\ \A j \in Queued : i < j

(* So is what this process has recorded.                                   *)
LoggedBefore ==
  \A i \in Logged :
    /\ firstId <= i /\ i < nextId
    /\ cur # NoEvent => i < cur.id
    /\ \A j \in Queued : i < j

(* Outside of a drain its queue is empty.                                  *)
QueueInDrain == pc \notin InDrain \cup {"down"} => queue = <<>>

(* No event of this process is nowhere.                                    *)
NoneMissing ==
  armed /\ ~raised /\ pc # "down" =>
    \A i \in firstId .. nextId - 1 : i \in Queued \cup {cur.id} \cup Logged

OrderInv ==
  /\ QueuesSorted /\ QueuedRange /\ CurRange /\ SentBefore /\ LoggedBefore
  /\ QueueInDrain /\ NoneMissing

(* Ids are numbers, and an empty hand has a smaller one than any event.    *)
LEMMA IdTypes ==
  ASSUME TypeOK
  PROVE  /\ Ids \subseteq Nat \ {0}
         /\ queue \in Seq(Event) /\ pending \in Seq(Event)
         /\ Queued \subseteq Ids /\ Logged \subseteq Ids /\ sentIds \subseteq Ids
         /\ nextId \in Nat /\ firstId \in Nat
         /\ cur \in Event => cur.id \in Ids /\ cur # NoEvent
         /\ cur = NoEvent => cur.id = 0
         /\ cur.id \in Nat
<1>1. Ids \subseteq Nat \ {0}
  BY BoundsAssumption DEF Ids
<1>2. queue \in Seq(Event) /\ pending \in Seq(Event)
  BY DEF TypeOK, DrainType, ServiceType
<1>3. Queued \subseteq Ids
  BY <1>2, IdsTyped DEF Queued
<1>4. Logged \subseteq Ids /\ sentIds \subseteq Ids
  BY DEF Logged, TypeOK, HistoryType
<1>5. nextId \in Nat /\ firstId \in Nat
  BY BoundsAssumption DEF TypeOK, HistoryType
<1>6. cur = NoEvent => cur.id = 0
  BY DEF NoEvent
<1>7. cur \in Event => cur.id \in Ids
  BY DEF Event
<1>8. cur \in Event \/ cur = NoEvent
  BY DEF TypeOK, DrainType
<1>9. cur \in Event => cur # NoEvent
  BY <1>1, <1>6, <1>7
<1>10. cur.id \in Nat
  <2>1. CASE cur \in Event
    BY <2>1, <1>1, <1>7
  <2>2. CASE cur = NoEvent
    BY <2>2, <1>6
  <2>3. QED
    BY <1>8, <2>1, <2>2
<1>11. QED
  BY <1>1, <1>2, <1>3, <1>4, <1>5, <1>6, <1>7, <1>9, <1>10

LEMMA OrderInit == Init => OrderInv
<1> SUFFICES ASSUME Init PROVE OrderInv
  OBVIOUS
<1>1. /\ IdsOf(queue) = {} /\ IdsOf(pending) = {}
      /\ Sorted(queue) /\ Sorted(pending)
  BY IdsEmpty DEF Init
<1>2. Queued = {} /\ Logged = {} /\ sentIds = {} /\ cur = NoEvent
  BY <1>1 DEF Queued, Logged, Init
<1>3. \A i \in firstId .. nextId - 1 : FALSE
  BY DEF Init
<1>4. queue = <<>>
  BY DEF Init
<1>5. QED
  BY <1>1, <1>2, <1>3, <1>4 DEF OrderInv, QueuesSorted, QueuedRange, CurRange,
     SentBefore, LoggedBefore, QueueInDrain, NoneMissing

LEMMA OrderStep == TypeOK /\ InHand /\ OrderInv /\ TypeOK' /\ [Next]_vars => OrderInv'
<1> SUFFICES ASSUME TypeOK, InHand, OrderInv, TypeOK', [Next]_vars
             PROVE  OrderInv'
  OBVIOUS
<1> USE DEF OrderInv, QueuesSorted, QueuedRange, CurRange, SentBefore,
            LoggedBefore, QueueInDrain, NoneMissing
<1>0. Move
  BY EveryStepMoves
<1>1. CASE Stay
  BY <1>1 DEF Stay, eventVars, Queued, Logged, IdsOf, Sorted
<1>2. CASE Enqueue
  <2>1. PICK ev \in Event : ev.id = nextId /\ pending' = Append(pending, ev)
    BY <1>2 DEF Enqueue
  <2>2. IdsOf(queue)' = IdsOf(queue) /\ Sorted(queue)'
    BY <1>2 DEF Enqueue, IdsOf, Sorted
  <2>3. \A i \in IdsOf(pending) : i < ev.id
    BY <2>1 DEF Queued
  <2>4. IdsOf(pending)' = IdsOf(pending) \cup {nextId} /\ Sorted(pending)'
    BY <2>1, <2>3, IdsAppend, IdTypes
  <2>5. Queued' = Queued \cup {nextId} /\ Logged' = Logged
    BY <1>2, <2>2, <2>4 DEF Enqueue, Queued, Logged
  <2>6. QueuesSorted'
    BY <2>2, <2>4 DEF Queued
  <2>7. cur.id < nextId
    <3>1. nextId > 0
      BY <1>2, IdTypes DEF Enqueue
    <3>2. QED
      BY <3>1, IdTypes
  <2>8. firstId <= nextId /\ nextId' = nextId + 1
    BY <1>2, BoundsAssumption DEF Enqueue, TypeOK, HistoryType
  <2>9. QueuedRange' /\ CurRange'
    BY <1>2, <2>5, <2>7, <2>8, IdTypes DEF Enqueue
  <2>10. SentBefore' /\ LoggedBefore'
    BY <1>2, <2>5, <2>8, IdTypes DEF Enqueue
  <2>11. QueueInDrain'
    BY <1>2 DEF Enqueue, InDrain
  <2>12. NoneMissing'
    <3>1. firstId' .. nextId' - 1 \subseteq (firstId .. nextId - 1) \cup {nextId}
      BY <1>2, <2>8, IdTypes DEF Enqueue
    <3>2. QED
      BY <1>2, <2>5, <3>1 DEF Enqueue
  <2>13. QED
    BY <2>6, <2>9, <2>10, <2>11, <2>12
<1>3. CASE Grab
  <2>1. queue = <<>> /\ pc \notin InDrain
    BY <1>3 DEF Grab, InDrain, Sending
  <2>2. /\ IdsOf(pending)' = {} /\ Sorted(pending)'
        /\ IdsOf(queue)' = IdsOf(pending) /\ Sorted(queue)'
        /\ IdsOf(queue) = {}
    BY <1>3, <2>1, IdsEmpty DEF Grab, IdsOf, Sorted
  <2>3. Queued' = Queued /\ Logged' = Logged
    BY <1>3, <2>2 DEF Grab, Queued, Logged
  <2>4. QED
    BY <1>3, <2>2, <2>3 DEF Grab, InDrain
<1>4. CASE TakeUp
  <2>1. /\ IdsOf(queue) = {Head(queue).id} \cup IdsOf(queue)'
        /\ Sorted(queue)'
        /\ \A i \in IdsOf(queue)' : Head(queue).id < i
    BY <1>4, IdsHeadTail, IdTypes DEF TakeUp
  <2>2. IdsOf(pending)' = IdsOf(pending) /\ Sorted(pending)'
    BY <1>4 DEF TakeUp, IdsOf, Sorted
  <2>3. Queued = {cur'.id} \cup Queued' /\ Logged' = Logged
    BY <1>4, <2>1, <2>2 DEF TakeUp, Queued, Logged
  <2>4. \A i \in Queued' : cur'.id < i
    BY <1>4, <2>1, <2>2 DEF TakeUp, Queued
  <2>5. cur = NoEvent
    BY <1>4 DEF TakeUp, InHand, Sending
  <2>6. cur.id = 0
    BY <2>5 DEF NoEvent
  <2>7. QueuesSorted'
    BY <2>1, <2>2
  <2>8. QueuedRange' /\ CurRange'
    BY <1>4, <2>3, <2>4 DEF TakeUp
  <2>9. SentBefore' /\ LoggedBefore'
    BY <1>4, <2>3 DEF TakeUp
  <2>10. QueueInDrain'
    BY <1>4 DEF TakeUp, InDrain
  <2>11. NoneMissing'
    <3>1. pc # "down"
      BY <1>4 DEF TakeUp
    <3>2. ASSUME NEW i \in firstId .. nextId - 1
          PROVE  i # 0
      BY BoundsAssumption DEF TypeOK, HistoryType
    <3>3. QED
      BY <1>4, <2>3, <2>6, <3>1, <3>2 DEF TakeUp
  <2>12. QED
    BY <2>7, <2>8, <2>9, <2>10, <2>11
<1>5. CASE Record
  <2> DEFINE head == Head(queue).id
  <2>1. /\ IdsOf(queue) = {head} \cup IdsOf(Tail(queue))
        /\ Sorted(Tail(queue))
        /\ \A i \in IdsOf(Tail(queue)) : head < i
    BY <1>5, IdsHeadTail, IdTypes DEF Record
  <2>2. /\ IdsOf(queue)' \subseteq IdsOf(Tail(queue)) /\ Sorted(queue)'
        /\ armed' => IdsOf(queue)' = IdsOf(Tail(queue)) /\ armed
    <3>1. CASE queue' = Tail(queue) /\ armed' = armed
      <4>1. IdsOf(queue)' = IdsOf(Tail(queue)) /\ Sorted(queue)'
        BY <2>1, <3>1 DEF IdsOf, Sorted
      <4>2. QED
        BY <3>1, <4>1
    <3>2. CASE queue' = <<>> /\ armed' = FALSE
      <4>1. IdsOf(queue)' = {} /\ Sorted(queue)'
        BY <3>2, IdsEmpty
      <4>2. QED
        BY <3>2, <4>1
    <3>3. QED
      BY <1>5, <3>1, <3>2 DEF Record
  <2>3. IdsOf(pending)' = IdsOf(pending) /\ Sorted(pending)'
    BY <1>5 DEF Record, IdsOf, Sorted
  <2>4. head \in Queued /\ head \in Ids
    BY <2>1, IdTypes DEF Queued
  <2>5. Logged' = Logged \cup {head}
    BY <1>5, <2>4 DEF Record, Logged, TypeOK, ServiceType
  <2>6. /\ Queued' \subseteq Queued /\ \A i \in Queued' : head < i
        /\ armed' => Queued = Queued' \cup {head} /\ armed
    BY <2>1, <2>2, <2>3 DEF Queued
  <2>7. cur = NoEvent
    BY <1>5 DEF Record, InHand, Sending
  <2>8. QueuesSorted'
    BY <2>1, <2>2, <2>3
  <2> HIDE DEF head
  <2>9. QueuedRange' /\ CurRange' /\ SentBefore'
    BY <1>5, <2>6 DEF Record
  <2>10. LoggedBefore'
    BY <1>5, <2>4, <2>5, <2>6, <2>7 DEF Record
  <2>11. QueueInDrain'
    BY <1>5 DEF Record, InDrain
  <2>12. NoneMissing'
    BY <1>5, <2>5, <2>6 DEF Record
  <2>13. QED
    BY <2>8, <2>9, <2>10, <2>11, <2>12
<1>6. CASE Abandon
  <2>1. IdsOf(queue)' = {} /\ Sorted(queue)'
    BY <1>6, IdsEmpty DEF Abandon
  <2>2. IdsOf(pending)' = IdsOf(pending) /\ Sorted(pending)'
    BY <1>6 DEF Abandon, IdsOf, Sorted
  <2>3. Queued' \subseteq Queued /\ Logged' = Logged
    BY <1>6, <2>1, <2>2 DEF Abandon, Queued, Logged
  <2>4. cur' = cur
    BY <1>6 DEF Abandon, InHand, Sending
  <2>5. QED
    BY <1>6, <2>1, <2>2, <2>3, <2>4 DEF Abandon, InDrain
<1>7. CASE Conclude
  <2>1. /\ cur.id \in Ids /\ cur # NoEvent /\ cur' = NoEvent /\ cur'.id = 0
    BY <1>7, IdTypes DEF Conclude, NoEvent
  <2>2. /\ IdsOf(queue)' \subseteq IdsOf(queue) /\ Sorted(queue)'
        /\ ~raised' => IdsOf(queue)' = IdsOf(queue) /\ ~raised
    BY <1>7, IdsEmpty DEF Conclude, IdsOf, Sorted, TypeOK, DrainType
  <2>3. IdsOf(pending)' = IdsOf(pending) /\ Sorted(pending)'
    BY <1>7 DEF Conclude, IdsOf, Sorted
  <2>4. /\ Queued' \subseteq Queued
        /\ ~raised' => Queued' = Queued /\ ~raised
    BY <2>2, <2>3 DEF Queued
  <2>5. /\ Logged' \subseteq Logged \cup {cur.id}
        /\ ~raised' => Logged' = Logged \cup {cur.id}
    BY <1>7, <2>1 DEF Conclude, Logged, TypeOK, ServiceType
  <2>6. QueuesSorted'
    BY <2>2, <2>3
  <2>7. QueuedRange' /\ CurRange'
    BY <1>7, <2>1, <2>4, IdTypes DEF Conclude
  <2>8. SentBefore' /\ LoggedBefore'
    BY <1>7, <2>1, <2>4, <2>5 DEF Conclude
  <2>9. QueueInDrain'
    BY <1>7, <2>1 DEF Conclude, InDrain
  <2>10. NoneMissing'
    BY <1>7, <2>4, <2>5 DEF Conclude, Sending
  <2>11. QED
    BY <2>6, <2>7, <2>8, <2>9, <2>10
<1>8. CASE Forget
  <2>1. /\ IdsOf(queue)' = {} /\ IdsOf(pending)' = {}
        /\ Sorted(queue)' /\ Sorted(pending)'
    BY <1>8, IdsEmpty DEF Forget
  <2>2. Queued' = {} /\ Logged' = {}
    BY <1>8, <2>1 DEF Forget, Queued, Logged
  <2>3. \A i \in firstId' .. nextId' - 1 : FALSE
    BY <1>8, IdTypes DEF Forget
  <2>4. QED
    BY <1>8, <2>1, <2>2, <2>3 DEF Forget
<1>9. QED
  BY <1>0, <1>1, <1>2, <1>3, <1>4, <1>5, <1>6, <1>7, <1>8 DEF Move

(* Ids grow along the way of an event in every reachable state.            *)
LEMMA OrderCorrect == Spec => []OrderInv
<1>1. Init => OrderInv
  BY OrderInit
<1>2. TypeOK /\ InHand /\ TypeOK' /\ OrderInv /\ [Next]_vars => OrderInv'
  BY OrderStep
<1>3. QED
  BY <1>1, <1>2, TypeCorrect, PTL DEF Spec

(* An id is in the engine's queue, the drain's, the hand or the log, and   *)
(* in one of them only.                                                    *)
LEMMA OnePlace ==
  ASSUME TypeOK, OrderInv, armed, ~raised, pc # "down",
         NEW i \in firstId .. nextId - 1
  PROVE  LET places == <<i \in IdsOf(pending), i \in IdsOf(queue), cur.id = i,
                         transmitted[i] # "none">>
         IN Cardinality({k \in 1 .. 4 : places[k]}) = 1
<1> DEFINE places == <<i \in IdsOf(pending), i \in IdsOf(queue), cur.id = i,
                       transmitted[i] # "none">>
           where  == {k \in 1 .. 4 : places[k]}
<1>0. i \in Ids /\ i \in Nat \ {0}
  BY BoundsAssumption DEF TypeOK, HistoryType, Ids
<1>1. cur.id = i => cur # NoEvent
  BY <1>0 DEF NoEvent
<1>2. i \in Queued => i \notin Logged /\ cur.id # i
  BY <1>0, <1>1, IdTypes DEF OrderInv, LoggedBefore, QueuedRange
<1>3. i \in IdsOf(pending) => i \notin IdsOf(queue)
  BY <1>0 DEF OrderInv, QueuesSorted
<1>4. cur.id = i => i \notin Logged
  BY <1>0, <1>1 DEF OrderInv, LoggedBefore
<1>5. i \in Queued \cup {cur.id} \cup Logged
  BY DEF OrderInv, NoneMissing
<1>6. i \in Logged <=> transmitted[i] # "none"
  BY <1>0 DEF Logged
<1>7. /\ places[1] <=> i \in IdsOf(pending)
      /\ places[2] <=> i \in IdsOf(queue)
      /\ places[3] <=> cur.id = i
      /\ places[4] <=> transmitted[i] # "none"
  OBVIOUS
<1>8. 1 .. 4 = {1, 2, 3, 4}
  OBVIOUS
<1> HIDE DEF places
<1>9. \E m \in 1 .. 4 : where = {m}
  <2>1. CASE i \in IdsOf(pending)
    <3>1. places[1] /\ ~places[2] /\ ~places[3] /\ ~places[4]
      BY <1>2, <1>3, <1>6, <1>7, <2>1 DEF Queued
    <3>2. where = {1}
      BY <1>8, <3>1
    <3>3. QED
      BY <3>2
  <2>2. CASE i \in IdsOf(queue)
    <3>1. ~places[1] /\ places[2] /\ ~places[3] /\ ~places[4]
      BY <1>2, <1>3, <1>6, <1>7, <2>2 DEF Queued
    <3>2. where = {2}
      BY <1>8, <3>1
    <3>3. QED
      BY <3>2
  <2>3. CASE cur.id = i
    <3>1. ~places[1] /\ ~places[2] /\ places[3] /\ ~places[4]
      BY <1>2, <1>4, <1>6, <1>7, <2>3 DEF Queued
    <3>2. where = {3}
      BY <1>8, <3>1
    <3>3. QED
      BY <3>2
  <2>4. CASE i \in Logged
    <3>1. ~places[1] /\ ~places[2] /\ ~places[3] /\ places[4]
      BY <1>2, <1>4, <1>6, <1>7, <2>4 DEF Queued
    <3>2. where = {4}
      BY <1>8, <3>1
    <3>3. QED
      BY <3>2
  <2>5. QED
    BY <1>5, <2>1, <2>2, <2>3, <2>4 DEF Queued
<1>10. Cardinality(where) = 1
  BY <1>9, FS_Singleton
<1>11. QED
  BY <1>10 DEF places

(* While the desk stays armed and no exception left the drain, every event *)
(* queued since the start is in exactly one place: none is lost on the way *)
(* and none is held twice, for any number of events, scans and drains.     *)
THEOREM SomewhereCorrect == Spec => []EveryEventIsSomewhere
<1>1. TypeOK /\ OrderInv => EveryEventIsSomewhere
  BY OnePlace DEF EveryEventIsSomewhere
<1>2. QED
  BY <1>1, TypeCorrect, OrderCorrect, PTL

-----------------------------------------------------------------------------
(* The refinement: Transmit implements IntentFifo under the mapping Fate.  *)

(* The events that wait: queued, taken by the drain or in its hand.        *)
Waits == Ids \cap (Queued \cup {cur.id})

(* The mapping, by what the four fates mean for the desk.                  *)
LEMMA FateIs ==
  ASSUME NEW i \in Ids
  PROVE  Fate[i] = IF i >= nextId THEN "unborn"
                   ELSE IF i \in sentIds THEN "sent"
                   ELSE IF i \in Waits THEN "waiting" ELSE "dropped"
  BY DEF Fate, Waits, Queued

(* The same, after the step.                                               *)
LEMMA FateIsNext ==
  ASSUME NEW i \in Ids
  PROVE  Fate'[i] = IF i >= nextId' THEN "unborn"
                    ELSE IF i \in sentIds' THEN "sent"
                    ELSE IF i \in Waits' THEN "waiting" ELSE "dropped"
  BY DEF Fate, Waits, Queued

(* What waits is born and not sent, so the abstract Waiting is Waits.      *)
LEMMA WaitingIs ==
  ASSUME TypeOK, OrderInv
  PROVE  /\ Fifo!Waiting = Waits
         /\ \A i \in Waits : i < nextId /\ i \notin sentIds
         /\ \A i \in sentIds : i < nextId
<1>1. ASSUME NEW i \in Waits PROVE i < nextId /\ i \notin sentIds
  <2>1. CASE i \in Queued
    <3>1. i \in Nat
      BY IdTypes DEF Waits
    <3>2. QED
      BY <2>1, <3>1 DEF OrderInv, QueuedRange, SentBefore
  <2>2. CASE i = cur.id
    <3>1. cur # NoEvent /\ i \in Nat
      BY <2>2, IdTypes DEF Waits
    <3>2. QED
      BY <2>2, <3>1 DEF OrderInv, CurRange, SentBefore
  <2>3. QED
    BY <2>1, <2>2 DEF Waits
<1>2. \A i \in sentIds : i < nextId
  BY DEF OrderInv, SentBefore
<1>3. Fifo!Waiting = Waits
  <2>1. Fifo!Waiting = {i \in Ids : Fate[i] = "waiting"}
    BY DEF Fifo!Waiting, Fifo!Numbers, Ids
  <2>2. ASSUME NEW i \in Ids PROVE Fate[i] = "waiting" <=> i \in Waits
    <3>1. i \in Nat /\ nextId \in Nat
      BY IdTypes
    <3>2. QED
      BY <1>1, <3>1, FateIs
  <2>3. QED
    BY <2>1, <2>2 DEF Waits
<1>4. QED
  BY <1>1, <1>2, <1>3

(* The mapping is determined by the counter, what was sent and what waits. *)
LEMMA FateStays ==
  ASSUME nextId' = nextId, sentIds' = sentIds, Waits' = Waits
  PROVE  Fate' = Fate
<1>1. \A i \in Ids : Fate'[i] = Fate[i]
  BY FateIs, FateIsNext
<1>2. /\ Fate = [i \in Ids |-> Fate[i]]
      /\ Fate' = [i \in Ids |-> Fate'[i]]
  BY DEF Fate
<1>3. QED
  BY <1>1, <1>2

(* Events that no longer wait and were not sent are dropped.               *)
LEMMA FateDrops ==
  ASSUME TypeOK, OrderInv,
         nextId' = nextId, sentIds' = sentIds, Waits' \subseteq Waits
  PROVE  Fifo!Drop
<1> DEFINE lost == Waits \ Waits'
<1>1. lost \in SUBSET Fifo!Waiting
  BY WaitingIs
<1>2. \A i \in Ids : Fate'[i] = IF i \in lost THEN "dropped" ELSE Fate[i]
  <2> SUFFICES ASSUME NEW i \in Ids
               PROVE  Fate'[i] = IF i \in lost THEN "dropped" ELSE Fate[i]
    OBVIOUS
  <2>1. i \in Nat /\ nextId \in Nat
    BY IdTypes
  <2>2. QED
    BY <2>1, WaitingIs, FateIs, FateIsNext
<1>3. Fate' = [i \in Ids |-> IF i \in lost THEN "dropped" ELSE Fate[i]]
  <2>1. Fate' = [i \in Ids |-> Fate'[i]]
    BY DEF Fate
  <2>2. QED
    BY <1>2, <2>1
<1>4. QED
  BY <1>1, <1>3 DEF Fifo!Drop, Fifo!Numbers, Ids

(* The event in hand is the oldest one that waits: sent, it is the one the *)
(* abstract queue delivers.                                                *)
LEMMA FateSends ==
  ASSUME TypeOK, OrderInv, cur \in Event,
         nextId' = nextId, sentIds' = sentIds \cup {cur.id},
         Waits' \subseteq Waits \ {cur.id}
  PROVE  Fifo!Send
<1> DEFINE lost == (Waits \ {cur.id}) \ Waits'
<1>1. cur.id \in Ids /\ cur # NoEvent
  BY IdTypes
<1>2. cur.id \in Waits
  BY <1>1 DEF Waits
<1>3. lost \in SUBSET (Fifo!Waiting \ {cur.id})
  BY WaitingIs
<1>4. \A j \in Fifo!Waiting : cur.id <= j
  <2> SUFFICES ASSUME NEW j \in Waits PROVE cur.id <= j
    BY WaitingIs
  <2>1. j \in Nat /\ cur.id \in Nat
    BY IdTypes DEF Waits
  <2>2. QED
    BY <2>1 DEF Waits, OrderInv, QueuedRange
<1>5. ASSUME NEW j \in Ids
      PROVE  Fate'[j] = IF j = cur.id THEN "sent"
                        ELSE IF j \in lost THEN "dropped" ELSE Fate[j]
  <2>1. j \in Nat /\ nextId \in Nat
    BY IdTypes
  <2>2. QED
    BY <1>2, <2>1, WaitingIs, FateIs, FateIsNext
<1>6. Fate' = [j \in Ids |-> IF j = cur.id THEN "sent"
                             ELSE IF j \in lost THEN "dropped" ELSE Fate[j]]
  <2>1. Fate' = [j \in Ids |-> Fate'[j]]
    BY DEF Fate
  <2>2. QED
    BY <1>5, <2>1
<1>7. cur.id \in Fifo!Waiting
  BY <1>2, WaitingIs
<1>8. QED
  BY <1>3, <1>4, <1>6, <1>7 DEF Fifo!Send, Fifo!Numbers, Ids

(* A queued event is the first unborn one, and begins to wait.             *)
LEMMA FateIssues ==
  ASSUME TypeOK, OrderInv, nextId \in Ids,
         nextId' = nextId + 1, sentIds' = sentIds, Waits' = Waits \cup {nextId}
  PROVE  Fifo!Issue
<1>1. Fate[nextId] = "unborn"
  BY FateIs, IdTypes
<1>2. ASSUME NEW j \in 1 .. nextId - 1 PROVE Fate[j] # "unborn"
  <2>1. j \in Ids /\ j < nextId /\ j \in Nat /\ nextId \in Nat
    BY BoundsAssumption DEF Ids, TypeOK, HistoryType
  <2>2. QED
    BY <2>1, FateIs
<1>3. ASSUME NEW j \in Ids
      PROVE  Fate'[j] = IF j = nextId THEN "waiting" ELSE Fate[j]
  <2>1. j \in Nat /\ nextId \in Nat
    BY IdTypes
  <2>2. nextId \notin sentIds
    BY <2>1, WaitingIs
  <2>3. QED
    BY <2>1, <2>2, FateIs, FateIsNext
<1>4. Fate' = [Fate EXCEPT ![nextId] = "waiting"]
  <2>1. /\ Fate' = [j \in Ids |-> Fate'[j]]
        /\ Fate = [j \in Ids |-> Fate[j]]
    BY DEF Fate
  <2>2. QED
    BY <1>3, <2>1
<1>5. QED
  BY <1>1, <1>2, <1>4 DEF Fifo!Issue, Fifo!Numbers, Ids

(* Every move of the desk is a step of the abstract queue or a stutter.    *)
LEMMA FifoStep ==
  TypeOK /\ InHand /\ OrderInv /\ [Next]_vars => [Fifo!Next]_Fate
<1> SUFFICES ASSUME TypeOK, InHand, OrderInv, [Next]_vars
             PROVE  [Fifo!Next]_Fate
  OBVIOUS
<1> USE DEF Fifo!Next
<1>0. Move
  BY EveryStepMoves
<1>1. CASE Stay
  BY <1>1, FateStays DEF Stay, eventVars, Waits, Queued, IdsOf
<1>2. CASE Enqueue
  <2>1. PICK ev \in Event : ev.id = nextId /\ pending' = Append(pending, ev)
    BY <1>2 DEF Enqueue
  <2>2. IdsOf(pending)' = IdsOf(pending) \cup {nextId}
    BY <2>1, IdsAppend, IdTypes
  <2>3. Waits' = Waits \cup {nextId}
    BY <1>2, <2>2 DEF Enqueue, Waits, Queued, IdsOf
  <2>4. QED
    BY <1>2, <2>3, FateIssues DEF Enqueue
<1>3. CASE Grab
  <2>1. IdsOf(queue) = {} /\ IdsOf(pending)' = {}
    BY <1>3, IdsEmpty DEF Grab, OrderInv, QueueInDrain, InDrain, Sending
  <2>2. Queued' = Queued
    BY <1>3, <2>1 DEF Grab, Queued, IdsOf
  <2>3. QED
    BY <1>3, <2>2, FateStays DEF Grab, Waits
<1>4. CASE TakeUp
  <2>1. IdsOf(queue) = {cur'.id} \cup IdsOf(queue)'
    BY <1>4, IdsHeadTail, IdTypes DEF TakeUp
  <2>2. cur.id \notin Ids
    <3>1. cur = NoEvent
      BY <1>4 DEF TakeUp, InHand, Sending
    <3>2. QED
      BY <3>1, IdTypes
  <2>3. Waits' = Waits
    BY <1>4, <2>1, <2>2 DEF TakeUp, Waits, Queued, IdsOf
  <2>4. QED
    BY <1>4, <2>3, FateStays DEF TakeUp
<1>5. CASE Record
  <2>1. IdsOf(queue)' \subseteq IdsOf(queue)
    <3>1. IdsOf(Tail(queue)) \subseteq IdsOf(queue)
      BY <1>5, IdsHeadTail, IdTypes DEF Record
    <3>2. CASE queue' = Tail(queue)
      BY <3>1, <3>2 DEF IdsOf
    <3>3. CASE queue' = <<>>
      BY <3>3, IdsEmpty
    <3>4. QED
      BY <1>5, <3>2, <3>3 DEF Record
  <2>2. Waits' \subseteq Waits
    BY <1>5, <2>1 DEF Record, Waits, Queued, IdsOf
  <2>3. QED
    BY <1>5, <2>2, FateDrops DEF Record
<1>6. CASE Abandon
  <2>1. IdsOf(queue)' = {} /\ cur' = cur
    BY <1>6, IdsEmpty DEF Abandon, InHand, Sending
  <2>2. Waits' \subseteq Waits
    BY <1>6, <2>1 DEF Abandon, Waits, Queued, IdsOf
  <2>3. QED
    BY <1>6, <2>2, FateDrops DEF Abandon
<1>7. CASE Conclude
  <2>1. IdsOf(queue)' \subseteq IdsOf(queue) /\ IdsOf(pending)' = IdsOf(pending)
    BY <1>7, IdsEmpty DEF Conclude, IdsOf
  <2>2. cur.id \notin Queued /\ cur'.id \notin Ids /\ cur.id \in Nat
    <3>1. cur'.id = 0
      BY <1>7 DEF Conclude, NoEvent
    <3>2. QED
      BY <3>1, IdTypes DEF OrderInv, QueuedRange
  <2>3. Waits' \subseteq Waits \ {cur.id}
    BY <2>1, <2>2 DEF Waits, Queued
  <2>4. CASE sentIds' = sentIds
    BY <1>7, <2>3, <2>4, FateDrops DEF Conclude
  <2>5. CASE sentIds' = sentIds \cup {cur.id}
    BY <1>7, <2>3, <2>5, FateSends DEF Conclude
  <2>6. QED
    BY <1>7, <2>4, <2>5 DEF Conclude
<1>8. CASE Forget
  <2>1. Waits' \subseteq Waits
    <3>1. IdsOf(queue)' = {} /\ IdsOf(pending)' = {}
      BY <1>8, IdsEmpty DEF Forget
    <3>2. cur'.id \notin Ids
      <4>1. cur'.id = 0
        BY <1>8 DEF Forget, NoEvent
      <4>2. QED
        BY <4>1, IdTypes
    <3>3. QED
      BY <3>1, <3>2 DEF Waits, Queued
  <2>2. QED
    BY <1>8, <2>1, FateDrops DEF Forget
<1>9. QED
  BY <1>0, <1>1, <1>2, <1>3, <1>4, <1>5, <1>6, <1>7, <1>8 DEF Move

(* At the start no event is born.                                          *)
LEMMA FifoInit == Init => Fifo!Init
<1> SUFFICES ASSUME Init PROVE Fifo!Init
  OBVIOUS
<1>1. ASSUME NEW i \in Ids PROVE Fate[i] = "unborn"
  <2>1. nextId = 1 /\ i \in Nat \ {0}
    BY IdTypes, TypeInit DEF Init
  <2>2. QED
    BY <2>1, FateIs
<1>2. Fate = [i \in Ids |-> Fate[i]]
  BY DEF Fate
<1>3. QED
  BY <1>1, <1>2 DEF Fifo!Init, Fifo!Numbers, Ids

(* The drain delivers every intended event at most once and in the order   *)
(* of its creation, through any interleaving of scans, awaits, lost        *)
(* replies, exceptions and restarts: Transmit implements IntentFifo.       *)
THEOREM DeliversCorrect == Spec => DeliversInOrder
<1>1. Init => Fifo!Init
  BY FifoInit
<1>2. TypeOK /\ InHand /\ OrderInv /\ [Next]_vars => [Fifo!Next]_Fate
  BY FifoStep
<1>3. QED
  BY <1>1, <1>2, TypeCorrect, OrderCorrect, PTL
     DEF Spec, DeliversInOrder, Fifo!Spec

-----------------------------------------------------------------------------
(***************************************************************************)
(* Shares, stops and closing orders stay in balance and under the desk's   *)
(* control.                                                                *)
(***************************************************************************)

-----------------------------------------------------------------------------
(* The inductive invariants.                                               *)

(* Every order at the broker is that of an event that was sent.            *)
OrdersSent ==
  \A s \in Symbols : parents[s] \cup stops[s] \cup sells[s] \subseteq sentIds

(* The cancel of the exit in progress has not been looked at before it is  *)
(* made.                                                                   *)
CancelAhead == pc \in {"sellResolve", "sellCancel"} => ~cancelTook

BalanceInv == OrdersSent /\ CancelAhead /\ NakedOnlyIf /\ ShortOnlyIf

(* From the snapshot to the end of the drain.                              *)
AfterSnapshot == InDrain \cup {"swap"}

Buying == {"buyResolve", "buyPlace"}
Selling == {"sellResolve", "sellCancel", "sellPlace"}

(* What the drain takes for not held is neither held nor being bought.     *)
UnheldIsFree ==
  pc \in AfterSnapshot =>
    \A s \in Symbols \ held :
      \/ pos[s] + Cardinality(parents[s]) <= 0
      \/ mishap[s] \cap {"blind", "unfilled", "reply_lost"} # {}

HandMatchesHeld ==
  /\ pc \in Buying => cur.sym \notin held
  /\ pc \in Selling => cur.sym \in held

EntryInv == UnheldIsFree /\ HandMatchesHeld /\ OneEntryAtATime

(* The ways to lose track of a stop.                                       *)
Untracked == {"reply_lost", "stop_forgotten", "blind", "unfilled",
              "entry_expired"}

(* Nor does a stop order rest under it.                                    *)
UnheldHasNoStop ==
  pc \in AfterSnapshot =>
    \A s \in Symbols \ held :
      stops[s] = {} \/ mishap[s] \cap Untracked # {}

(* A stop whose cancel took effect is gone.                                *)
CancelledIsGone ==
  pc = "sellPlace" /\ cancelTook => stopId \notin stops[cur.sym]

(* An exit that sells without a cancel has given the stop's id up.         *)
SoldForgets ==
  \A s \in Symbols :
    "sold_uncancelled" \in mishap[s] => "stop_forgotten" \in mishap[s]

(* StopsAreTracked, and the exit that has the id is one of the symbol's.   *)
TrackedBySymbol ==
  \A s \in Symbols : \A i \in stops[s] :
    \/ pc = "down" \/ i < firstId
    \/ stopOrders[s] = i
    \/ pc \in Selling /\ cur.sym = s /\ stopId = i
    \/ mishap[s] \cap Untracked # {}

TrackInv ==
  UnheldHasNoStop /\ CancelledIsGone /\ SoldForgets /\ TrackedBySymbol

-----------------------------------------------------------------------------
(* What a step can do to the account: the eight ways the books move.       *)

MishapsGrow == \A s \in Symbols : mishap[s] \subseteq mishap'[s]

(* Nothing; an exit that ends between its cancel and its SELL is noted.    *)
Rests ==
  /\ UNCHANGED <<pos, parents, stops, sells, sentIds>>
  /\ MishapsGrow
  /\ \A s \in Symbols :
       /\ Exposed(s)' => Exposed(s)
       /\ \/ Exposed(s) => Exposed(s)'
          \/ mishap'[s] \cap {"close_failed", "crash_mid_exit"} # {}

(* The broker takes the bracket of the entry in hand, or refuses its stop; *)
(* the desk takes the symbol for held and knows the stop, or the reply is  *)
(* lost.                                                                   *)
Bought ==
  /\ pc = "buyPlace" /\ pc' # "sellPlace" /\ cur \in Event
  /\ parents' = [parents EXCEPT ![cur.sym] = @ \cup {cur.id}]
  /\ \/ stops' = [stops EXCEPT ![cur.sym] = @ \cup {cur.id}]
     \/ stops' = stops /\ "stop_missing" \in mishap'[cur.sym]
  /\ cur.sym \in held' \/ "reply_lost" \in mishap'[cur.sym]
  /\ \/ stopOrders'[cur.sym] = cur.id \/ stops' = stops
     \/ "reply_lost" \in mishap'[cur.sym]
  /\ sentIds' = sentIds \cup {cur.id}
  /\ UNCHANGED <<pos, sells>>
  /\ MishapsGrow

(* The broker takes the closing order of the exit in hand.                 *)
Sold ==
  /\ pc = "sellPlace" /\ pc' # "sellPlace" /\ cur \in Event
  /\ sells' = [sells EXCEPT ![cur.sym] = @ \cup {cur.id}]
  /\ cancelTook \/ "sold_uncancelled" \in mishap'[cur.sym]
  /\ sentIds' = sentIds \cup {cur.id}
  /\ UNCHANGED <<pos, parents, stops>>
  /\ MishapsGrow

(* The exit's cancel takes effect.                                         *)
Cancelled ==
  /\ pc = "sellCancel" /\ pc' = "sellPlace" /\ cur \in Event
  /\ stopId \in stops[cur.sym]
  /\ stops' = [stops EXCEPT ![cur.sym] = @ \ {stopId}]
  /\ cancelTook' = TRUE
  /\ UNCHANGED <<cur, pos, parents, sells, sentIds, mishap>>

BookMove ==
  \/ Rests \/ Bought \/ Sold \/ Cancelled
  \/ \E s \in Symbols : ParentFills(s) \/ StopFills(s) \/ SellFills(s)
  \/ ClosingBell

(* Noting what went wrong for a symbol keeps what went wrong before.       *)
LEMMA NoteGrows ==
  ASSUME TypeOK, NEW s \in Symbols, NEW what, Note(s, what)
  PROVE  MishapsGrow /\ what \subseteq mishap'[s]
<1>1. mishap \in [Symbols -> SUBSET Mishap]
  BY DEF TypeOK, HistoryType
<1>2. QED
  BY <1>1 DEF Note, MishapsGrow

(* A step that keeps the books and the mishaps and does not begin or end   *)
(* an exposure rests.                                                      *)
LEMMA KeepsBooks ==
  ASSUME UNCHANGED <<pos, parents, stops, sells, sentIds>>, MishapsGrow,
         \/ pc # "sellPlace" /\ pc' # "sellPlace"
         \/ UNCHANGED <<pc, cur, cancelTook>>
         \/ pc # "sellPlace" /\ ~cancelTook'
  PROVE  Rests
  BY DEF Rests, Exposed

(* An unchanged mishap has grown.                                          *)
LEMMA SameMishap == mishap' = mishap => MishapsGrow
  BY DEF MishapsGrow

(* Every step moves the books in one of these ways.                        *)
LEMMA EveryStepBooks ==
  TypeOK /\ InHand /\ CancelAhead /\ [Next]_vars => BookMove
<1> SUFFICES ASSUME TypeOK, InHand, CancelAhead, [Next]_vars PROVE BookMove
  OBVIOUS
<1> USE DEF BookMove
<1>1. CASE Engine \/ PortfolioRequest
  BY <1>1, KeepsBooks, SameMishap DEF Engine, RebuildLive, EngineEntry,
     EngineReject, EngineExit, PortfolioRequest, brokerVars, drainVars,
     histVars
<1>2. CASE TickStart \/ ScanDone \/ ResolveAccount \/ SwapQueue
  BY <1>2, KeepsBooks, SameMishap DEF TickStart, ScanDone, ResolveAccount,
     SwapQueue, brokerVars, histVars
<1>3. CASE GetPositions
  <2>1. MishapsGrow
    BY <1>3 DEF GetPositions, MishapsGrow
  <2>2. QED
    BY <1>3, <2>1, KeepsBooks DEF GetPositions, brokerVars
<1>4. CASE TakeRaises \/ TakeSkip \/ TakeHalt \/ DrainEnd \/ TakeBuy \/ TakeSell
  BY <1>4, KeepsBooks, SameMishap DEF TakeRaises, Raise, TakeSkip, TakeHalt,
     DrainEnd, TakeBuy, TakeSell, brokerVars, histVars
<1>5. CASE BuyResolve
  BY <1>5, KeepsBooks, SameMishap
     DEF BuyResolve, Settle, Raise, brokerVars, histVars
<1>6. CASE BuyPlaced \/ BuyPlacedNoStopId \/ BuyFails
  <2>1. cur \in Event /\ cur.sym \in Symbols
    BY <1>6 DEF BuyPlaced, BuyPlacedNoStopId, BuyFails, InHand, Sending, Event
  <2>2. pc = "buyPlace" /\ pc' # "sellPlace" /\ UNCHANGED <<pos, sells>>
    BY <1>6 DEF BuyPlaced, BuyPlacedNoStopId, BuyFails, Settle, Raise
  <2>3. MishapsGrow
    BY <1>6, <2>1, NoteGrows, SameMishap
       DEF BuyPlaced, BuyPlacedNoStopId, BuyFails
  <2>4. CASE BuyPlaced
    <3>1. cur.sym \in held' /\ stopOrders'[cur.sym] = cur.id
      BY <2>1, <2>4 DEF BuyPlaced, TypeOK, ServiceType
    <3>2. QED
      BY <2>1, <2>2, <2>3, <2>4, <3>1 DEF BuyPlaced, Bought, AcceptBracket
  <2>5. CASE AcceptBracket(TRUE) /\ Note(cur.sym, {"reply_lost"})
    <3>1. "reply_lost" \in mishap'[cur.sym]
      BY <2>1, <2>5, NoteGrows
    <3>2. QED
      BY <2>1, <2>2, <2>3, <2>5, <3>1 DEF Bought, AcceptBracket
  <2>6. CASE /\ AcceptBracket(FALSE) /\ Note(cur.sym, {"stop_missing"})
             /\ held' = held \cup {cur.sym}
    <3>1. "stop_missing" \in mishap'[cur.sym]
      BY <2>1, <2>6, NoteGrows
    <3>2. QED
      BY <2>1, <2>2, <2>3, <2>6, <3>1 DEF Bought, AcceptBracket
  <2>7. CASE RefuseBracket
    BY <2>2, <2>3, <2>7, KeepsBooks DEF RefuseBracket
  <2>8. QED
    BY <1>6, <2>4, <2>5, <2>6, <2>7 DEF BuyPlacedNoStopId, BuyFails
<1>7. CASE SellResolve
  <2>1. cur.sym \in Symbols
    BY <1>7 DEF SellResolve, InHand, Sending, Event
  <2>2. MishapsGrow
    BY <1>7, <2>1, NoteGrows, SameMishap DEF SellResolve
  <2>3. pc # "sellPlace" /\ ~cancelTook'
    BY <1>7 DEF SellResolve, CancelAhead
  <2>4. QED
    BY <1>7, <2>2, <2>3, KeepsBooks DEF SellResolve, brokerVars
<1>8. CASE SellCancel
  <2>1. CASE UNCHANGED <<stops, cancelTook>>
    BY <1>8, <2>1, KeepsBooks, SameMishap
       DEF SellCancel, CancelAhead, histVars
  <2>2. CASE /\ stopId \in stops[cur.sym]
             /\ stops' = [stops EXCEPT ![cur.sym] = @ \ {stopId}]
             /\ cancelTook' = TRUE
    BY <1>8, <2>2 DEF SellCancel, Cancelled, InHand, Sending, histVars
  <2>3. QED
    BY <1>8, <2>1, <2>2 DEF SellCancel
<1>9. CASE SellPlace
  <2>1. cur \in Event /\ cur.sym \in Symbols
    BY <1>9 DEF SellPlace, InHand, Sending, Event
  <2>2. /\ pc = "sellPlace" /\ pc' # "sellPlace"
        /\ UNCHANGED <<pos, parents, stops>>
    BY <1>9 DEF SellPlace, Settle, Raise
  <2>3. CASE /\ sells' = [sells EXCEPT ![cur.sym] = @ \cup {cur.id}]
             /\ sentIds' = sentIds \cup {cur.id}
             /\ Note(cur.sym, IF cancelTook THEN {}
                              ELSE {"sold_uncancelled", "stop_forgotten"})
    <3>1. MishapsGrow /\ (cancelTook \/ "sold_uncancelled" \in mishap'[cur.sym])
      BY <2>1, <2>3, NoteGrows
    <3>2. QED
      BY <2>1, <2>2, <2>3, <3>1 DEF Sold
  <2>4. CASE /\ UNCHANGED <<sells, sentIds>>
             /\ Note(cur.sym, IF cancelTook THEN {"close_failed"}
                              ELSE {"stop_forgotten"})
    <3>1. MishapsGrow /\ (cancelTook => "close_failed" \in mishap'[cur.sym])
      BY <2>1, <2>4, NoteGrows
    <3>2. QED
      BY <2>1, <2>2, <2>4, <3>1 DEF Rests, Exposed
  <2>5. QED
    BY <1>9, <2>3, <2>4 DEF SellPlace
<1>10. CASE Broker
  <2>1. CASE OpeningBell \/ Nightfall \/ NextMorning
    BY <2>1, KeepsBooks, SameMishap
       DEF OpeningBell, Nightfall, NextMorning, brokerVars, drainVars, histVars
  <2>2. QED
    BY <1>10, <2>1 DEF Broker
<1>11. CASE Crash
  <2>1. UNCHANGED <<pos, parents, stops, sells, sentIds>> /\ pc' = "down"
    BY <1>11 DEF Crash, brokerVars
  <2>2. CASE pc = "sellPlace" /\ cancelTook
    <3>1. cur.sym \in Symbols /\ Note(cur.sym, {"crash_mid_exit"})
      BY <1>11, <2>2 DEF Crash, InHand, Sending, Event
    <3>2. MishapsGrow /\ "crash_mid_exit" \in mishap'[cur.sym]
      BY <3>1, NoteGrows
    <3>3. QED
      BY <2>1, <3>2 DEF Rests, Exposed
  <2>3. CASE ~(pc = "sellPlace" /\ cancelTook)
    BY <1>11, <2>1, <2>3, SameMishap DEF Crash, Rests, Exposed
  <2>4. QED
    BY <2>2, <2>3
<1>12. CASE Restart
  BY <1>12, KeepsBooks, SameMishap DEF Restart, brokerVars
<1>13. CASE UNCHANGED vars
  BY <1>13, KeepsBooks, SameMishap DEF vars, brokerVars, drainVars, histVars
<1>14. QED
  BY <1>1, <1>2, <1>3, <1>4, <1>5, <1>6, <1>7, <1>8, <1>9, <1>10, <1>11,
     <1>12, <1>13 DEF Next, Drain

-----------------------------------------------------------------------------
(* The balance of shares and orders.                                       *)

(* The books of a symbol are an integer and three finite sets.             *)
LEMMA BookTypes ==
  ASSUME TypeOK, NEW s \in Symbols
  PROVE  /\ pos[s] \in Int
         /\ IsFiniteSet(parents[s]) /\ Cardinality(parents[s]) \in Nat
         /\ IsFiniteSet(stops[s]) /\ Cardinality(stops[s]) \in Nat
         /\ IsFiniteSet(sells[s]) /\ Cardinality(sells[s]) \in Nat
         /\ Net(s) \in Int
<1>1. IsFiniteSet(Ids)
  BY FS_Interval, BoundsAssumption DEF Ids
<1>2. parents[s] \in SUBSET Ids /\ stops[s] \in SUBSET Ids /\ sells[s] \in SUBSET Ids
  BY DEF TypeOK, BrokerType
<1>3. IsFiniteSet(parents[s]) /\ IsFiniteSet(stops[s]) /\ IsFiniteSet(sells[s])
  BY <1>1, <1>2, FS_Subset
<1>4. /\ Cardinality(parents[s]) \in Nat /\ Cardinality(stops[s]) \in Nat
      /\ Cardinality(sells[s]) \in Nat
  BY <1>3, FS_CardinalityType
<1>5. pos[s] \in Int
  BY DEF TypeOK, BrokerType
<1>6. QED
  BY <1>3, <1>4, <1>5 DEF Net

(* The event in hand has no order yet.                                     *)
LEMMA InHandIsNew ==
  ASSUME TypeOK, OrderInv, OrdersSent, cur \in Event, NEW s \in Symbols
  PROVE  cur.id \notin parents[s] \cup stops[s] \cup sells[s]
<1>1. cur # NoEvent /\ cur.id \in Nat
  BY IdTypes
<1>2. cur.id \notin sentIds
  BY <1>1 DEF OrderInv, SentBefore
<1>3. QED
  BY <1>2 DEF OrdersSent

(* How a step changes the net holding of a symbol.                         *)
NetKept(s) == Net(s)' = Net(s) /\ (Exposed(s)' <=> Exposed(s))

LEMMA NetMoves ==
  ASSUME TypeOK, TypeOK', OrderInv, OrdersSent, BookMove, NEW s \in Symbols
  PROVE  \/ Rests
         \/ NetKept(s)
         \/ /\ Net(s)' = Net(s) + 1 /\ ~Exposed(s) /\ ~Exposed(s)'
            /\ "stop_missing" \in mishap'[s]
         \/ Net(s)' = Net(s) + 1 /\ ~Exposed(s) /\ Exposed(s)'
         \/ Net(s)' = Net(s) - 1 /\ Exposed(s) /\ ~Exposed(s)'
         \/ /\ Net(s)' = Net(s) - 1 /\ ~Exposed(s) /\ ~Exposed(s)'
            /\ "sold_uncancelled" \in mishap'[s]
         \/ /\ ClosingBell
            /\ Net(s)' = pos[s]
<1>1. CASE Bought
  <2>1. ~Exposed(s) /\ ~Exposed(s)'
    BY <1>1 DEF Bought, Exposed
  <2>2. CASE s = cur.sym
    <3>1. cur.id \notin parents[s] /\ cur.id \notin stops[s]
      BY <1>1, InHandIsNew DEF Bought
    <3>2. parents'[s] = parents[s] \cup {cur.id}
      BY <1>1, <2>2 DEF Bought, TypeOK, BrokerType
    <3>3. Cardinality(parents'[s]) = Cardinality(parents[s]) + 1
      <4>1. IsFiniteSet(parents[s])
        BY BookTypes
      <4>2. QED
        BY <3>1, <3>2, <4>1, FS_AddElement
    <3>4. CASE stops' = [stops EXCEPT ![cur.sym] = @ \cup {cur.id}]
      <4>1. stops'[s] = stops[s] \cup {cur.id}
        BY <2>2, <3>4 DEF TypeOK, BrokerType
      <4>2. Cardinality(stops'[s]) = Cardinality(stops[s]) + 1
        <5>1. IsFiniteSet(stops[s])
          BY BookTypes
        <5>2. QED
          BY <3>1, <4>1, <5>1, FS_AddElement
      <4>3. Net(s)' = Net(s)
        BY <1>1, <3>3, <4>2, BookTypes DEF Bought, Net
      <4>4. QED
        BY <2>1, <4>3 DEF NetKept
    <3>5. CASE stops' = stops /\ "stop_missing" \in mishap'[cur.sym]
      <4>1. Net(s)' = Net(s) + 1
        BY <1>1, <3>3, <3>5, BookTypes DEF Bought, Net
      <4>2. QED
        BY <2>1, <2>2, <3>5, <4>1
    <3>6. QED
      BY <1>1, <3>4, <3>5 DEF Bought
  <2>3. CASE s # cur.sym
    <3>1. parents'[s] = parents[s] /\ stops'[s] = stops[s]
      BY <1>1, <2>3 DEF Bought, TypeOK, BrokerType
    <3>2. QED
      BY <1>1, <2>1, <3>1 DEF Bought, Net, NetKept
  <2>4. QED
    BY <2>2, <2>3
<1>2. CASE Sold
  <2>1. ~Exposed(s)'
    BY <1>2 DEF Sold, Exposed
  <2>2. CASE s = cur.sym
    <3>1. cur.id \notin sells[s]
      BY <1>2, InHandIsNew DEF Sold
    <3>2. sells'[s] = sells[s] \cup {cur.id}
      BY <1>2, <2>2 DEF Sold, TypeOK, BrokerType
    <3>3. Cardinality(sells'[s]) = Cardinality(sells[s]) + 1
      <4>1. IsFiniteSet(sells[s])
        BY BookTypes
      <4>2. QED
        BY <3>1, <3>2, <4>1, FS_AddElement
    <3>4. Net(s)' = Net(s) - 1
      BY <1>2, <3>3, BookTypes DEF Sold, Net
    <3>5. QED
      BY <1>2, <2>1, <2>2, <3>4 DEF Sold, Exposed
  <2>3. CASE s # cur.sym
    <3>1. sells'[s] = sells[s] /\ ~Exposed(s)
      BY <1>2, <2>3 DEF Sold, TypeOK, BrokerType, Exposed
    <3>2. QED
      BY <1>2, <2>1, <3>1 DEF Sold, Net, NetKept
  <2>4. QED
    BY <2>2, <2>3
<1>3. CASE Cancelled
  <2>1. ~Exposed(s) /\ (Exposed(s)' <=> cur.sym = s)
    BY <1>3 DEF Cancelled, Exposed
  <2>2. CASE s = cur.sym
    <3>1. stops'[s] = stops[s] \ {stopId} /\ stopId \in stops[s]
      BY <1>3, <2>2 DEF Cancelled, TypeOK, BrokerType
    <3>2. Cardinality(stops'[s]) = Cardinality(stops[s]) - 1
      <4>1. IsFiniteSet(stops[s])
        BY BookTypes
      <4>2. QED
        BY <3>1, <4>1, FS_RemoveElement
    <3>3. Net(s)' = Net(s) + 1
      BY <1>3, <3>2, BookTypes DEF Cancelled, Net
    <3>4. QED
      BY <2>1, <2>2, <3>3
  <2>3. CASE s # cur.sym
    <3>1. stops'[s] = stops[s]
      BY <1>3, <2>3 DEF Cancelled, TypeOK, BrokerType
    <3>2. QED
      BY <1>3, <2>1, <2>3, <3>1 DEF Cancelled, Net, NetKept
  <2>4. QED
    BY <2>2, <2>3
<1>4. ASSUME NEW t \in Symbols, ParentFills(t) PROVE NetKept(s)
  <2>1. Exposed(s)' <=> Exposed(s)
    BY <1>4 DEF ParentFills, Exposed, drainVars
  <2>2. CASE s = t
    <3>1. PICK i \in parents[s] : parents'[s] = parents[s] \ {i}
      BY <1>4, <2>2 DEF ParentFills, TypeOK, BrokerType
    <3>2. Cardinality(parents'[s]) = Cardinality(parents[s]) - 1
      <4>1. IsFiniteSet(parents[s])
        BY BookTypes
      <4>2. QED
        BY <3>1, <4>1, FS_RemoveElement
    <3>3. pos'[s] = pos[s] + 1
      BY <1>4, <2>2 DEF ParentFills, TypeOK, BrokerType
    <3>4. Net(s)' = Net(s)
      BY <1>4, <3>2, <3>3, BookTypes DEF ParentFills, Net
    <3>5. QED
      BY <2>1, <3>4 DEF NetKept
  <2>3. CASE s # t
    <3>1. pos'[s] = pos[s] /\ parents'[s] = parents[s]
      BY <1>4, <2>3 DEF ParentFills, TypeOK, BrokerType
    <3>2. QED
      BY <1>4, <2>1, <3>1 DEF ParentFills, Net, NetKept
  <2>4. QED
    BY <2>2, <2>3
<1>5. ASSUME NEW t \in Symbols, StopFills(t) PROVE NetKept(s)
  <2>1. Exposed(s)' <=> Exposed(s)
    BY <1>5 DEF StopFills, Exposed, drainVars
  <2>2. CASE s = t
    <3>1. PICK i \in stops[s] : stops'[s] = stops[s] \ {i}
      BY <1>5, <2>2 DEF StopFills, TypeOK, BrokerType
    <3>2. Cardinality(stops'[s]) = Cardinality(stops[s]) - 1
      <4>1. IsFiniteSet(stops[s])
        BY BookTypes
      <4>2. QED
        BY <3>1, <4>1, FS_RemoveElement
    <3>3. pos'[s] = pos[s] - 1
      BY <1>5, <2>2 DEF StopFills, TypeOK, BrokerType
    <3>4. Net(s)' = Net(s)
      BY <1>5, <3>2, <3>3, BookTypes DEF StopFills, Net
    <3>5. QED
      BY <2>1, <3>4 DEF NetKept
  <2>3. CASE s # t
    <3>1. pos'[s] = pos[s] /\ stops'[s] = stops[s]
      BY <1>5, <2>3 DEF StopFills, TypeOK, BrokerType
    <3>2. QED
      BY <1>5, <2>1, <3>1 DEF StopFills, Net, NetKept
  <2>4. QED
    BY <2>2, <2>3
<1>6. ASSUME NEW t \in Symbols, SellFills(t) PROVE NetKept(s)
  <2>1. Exposed(s)' <=> Exposed(s)
    BY <1>6 DEF SellFills, Exposed, drainVars
  <2>2. CASE s = t
    <3>1. PICK i \in sells[s] : sells'[s] = sells[s] \ {i}
      BY <1>6, <2>2 DEF SellFills, TypeOK, BrokerType
    <3>2. Cardinality(sells'[s]) = Cardinality(sells[s]) - 1
      <4>1. IsFiniteSet(sells[s])
        BY BookTypes
      <4>2. QED
        BY <3>1, <4>1, FS_RemoveElement
    <3>3. pos'[s] = pos[s] - 1
      BY <1>6, <2>2 DEF SellFills, TypeOK, BrokerType
    <3>4. Net(s)' = Net(s)
      BY <1>6, <3>2, <3>3, BookTypes DEF SellFills, Net
    <3>5. QED
      BY <2>1, <3>4 DEF NetKept
  <2>3. CASE s # t
    <3>1. pos'[s] = pos[s] /\ sells'[s] = sells[s]
      BY <1>6, <2>3 DEF SellFills, TypeOK, BrokerType
    <3>2. QED
      BY <1>6, <2>1, <3>1 DEF SellFills, Net, NetKept
  <2>4. QED
    BY <2>2, <2>3
<1>7. CASE ClosingBell
  <2>1. parents'[s] = {} /\ stops'[s] = {} /\ sells'[s] = {} /\ pos'[s] = pos[s]
    BY <1>7 DEF ClosingBell
  <2>2. Net(s)' = pos[s]
    BY <2>1, FS_EmptySet, BookTypes DEF Net
  <2>3. QED
    BY <1>7, <2>2
<1>8. QED
  BY <1>1, <1>2, <1>3, <1>4, <1>5, <1>6, <1>7 DEF BookMove

(* What was noted stays noted.                                             *)
LEMMA MishapsStay ==
  ASSUME TypeOK, BookMove
  PROVE  MishapsGrow
<1>1. CASE ClosingBell
  BY <1>1 DEF ClosingBell, MishapsGrow
<1>2. CASE \E s \in Symbols : ParentFills(s) \/ StopFills(s) \/ SellFills(s)
  BY <1>2, SameMishap DEF ParentFills, StopFills, SellFills, histVars
<1>3. CASE Cancelled
  BY <1>3, SameMishap DEF Cancelled
<1>4. QED
  BY <1>1, <1>2, <1>3 DEF BookMove, Rests, Bought, Sold

(* A new order is that of the event in hand, which counts as sent.         *)
LEMMA OrdersSentStep ==
  ASSUME TypeOK, OrdersSent, BookMove
  PROVE  OrdersSent'
<1> USE DEF OrdersSent, TypeOK, BrokerType
<1>1. CASE Rests
  BY <1>1 DEF Rests
<1>2. CASE Bought
  BY <1>2 DEF Bought
<1>3. CASE Sold
  BY <1>3 DEF Sold
<1>4. CASE Cancelled
  BY <1>4 DEF Cancelled
<1>5. ASSUME NEW s \in Symbols, ParentFills(s) \/ StopFills(s) \/ SellFills(s)
      PROVE  OrdersSent'
  BY <1>5 DEF ParentFills, StopFills, SellFills, histVars
<1>6. CASE ClosingBell
  BY <1>6 DEF ClosingBell
<1>7. QED
  BY <1>1, <1>2, <1>3, <1>4, <1>5, <1>6 DEF BookMove

LEMMA CancelAheadStep ==
  ASSUME CancelAhead, [Next]_vars
  PROVE  CancelAhead'
<1> USE DEF CancelAhead
<1>1. CASE TakeSell
  BY <1>1 DEF TakeSell
<1>2. CASE SellResolve
  BY <1>2 DEF SellResolve, Settle, Raise
<1>3. CASE SellCancel \/ SellPlace \/ BuyResolve \/ BuyPlaced
            \/ BuyPlacedNoStopId \/ BuyFails
  BY <1>3 DEF SellCancel, SellPlace, BuyResolve, BuyPlaced, BuyPlacedNoStopId,
     BuyFails, Settle, Raise
<1>4. CASE TakeRaises \/ TakeSkip \/ TakeHalt \/ TakeBuy \/ DrainEnd
  BY <1>4 DEF TakeRaises, TakeSkip, TakeHalt, TakeBuy, DrainEnd, Raise
<1>5. CASE TickStart \/ ScanDone \/ ResolveAccount \/ GetPositions \/ SwapQueue
  BY <1>5 DEF TickStart, ScanDone, ResolveAccount, GetPositions, SwapQueue
<1>6. CASE Engine \/ PortfolioRequest
  BY <1>6 DEF Engine, RebuildLive, EngineEntry, EngineReject, EngineExit,
     PortfolioRequest, drainVars
<1>7. CASE Broker
  BY <1>7 DEF Broker, ParentFills, StopFills, SellFills, OpeningBell,
     ClosingBell, Nightfall, NextMorning, drainVars
<1>8. CASE Crash \/ Restart
  BY <1>8 DEF Crash, Restart
<1>9. CASE UNCHANGED vars
  BY <1>9 DEF vars, drainVars
<1>10. QED
  BY <1>1, <1>2, <1>3, <1>4, <1>5, <1>6, <1>7, <1>8, <1>9 DEF Next, Drain

LEMMA BalanceStep ==
  ASSUME TypeOK, TypeOK', InHand, OrderInv, BalanceInv, [Next]_vars
  PROVE  BalanceInv'
<1>1. BookMove
  BY EveryStepBooks DEF BalanceInv
<1>2. OrdersSent' /\ CancelAhead'
  BY <1>1, OrdersSentStep, CancelAheadStep DEF BalanceInv
<1>3. MishapsGrow
  BY <1>1, MishapsStay
<1>4. ASSUME NEW s \in Symbols
      PROVE  /\ \/ Net(s)' <= IF Exposed(s)' THEN 1 ELSE 0
                \/ mishap'[s] \cap {"stop_missing", "close_failed",
                                    "crash_mid_exit", "overnight"} # {}
             /\ \/ Net(s)' >= IF Exposed(s)' THEN 1 ELSE 0
                \/ mishap'[s] \cap {"sold_uncancelled", "entry_expired"} # {}
  <2> DEFINE naked(m) == m \cap {"stop_missing", "close_failed",
                                 "crash_mid_exit", "overnight"} # {}
             short(m) == m \cap {"sold_uncancelled", "entry_expired"} # {}
  <2>1. /\ Net(s) <= (IF Exposed(s) THEN 1 ELSE 0) \/ naked(mishap[s])
        /\ Net(s) >= (IF Exposed(s) THEN 1 ELSE 0) \/ short(mishap[s])
    BY DEF BalanceInv, NakedOnlyIf, ShortOnlyIf
  <2>2. /\ naked(mishap[s]) => naked(mishap'[s])
        /\ short(mishap[s]) => short(mishap'[s])
    BY <1>3 DEF MishapsGrow
  <2>3. Net(s) \in Int
    BY BookTypes
  <2>4. CASE NetKept(s)
    BY <2>1, <2>2, <2>3, <2>4 DEF NetKept
  <2>5. CASE /\ Net(s)' = Net(s) + 1 /\ ~Exposed(s) /\ ~Exposed(s)'
             /\ "stop_missing" \in mishap'[s]
    BY <2>1, <2>2, <2>3, <2>5
  <2>6. CASE Net(s)' = Net(s) + 1 /\ ~Exposed(s) /\ Exposed(s)'
    BY <2>1, <2>2, <2>3, <2>6
  <2>7. CASE Net(s)' = Net(s) - 1 /\ Exposed(s) /\ ~Exposed(s)'
    BY <2>1, <2>2, <2>3, <2>7
  <2>8. CASE /\ Net(s)' = Net(s) - 1 /\ ~Exposed(s) /\ ~Exposed(s)'
             /\ "sold_uncancelled" \in mishap'[s]
    BY <2>1, <2>2, <2>3, <2>8
  <2>9. CASE Rests
    <3>1. Net(s)' = Net(s)
      BY <2>9 DEF Rests, Net
    <3>2. Exposed(s)' => Exposed(s)
      BY <2>9 DEF Rests
    <3>3. Exposed(s) => Exposed(s)' \/ naked(mishap'[s])
      BY <2>9 DEF Rests
    <3>4. QED
      BY <2>1, <2>2, <2>3, <3>1, <3>2, <3>3
  <2>10. CASE ClosingBell /\ Net(s)' = pos[s]
    <3>1. Exposed(s)' <=> Exposed(s)
      BY <2>10 DEF ClosingBell, Exposed, drainVars
    <3>2. pos[s] > 0 => "overnight" \in mishap'[s]
      BY <2>10 DEF ClosingBell
    <3>3. "entry_expired" \in mishap'[s] \/ Net(s) <= pos[s]
      <4>1. CASE parents[s] # {}
        BY <2>10, <4>1 DEF ClosingBell
      <4>2. CASE parents[s] = {}
        <5>1. Cardinality(parents[s]) = 0
          BY <4>2, FS_EmptySet
        <5>2. QED
          BY <5>1, BookTypes DEF Net
      <4>3. QED
        BY <4>1, <4>2
    <3>4. pos[s] \in Int
      BY BookTypes
    <3>5. QED
      BY <2>1, <2>2, <2>3, <2>10, <3>1, <3>2, <3>3, <3>4
  <2>11. QED
    BY <1>1, <2>4, <2>5, <2>6, <2>7, <2>8, <2>9, <2>10, NetMoves DEF BalanceInv
<1>5. NakedOnlyIf' /\ ShortOnlyIf'
  BY <1>4 DEF NakedOnlyIf, ShortOnlyIf
<1>6. QED
  BY <1>2, <1>5 DEF BalanceInv

LEMMA BalanceInit == Init => BalanceInv
<1> SUFFICES ASSUME Init PROVE BalanceInv
  OBVIOUS
<1>1. \A s \in Symbols : Net(s) = 0 /\ ~Exposed(s)
  BY FS_EmptySet DEF Init, Net, Exposed
<1>2. OrdersSent /\ CancelAhead
  BY DEF Init, OrdersSent, CancelAhead
<1>3. QED
  BY <1>1, <1>2 DEF BalanceInv, NakedOnlyIf, ShortOnlyIf

LEMMA BalanceCorrect == Spec => []BalanceInv
<1>1. Init => BalanceInv
  BY BalanceInit
<1>2. TypeOK /\ TypeOK' /\ InHand /\ OrderInv /\ BalanceInv /\ [Next]_vars
        => BalanceInv'
  BY BalanceStep
<1>3. QED
  BY <1>1, <1>2, TypeCorrect, OrderCorrect, PTL DEF Spec

(* Every share held or being bought is covered by a stop or a closing      *)
(* order, but for the failures the property names: no interleaving of      *)
(* fills, cancels, drains, lost replies and restarts leaves one naked.     *)
THEOREM NakedCorrect == Spec => []NakedOnlyIf
<1>1. BalanceInv => NakedOnlyIf
  BY DEF BalanceInv
<1>2. QED
  BY <1>1, BalanceCorrect, PTL

(* No interleaving makes the desk's orders sell more than is there, but    *)
(* for a SELL sent without a cancel and an entry that expired.             *)
THEOREM ShortCorrect == Spec => []ShortOnlyIf
<1>1. BalanceInv => ShortOnlyIf
  BY DEF BalanceInv
<1>2. QED
  BY <1>1, BalanceCorrect, PTL

-----------------------------------------------------------------------------
(* One entry at a time.                                                    *)

Stake(s) == pos[s] + Cardinality(parents[s])

(* Only an accepted bracket raises what is held or being bought.           *)
LEMMA StakeMoves ==
  ASSUME TypeOK, TypeOK', BookMove, NEW s \in Symbols
  PROVE  /\ Stake(s) \in Int /\ Stake(s)' \in Int
         /\ \/ Stake(s)' <= Stake(s)
            \/ Bought /\ s = cur.sym /\ Stake(s)' <= Stake(s) + 1
<1>1. Stake(s) \in Int
  BY BookTypes DEF Stake
<1>2. IsFiniteSet(parents[s])
  BY BookTypes
<1>3. /\ pos'[s] \in Int /\ pos[s] \in Int /\ Cardinality(parents[s]) \in Nat
      /\ parents'[s] \subseteq Ids
  BY BookTypes DEF TypeOK, BrokerType
<1>4. CASE Bought
  <2>1. CASE s = cur.sym
    <3>1. parents'[s] = parents[s] \cup {cur.id} /\ pos'[s] = pos[s]
      BY <1>4, <2>1 DEF Bought, TypeOK, BrokerType
    <3>2. Cardinality(parents'[s])
            \in {Cardinality(parents[s]), Cardinality(parents[s]) + 1}
      BY <1>2, <3>1, FS_AddElement
    <3>3. QED
      BY <1>1, <1>3, <1>4, <2>1, <3>1, <3>2 DEF Stake
  <2>2. CASE s # cur.sym
    <3>1. parents'[s] = parents[s] /\ pos'[s] = pos[s]
      BY <1>4, <2>2 DEF Bought, TypeOK, BrokerType
    <3>2. QED
      BY <1>1, <3>1 DEF Stake
  <2>3. QED
    BY <2>1, <2>2
<1>5. CASE Rests \/ Sold \/ Cancelled
  BY <1>1, <1>5 DEF Rests, Sold, Cancelled, Stake
<1>6. ASSUME NEW t \in Symbols, ParentFills(t) PROVE Stake(s)' = Stake(s)
  <2>1. CASE s = t
    <3>1. PICK i \in parents[s] : parents'[s] = parents[s] \ {i}
      BY <1>6, <2>1 DEF ParentFills, TypeOK, BrokerType
    <3>2. Cardinality(parents'[s]) = Cardinality(parents[s]) - 1
      BY <1>2, <3>1, FS_RemoveElement
    <3>3. pos'[s] = pos[s] + 1
      BY <1>6, <2>1 DEF ParentFills, TypeOK, BrokerType
    <3>4. QED
      BY <1>3, <3>2, <3>3 DEF Stake
  <2>2. CASE s # t
    BY <1>6, <2>2 DEF ParentFills, TypeOK, BrokerType, Stake
  <2>3. QED
    BY <2>1, <2>2
<1>7. ASSUME NEW t \in Symbols, StopFills(t) \/ SellFills(t)
      PROVE  Stake(s)' \in Int /\ Stake(s)' <= Stake(s)
  <2>1. parents'[s] = parents[s]
    BY <1>7 DEF StopFills, SellFills
  <2>2. pos'[s] \in {pos[s], pos[s] - 1}
    BY <1>7 DEF StopFills, SellFills, TypeOK, BrokerType
  <2>3. QED
    BY <1>3, <2>1, <2>2 DEF Stake
<1>8. CASE ClosingBell
  <2>1. parents'[s] = {} /\ pos'[s] = pos[s]
    BY <1>8 DEF ClosingBell
  <2>2. Cardinality(parents'[s]) = 0
    BY <2>1, FS_EmptySet
  <2>3. QED
    BY <1>1, <1>3, <2>1, <2>2 DEF Stake
<1>9. QED
  BY <1>1, <1>4, <1>5, <1>6, <1>7, <1>8 DEF BookMove

(* During a drain the set of held symbols only grows.                      *)
LEMMA HeldMoves ==
  ASSUME [Next]_vars, pc' \in AfterSnapshot
  PROVE  GetPositions \/ (pc \in AfterSnapshot /\ held \subseteq held')
<1> USE DEF AfterSnapshot, InDrain, Sending
<1>1. CASE TickStart \/ ScanDone \/ ResolveAccount \/ SwapQueue
  BY <1>1 DEF TickStart, ScanDone, ResolveAccount, SwapQueue
<1>2. CASE TakeRaises \/ TakeSkip \/ TakeHalt \/ DrainEnd \/ TakeBuy \/ TakeSell
  BY <1>2 DEF TakeRaises, Raise, TakeSkip, TakeHalt, DrainEnd, TakeBuy,
     TakeSell
<1>3. CASE BuyResolve \/ BuyPlaced \/ BuyPlacedNoStopId \/ BuyFails
  BY <1>3 DEF BuyResolve, BuyPlaced, BuyPlacedNoStopId, BuyFails
<1>4. CASE SellResolve \/ SellCancel \/ SellPlace
  BY <1>4 DEF SellResolve, SellCancel, SellPlace
<1>5. CASE Engine \/ PortfolioRequest
  BY <1>5 DEF Engine, RebuildLive, EngineEntry, EngineReject, EngineExit,
     PortfolioRequest, drainVars
<1>6. CASE Broker
  BY <1>6 DEF Broker, ParentFills, StopFills, SellFills, OpeningBell,
     ClosingBell, Nightfall, NextMorning, drainVars
<1>7. CASE Crash \/ Restart
  BY <1>7 DEF Crash, Restart
<1>8. CASE UNCHANGED vars
  BY <1>8 DEF vars, drainVars
<1>9. QED
  BY <1>1, <1>2, <1>3, <1>4, <1>5, <1>6, <1>7, <1>8 DEF Next, Drain

(* The held check was made when the drain took the event up.               *)
LEMMA HandMatchesStep ==
  ASSUME HandMatchesHeld, [Next]_vars
  PROVE  HandMatchesHeld'
<1> USE DEF HandMatchesHeld, Buying, Selling
<1>1. CASE TakeBuy \/ TakeSell
  BY <1>1 DEF TakeBuy, TakeSell, Buys, Sells, HeldAtBroker
<1>2. CASE BuyResolve \/ SellResolve
  BY <1>2 DEF BuyResolve, SellResolve, Settle, Raise
<1>3. CASE BuyPlaced \/ BuyPlacedNoStopId \/ BuyFails
  BY <1>3 DEF BuyPlaced, BuyPlacedNoStopId, BuyFails, Settle, Raise
<1>4. CASE SellCancel \/ SellPlace
  BY <1>4 DEF SellCancel, SellPlace, Settle, Raise
<1>5. CASE TakeRaises \/ TakeSkip \/ TakeHalt \/ DrainEnd
  BY <1>5 DEF TakeRaises, TakeSkip, TakeHalt, DrainEnd, Raise
<1>6. CASE TickStart \/ ScanDone \/ ResolveAccount \/ GetPositions \/ SwapQueue
  BY <1>6 DEF TickStart, ScanDone, ResolveAccount, GetPositions, SwapQueue
<1>7. CASE Engine \/ PortfolioRequest
  BY <1>7 DEF Engine, RebuildLive, EngineEntry, EngineReject, EngineExit,
     PortfolioRequest, drainVars
<1>8. CASE Broker
  BY <1>8 DEF Broker, ParentFills, StopFills, SellFills, OpeningBell,
     ClosingBell, Nightfall, NextMorning, drainVars
<1>9. CASE Crash \/ Restart
  BY <1>9 DEF Crash, Restart
<1>10. CASE UNCHANGED vars
  BY <1>10 DEF vars, drainVars
<1>11. QED
  BY <1>1, <1>2, <1>3, <1>4, <1>5, <1>6, <1>7, <1>8, <1>9, <1>10
     DEF Next, Drain

(* A snapshot that is read finds what is held, and notes what is not yet.  *)
LEMMA SnapshotFinds ==
  ASSUME TypeOK, GetPositions, NEW s \in Symbols \ held'
  PROVE  \/ pos[s] = 0 /\ parents[s] = {}
         \/ mishap'[s] \cap {"blind", "unfilled"} # {}
  BY DEF GetPositions

LEMMA EntryStep ==
  ASSUME TypeOK, TypeOK', InHand, BalanceInv, EntryInv, [Next]_vars
  PROVE  EntryInv'
<1> USE DEF EntryInv
<1>1. BookMove
  BY EveryStepBooks DEF BalanceInv
<1>2. MishapsGrow
  BY <1>1, MishapsStay
<1>3. HandMatchesHeld'
  BY HandMatchesStep
<1> DEFINE ill(m) == m \cap {"blind", "unfilled", "reply_lost"} # {}
<1>4. \A s \in Symbols : ill(mishap[s]) => ill(mishap'[s])
  BY <1>2 DEF MishapsGrow
<1>5. \A s \in Symbols : /\ Stake(s) <= 1 \/ ill(mishap[s])
                         /\ Stake(s)' = pos'[s] + Cardinality(parents'[s])
  BY DEF OneEntryAtATime, Stake
<1>6. UnheldIsFree'
  <2> SUFFICES ASSUME pc' \in AfterSnapshot, NEW s \in Symbols \ held'
               PROVE  Stake(s)' <= 0 \/ ill(mishap'[s])
    BY <1>5 DEF UnheldIsFree
  <2>1. CASE GetPositions
    <3>1. CASE pos[s] = 0 /\ parents[s] = {}
      <4>1. pos'[s] = 0 /\ parents'[s] = {}
        BY <2>1, <3>1 DEF GetPositions, brokerVars
      <4>2. Cardinality(parents'[s]) = 0
        BY <4>1, FS_EmptySet
      <4>3. QED
        BY <1>5, <4>1, <4>2
    <3>2. QED
      BY <2>1, <3>1, SnapshotFinds
  <2>2. CASE pc \in AfterSnapshot /\ held \subseteq held'
    <3>1. Stake(s) <= 0 \/ ill(mishap[s])
      BY <2>2 DEF UnheldIsFree, Stake
    <3>2. CASE Bought /\ s = cur.sym
      BY <3>2 DEF Bought
    <3>3. CASE Stake(s)' <= Stake(s)
      BY <1>1, <1>4, <3>1, <3>3, StakeMoves
    <3>4. QED
      BY <1>1, <3>2, <3>3, StakeMoves
  <2>3. QED
    BY <2>1, <2>2, HeldMoves
<1>7. OneEntryAtATime'
  <2> SUFFICES ASSUME NEW s \in Symbols
               PROVE  Stake(s)' <= 1 \/ ill(mishap'[s])
    BY <1>5 DEF OneEntryAtATime
  <2>1. CASE Stake(s)' <= Stake(s)
    BY <1>1, <1>4, <1>5, <2>1, StakeMoves
  <2>2. CASE Bought /\ s = cur.sym /\ Stake(s)' <= Stake(s) + 1
    <3>1. s \notin held /\ pc \in AfterSnapshot
      BY <2>2 DEF Bought, HandMatchesHeld, Buying, AfterSnapshot, InDrain,
         Sending
    <3>2. Stake(s) <= 0 \/ ill(mishap[s])
      BY <3>1 DEF UnheldIsFree, Stake
    <3>3. QED
      BY <1>1, <1>4, <2>2, <3>2, StakeMoves
  <2>3. QED
    BY <1>1, <2>1, <2>2, StakeMoves
<1>8. QED
  BY <1>3, <1>6, <1>7

LEMMA EntryInit == Init => EntryInv
<1> SUFFICES ASSUME Init PROVE EntryInv
  OBVIOUS
<1>1. \A s \in Symbols : pos[s] = 0 /\ Cardinality(parents[s]) = 0
  BY FS_EmptySet DEF Init
<1>2. OneEntryAtATime
  BY <1>1 DEF OneEntryAtATime
<1>3. pc = "sleep"
  BY DEF Init
<1>4. QED
  BY <1>2, <1>3 DEF EntryInv, UnheldIsFree, HandMatchesHeld, AfterSnapshot,
     InDrain, Sending, Buying, Selling

LEMMA EntryCorrect == Spec => []EntryInv
<1>1. Init => EntryInv
  BY EntryInit
<1>2. TypeOK /\ TypeOK' /\ InHand /\ BalanceInv /\ EntryInv /\ [Next]_vars
        => EntryInv'
  BY EntryStep
<1>3. QED
  BY <1>1, <1>2, TypeCorrect, BalanceCorrect, PTL DEF Spec

(* The desk is never in for a second position of a symbol, across drains,  *)
(* days and restarts, but for the three ways its check can be deceived.    *)
THEOREM OneEntryCorrect == Spec => []OneEntryAtATime
<1>1. EntryInv => OneEntryAtATime
  BY DEF EntryInv
<1>2. QED
  BY <1>1, EntryCorrect, PTL

-----------------------------------------------------------------------------
(* Every live stop is tracked.                                             *)

(* Only an accepted bracket adds a stop.                                   *)
LEMMA StopMoves ==
  ASSUME TypeOK, BookMove, NEW s \in Symbols
  PROVE  \/ stops'[s] \subseteq stops[s]
         \/ /\ Bought /\ s = cur.sym
            /\ stops'[s] = stops[s] \cup {cur.id}
            /\ stopOrders'[s] = cur.id \/ "reply_lost" \in mishap'[s]
<1> USE DEF TypeOK, BrokerType
<1>1. CASE Bought
  <2>1. CASE stops' = stops
    BY <2>1
  <2>2. CASE stops' # stops
    BY <1>1, <2>2 DEF Bought
  <2>3. QED
    BY <2>1, <2>2
<1>2. CASE Rests \/ Sold
  BY <1>2 DEF Rests, Sold
<1>3. CASE Cancelled
  BY <1>3 DEF Cancelled
<1>4. ASSUME NEW t \in Symbols, ParentFills(t) \/ StopFills(t) \/ SellFills(t)
      PROVE  stops'[s] \subseteq stops[s]
  BY <1>4 DEF ParentFills, StopFills, SellFills
<1>5. CASE ClosingBell
  BY <1>5 DEF ClosingBell
<1>6. QED
  BY <1>1, <1>2, <1>3, <1>4, <1>5 DEF BookMove

(* A symbol that the snapshot finds neither held nor being bought has no   *)
(* stop at the broker, by the balance of its books.                        *)
LEMMA SnapshotStops ==
  ASSUME TypeOK, BalanceInv, SoldForgets, GetPositions, MishapsGrow,
         NEW s \in Symbols \ held'
  PROVE  stops[s] = {} \/ mishap'[s] \cap Untracked # {}
<1>1. CASE mishap'[s] \cap {"blind", "unfilled"} # {}
  BY <1>1 DEF Untracked
<1>2. CASE mishap[s] \cap {"sold_uncancelled", "entry_expired"} # {}
  BY <1>2 DEF SoldForgets, Untracked, MishapsGrow
<1>3. CASE /\ pos[s] = 0 /\ parents[s] = {}
           /\ Net(s) >= IF Exposed(s) THEN 1 ELSE 0
  <2>1. ~Exposed(s)
    BY DEF GetPositions, Exposed
  <2>2. Cardinality(parents[s]) = 0
    BY <1>3, FS_EmptySet
  <2>3. Cardinality(stops[s]) = 0
    BY <1>3, <2>1, <2>2, BookTypes DEF Net
  <2>4. IsFiniteSet(stops[s])
    BY BookTypes
  <2>5. QED
    BY <2>3, <2>4, FS_EmptySet
<1>4. QED
  BY <1>1, <1>2, <1>3, SnapshotFinds DEF BalanceInv, ShortOnlyIf

LEMMA UnheldStopStep ==
  ASSUME TypeOK, BookMove, BalanceInv, SoldForgets, UnheldHasNoStop,
         [Next]_vars
  PROVE  UnheldHasNoStop'
<1>1. MishapsGrow
  BY MishapsStay
<1> SUFFICES ASSUME pc' \in AfterSnapshot, NEW s \in Symbols \ held'
             PROVE  stops'[s] = {} \/ mishap'[s] \cap Untracked # {}
  BY DEF UnheldHasNoStop
<1>2. CASE GetPositions
  BY <1>1, <1>2, SnapshotStops DEF GetPositions, brokerVars
<1>3. CASE pc \in AfterSnapshot /\ held \subseteq held'
  <2>1. stops[s] = {} \/ mishap[s] \cap Untracked # {}
    BY <1>3 DEF UnheldHasNoStop
  <2>2. CASE mishap[s] \cap Untracked # {}
    BY <1>1, <2>2 DEF MishapsGrow
  <2>3. CASE stops[s] = {} /\ Bought /\ s = cur.sym
    BY <2>3 DEF Bought, Untracked
  <2>4. CASE stops[s] = {} /\ stops'[s] \subseteq stops[s]
    BY <2>4
  <2>5. QED
    BY <2>1, <2>2, <2>3, <2>4, StopMoves
<1>4. QED
  BY <1>2, <1>3, HeldMoves

(* An exit reaches its SELL with a cancel that took effect only by that    *)
(* cancel.                                                                 *)
LEMMA SellPlaceMoves ==
  ASSUME CancelAhead, [Next]_vars, pc' = "sellPlace", cancelTook'
  PROVE  \/ pc = "sellPlace" /\ UNCHANGED <<cancelTook, stopId, cur>>
         \/ SellCancel
<1>1. CASE TickStart \/ ScanDone \/ ResolveAccount \/ GetPositions \/ SwapQueue
  BY <1>1 DEF TickStart, ScanDone, ResolveAccount, GetPositions, SwapQueue
<1>2. CASE TakeRaises \/ TakeSkip \/ TakeHalt \/ DrainEnd \/ TakeBuy \/ TakeSell
  BY <1>2 DEF TakeRaises, Raise, TakeSkip, TakeHalt, DrainEnd, TakeBuy,
     TakeSell
<1>3. CASE BuyResolve \/ BuyPlaced \/ BuyPlacedNoStopId \/ BuyFails
  BY <1>3 DEF BuyResolve, BuyPlaced, BuyPlacedNoStopId, BuyFails, Settle, Raise
<1>4. CASE SellResolve \/ SellPlace
  BY <1>4 DEF SellResolve, SellPlace, Settle, Raise, CancelAhead
<1>5. CASE Engine \/ PortfolioRequest
  BY <1>5 DEF Engine, RebuildLive, EngineEntry, EngineReject, EngineExit,
     PortfolioRequest, drainVars
<1>6. CASE Broker
  BY <1>6 DEF Broker, ParentFills, StopFills, SellFills, OpeningBell,
     ClosingBell, Nightfall, NextMorning, drainVars
<1>7. CASE Crash \/ Restart
  BY <1>7 DEF Crash, Restart
<1>8. CASE UNCHANGED vars
  BY <1>8 DEF vars, drainVars
<1>9. QED
  BY <1>1, <1>2, <1>3, <1>4, <1>5, <1>6, <1>7, <1>8 DEF Next, Drain

LEMMA CancelledStep ==
  ASSUME TypeOK, InHand, BookMove, CancelAhead, CancelledIsGone, [Next]_vars
  PROVE  CancelledIsGone'
<1> SUFFICES ASSUME pc' = "sellPlace", cancelTook'
             PROVE  stopId' \notin stops'[cur'.sym]
  BY DEF CancelledIsGone
<1>1. CASE SellCancel
  <2>1. cur.sym \in Symbols /\ pc = "sellCancel"
    BY <1>1 DEF SellCancel, InHand, Sending, Event
  <2>2. QED
    BY <1>1, <2>1 DEF SellCancel, CancelAhead, TypeOK, BrokerType
<1>2. CASE pc = "sellPlace" /\ UNCHANGED <<cancelTook, stopId, cur>>
  <2>1. cur.sym \in Symbols
    BY <1>2 DEF InHand, Sending, Event
  <2>2. ~Bought
    BY <1>2 DEF Bought
  <2>3. stops'[cur.sym] \subseteq stops[cur.sym]
    BY <2>1, <2>2, StopMoves
  <2>4. QED
    BY <1>2, <2>3 DEF CancelledIsGone
<1>3. QED
  BY <1>1, <1>2, SellPlaceMoves

(* A SELL without a cancel is noted together with the stop it forgets.     *)
LEMMA SoldForgetsStep ==
  ASSUME TypeOK, InHand, SoldForgets, [Next]_vars
  PROVE  SoldForgets'
<1> USE DEF SoldForgets
<1>0. mishap \in [Symbols -> SUBSET Mishap]
  BY DEF TypeOK, HistoryType
<1>1. CASE mishap' = mishap
  BY <1>1
<1>2. CASE GetPositions \/ ClosingBell
  BY <1>2 DEF GetPositions, ClosingBell
<1>3. ASSUME NEW s \in Symbols, NEW what, Note(s, what),
             "sold_uncancelled" \in what => "stop_forgotten" \in what
      PROVE  SoldForgets'
  BY <1>0, <1>3 DEF Note
<1>4. CASE BuyPlacedNoStopId \/ BuyFails \/ SellResolve \/ SellPlace
  <2>1. cur.sym \in Symbols
    BY <1>4 DEF BuyPlacedNoStopId, BuyFails, SellResolve, SellPlace, InHand,
       Sending, Event
  <2>2. CASE BuyPlacedNoStopId \/ BuyFails
    BY <1>1, <1>3, <2>1, <2>2 DEF BuyPlacedNoStopId, BuyFails
  <2>3. CASE SellResolve
    BY <1>1, <1>3, <2>1, <2>3 DEF SellResolve
  <2>4. CASE SellPlace
    BY <1>3, <2>1, <2>4 DEF SellPlace
  <2>5. QED
    BY <1>4, <2>2, <2>3, <2>4
<1>5. CASE Crash
  <2>1. pc = "sellPlace" => cur.sym \in Symbols
    BY DEF InHand, Sending, Event
  <2>2. QED
    BY <1>1, <1>3, <1>5, <2>1 DEF Crash
<1>6. CASE Engine \/ PortfolioRequest \/ Restart \/ UNCHANGED vars
  BY <1>1, <1>6 DEF Engine, RebuildLive, EngineEntry, EngineReject, EngineExit,
     PortfolioRequest, Restart, vars, histVars
<1>7. CASE Broker /\ ~ClosingBell
  BY <1>1, <1>7 DEF Broker, ParentFills, StopFills, SellFills, OpeningBell,
     Nightfall, NextMorning, histVars
<1>8. CASE Drain
  BY <1>1, <1>2, <1>4, <1>8 DEF Drain, TickStart, ScanDone,
     ResolveAccount, SwapQueue, TakeRaises, TakeSkip, TakeHalt, TakeBuy,
     TakeSell, BuyResolve, BuyPlaced, SellCancel, DrainEnd, histVars
<1>9. QED
  BY <1>2, <1>5, <1>6, <1>7, <1>8 DEF Next

Tracked(s, i) ==
  \/ pc = "down" \/ i < firstId
  \/ stopOrders[s] = i
  \/ pc \in Selling /\ cur.sym = s /\ stopId = i
  \/ mishap[s] \cap Untracked # {}

(* A stop that rests stays tracked, whatever the step.                     *)
LEMMA TrackKept ==
  ASSUME TypeOK, InHand, OrderInv, BalanceInv, HandMatchesHeld,
         UnheldHasNoStop, CancelledIsGone, MishapsGrow, [Next]_vars,
         NEW s \in Symbols, NEW i \in stops[s], Tracked(s, i)
  PROVE  Tracked(s, i)'
<1>0. /\ stopOrders \in [Symbols -> Ids \cup {NoId}]
      /\ mishap[s] \cap Untracked # {} => mishap'[s] \cap Untracked # {}
  BY DEF TypeOK, ServiceType, MishapsGrow
<1> USE DEF Tracked, Selling
<1>1. CASE UNCHANGED <<pc, cur, stopId, stopOrders, firstId>>
  BY <1>0, <1>1
<1>2. CASE /\ pc \notin Selling \cup {"down"}
           /\ UNCHANGED <<stopOrders, firstId>>
  BY <1>0, <1>2
<1>3. CASE Engine \/ PortfolioRequest \/ UNCHANGED vars
  BY <1>1, <1>3 DEF Engine, RebuildLive, EngineEntry, EngineReject, EngineExit,
     PortfolioRequest, vars, svcVars, drainVars, histVars
<1>4. CASE Broker
  BY <1>1, <1>4 DEF Broker, ParentFills, StopFills, SellFills, OpeningBell,
     ClosingBell, Nightfall, NextMorning, svcVars, drainVars, histVars
<1>5. CASE TickStart \/ ScanDone \/ ResolveAccount \/ GetPositions \/ SwapQueue
  BY <1>2, <1>5 DEF TickStart, ScanDone, ResolveAccount, GetPositions,
     SwapQueue, svcVars, histVars
<1>6. CASE TakeRaises \/ TakeSkip \/ TakeHalt \/ DrainEnd \/ TakeBuy
  BY <1>2, <1>6 DEF TakeRaises, TakeSkip, TakeHalt, DrainEnd, TakeBuy,
     svcVars, histVars
<1>7. CASE BuyResolve \/ BuyPlacedNoStopId \/ BuyFails
  BY <1>2, <1>7 DEF BuyResolve, BuyPlacedNoStopId, BuyFails, histVars
<1>8. CASE BuyPlaced
  <2>1. CASE s # cur.sym
    BY <1>0, <1>8, <2>1 DEF BuyPlaced
  <2>2. CASE s = cur.sym
    <3>1. s \notin held /\ pc \in AfterSnapshot
      BY <1>8, <2>2 DEF BuyPlaced, HandMatchesHeld, Buying, AfterSnapshot,
         InDrain, Sending
    <3>2. mishap[s] \cap Untracked # {}
      BY <3>1 DEF UnheldHasNoStop
    <3>3. QED
      BY <1>0, <3>2
  <2>3. QED
    BY <2>1, <2>2
<1>9. CASE TakeSell
  <2>1. pc = "next" /\ pc' = "sellResolve" /\ firstId' = firstId
    BY <1>9 DEF TakeSell, histVars
  <2>2. CASE stopOrders[s] = i /\ s = Head(queue).sym
    BY <1>9, <2>1, <2>2 DEF TakeSell
  <2>3. CASE stopOrders[s] = i /\ s # Head(queue).sym
    <3>1. stopOrders'[s] = i
      BY <1>0, <1>9, <2>3 DEF TakeSell
    <3>2. QED
      BY <3>1
  <2>4. CASE i < firstId \/ mishap[s] \cap Untracked # {}
    BY <1>0, <2>1, <2>4
  <2>5. QED
    BY <2>1, <2>2, <2>3, <2>4
<1>10. CASE SellResolve
  <2>1. CASE pc' \in Selling /\ UNCHANGED <<cur, stopId>>
    BY <1>0, <1>10, <2>1 DEF SellResolve
  <2>2. CASE Settle(cur, "error") /\ Note(cur.sym, {"stop_forgotten"})
    <3>1. cur.sym \in Symbols
      BY <1>10 DEF SellResolve, InHand, Sending, Event
    <3>2. "stop_forgotten" \in mishap'[cur.sym]
      BY <2>2, <3>1, NoteGrows
    <3>3. QED
      BY <1>0, <1>10, <3>2 DEF SellResolve, Untracked
  <2>3. QED
    BY <1>10, <2>1, <2>2 DEF SellResolve
<1>11. CASE SellCancel
  BY <1>0, <1>11 DEF SellCancel, svcVars, histVars
<1>12. CASE SellPlace
  <2>1. cur.sym \in Symbols
    BY <1>12 DEF SellPlace, InHand, Sending, Event
  <2>2. cancelTook \/ "stop_forgotten" \in mishap'[cur.sym]
    BY <1>12, <2>1, NoteGrows DEF SellPlace
  <2>3. CASE cur.sym = s /\ stopId = i /\ cancelTook
    BY <1>12, <2>3 DEF SellPlace, CancelledIsGone
  <2>4. CASE cur.sym = s /\ "stop_forgotten" \in mishap'[cur.sym]
    BY <2>4 DEF Untracked
  <2>5. CASE ~(cur.sym = s /\ stopId = i)
    BY <1>0, <1>12, <2>5 DEF SellPlace
  <2>6. QED
    BY <2>2, <2>3, <2>4, <2>5
<1>13. CASE Crash
  BY <1>13 DEF Crash
<1>14. CASE Restart
  <2>1. i \in sentIds
    BY DEF BalanceInv, OrdersSent
  <2>2. i < nextId
    BY <2>1 DEF OrderInv, SentBefore
  <2>3. QED
    BY <1>14, <2>2 DEF Restart
<1>15. QED
  BY <1>3, <1>4, <1>5, <1>6, <1>7, <1>8, <1>9, <1>10, <1>11, <1>12, <1>13,
     <1>14 DEF Next, Drain

LEMMA TrackStep ==
  ASSUME TypeOK, InHand, OrderInv, BalanceInv, EntryInv, TrackInv, [Next]_vars
  PROVE  TrackInv'
<1> USE DEF TrackInv
<1>1. BookMove
  BY EveryStepBooks DEF BalanceInv
<1>2. MishapsGrow
  BY <1>1, MishapsStay
<1>3. UnheldHasNoStop'
  BY <1>1, UnheldStopStep
<1>4. CancelledIsGone'
  BY <1>1, CancelledStep DEF BalanceInv
<1>5. SoldForgets'
  BY SoldForgetsStep
<1>6. TrackedBySymbol'
  <2> SUFFICES ASSUME NEW s \in Symbols, NEW i \in stops'[s]
               PROVE  Tracked(s, i)'
    BY DEF TrackedBySymbol, Tracked
  <2>1. CASE i \in stops[s]
    <3>1. Tracked(s, i)
      BY <2>1 DEF TrackedBySymbol, Tracked
    <3>2. QED
      BY <1>2, <2>1, <3>1, TrackKept DEF EntryInv
  <2>2. CASE i \notin stops[s]
    BY <1>1, <2>2, StopMoves DEF Tracked, Untracked
  <2>3. QED
    BY <2>1, <2>2
<1>7. QED
  BY <1>3, <1>4, <1>5, <1>6

LEMMA TrackInit == Init => TrackInv
  BY DEF Init, TrackInv, UnheldHasNoStop, CancelledIsGone, SoldForgets,
     TrackedBySymbol

(* Every live stop is one the desk can cancel: it is in stop_orders or in  *)
(* the hands of the exit in progress, but for the named ways to lose it.   *)
THEOREM TrackedCorrect == Spec => []StopsAreTracked
<1>1. Init => TrackInv
  BY TrackInit
<1>2. TypeOK /\ InHand /\ OrderInv /\ BalanceInv /\ EntryInv /\ TrackInv
        /\ [Next]_vars => TrackInv'
  BY TrackStep
<1>3. TrackInv => StopsAreTracked
  BY DEF TrackInv, TrackedBySymbol, StopsAreTracked, Selling, Untracked
<1>4. QED
  BY <1>1, <1>2, <1>3, TypeCorrect, OrderCorrect, BalanceCorrect,
     EntryCorrect, PTL DEF Spec

=============================================================================
