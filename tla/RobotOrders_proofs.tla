----------------------- MODULE RobotOrders_proofs -----------------------
(***************************************************************************)
(* TypeOK, OpenOrderSound, PendingLegSound and CountedOnce are invariants  *)
(* of RobotOrders, for any set of orders, any number of martingale steps,  *)
(* any stop and any set of disturbances.                                   *)
(*                                                                         *)
(* IndInv is the inductive invariant.  The actions that only put the robot *)
(* to rest are alike: QuietStep and LegClosedStep cover them.  Each action *)
(* that moves an order has a lemma of its own.                             *)
(*                                                                         *)
(* Four more invariants stand on IndInv. OneLiveOrder: when no disturbance *)
(* takes the open operation away from the robot, it never has two orders   *)
(* open at the broker. HistoryAgrees: the panel's history lists as WIN or  *)
(* LOSS exactly the orders that are in the score. LegFollowed: a lost leg  *)
(* is followed or counted. SequencePaid: a closed cycle has the money of   *)
(* all its orders in the profit.                                           *)
(***************************************************************************)
EXTENDS RobotOrders, AutoTraderLemmas, FiniteSetTheorems

\* What the actions that do not move an order leave of the other variables.
Environment ==
    /\ mirror' \in [Order -> TradeResult] /\ history' \in [Order -> TradeResult]
    /\ broker' \in [Order -> BrokerState]
    /\ \A o \in Order : broker'[o] = "idle" => broker[o] = "idle"
    /\ parent' = parent /\ monitor' = monitor /\ timedOut' = timedOut

\* The fields of "no trade" the proofs read.
LEMMA NoTradeFacts == NoTrade.result = "NONE" /\ NoTrade.id = NoOrder
BY DEF NoTrade

\* No submission is a submission record.
LEMMA NoCallFacts == NoCall \in Call /\ NoCall.stage = "none"
BY GaleAssumption DEF NoCall, Call

\* persist_robot writes a result in the mirror.
LEMMA MirrorType ==
    ASSUME NEW s \in Robot, NEW m \in [Order -> TradeResult]
    PROVE  MirrorLast(s, m) \in [Order -> TradeResult]
BY DEF MirrorLast, Robot, Trade

\* A leg that waits is a closed order.
LEMMA LegIsOrder ==
    ASSUME IndInv
    PROVE  robot.galePending =>
              robot.galeParent.result = "LEG" /\ robot.galeParent.id \in Order
BY DEF IndInv, TypeOK, PendingLegSound, Robot

\* A step that moves no order keeps the invariant.
LEMMA QuietStep ==
    ASSUME IndInv, Environment, Quiet(robot, robot'),
           call' \in Call, call'.stage = "accepted" => call' = call,
           call'.stage # "none" =>
              /\ robot'.enabled
              /\ robot'.galePending => call'.step > 0
              /\ call'.parent # NoOrder =>
                    /\ call'.parent \in robot.completed /\ Score(call'.parent) = 0
                    /\ robot'.galePending => call'.parent = robot'.galeParent.id
    PROVE  IndInv'
<1> USE DEF IndInv
<1>1. TypeOK'
  BY DEF Environment, Quiet, TypeOK
<1>2. robot'.last = robot.last \/ robot'.last = NoTrade
  BY DEF Quiet
<1>3. LastTradeSound'
  BY <1>2, NoTradeFacts DEF Environment, Quiet, LastTradeSound
<1>4. OpenOrderSound'
  BY DEF Quiet, OpenOrderSound
<1>5. PendingLegSound'
  BY DEF Quiet, PendingLegSound, SameScore, Score, ScoreOf
<1>6. LegContext'
  BY <1>2 DEF Environment, Quiet, LegContext
<1>7. CallSound'
  <2>1. robot'.completed = robot.completed /\ ~robot'.op
    BY DEF Quiet, SameScore
  <2>2. call'.parent \in robot.completed /\ Score(call'.parent) = 0 =>
           call'.parent \in robot'.completed /\ ScoreOf(robot', call'.parent) = 0
    BY DEF Quiet, SameScore, Score, ScoreOf
  <2>3. call.stage = "accepted" =>
           /\ call.id # robot'.last.id
           /\ call.id \notin robot'.completed \cup monitor' \cup timedOut'
    BY <1>2, <2>1, NoTradeFacts, OrderAssumption DEF Environment, CallSound
  <2> QED BY <2>1, <2>2, <2>3 DEF CallSound, Score
<1>10. OriginSound'
  BY <1>2, NoTradeFacts DEF Quiet, SameScore, OriginSound, Score, ScoreOf
<1>8. IdleIsUnknown'
  BY <1>2, NoTradeFacts, OrderAssumption
     DEF Environment, Quiet, SameScore, IdleIsUnknown
<1>9. ScoreSound'
  <2>1. \A o \in Order : parent[o] # NoOrder => parent[o] # robot'.last.id
    BY <1>2, NoTradeFacts DEF ScoreSound
  <2> QED BY <2>1 DEF Environment, Quiet, SameScore, ScoreSound, Score, ScoreOf
<1> QED BY <1>1, <1>3, <1>4, <1>5, <1>6, <1>7, <1>8, <1>9, <1>10

\* A step that counts the waiting leg keeps the invariant.
LEMMA LegClosedStep ==
    ASSUME IndInv, Environment, robot.galePending, LegClosed(robot, robot'),
           robot'.signal = NoSignal, call' \in Call, call'.stage = "none"
    PROVE  IndInv'
<1> USE DEF IndInv
<1> DEFINE id == robot.galeParent.id
<1>1. TypeOK'
  BY DEF Environment, LegClosed, TypeOK
<1>2. /\ robot.galeParent.result = "LEG" /\ id \in robot.completed /\ id \in Order
      /\ Score(id) = 0
  BY LegIsOrder DEF PendingLegSound
<1>3. /\ robot'.last.result \in {"LOSS", "NONE"}
      /\ robot'.last.id \in {id, NoOrder}
      /\ robot'.last.result = "LOSS" => robot'.last.id = id
  BY NoTradeFacts DEF LegClosed, TypeOK, Robot, Trade
<1>4. LastTradeSound'
  BY <1>2, <1>3 DEF LegClosed, LastTradeSound
<1>5. /\ OpenOrderSound' /\ PendingLegSound' /\ LegContext' /\ CallSound'
      /\ OriginSound'
  BY DEF LegClosed, OpenOrderSound, PendingLegSound, LegContext, CallSound,
         OriginSound, NoSignal
<1>6. IdleIsUnknown'
  BY <1>2, <1>3, OrderAssumption DEF Environment, LegClosed, IdleIsUnknown
<1>7. ScoreSound'
  <2>1. \A o \in Order \ {id} : ScoreOf(robot', o) = ScoreOf(robot, o)
    BY DEF LegClosed, ScoreOf, TypeOK, Robot
  <2>2. ScoreOf(robot', id) = 1
    BY <1>2 DEF LegClosed, TypeOK, Robot, Score, ScoreOf
  <2>3. \A o \in Order : parent[o] # NoOrder => parent[o] \in Order \ {id}
    BY DEF LegContext, TypeOK
  <2>4. \A o \in Order : parent[o] # NoOrder => parent[o] # robot'.last.id
    BY <1>3, <2>3
  <2>5. parent' = parent /\ timedOut' = timedOut /\ robot'.completed = robot.completed
    BY DEF Environment, LegClosed
  <2>6. id \in robot.completed
    BY <1>2
  <2> HIDE DEF id
  <2>7. ASSUME NEW o \in Order \ timedOut
        PROVE  /\ ScoreOf(robot', o) <= 1
               /\ o \notin robot'.completed => ScoreOf(robot', o) = 0
    BY <2>1, <2>2, <2>5, <2>6 DEF ScoreSound, Score
  <2>8. \A o \in Order : parent[o] # NoOrder =>
           parent[o] \in robot'.completed /\ ScoreOf(robot', parent[o]) = 0
    BY <2>1, <2>3, <2>5 DEF ScoreSound, Score
  <2> QED BY <2>4, <2>5, <2>7, <2>8 DEF ScoreSound, Score
<1> QED BY <1>1, <1>4, <1>5, <1>6, <1>7

\* close_abandoned_gale_cycle followed by a quiet operation: the worker's
\* recycle, stop and invalid order, and the runtime's stop command.
LEMMA CloseGaleStep ==
    ASSUME IndInv, NEW c, c = CloseAbandonedGale(robot),
           AtRest(c, robot'), Environment, call' \in Call, call'.stage = "none"
    PROVE  IndInv'
<1>1. robot \in Robot
  BY DEF IndInv, TypeOK
<1>2. /\ c \in Robot /\ ~c.galePending
      /\ IF robot.galePending
         THEN /\ LegClosed(robot, c) /\ c.galeOrigin = NoOrder
              /\ c.last = [robot.galeParent EXCEPT !.result = "LOSS"]
         ELSE c = robot
  BY <1>1, LegIsOrder, CloseAbandonedFacts
<1>3. IF robot.galePending THEN LegClosed(robot, robot') ELSE Quiet(robot, robot')
  BY <1>1, <1>2, ClosedThenQuiet DEF AtRest
<1>4. robot'.signal = NoSignal
  BY DEF AtRest
<1> QED BY <1>3, <1>4, QuietStep, LegClosedStep

-----------------------------------------------------------------------------
(* The actions that put the robot to rest.                                 *)

\* close_abandoned_gale_cycle and a quiet call keep the invariant.
LEMMA CloseGaleThenStep ==
    ASSUME IndInv, NEW s, AtRest(CloseAbandonedGale(robot), s), robot' = s,
           IF HasAbandonedGale(robot)
           THEN /\ history' = [history EXCEPT ![robot.galeParent.id] = "LOSS"]
                /\ mirror' = MirrorLast(s, [mirror EXCEPT ![robot.galeParent.id] = "LOSS"])
           ELSE Persist(s) /\ UNCHANGED history,
           broker' \in [Order -> BrokerState],
           \A o \in Order : broker'[o] = "idle" => broker[o] = "idle",
           UNCHANGED <<parent, monitor, timedOut>>,
           call' \in Call, call'.stage = "none"
    PROVE  IndInv'
<1>1. s \in Robot
  BY DEF AtRest, Quiet
<1>2. /\ mirror \in [Order -> TradeResult] /\ history \in [Order -> TradeResult]
      /\ "LOSS" \in TradeResult
  BY DEF IndInv, TypeOK, TradeResult, Final
<1>3. /\ [mirror EXCEPT ![robot.galeParent.id] = "LOSS"] \in [Order -> TradeResult]
      /\ [history EXCEPT ![robot.galeParent.id] = "LOSS"] \in [Order -> TradeResult]
  BY <1>2
<1>4. mirror' \in [Order -> TradeResult] /\ history' \in [Order -> TradeResult]
  <2>1. CASE HasAbandonedGale(robot)
    <3> DEFINE m == [mirror EXCEPT ![robot.galeParent.id] = "LOSS"]
    <3>1. mirror' = MirrorLast(s, m)
      BY <2>1
    <3>2. history' = [history EXCEPT ![robot.galeParent.id] = "LOSS"]
      BY <2>1
    <3>3. m \in [Order -> TradeResult] /\ history' \in [Order -> TradeResult]
      BY <1>3, <3>2
    <3> HIDE DEF m
    <3> QED BY <1>1, <3>1, <3>3, MirrorType
  <2>2. CASE ~HasAbandonedGale(robot)
    BY <1>1, <1>2, <2>2, MirrorType DEF Persist
  <2> QED BY <2>1, <2>2
<1>5. Environment
  BY <1>4 DEF Environment
<1> QED BY <1>5, CloseGaleStep

\* An abandoned submission only makes an order known to the broker.
LEMMA AbandonFacts ==
    ASSUME TypeOK, AbandonCall
    PROVE  /\ call' = NoCall /\ broker' \in [Order -> BrokerState]
           /\ \A o \in Order : broker'[o] = "idle" => broker[o] = "idle"
BY DEF TypeOK, AbandonCall, BrokerState

\* Persist keeps the type of the mirror.
LEMMA PersistType ==
    ASSUME TypeOK, NEW s \in Robot, Persist(s)
    PROVE  mirror' \in [Order -> TradeResult]
BY MirrorType DEF TypeOK, Persist

\* The steps that first close an abandoned leg keep the invariant.
LEMMA RestActions ==
    ASSUME IndInv,
           \/ RecycleCycle \/ PauseRobotByStop \/ OrderInvalid \/ StopWorker
    PROVE  IndInv'
<1> DEFINE c == CloseAbandonedGale(robot)
<1>1. robot \in Robot /\ call \in Call /\ broker \in [Order -> BrokerState] /\ TypeOK
  BY DEF IndInv, TypeOK
<1>2. c \in Robot /\ ~c.galePending
  BY <1>1, LegIsOrder, CloseAbandonedFacts
<1>3. CASE RecycleCycle \/ OrderInvalid
  <2>1. AtRest(c, ResetCycleAfterResult(c))
    BY <1>2, ResetQuiet
  <2>2. /\ CloseGaleThen(ResetCycleAfterResult(c)) /\ call' = call /\ call.stage = "none"
        /\ UNCHANGED <<parent, broker, monitor, timedOut>>
    BY <1>3 DEF RecycleCycle, OrderInvalid, CycleLockFree
  <2> QED BY <1>1, <2>1, <2>2, CloseGaleThenStep DEF CloseGaleThen
<1>4. CASE PauseRobotByStop
  <2>1. AtRest(c, PauseByStop(c))
    BY <1>2, PauseQuiet
  <2>2. /\ CloseGaleThen(PauseByStop(c)) /\ call' = call /\ call.stage = "none"
        /\ UNCHANGED <<parent, broker, monitor, timedOut>>
    BY <1>4 DEF PauseRobotByStop, CycleLockFree
  <2> QED BY <1>1, <2>1, <2>2, CloseGaleThenStep DEF CloseGaleThen
<1>5. CASE StopWorker
  <2>1. AtRest(c, Stop(c))
    BY <1>2, StopQuiet
  <2>2. CloseGaleThen(Stop(c)) /\ AbandonCall /\ UNCHANGED <<parent, monitor, timedOut>>
    BY <1>5 DEF StopWorker
  <2> QED BY <1>1, <2>1, <2>2, AbandonFacts, NoCallFacts, CloseGaleThenStep
          DEF CloseGaleThen
<1> QED BY <1>3, <1>4, <1>5

\* Finding, losing and sending a signal keep the invariant.
LEMMA SignalActions ==
    ASSUME IndInv,
           FindSignal \/ SignalExpires \/ BeginSend \/ RecoverAnalysisError \/ RealLocked
    PROVE  IndInv'
<1>1. /\ robot \in Robot /\ call \in Call /\ broker \in [Order -> BrokerState]
      /\ mirror \in [Order -> TradeResult] /\ history \in [Order -> TradeResult]
      /\ TypeOK
  BY DEF IndInv, TypeOK
<1>2. CASE FindSignal
  <2>1. ~robot.op
    BY <1>2 DEF FindSignal, CanAnalyse
  <2>2. Quiet(robot, robot')
    BY <1>1, <1>2, <2>1, SetPendingQuiet DEF FindSignal
  <2>3. Environment
    BY <1>1, <1>2, <2>2, PersistType DEF FindSignal, Environment, Quiet
  <2> QED BY <1>1, <1>2, <2>2, <2>3, QuietStep DEF FindSignal, CycleLockFree
<1>3. CASE SignalExpires
  <2>1. Quiet(robot, robot')
    BY <1>1, <1>3, ExpireQuiet DEF SignalExpires, AtRest
  <2>2. Environment
    BY <1>1, <1>3, <2>1, PersistType DEF SignalExpires, Environment, Quiet
  <2> QED BY <1>1, <1>3, <2>1, <2>2, QuietStep DEF SignalExpires, CycleLockFree
<1>4. CASE BeginSend
  <2>1. ~robot.op /\ robot.enabled
    BY <1>4 DEF BeginSend, CanSend
  <2>2. /\ Quiet(robot, robot') /\ robot'.enabled = robot.enabled
        /\ robot'.galePending = robot.galePending
        /\ robot'.galeParent = robot.galeParent
    BY <1>1, <1>4, <2>1, SendingQuiet DEF BeginSend
  <2>3. Environment
    BY <1>1, <1>4 DEF BeginSend, Environment
  <2>4. /\ IsGaleOrder(robot) <=> robot.galePending
        /\ SentStep(robot) \in 0..MaxGale
        /\ SentStep(robot) > 0 <=> robot.galePending
    BY <1>1, SentStepFacts DEF IndInv, LegContext
  <2>5. robot.galeParent.id \in Order \cup {NoOrder}
    BY <1>1 DEF Robot, Trade
  <2>6. /\ call' \in Call /\ call'.stage = "submitting" /\ call'.step = SentStep(robot)
        /\ call'.parent = IF robot.galePending THEN robot.galeParent.id ELSE NoOrder
    BY <1>4, <2>4, <2>5 DEF BeginSend, Call
  <2>7. robot.galePending =>
           robot.galeParent.id \in robot.completed /\ Score(robot.galeParent.id) = 0
    BY DEF IndInv, PendingLegSound
  <2> QED BY <2>1, <2>2, <2>3, <2>4, <2>6, <2>7, QuietStep
<1>5. CASE RecoverAnalysisError \/ RealLocked
  <2>1. Quiet(robot, robot')
    BY <1>1, <1>5, DropQuiet DEF RecoverAnalysisError, RealLocked, TickDropsSignal, AtRest
  <2>2. Environment
    BY <1>1, <1>5, <2>1, PersistType
       DEF RecoverAnalysisError, RealLocked, TickDropsSignal, Environment, Quiet
  <2> QED BY <1>1, <1>5, <2>1, <2>2, QuietStep
          DEF RecoverAnalysisError, RealLocked, TickDropsSignal, CycleLockFree
<1> QED BY <1>2, <1>3, <1>4, <1>5

\* The failures of a submission keep the invariant.
LEMMA EndOfCallActions ==
    ASSUME IndInv,
           OrderFails \/ InsufficientBalance \/ CycleTimeout
    PROVE  IndInv'
<1>1. /\ robot \in Robot /\ broker \in [Order -> BrokerState]
      /\ mirror \in [Order -> TradeResult] /\ history \in [Order -> TradeResult]
      /\ TypeOK
  BY DEF IndInv, TypeOK
<1>2. CASE OrderFails
  <2>1. Quiet(robot, robot')
    BY <1>1, <1>2, RejectQuiet DEF OrderFails, AtRest
  <2>2. Environment
    BY <1>1, <1>2, <2>1, PersistType DEF OrderFails, Environment, Quiet
  <2> QED BY <1>2, <2>1, <2>2, NoCallFacts, QuietStep DEF OrderFails
<1>3. CASE InsufficientBalance
  <2>1. Quiet(robot, robot')
    BY <1>1, <1>3, StopQuiet DEF InsufficientBalance, AtRest
  <2>2. Environment
    BY <1>1, <1>3, <2>1, PersistType DEF InsufficientBalance, Environment, Quiet
  <2> QED BY <1>3, <2>1, <2>2, NoCallFacts, QuietStep DEF InsufficientBalance
<1>4. CASE CycleTimeout
  <2>1. ~robot.op
    BY <1>4 DEF CycleTimeout, CycleLockFree, IndInv, CallSound
  <2>2. Quiet(robot, robot')
    BY <1>1, <1>4, <2>1 DEF CycleTimeout, Quiet, SameScore, IndInv, LegContext
  <2>3. Environment
    BY <1>1, <1>4, PersistType, AbandonFacts DEF CycleTimeout, Environment
  <2> QED BY <1>1, <1>4, <2>2, <2>3, AbandonFacts, NoCallFacts, QuietStep DEF CycleTimeout
<1> QED BY <1>2, <1>3, <1>4

\* What the user does keeps the invariant.
LEMMA UserActions ==
    ASSUME IndInv,
           \/ StartRobot \/ StartLocked
           \/ StopEmbedded \/ Disconnect \/ ClearStaleOpenOperation
    PROVE  IndInv'
<1>1. /\ robot \in Robot /\ broker \in [Order -> BrokerState] /\ call \in Call
      /\ mirror \in [Order -> TradeResult] /\ history \in [Order -> TradeResult]
      /\ TypeOK
  BY DEF IndInv, TypeOK
<1>2. CASE StartRobot
  <2>4. robot' = Start(robot)
    BY <1>2 DEF StartRobot
  <2>5. robot'.enabled /\ ~robot'.galePending
    BY <1>1, <2>4 DEF Start, Robot
  <2>1. Quiet(robot, robot') /\ robot'.enabled /\ ~robot'.galePending
    BY <1>1, <2>4, <2>5, StartQuiet
  <2>2. Environment
    BY <1>1, <1>2, <2>1, PersistType DEF StartRobot, Environment, Quiet
  <2>3. call.stage # "none" /\ call.parent # NoOrder =>
           call.parent \in robot.completed /\ Score(call.parent) = 0
    BY DEF IndInv, CallSound
  <2> QED BY <1>1, <1>2, <2>1, <2>2, <2>3, QuietStep DEF StartRobot
<1>6. CASE StartLocked
  <2>1. /\ Quiet(robot, robot') /\ robot'.enabled = robot.enabled
        /\ robot'.galePending = robot.galePending
        /\ robot'.galeParent = robot.galeParent
    BY <1>1, <1>6, DropQuiet DEF StartLocked, AtRest
  <2>2. Environment
    BY <1>1, <1>6, <2>1, PersistType DEF StartLocked, Environment, Quiet
  <2>3. call.stage # "none" =>
           /\ robot.enabled
           /\ robot.galePending => call.step > 0
           /\ call.parent # NoOrder =>
                 /\ call.parent \in robot.completed /\ Score(call.parent) = 0
                 /\ robot.galePending => call.parent = robot.galeParent.id
    BY DEF IndInv, CallSound
  <2> QED BY <1>1, <1>6, <2>1, <2>2, <2>3, QuietStep DEF StartLocked
<1>3. CASE StopEmbedded
  <2>1. Quiet(robot, robot')
    BY <1>1, <1>3, StopQuiet DEF StopEmbedded, AtRest
  <2>2. Environment
    BY <1>1, <1>3, <2>1, PersistType, AbandonFacts DEF StopEmbedded, Environment, Quiet
  <2> QED BY <1>1, <1>3, <2>1, <2>2, AbandonFacts, NoCallFacts, QuietStep DEF StopEmbedded
<1>4. CASE Disconnect
  <2>1. Quiet(robot, robot')
    BY <1>1, <1>4, DisconnectQuiet DEF Disconnect
  <2>2. Environment
    BY <1>1, <1>4, AbandonFacts DEF Disconnect, Environment
  <2> QED BY <1>1, <1>4, <2>1, <2>2, AbandonFacts, NoCallFacts, QuietStep DEF Disconnect
<1>5. CASE ClearStaleOpenOperation
  <2>1. /\ robot' \in Robot /\ ~robot'.op /\ ~robot'.galePending /\ ~robot'.enabled
        /\ SameScore(robot, robot') /\ robot'.last = robot.last
        /\ robot'.signal = robot.signal /\ ~robot.enabled
    <3> DEFINE st == IF robot.status \in StickyStatus THEN "stopped" ELSE robot.status
    <3>1. st \in Status
      BY <1>1 DEF Robot, Status
    <3>2. /\ robot' = [robot EXCEPT !.op = FALSE, !.galePending = FALSE, !.status = st]
          /\ ~robot.enabled
      BY <1>5 DEF ClearStaleOpenOperation
    <3> HIDE DEF st
    <3> QED BY <1>1, <3>1, <3>2 DEF Robot, SameScore
  <2>2. Quiet(robot, robot')
    BY <2>1 DEF Quiet, IndInv, LegContext
  <2>3. Environment
    BY <1>1, <1>5, <2>1, PersistType DEF ClearStaleOpenOperation, Environment
  <2>4. call.stage = "none"
    BY <1>5 DEF ClearStaleOpenOperation, IndInv, CallSound
  <2> QED BY <1>1, <1>5, <2>2, <2>3, <2>4, QuietStep DEF ClearStaleOpenOperation
<1> QED BY <1>2, <1>3, <1>4, <1>5, <1>6

-----------------------------------------------------------------------------
(* The actions that move an order.                                         *)

\* What the broker does keeps the invariant.
LEMMA BrokerActions ==
    ASSUME IndInv, NEW o \in Order,
           BrokerAccepts(o) \/ BrokerCloses(o)
    PROVE  IndInv'
<1> USE DEF IndInv
<1>1. robot' = robot /\ parent' = parent /\ monitor' = monitor /\ timedOut' = timedOut
  BY DEF BrokerAccepts, BrokerCloses
<1>2. TypeOK'
  <2>1. broker' \in [Order -> BrokerState]
    <3>1. \/ broker' = [broker EXCEPT ![o] = "open"]
          \/ \E r \in Result : broker' = [broker EXCEPT ![o] = r]
      BY DEF BrokerAccepts, BrokerCloses
    <3> QED
      BY <3>1 DEF TypeOK, BrokerState
  <2>2. call' \in Call
    <3>1. call' = call \/ call' = [call EXCEPT !.stage = "accepted", !.id = o]
      BY DEF BrokerAccepts, BrokerCloses
    <3> QED
      BY <3>1 DEF TypeOK, Call
  <2>3. UNCHANGED <<robot, mirror, parent, history, monitor, timedOut>>
    BY DEF BrokerAccepts, BrokerCloses
  <2> QED
    BY <2>1, <2>2, <2>3 DEF TypeOK
<1>3. /\ LastTradeSound' /\ OpenOrderSound' /\ PendingLegSound' /\ LegContext'
      /\ OriginSound' /\ ScoreSound'
  BY <1>1 DEF LastTradeSound, OpenOrderSound, PendingLegSound, LegContext, OriginSound,
              ScoreSound, Score
<1>4. CASE BrokerAccepts(o)
  <2>1. /\ broker[o] = "idle" /\ broker' = [broker EXCEPT ![o] = "open"]
        /\ call.stage = "submitting" /\ call' = [call EXCEPT !.stage = "accepted", !.id = o]
    BY <1>4 DEF BrokerAccepts
  <2>2. /\ call'.stage = "accepted" /\ call'.id = o /\ call'.step = call.step
        /\ call'.parent = call.parent
    BY <2>1 DEF TypeOK, Call
  <2>3. CallSound'
    BY <1>1, <2>1, <2>2 DEF CallSound, IdleIsUnknown, Score
  <2>4. IdleIsUnknown'
    BY <1>1, <2>1, <2>2 DEF IdleIsUnknown, TypeOK
  <2> QED BY <1>2, <1>3, <2>3, <2>4
<1>5. CASE BrokerCloses(o)
  <2>1. /\ call' = call
        /\ \E r \in Result : broker' = [broker EXCEPT ![o] = r]
    BY <1>5 DEF BrokerCloses
  <2>2. CallSound'
    BY <1>1, <2>1 DEF CallSound, Score
  <2>3. \A x \in Order : broker'[x] = "idle" => broker[x] = "idle"
    BY <2>1 DEF TypeOK, Result
  <2>4. IdleIsUnknown'
    BY <1>1, <2>1, <2>3 DEF IdleIsUnknown
  <2> QED BY <1>2, <1>3, <2>2, <2>4
<1> QED BY <1>4, <1>5

\* record_trade keeps the invariant.
LEMMA RecordStep == ASSUME IndInv, OrderRecorded PROVE IndInv'
<1> USE DEF IndInv
<1> DEFINE o == call.id
           p == IF call.parent # NoOrder THEN call.parent ELSE robot.galeOrigin
           t == RecordTrade(robot, o, call.step)
<1>1. /\ call.stage = "accepted" /\ robot' = t
      /\ parent' = [parent EXCEPT ![o] = p] /\ Persist(t)
      /\ monitor' = monitor \cup {o} /\ call' = NoCall
      /\ history' = history /\ broker' = broker /\ timedOut' = timedOut
  BY DEF OrderRecorded
<1>2. /\ o \in Order /\ o \notin robot.completed \cup monitor \cup timedOut
      /\ o # robot.last.id /\ ~robot.op /\ robot.enabled
      /\ robot.galePending => call.step > 0
      /\ call.parent # NoOrder => call.parent \in robot.completed /\ Score(call.parent) = 0
  BY <1>1 DEF CallSound
<1>3. call.step \in 0..MaxGale /\ p \in Order \cup {NoOrder}
  BY DEF TypeOK, Call, Robot
<1>4. /\ t \in Robot /\ t.op /\ SameScore(robot, t)
      /\ t.last = [id |-> o, result |-> "PENDING", step |-> call.step]
      /\ t.signal = NoSignal
      /\ t.galePending = (IF call.step > 0 THEN FALSE ELSE robot.galePending)
      /\ t.enabled = robot.enabled /\ t.galeOrigin = robot.galeOrigin
  BY <1>2, <1>3, RecordFacts DEF TypeOK
<1>5. ~t.galePending
  BY <1>2, <1>4 DEF TypeOK, Robot
<1>12. p # NoOrder => p \in robot.completed /\ ScoreOf(robot, p) = 0
  BY <1>2 DEF OriginSound, Score
<1> HIDE DEF o, p, t
<1>6. TypeOK'
  <2>1. mirror' \in [Order -> TradeResult]
    BY <1>1, <1>4, PersistType
  <2> QED BY <1>1, <1>2, <1>3, <1>4, <2>1, NoCallFacts DEF TypeOK
<1>7. LastTradeSound'
  BY <1>1, <1>2, <1>4 DEF LastTradeSound
<1>8. OpenOrderSound'
  BY <1>1, <1>2, <1>4, <1>5 DEF OpenOrderSound, SameScore
<1>9. PendingLegSound' /\ LegContext' /\ CallSound'
  BY <1>1, <1>4, <1>5, NoCallFacts
     DEF PendingLegSound, LegContext, CallSound, NoSignal
<1>10. IdleIsUnknown'
  <2>1. broker[o] # "idle"
    BY <1>1, <1>2 DEF IdleIsUnknown, o
  <2> QED BY <1>1, <1>2, <1>4, <2>1, NoCallFacts DEF IdleIsUnknown, SameScore
<1>11. ScoreSound'
  <2>1. \A x \in Order : ScoreOf(robot', x) = ScoreOf(robot, x)
    BY <1>1, <1>4 DEF SameScore, ScoreOf
  <2>2. robot'.completed = robot.completed /\ robot'.last.id = o
    BY <1>1, <1>4 DEF SameScore
  <2>3. \A x \in Order : parent'[x] # NoOrder => parent'[x] \in Order
    BY <1>1, <1>2, <1>3 DEF TypeOK
  <2>4. \A x \in Order : parent'[x] # NoOrder =>
           parent'[x] \in robot.completed /\ ScoreOf(robot, parent'[x]) = 0
    BY <1>1, <1>2, <1>12 DEF ScoreSound, Score, TypeOK
  <2>5. \A x \in Order : parent'[x] # NoOrder => parent'[x] # o
    BY <1>2, <2>4
  <2> QED BY <1>1, <2>1, <2>2, <2>3, <2>4, <2>5 DEF ScoreSound, Score
<1>13. OriginSound'
  BY <1>1, <1>2, <1>4 DEF OriginSound, SameScore, Score, ScoreOf
<1> QED BY <1>6, <1>7, <1>8, <1>9, <1>10, <1>11, <1>13

-----------------------------------------------------------------------------
(* Results.  RobotSound is IndInv's part about the robot, for a robot record *)
(* that need not be the current one: a late result takes two operators.     *)

RobotSound(s) ==
    /\ s \in Robot
    /\ s.last.result # "NONE" => s.last.id \in Order
    /\ s.last.result = "TIMEOUT" => s.last.id \in timedOut
    /\ s.op =>
          /\ s.last.result = "PENDING" /\ s.last.id \notin s.completed \cup timedOut
          /\ s.signal = NoSignal /\ ~s.galePending
    /\ s.galePending =>
          /\ s.galeParent.result = "LEG" /\ s.galeParent.id \in s.completed
          /\ ScoreOf(s, s.galeParent.id) = 0
          /\ s.last \in {s.galeParent, NoTrade}
          /\ \A x \in Order : parent[x] # s.galeParent.id
    /\ s.galePending => MaxGale > 0
    /\ s.signal > 0 => s.enabled /\ s.galePending
    /\ s.enabled /\ s.galeOrigin # NoOrder =>
          /\ s.galeOrigin \in s.completed /\ ScoreOf(s, s.galeOrigin) = 0
          /\ ~s.galePending => s.galeOrigin # s.last.id
    /\ \A x \in Order : broker[x] = "idle" => x \notin s.completed /\ x # s.last.id
    /\ \A x \in Order \ timedOut :
          ScoreOf(s, x) <= 1 /\ (x \notin s.completed => ScoreOf(s, x) = 0)
    /\ \A x \in Order : parent[x] # NoOrder =>
          /\ parent[x] \in s.completed /\ ScoreOf(s, parent[x]) = 0
          /\ parent[x] # s.last.id

\* In a state of the invariant the robot is sound.
LEMMA SoundNow == ASSUME IndInv PROVE RobotSound(robot)
BY DEF IndInv, TypeOK, LastTradeSound, OpenOrderSound, PendingLegSound, LegContext,
       IdleIsUnknown, OriginSound, ScoreSound, Score, RobotSound

\* A sound robot restores the conjuncts of the invariant on the robot.
LEMMA SoundNext ==
    ASSUME IndInv, RobotSound(robot'), call.stage = "none",
           mirror' \in [Order -> TradeResult], history' \in [Order -> TradeResult],
           UNCHANGED <<parent, broker, call, timedOut>>, monitor' \subseteq monitor
    PROVE  IndInv'
<1> USE DEF IndInv
<1>1. TypeOK'
  BY DEF TypeOK, RobotSound
<1>2. LastTradeSound' /\ OpenOrderSound'
  BY DEF RobotSound, LastTradeSound, OpenOrderSound
<1>3. PendingLegSound' /\ LegContext'
  BY DEF RobotSound, PendingLegSound, LegContext, Score
<1>4. CallSound'
  BY DEF CallSound
<1>5. IdleIsUnknown' /\ OriginSound'
  BY DEF RobotSound, IdleIsUnknown, OriginSound, Score
<1>6. ScoreSound'
  BY DEF RobotSound, ScoreSound, Score
<1> QED BY <1>1, <1>2, <1>3, <1>4, <1>5, <1>6

\* finish_trade may reopen a TIMEOUT without closing it again.
LEMMA SoundRecovered ==
    ASSUME NEW s, RobotSound(s), NEW o \in Order, CanFinish(s, o)
    PROVE  /\ RobotSound(Recovered(s, o)) /\ ~s.galePending
           /\ o \notin Recovered(s, o).completed
           /\ o \notin timedOut => ScoreOf(s, o) = 0
<1> DEFINE t == Recovered(s, o)
<1>1. s \in Robot /\ s.last.id = o
  BY DEF RobotSound, CanFinish
<1>2. ~s.galePending
  BY <1>1, NoTradeFacts, OrderAssumption DEF RobotSound, CanFinish, Final
<1>3. /\ t \in Robot
      /\ t.completed = IF s.last.result = "TIMEOUT" THEN s.completed \ {o} ELSE s.completed
      /\ t.wins = s.wins /\ t.losses = s.losses
      /\ t.last = s.last /\ t.op = s.op /\ t.enabled = s.enabled
      /\ t.galePending = s.galePending /\ t.galeParent = s.galeParent
      /\ t.signal = s.signal /\ t.galeOrigin = s.galeOrigin
  BY <1>1, RecoveredFacts
<1> HIDE DEF t
<1>4. o \notin t.completed
  BY <1>3 DEF CanFinish
<1>5. o \notin timedOut => t.completed = s.completed /\ ScoreOf(s, o) = 0
  BY <1>1, <1>3, <1>4 DEF RobotSound
<1>6. \A x \in Order : ScoreOf(t, x) = ScoreOf(s, x)
  BY <1>3 DEF ScoreOf
<1>7. \A x \in Order \ timedOut :
         ScoreOf(t, x) <= 1 /\ (x \notin t.completed => ScoreOf(t, x) = 0)
  BY <1>3, <1>5, <1>6 DEF RobotSound
<1>8. \A x \in Order : parent[x] # NoOrder =>
         /\ parent[x] \in t.completed /\ ScoreOf(t, parent[x]) = 0
         /\ parent[x] # t.last.id
  BY <1>1, <1>3, <1>6 DEF RobotSound, Robot
<1>10. t.enabled /\ t.galeOrigin # NoOrder =>
          /\ t.galeOrigin \in t.completed /\ ScoreOf(t, t.galeOrigin) = 0
          /\ t.galeOrigin # t.last.id
  BY <1>1, <1>2, <1>3, <1>6 DEF RobotSound, Robot
<1>9. RobotSound(t)
  BY <1>1, <1>2, <1>3, <1>7, <1>8, <1>10 DEF RobotSound
<1> QED BY <1>2, <1>4, <1>5, <1>9 DEF t

\* count_late_result keeps the robot sound.
LEMMA SoundCounted ==
    ASSUME NEW s, RobotSound(s), NEW t, NEW o \in Order, NEW r,
           CountsOnly(s, t, o, r), t.completed = s.completed \cup {o},
           o \notin timedOut => ScoreOf(s, o) = 0,
           \A x \in Order : parent[x] # NoOrder => parent[x] # o
    PROVE  /\ \A x \in Order \ timedOut :
                 ScoreOf(t, x) <= 1 /\ (x \notin t.completed => ScoreOf(t, x) = 0)
           /\ \A x \in Order : parent[x] # NoOrder =>
                 parent[x] \in t.completed /\ ScoreOf(t, parent[x]) = 0
           /\ \A x \in Order \ {o} : ScoreOf(t, x) = ScoreOf(s, x)
<1>1. \A x \in Order \ {o} : ScoreOf(t, x) = ScoreOf(s, x)
  BY DEF CountsOnly, ScoreOf
<1>2. ScoreOf(t, o) <= ScoreOf(s, o) + 1
  BY DEF CountsOnly, ScoreOf
<1>3. o \notin timedOut => ScoreOf(t, o) <= 1
  BY <1>2 DEF CountsOnly, ScoreOf
<1>4. \A x \in Order : parent[x] # NoOrder => parent[x] \in Order \ {o}
  BY DEF RobotSound, Robot
<1> QED BY <1>1, <1>3, <1>4 DEF RobotSound

\* Closing the cycle keeps the robot sound.
LEMMA SoundClosed ==
    ASSUME NEW s, RobotSound(s), NEW t, NEW o \in Order, NEW r \in Result,
           CycleClosed(s, t, o, r), s.last.id = o, ~s.galePending, broker[o] # "idle",
           o \notin timedOut => ScoreOf(s, o) = 0
    PROVE  RobotSound(t)
<1>1. /\ t \in Robot /\ ~t.op /\ ~t.galePending
      /\ t.completed = s.completed \cup {o} /\ CountsOnly(s, t, o, r)
      /\ t.last = [s.last EXCEPT !.result = r]
      /\ t.enabled => s.enabled /\ t.galeOrigin = s.galeOrigin
  BY DEF CycleClosed
<1>6. t.signal \in {s.signal, NoSignal}
  BY DEF CycleClosed
<1>7. ~(t.signal > 0)
  BY <1>6 DEF RobotSound, Robot, NoSignal
<1>2. t.last.id = o /\ t.last.result = r /\ r \notin {"NONE", "TIMEOUT"}
  BY <1>1 DEF RobotSound, Robot, Trade, Result
<1>3. \A x \in Order : parent[x] # NoOrder => parent[x] # o
  BY DEF RobotSound
<1>4. /\ \A x \in Order \ timedOut :
            ScoreOf(t, x) <= 1 /\ (x \notin t.completed => ScoreOf(t, x) = 0)
      /\ \A x \in Order : parent[x] # NoOrder =>
            parent[x] \in t.completed /\ ScoreOf(t, parent[x]) = 0
      /\ \A x \in Order \ {o} : ScoreOf(t, x) = ScoreOf(s, x)
  BY <1>1, <1>3, SoundCounted
<1>5. t.enabled /\ t.galeOrigin # NoOrder =>
         /\ t.galeOrigin \in t.completed /\ ScoreOf(t, t.galeOrigin) = 0
         /\ t.galeOrigin # t.last.id
  BY <1>1, <1>2, <1>4 DEF RobotSound, Robot
<1> QED BY <1>1, <1>2, <1>3, <1>4, <1>5, <1>7 DEF RobotSound

\* trigger_gale keeps the robot sound.
LEMMA SoundLegOpened ==
    ASSUME NEW s, RobotSound(s), NEW t, NEW o \in Order,
           LegOpened(s, t, o), s.op, s.enabled, s.last.id = o, broker[o] # "idle"
    PROVE  RobotSound(t)
<1>1. /\ t \in Robot /\ ~t.op /\ t.galePending /\ t.signal > 0
      /\ t.completed = s.completed \cup {o} /\ t.wins = s.wins /\ t.losses = s.losses
      /\ t.last = [s.last EXCEPT !.result = "LEG"] /\ t.galeParent = t.last
      /\ t.enabled = s.enabled /\ t.galeOrigin \in {o, s.galeOrigin}
  BY DEF LegOpened
<1>2. t.last.id = o /\ t.last.result = "LEG"
  BY <1>1 DEF RobotSound, Robot, Trade
<1>3. \A x \in Order : ScoreOf(t, x) = ScoreOf(s, x)
  BY <1>1 DEF ScoreOf
<1>4. o \notin s.completed /\ o \notin timedOut
  BY DEF RobotSound
<1>5. ScoreOf(t, o) = 0
  BY <1>3, <1>4 DEF RobotSound
<1>6. \A x \in Order : parent[x] # o
  BY OrderAssumption DEF RobotSound
<1>7. /\ \A x \in Order \ timedOut :
            ScoreOf(t, x) <= 1 /\ (x \notin t.completed => ScoreOf(t, x) = 0)
      /\ \A x \in Order : parent[x] # NoOrder =>
            parent[x] \in t.completed /\ ScoreOf(t, parent[x]) = 0 /\ parent[x] # t.last.id
  BY <1>1, <1>2, <1>3, <1>6 DEF RobotSound, Robot
<1>8. t.enabled /\ t.galeOrigin # NoOrder =>
         t.galeOrigin \in t.completed /\ ScoreOf(t, t.galeOrigin) = 0
  BY <1>1, <1>3, <1>5 DEF RobotSound, Robot
<1>9. MaxGale > 0
  BY <1>1, GaleAssumption DEF Robot
<1> QED BY <1>1, <1>2, <1>5, <1>6, <1>7, <1>8, <1>9 DEF RobotSound

\* finish_trade keeps the robot sound.
LEMMA SoundFinish ==
    ASSUME NEW s, RobotSound(s), NEW o \in Order, NEW r \in Result, broker[o] # "idle"
    PROVE  /\ RobotSound(FinishTrade(s, o, r))
           /\ FinishTrade(s, o, r).op => FinishTrade(s, o, r).last.id # o
<1> DEFINE rec == Recovered(s, o)
           t == FinishTrade(s, o, r)
<1>1. s \in Robot
  BY DEF RobotSound
<1>2. \/ ~CanFinish(s, o) /\ t = s
      \/ CanFinish(s, o) /\ rec.op /\ rec.enabled /\ LegOpened(rec, t, o)
      \/ CanFinish(s, o) /\ ~rec.op /\ t = rec
      \/ CanFinish(s, o) /\ o \in rec.completed /\ t = rec
      \/ CanFinish(s, o) /\ CycleClosed(rec, t, o, r)
  BY <1>1, FinishFacts
<1> HIDE DEF t
<1>3. CASE ~CanFinish(s, o) /\ t = s
  <2>1. s.op => s.last.id # o
    BY <1>3 DEF CanFinish, RobotSound
  <2> QED BY <1>3, <2>1 DEF t
<1>4. ASSUME CanFinish(s, o)
      PROVE  /\ RobotSound(rec) /\ rec.last.id = o /\ ~rec.galePending
             /\ o \notin rec.completed
             /\ o \notin timedOut => ScoreOf(rec, o) = 0
  <2>1. /\ RobotSound(rec) /\ ~s.galePending /\ o \notin rec.completed
        /\ o \notin timedOut => ScoreOf(s, o) = 0
    BY <1>4, SoundRecovered
  <2>2. /\ rec.wins = s.wins /\ rec.losses = s.losses /\ rec.last = s.last
        /\ rec.galePending = s.galePending
    BY <1>1, RecoveredFacts
  <2>3. s.last.id = o
    BY <1>4 DEF CanFinish
  <2> QED BY <2>1, <2>2, <2>3 DEF ScoreOf
<1> HIDE DEF rec
<1>5. CASE CanFinish(s, o) /\ rec.op /\ rec.enabled /\ LegOpened(rec, t, o)
  BY <1>4, <1>5, SoundLegOpened DEF t, LegOpened
<1>6. CASE CanFinish(s, o) /\ ~rec.op /\ t = rec
  BY <1>4, <1>6 DEF t
<1>7. CASE CanFinish(s, o) /\ CycleClosed(rec, t, o, r)
  <2>1. RobotSound(t)
    BY <1>4, <1>7, SoundClosed
  <2> QED BY <1>7, <2>1 DEF t, CycleClosed
<1> QED BY <1>2, <1>3, <1>4, <1>5, <1>6, <1>7

\* A late result keeps the robot sound.
LEMMA SoundLate ==
    ASSUME NEW s, RobotSound(s), NEW o \in Order, NEW r \in Result,
           broker[o] # "idle", ~s.galePending, s.op => s.last.id # o,
           o \notin s.completed
    PROVE  RobotSound(CountLateResult(s, o, r))
<1> DEFINE t == CountLateResult(s, o, r)
<1>1. /\ t \in Robot /\ t.completed = s.completed \cup {o} /\ CountsOnly(s, t, o, r)
      /\ t.last = s.last /\ t.op = s.op /\ t.enabled = s.enabled
      /\ t.galePending = s.galePending /\ t.signal = s.signal
      /\ t.galeOrigin = s.galeOrigin
  BY CountLateFacts DEF RobotSound
<1> HIDE DEF t
<1>2. \A x \in Order : parent[x] # NoOrder => parent[x] # o
  BY DEF RobotSound
<1>3. o \notin timedOut => ScoreOf(s, o) = 0
  BY DEF RobotSound
<1>4. /\ \A x \in Order \ timedOut :
            ScoreOf(t, x) <= 1 /\ (x \notin t.completed => ScoreOf(t, x) = 0)
      /\ \A x \in Order : parent[x] # NoOrder =>
            parent[x] \in t.completed /\ ScoreOf(t, parent[x]) = 0
      /\ \A x \in Order \ {o} : ScoreOf(t, x) = ScoreOf(s, x)
  BY <1>1, <1>2, <1>3, SoundCounted
<1>6. t.enabled /\ t.galeOrigin # NoOrder =>
         /\ t.galeOrigin \in t.completed /\ ScoreOf(t, t.galeOrigin) = 0
         /\ ~t.galePending => t.galeOrigin # t.last.id
  BY <1>1, <1>4 DEF RobotSound, Robot
<1>5. RobotSound(t)
  BY <1>1, <1>4, <1>6 DEF RobotSound
<1> QED BY <1>5 DEF t

\* finish_monitored_trade keeps the invariant.
LEMMA FinishStep ==
    ASSUME IndInv, NEW o \in Order, FinishMonitored(o),
           monitor' \subseteq monitor, timedOut' = timedOut
    PROVE  IndInv'
<1> DEFINE r == broker[o]
           s == FinishTrade(robot, o, r)
<1>1. /\ r \in Result /\ broker[o] # "idle" /\ call.stage = "none"
      /\ UNCHANGED <<parent, broker, call>>
  BY DEF FinishMonitored, CycleLockFree, Result
<1>2. /\ robot \in Robot /\ r \in TradeResult
      /\ mirror \in [Order -> TradeResult] /\ history \in [Order -> TradeResult]
  BY <1>1 DEF IndInv, TypeOK, Result, TradeResult, Final
<1>3. /\ [mirror EXCEPT ![o] = r] \in [Order -> TradeResult]
      /\ [history EXCEPT ![o] = r] \in [Order -> TradeResult]
  BY <1>2
<1>4. RobotSound(s) /\ (s.op => s.last.id # o)
  BY <1>1, SoundNow, SoundFinish
<1> HIDE DEF r, s
<1>5. CASE robot' = s /\ FinishScored(o, r)
  <2>1. /\ history' = [history EXCEPT ![o] = r]
        /\ mirror' = MirrorLast(robot', [mirror EXCEPT ![o] = r])
    BY <1>5 DEF FinishScored
  <2>2. mirror' \in [Order -> TradeResult]
    BY <1>3, <1>4, <1>5, <2>1, MirrorType DEF RobotSound
  <2> QED BY <1>1, <1>3, <1>4, <1>5, <2>1, <2>2, SoundNext
<1>6. CASE robot' = s /\ FinishWithGalePending(o, r)
  <2>1. mirror' \in [Order -> TradeResult]
    BY <1>2, <1>4, <1>6, MirrorType DEF FinishWithGalePending, Persist, RobotSound
  <2>2. history' \in [Order -> TradeResult]
    <3>1. robot'.last.result \in TradeResult
      BY <1>4, <1>6 DEF RobotSound, Robot, Trade
    <3> QED BY <1>2, <1>6, <3>1 DEF FinishWithGalePending
  <2> QED BY <1>1, <1>4, <1>6, <2>1, <2>2, SoundNext
<1>7. CASE FinishLate(o, r)
  <2> DEFINE counts == mirror[o] \notin Final \cup {"NONE"} /\ o \notin s.completed
             m == IF counts THEN [mirror EXCEPT ![o] = r] ELSE mirror
  <2>1. /\ ~s.galePending
        /\ robot' = IF counts THEN CountLateResult(s, o, r) ELSE s
        /\ history' = IF counts THEN [history EXCEPT ![o] = r] ELSE history
        /\ mirror' = MirrorLast(robot', m)
    BY <1>7 DEF FinishLate, s
  <2>2. RobotSound(robot')
    <3>1. CASE counts
      BY <1>1, <1>4, <2>1, <3>1, SoundLate
    <3>2. CASE ~counts
      BY <1>4, <2>1, <3>2
    <3> QED BY <3>1, <3>2
  <2>3. history' \in [Order -> TradeResult] /\ m \in [Order -> TradeResult]
    BY <1>2, <1>3, <2>1
  <2> HIDE DEF counts, m
  <2>4. mirror' \in [Order -> TradeResult]
    BY <2>1, <2>2, <2>3, MirrorType DEF RobotSound
  <2> QED BY <1>1, <2>2, <2>3, <2>4, SoundNext
<1> QED BY <1>5, <1>6, <1>7 DEF FinishMonitored, r, s

\* timeout_monitored_trade keeps the invariant.
LEMMA TimeoutStep == ASSUME IndInv, NEW o \in Order, MonitorTimeout(o) PROVE IndInv'
<1> USE DEF IndInv
<1>1. /\ o \in monitor /\ monitor' = monitor \ {o} /\ timedOut' = timedOut \cup {o}
      /\ UNCHANGED <<parent, history, broker, call>>
  BY DEF MonitorTimeout
<1>2. /\ robot \in Robot /\ mirror \in [Order -> TradeResult] /\ "TIMEOUT" \in TradeResult
  BY DEF TypeOK, TradeResult
<1>3. broker[o] # "idle" /\ (call.stage = "accepted" => call.id # o)
  BY <1>1 DEF IdleIsUnknown, CallSound
<1>4. CASE CanTimeout(robot, o)
  <2>1. robot' = TimeoutTrade(robot, o) /\ Persist(robot')
    BY <1>4 DEF MonitorTimeout
  <2>2. /\ robot' \in Robot /\ ~robot'.op /\ ~robot'.galePending
        /\ robot'.completed = robot.completed \cup {o}
        /\ robot'.wins = robot.wins /\ robot'.losses = robot.losses
        /\ robot'.last = [robot.last EXCEPT !.result = "TIMEOUT"]
        /\ robot'.enabled = robot.enabled /\ robot'.signal = robot.signal
        /\ robot'.galeOrigin = NoOrder
    BY <1>2, <2>1, TimeoutFacts
  <2>3. robot.last.id = o /\ robot'.last.id = o /\ robot'.last.result = "TIMEOUT"
    BY <1>2, <1>4, <2>2 DEF CanTimeout, Robot, Trade
  <2>4. ~robot.galePending
    BY <1>4, <2>3, NoTradeFacts, OrderAssumption
       DEF CanTimeout, LegContext, PendingLegSound
  <2>5. TypeOK'
    BY <1>1, <2>1, <2>2, PersistType DEF TypeOK
  <2>6. /\ LastTradeSound' /\ OpenOrderSound' /\ PendingLegSound' /\ LegContext'
        /\ OriginSound'
    BY <1>1, <2>2, <2>3, <2>4
       DEF LastTradeSound, OpenOrderSound, PendingLegSound, LegContext, OriginSound
  <2>7. CallSound'
    BY <1>1, <1>3, <2>2, <2>3, <2>4 DEF CallSound, Score, ScoreOf
  <2>8. IdleIsUnknown'
    BY <1>1, <1>3, <2>2, <2>3 DEF IdleIsUnknown
  <2>9. \A x \in Order : ScoreOf(robot', x) = ScoreOf(robot, x)
    BY <2>2 DEF ScoreOf
  <2>10. ScoreSound'
    BY <1>1, <2>2, <2>3, <2>9 DEF ScoreSound, Score, TypeOK
  <2> QED BY <2>5, <2>6, <2>7, <2>8, <2>10
<1>5. CASE ~CanTimeout(robot, o)
  <2> DEFINE m == IF mirror[o] = "PENDING" THEN [mirror EXCEPT ![o] = "TIMEOUT"]
                                           ELSE mirror
  <2>1. robot' = robot /\ mirror' = MirrorLast(robot, m)
    BY <1>5 DEF MonitorTimeout
  <2>2. m \in [Order -> TradeResult]
    BY <1>2
  <2> HIDE DEF m
  <2>3. TypeOK'
    BY <1>1, <1>2, <2>1, <2>2, MirrorType DEF TypeOK
  <2>4. robot.op => robot.last.id # o
    BY <1>5 DEF CanTimeout, OpenOrderSound
  <2>5. /\ LastTradeSound' /\ OpenOrderSound' /\ PendingLegSound' /\ LegContext'
        /\ OriginSound'
    BY <1>1, <2>1, <2>4
       DEF LastTradeSound, OpenOrderSound, PendingLegSound, LegContext, OriginSound,
           Score
  <2>6. CallSound' /\ IdleIsUnknown'
    BY <1>1, <1>3, <2>1 DEF CallSound, IdleIsUnknown, Score
  <2>7. ScoreSound'
    BY <1>1, <2>1 DEF ScoreSound, Score
  <2> QED BY <2>3, <2>5, <2>6, <2>7
<1> QED BY <1>4, <1>5

\* Every way a result comes in keeps the invariant.
LEMMA ResultActions ==
    ASSUME IndInv,
           \/ ReconcileTimeout
           \/ \E o \in Order : MonitorFinish(o) \/ OrphanFinished(o)
    PROVE  IndInv'
<1>1. CASE ReconcileTimeout
  <2>1. robot.last.id \in Order
    BY <1>1 DEF ReconcileTimeout, IndInv, LastTradeSound
  <2> QED BY <1>1, <2>1, FinishStep DEF ReconcileTimeout
<1>2. ASSUME NEW o \in Order, MonitorFinish(o) \/ OrphanFinished(o) PROVE IndInv'
  BY <1>2, FinishStep DEF MonitorFinish, OrphanFinished
<1> QED BY <1>1, <1>2

-----------------------------------------------------------------------------
(* The theorems.                                                           *)

\* The invariant holds initially.
LEMMA InitIndInv == Init => IndInv
<1> SUFFICES ASSUME Init PROVE IndInv
  OBVIOUS
<1>1. TypeOK
  BY InitType, NoCallFacts DEF Init, TypeOK, TradeResult, BrokerState
<1>2. /\ robot.last = NoTrade /\ ~robot.op /\ ~robot.galePending /\ ~robot.enabled
      /\ robot.signal = NoSignal /\ robot.completed = {}
      /\ \A o \in Order : ScoreOf(robot, o) = 0
  BY DEF Init, InitRobot, ScoreOf
<1>3. /\ call.stage = "none" /\ timedOut = {} /\ monitor = {}
      /\ \A o \in Order : parent[o] = NoOrder
  BY NoCallFacts DEF Init
<1>4. LastTradeSound /\ OpenOrderSound /\ PendingLegSound /\ LegContext /\ CallSound
  BY <1>2, <1>3, NoTradeFacts
     DEF LastTradeSound, OpenOrderSound, PendingLegSound, LegContext, CallSound, NoSignal
<1>5. IdleIsUnknown /\ OriginSound /\ ScoreSound
  BY <1>2, <1>3, NoTradeFacts, OrderAssumption
     DEF IdleIsUnknown, OriginSound, ScoreSound, Score
<1> QED BY <1>1, <1>4, <1>5 DEF IndInv

\* Every step keeps the invariant.
LEMMA NextIndInv == IndInv /\ [Next]_vars => IndInv'
<1> SUFFICES ASSUME IndInv, [Next]_vars PROVE IndInv'
  OBVIOUS
<1>1. CASE WorkerStep
  BY <1>1, RestActions, SignalActions, RecordStep, EndOfCallActions, ResultActions
     DEF WorkerStep
<1>2. ASSUME NEW o \in Order, OrderStep(o) PROVE IndInv'
  BY <1>2, BrokerActions, ResultActions, TimeoutStep DEF OrderStep
<1>3. CASE UserStep
  BY <1>3, UserActions, RestActions DEF UserStep
<1>4. CASE UNCHANGED vars
  BY <1>4 DEF vars, IndInv, TypeOK, LastTradeSound, OpenOrderSound, PendingLegSound,
              LegContext, CallSound, IdleIsUnknown, OriginSound, ScoreSound, Score
<1> QED BY <1>1, <1>2, <1>3, <1>4 DEF Next

\* The invariant TLC checks on small instances is inductive: it holds in
\* every state of every instance.
THEOREM Inductive == Spec => []IndInv
BY InitIndInv, NextIndInv, PTL DEF Spec

\* Type correctness: every operator of AutoTrader returns a robot record.
THEOREM TypeCorrect == Spec => []TypeOK
<1>1. IndInv => TypeOK
  BY DEF IndInv
<1> QED BY <1>1, Inductive, PTL

\* operation_in_progress always means one pending, uncounted last_trade.
THEOREM OpenOrderIsSound == Spec => []OpenOrderSound
<1>1. IndInv => OpenOrderSound
  BY DEF IndInv
<1> QED BY <1>1, Inductive, PTL

\* A waiting martingale leg is always a closed and uncounted loss, so
\* close_abandoned_gale never counts an order that is in the score.
THEOREM PendingLegIsSound == Spec => []PendingLegSound
<1>1. IndInv => PendingLegSound
  BY DEF IndInv
<1> QED BY <1>1, Inductive, PTL

\* An order that never timed out is counted at most once, and a lost leg whose
\* next step was sent never: for any number of orders and steps, any stop and
\* any interleaving of worker, monitors, user and broker.
THEOREM OrdersAreCountedOnce == Spec => []CountedOnce
<1>1. IndInv => CountedOnce
  BY DEF IndInv, ScoreSound, CountedOnce
<1> QED BY <1>1, Inductive, PTL

-----------------------------------------------------------------------------
(* OneLiveOrder.                                                           *)

\* The disturbances after which the robot forgets an order that may be open.
Forgetful == {"stop", "disconnect", "stale", "timeout", "cycle_timeout",
              "lost_reply"}

\* An order the broker has open is the robot's open operation or the one
\* whose answer is on its way; an open operation is of a running robot.
LiveIsKnown ==
    \A o \in Order : broker[o] = "open" =>
        \/ robot.op /\ robot.last.id = o
        \/ call.stage = "accepted" /\ call.id = o
OpenIsActive == robot.op => robot.enabled /\ robot.status # "result"
LiveInv == LiveIsKnown /\ OpenIsActive

\* A robot without an open operation and without an accepted submission has no
\* order at the broker; a step that leaves the broker alone keeps it so.
LEMMA NothingLive ==
    ASSUME LiveInv, ~robot.op, call.stage # "accepted", broker' = broker,
           ~robot'.op
    PROVE  LiveInv'
BY DEF LiveInv, LiveIsKnown, OpenIsActive

\* An operation that is open after finish_trade was open before, untouched, and
\* one that is closed by it was the order's own.
LEMMA FinishKeepsOpen ==
    ASSUME NEW s \in Robot, NEW o \in Order, NEW r \in Result
    PROVE  LET t == FinishTrade(s, o, r)
           IN  /\ t.op => /\ s.op /\ t.last = s.last /\ t.enabled = s.enabled
                          /\ t.status = s.status
               /\ s.op /\ ~t.op => s.last.id = o
<1> DEFINE rec == Recovered(s, o)
           t == FinishTrade(s, o, r)
<1>1. /\ rec.op = s.op /\ rec.last = s.last /\ rec.enabled = s.enabled
      /\ rec.status = s.status
  BY DEF Recovered, Robot
<1>2. \/ ~CanFinish(s, o) /\ t = s
      \/ CanFinish(s, o) /\ ~t.op
      \/ CanFinish(s, o) /\ t = rec
  BY FinishFacts DEF LegOpened, CycleClosed
<1>3. CanFinish(s, o) => s.last.id = o
  BY DEF CanFinish
<1> HIDE DEF rec, t
<1>4. /\ t.op => /\ s.op /\ t.last = s.last /\ t.enabled = s.enabled
                 /\ t.status = s.status
      /\ s.op /\ ~t.op => s.last.id = o
  BY <1>1, <1>2, <1>3
<1> QED BY <1>4 DEF t

\* count_late_result leaves the open operation alone.
LEMMA LateKeepsOpen ==
    ASSUME NEW s \in Robot, NEW o \in Order, NEW r
    PROVE  LET t == CountLateResult(s, o, r)
           IN  /\ t.op = s.op /\ t.last = s.last /\ t.enabled = s.enabled
               /\ t.status = s.status
BY DEF CountLateResult, Pay, CountResult, Robot

\* The results that come in keep LiveInv.
LEMMA LiveFinish ==
    ASSUME IndInv, LiveInv, NEW o \in Order, FinishMonitored(o)
    PROVE  LiveInv'
<1> DEFINE r == broker[o]
           s == FinishTrade(robot, o, r)
<1>1. /\ r \in Result /\ call.stage = "none" /\ call' = call /\ broker' = broker
      /\ robot \in Robot
  BY DEF FinishMonitored, CycleLockFree, IndInv, TypeOK
<1>2. /\ s.op => /\ robot.op /\ s.last = robot.last /\ s.enabled = robot.enabled
                 /\ s.status = robot.status
      /\ robot.op /\ ~s.op => robot.last.id = o
  BY <1>1, FinishKeepsOpen
<1>3. s \in Robot
  BY <1>1, SoundNow, SoundFinish DEF RobotSound, Result
<1>4. robot' = s \/ robot' = CountLateResult(s, o, r)
  BY DEF FinishMonitored, FinishLate
<1> HIDE DEF s
<1>5. /\ robot'.op = s.op /\ robot'.last = s.last /\ robot'.enabled = s.enabled
      /\ robot'.status = s.status
  BY <1>3, <1>4, LateKeepsOpen
<1>6. broker[o] # "open"
  BY <1>1 DEF Result
<1> QED BY <1>1, <1>2, <1>5, <1>6 DEF LiveInv, LiveIsKnown, OpenIsActive

\* Without the forgetful disturbances every step of the runtime keeps LiveInv.
LEMMA LiveStep ==
    ASSUME IndInv, LiveInv, [Next]_vars, Worker, Events \cap Forgetful = {}
    PROVE  LiveInv'
<1> DEFINE c == CloseAbandonedGale(robot)
<1>0. /\ robot \in Robot /\ c \in Robot /\ ~c.galePending
      /\ "stop" \notin Events /\ "disconnect" \notin Events /\ "stale" \notin Events
      /\ "timeout" \notin Events /\ "cycle_timeout" \notin Events
      /\ "lost_reply" \notin Events
  BY LegIsOrder, CloseAbandonedFacts DEF IndInv, TypeOK, Forgetful
<1> HIDE DEF c
<1>1. CASE RecycleCycle
  <2>1. ~robot.op
    BY <1>0, <1>1
       DEF RecycleCycle, ResultShown, WaitingResultStale, LiveInv, OpenIsActive,
           IndInv, OpenOrderSound
  <2>2. robot' = ResetCycleAfterResult(c) /\ call.stage = "none" /\ broker' = broker
    BY <1>1 DEF RecycleCycle, CloseGaleThen, CycleLockFree, c
  <2> QED BY <1>0, <2>1, <2>2, ResetQuiet, NothingLive DEF AtRest, Quiet
<1>2. CASE PauseRobotByStop
  <2>1. /\ robot' = PauseByStop(c) /\ call.stage = "none" /\ broker' = broker
        /\ ~robot.op
    BY <1>2 DEF PauseRobotByStop, CloseGaleThen, CycleLockFree, c
  <2> QED BY <1>0, <2>1, PauseQuiet, NothingLive DEF AtRest, Quiet
<1>3. CASE OrderInvalid
  <2>1. /\ robot' = ResetCycleAfterResult(c) /\ call.stage = "none"
        /\ broker' = broker /\ ~robot.op
    BY <1>3 DEF OrderInvalid, CloseGaleThen, CycleLockFree, CanSend, c
  <2> QED BY <1>0, <2>1, ResetQuiet, NothingLive DEF AtRest, Quiet
<1>4. CASE FindSignal
  <2>1. ~robot'.op
    BY <1>0, <1>4 DEF FindSignal, CanAnalyse, SetPendingSignal, Robot
  <2> QED BY <1>4, <2>1, NothingLive DEF FindSignal, CanAnalyse, CycleLockFree
<1>5. CASE SignalExpires
  <2>1. ~robot'.op
    BY <1>0, <1>5, ExpireQuiet DEF SignalExpires, AtRest, Quiet
  <2> QED BY <1>5, <2>1, NothingLive DEF SignalExpires, CanSend, CycleLockFree
<1>6. CASE BeginSend
  <2>1. ~robot.op
    BY <1>6 DEF BeginSend, CanSend
  <2>2. ~robot'.op
    BY <1>0, <1>6, <2>1, SendingQuiet DEF BeginSend, Quiet
  <2> QED BY <1>6, <2>1, <2>2, NothingLive DEF BeginSend, CycleLockFree
<1>7. CASE OrderRecorded
  <2> DEFINE t == RecordTrade(robot, call.id, call.step)
  <2>1. /\ call.id \in Order /\ call.id \notin robot.completed /\ ~robot.op
        /\ call.step \in 0..MaxGale /\ robot.enabled
    BY <1>7 DEF OrderRecorded, IndInv, CallSound, TypeOK, Call
  <2>2. t.op /\ t.last.id = call.id /\ t.enabled /\ t.status = "result_wait"
    BY <1>0, <2>1 DEF RecordTrade, Robot
  <2> HIDE DEF t
  <2>3. robot' = t /\ call.stage = "accepted" /\ broker' = broker
    BY <1>7 DEF OrderRecorded, t
  <2> QED BY <2>1, <2>2, <2>3 DEF LiveInv, LiveIsKnown, OpenIsActive
<1>8. CASE OrderFails \/ InsufficientBalance
  <2>1. /\ call.stage = "submitting" /\ broker' = broker
        /\ robot' = RejectOrder(robot) \/ robot' = Stop(robot)
    BY <1>0, <1>8 DEF OrderFails, InsufficientBalance
  <2>2. ~robot.op
    BY <2>1 DEF IndInv, CallSound
  <2>3. ~robot'.op
    BY <1>0, <2>1, RejectQuiet, StopQuiet DEF AtRest, Quiet
  <2> QED BY <2>1, <2>2, <2>3, NothingLive
<1>9. CASE CycleTimeout \/ StopEmbedded \/ StopWorker \/ Disconnect
           \/ \E o \in Order : MonitorTimeout(o)
  BY <1>0, <1>9 DEF CycleTimeout, StopEmbedded, StopWorker, Disconnect, MonitorTimeout
<1>10. ASSUME NEW o \in Order, BrokerAccepts(o) PROVE LiveInv'
  <2>1. /\ call.stage = "submitting" /\ broker' = [broker EXCEPT ![o] = "open"]
        /\ call' = [call EXCEPT !.stage = "accepted", !.id = o] /\ robot' = robot
    BY <1>10 DEF BrokerAccepts
  <2>2. ~robot.op /\ \A x \in Order : broker[x] # "open"
    BY <2>1 DEF IndInv, CallSound, LiveInv, LiveIsKnown
  <2>3. call'.stage = "accepted" /\ call'.id = o
    BY <2>1 DEF IndInv, TypeOK, Call
  <2>4. \A x \in Order : broker'[x] = "open" => x = o
    BY <2>1, <2>2 DEF IndInv, TypeOK
  <2> QED BY <2>1, <2>2, <2>3, <2>4 DEF LiveInv, LiveIsKnown, OpenIsActive
<1>11. ASSUME NEW o \in Order, BrokerCloses(o) PROVE LiveInv'
  <2>1. /\ robot' = robot /\ call' = call
        /\ \E r \in Result : broker' = [broker EXCEPT ![o] = r]
    BY <1>11 DEF BrokerCloses
  <2>2. \A x \in Order : broker'[x] = "open" => broker[x] = "open"
    BY <2>1 DEF IndInv, TypeOK, Result
  <2> QED BY <2>1, <2>2 DEF LiveInv, LiveIsKnown, OpenIsActive
<1>12. ASSUME NEW o \in Order, MonitorFinish(o) \/ OrphanFinished(o) PROVE LiveInv'
  BY <1>12, LiveFinish DEF MonitorFinish, OrphanFinished
<1>13. CASE ReconcileTimeout
  <2>1. robot.last.id \in Order
    BY <1>13 DEF ReconcileTimeout, IndInv, LastTradeSound
  <2> QED BY <1>13, <2>1, LiveFinish DEF ReconcileTimeout
<1>14. CASE StartRobot
  <2>1. ~robot.op /\ call.stage = "none"
    BY <1>14 DEF StartRobot, InitRobot, IndInv, CallSound
  <2>2. ~robot'.op /\ broker' = broker
    BY <1>0, <1>14, StartQuiet DEF StartRobot, Quiet
  <2> QED BY <2>1, <2>2, NothingLive
<1>15. CASE StartLocked \/ ClearStaleOpenOperation
  BY <1>15 DEF StartLocked, ClearStaleOpenOperation
<1>17. CASE RecoverAnalysisError \/ RealLocked
  <2>1. ~robot'.op
    BY <1>0, <1>17, DropQuiet
       DEF RecoverAnalysisError, RealLocked, TickDropsSignal, AtRest, Quiet
  <2> QED BY <1>17, <2>1, NothingLive
          DEF RecoverAnalysisError, RealLocked, TickDropsSignal, CycleLockFree
<1>16. CASE UNCHANGED vars
  BY <1>16 DEF vars, LiveInv, LiveIsKnown, OpenIsActive
<1> QED BY <1>1, <1>2, <1>3, <1>4, <1>5, <1>6, <1>7, <1>8, <1>9, <1>10, <1>11,
           <1>12, <1>13, <1>14, <1>15, <1>16, <1>17
        DEF Next, WorkerStep, OrderStep, UserStep

\* What LiveInv leaves for one order to be.
LEMMA LiveIsOne == IndInv /\ LiveInv => OneLiveOrder
<1> SUFFICES ASSUME IndInv, LiveInv PROVE OneLiveOrder
  OBVIOUS
<1> DEFINE live == {o \in Order : broker[o] = "open"}
           x == IF robot.op THEN robot.last.id ELSE call.id
<1>1. live \subseteq {x}
  BY DEF LiveInv, LiveIsKnown, IndInv, CallSound
<1> HIDE DEF live, x
<1>2. IsFiniteSet({x}) /\ Cardinality({x}) = 1
  BY FS_Singleton
<1>3. Cardinality(live) <= Cardinality({x}) /\ Cardinality(live) \in Nat
  BY <1>1, <1>2, FS_Subset, FS_CardinalityType
<1>4. Cardinality(live) <= 1
  BY <1>2, <1>3
<1> QED BY <1>4 DEF live, OneLiveOrder

\* Refusals, lack of money, expired and invalid signals, exceptions, martingale
\* steps and stops that are reached: none of them brings the robot of the
\* runtime process to send an order while another is open, for any number of
\* orders and steps.
THEOREM OneOrderLives ==
    ASSUME Worker, Events \cap Forgetful = {}
    PROVE  Spec => []OneLiveOrder
<1>1. Init => LiveInv
  BY NoCallFacts DEF Init, InitRobot, LiveInv, LiveIsKnown, OpenIsActive
<1>2. IndInv /\ LiveInv /\ [Next]_vars => LiveInv'
  BY LiveStep
<1> QED BY <1>1, <1>2, LiveIsOne, Inductive, PTL DEF Spec

-----------------------------------------------------------------------------
(* HistoryAgrees.                                                          *)

\* The score speaks of orders the broker closed as it says, and a leg that
\* waits was lost.
ScoredIsClosed == \A o \in Order : Score(o) > 0 => broker[o] \in {"WIN", "LOSS"}
LegIsLost == robot.galePending => broker[robot.galeParent.id] = "LOSS"
HistInv == HistoryAgrees /\ ScoredIsClosed /\ LegIsLost

\* A closed order stays as the broker closed it.
ClosedStays == \A o \in Order : broker[o] \in Result => broker'[o] = broker[o]

\* A step that moves neither score nor history keeps HistInv.
LEMMA HistQuiet ==
    ASSUME HistInv, IndInv, history' = history, ClosedStays,
           robot'.wins = robot.wins, robot'.losses = robot.losses,
           robot'.galePending =>
                robot.galePending /\ robot'.galeParent = robot.galeParent
    PROVE  HistInv'
<1>1. \A o \in Order : Score(o)' = Score(o)
  BY DEF Score, ScoreOf
<1>2. robot.galePending => robot.galeParent.id \in Order
  BY LegIsOrder
<1> QED BY <1>1, <1>2 DEF HistInv, HistoryAgrees, ScoredIsClosed, LegIsLost,
                         ClosedStays, Result

\* The leg that is closed is counted and listed as the loss it was.
LEMMA HistLegClosed ==
    ASSUME HistInv, IndInv, robot.galePending, LegClosed(robot, robot'),
           history' = [history EXCEPT ![robot.galeParent.id] = "LOSS"],
           ClosedStays
    PROVE  HistInv'
<1> DEFINE id == robot.galeParent.id
<1>1. id \in Order /\ broker[id] = "LOSS" /\ robot \in Robot
      /\ history \in [Order -> TradeResult]
  BY LegIsOrder DEF HistInv, LegIsLost, IndInv, TypeOK
<1>2. /\ robot'.wins = robot.wins /\ ~robot'.galePending
      /\ robot'.losses = [robot.losses EXCEPT ![id] = @ + 1]
  BY DEF LegClosed
<1> HIDE DEF id
<1>3. /\ \A o \in Order \ {id} : ScoreOf(robot', o) = ScoreOf(robot, o)
      /\ ScoreOf(robot', id) > 0
  BY <1>1, <1>2 DEF ScoreOf, Robot
<1>4. /\ \A o \in Order \ {id} : history'[o] = history[o]
      /\ history'[id] = "LOSS"
  BY <1>1 DEF id
<1> QED BY <1>1, <1>2, <1>3, <1>4
        DEF HistInv, HistoryAgrees, ScoredIsClosed, LegIsLost, Score,
            ClosedStays, Result

\* close_abandoned_gale_cycle and a quiet operation after it.
LEMMA HistCloseGale ==
    ASSUME HistInv, IndInv, NEW s, AtRest(CloseAbandonedGale(robot), s),
           CloseGaleThen(s), ClosedStays
    PROVE  HistInv'
<1> DEFINE c == CloseAbandonedGale(robot)
<1>1. robot \in Robot
  BY DEF IndInv, TypeOK
<1>2. /\ c \in Robot /\ ~c.galePending
      /\ IF robot.galePending
         THEN /\ LegClosed(robot, c) /\ c.galeOrigin = NoOrder
              /\ c.last = [robot.galeParent EXCEPT !.result = "LOSS"]
         ELSE c = robot
  BY <1>1, LegIsOrder, CloseAbandonedFacts
<1>3. robot' = s
  BY DEF CloseGaleThen
<1>4. IF robot.galePending THEN LegClosed(robot, robot') ELSE Quiet(robot, robot')
  BY <1>1, <1>2, <1>3, ClosedThenQuiet DEF AtRest
<1>5. HasAbandonedGale(robot) <=> robot.galePending
  BY <1>1, LegIsOrder DEF HasAbandonedGale, Robot
<1> HIDE DEF c
<1>6. CASE robot.galePending
  BY <1>4, <1>5, <1>6, HistLegClosed DEF CloseGaleThen
<1>7. CASE ~robot.galePending
  <2>1. history' = history
    BY <1>5, <1>7 DEF CloseGaleThen
  <2> QED BY <1>4, <1>7, <2>1, HistQuiet DEF Quiet, SameScore
<1> QED BY <1>6, <1>7

\* A result that comes in keeps HistInv.
LEMMA HistFinish ==
    ASSUME HistInv, IndInv, IndInv', NEW o \in Order, FinishMonitored(o)
    PROVE  HistInv'
<1> DEFINE r == broker[o]
           s == FinishTrade(robot, o, r)
<1>1. /\ r \in Result /\ broker' = broker /\ robot \in Robot
      /\ history \in [Order -> TradeResult]
  BY DEF FinishMonitored, IndInv, TypeOK
<1>2. /\ Finalized(robot, o, r) => Counts(robot, s, o, r) /\ ~s.galePending
      /\ ~Finalized(robot, o, r) =>
            /\ s.wins = robot.wins /\ s.losses = robot.losses
            /\ s.galePending =>
                  \/ robot.galePending /\ s.galeParent = robot.galeParent
                  \/ r = "LOSS" /\ s.galeParent.id = o
  BY <1>1, FinishCounts
<1>3. s \in Robot
  BY <1>1, SoundNow, SoundFinish DEF RobotSound, Result
<1>4. /\ \A x \in Order : ScoreOf(robot, x) \in Nat
      /\ r = "DRAW" => ScoreOf(robot, o) = 0
  BY <1>1 DEF ScoreOf, Robot, HistInv, ScoredIsClosed, Score
<1>5. /\ \/ robot' = s /\ FinishScored(o, r)
         \/ robot' = s /\ FinishWithGalePending(o, r)
         \/ FinishLate(o, r)
  BY DEF FinishMonitored
<1>8. r = broker[o]
  OBVIOUS
\* Counted and listed alike.
<1>6. ASSUME Counts(robot, robot', o, r), history' = [history EXCEPT ![o] = r],
             ~robot'.galePending
      PROVE  HistInv'
  <2>1. /\ \A x \in Order \ {o} : history'[x] = history[x]
        /\ history'[o] = r
    BY <1>1, <1>6
  <2>2. r \in {"WIN", "LOSS"} <=> ScoreOf(robot', o) > 0
    BY <1>1, <1>4, <1>6 DEF Counts, Result
  <2> QED BY <1>1, <1>6, <1>8, <2>1, <2>2
          DEF HistInv, HistoryAgrees, ScoredIsClosed, LegIsLost, Score, Counts
<1> HIDE DEF r, s
<1>7. CASE robot' = s /\ FinishScored(o, r)
  BY <1>2, <1>6, <1>7 DEF FinishScored
<1>9. CASE robot' = s /\ FinishWithGalePending(o, r)
  <2>1. ~Finalized(robot, o, r) /\ robot'.galePending
    BY <1>9 DEF FinishWithGalePending
  <2>2. \A x \in Order : ScoreOf(robot', x) = ScoreOf(robot, x)
    BY <1>2, <1>9, <2>1 DEF ScoreOf
  <2>3. /\ robot'.last \in {robot'.galeParent, NoTrade}
        /\ robot'.galeParent.result = "LEG"
        /\ ScoreOf(robot', robot'.galeParent.id) = 0
    BY <2>1 DEF IndInv, LegContext, PendingLegSound, Score
  <2>4. \A x \in Order : \/ history'[x] = history[x]
                         \/ history'[x] = "LEG" /\ ScoreOf(robot', x) = 0
    BY <1>1, <1>9, <2>3, NoTradeFacts DEF FinishWithGalePending
  <2>5. history \in [Order -> TradeResult] /\ broker[robot'.galeParent.id] = "LOSS"
    BY <1>1, <1>2, <1>8, <1>9, <2>1 DEF HistInv, LegIsLost
  <2> QED BY <1>1, <2>2, <2>4, <2>5
          DEF HistInv, HistoryAgrees, ScoredIsClosed, LegIsLost, Score
<1>10. CASE FinishLate(o, r)
  <2> DEFINE counts == mirror[o] \notin Final \cup {"NONE"} /\ o \notin s.completed
  <2>1. /\ ~Finalized(robot, o, r) /\ ~s.galePending
        /\ robot' = IF counts THEN CountLateResult(s, o, r) ELSE s
        /\ history' = IF counts THEN [history EXCEPT ![o] = r] ELSE history
    BY <1>10 DEF FinishLate, s
  <2>2. CASE counts
    <3>1. Counts(s, robot', o, r) /\ ~robot'.galePending
      BY <1>1, <1>3, <2>1, <2>2, LateCounts, CountLateFacts
    <3>2. Counts(robot, robot', o, r)
      BY <1>2, <2>1, <3>1 DEF Counts, ScoreOf
    <3> QED BY <1>6, <2>1, <2>2, <3>1, <3>2
  <2>3. CASE ~counts
    BY <1>1, <1>2, <2>1, <2>3, HistQuiet DEF ClosedStays
  <2> QED BY <2>2, <2>3
<1> QED BY <1>5, <1>7, <1>9, <1>10

\* Every step keeps HistInv.
LEMMA HistStep ==
    ASSUME HistInv, IndInv, IndInv', [Next]_vars
    PROVE  HistInv'
<1> DEFINE c == CloseAbandonedGale(robot)
<1>0. /\ robot \in Robot /\ c \in Robot /\ ~c.galePending /\ TypeOK
      /\ robot.galePending \in BOOLEAN
  BY LegIsOrder, CloseAbandonedFacts DEF IndInv, TypeOK, Robot
<1>00. broker' = broker \/ AbandonCall => ClosedStays
  BY <1>0 DEF AbandonCall, ClosedStays, TypeOK, Result
<1> HIDE DEF c
<1>1. CASE RecycleCycle \/ OrderInvalid
  <2>1. CloseGaleThen(ResetCycleAfterResult(c)) /\ broker' = broker
    BY <1>1 DEF RecycleCycle, OrderInvalid, c
  <2> QED BY <1>0, <1>00, <2>1, ResetQuiet, HistCloseGale DEF c
<1>2. CASE PauseRobotByStop
  <2>1. CloseGaleThen(PauseByStop(c)) /\ broker' = broker
    BY <1>2 DEF PauseRobotByStop, c
  <2> QED BY <1>0, <1>00, <2>1, PauseQuiet, HistCloseGale DEF c
<1>3. CASE StopWorker
  <2>1. CloseGaleThen(Stop(c)) /\ AbandonCall
    BY <1>3 DEF StopWorker, c
  <2> QED BY <1>0, <1>00, <2>1, StopQuiet, HistCloseGale DEF c
<1>4. CASE FindSignal
  <2>1. ~robot.op
    BY <1>4 DEF FindSignal, CanAnalyse
  <2>2. Quiet(robot, robot')
    BY <1>0, <1>4, <2>1, SetPendingQuiet DEF FindSignal
  <2>3. history' = history /\ ClosedStays
    BY <1>4, <1>00 DEF FindSignal
  <2> QED BY <2>2, <2>3, HistQuiet DEF Quiet, SameScore
<1>5. CASE SignalExpires \/ OrderFails
  <2>1. Quiet(robot, robot')
    BY <1>0, <1>5, ExpireQuiet, RejectQuiet DEF SignalExpires, OrderFails, AtRest
  <2>2. history' = history /\ ClosedStays
    BY <1>5, <1>00 DEF SignalExpires, OrderFails
  <2> QED BY <2>1, <2>2, HistQuiet DEF Quiet, SameScore
<1>6. CASE BeginSend
  <2>1. ~robot.op
    BY <1>6 DEF BeginSend, CanSend
  <2>2. Quiet(robot, robot')
    BY <1>0, <1>6, <2>1, SendingQuiet DEF BeginSend
  <2>3. history' = history /\ ClosedStays
    BY <1>6, <1>00 DEF BeginSend
  <2> QED BY <2>2, <2>3, HistQuiet DEF Quiet, SameScore
<1>7. CASE OrderRecorded
  <2> DEFINE t == RecordTrade(robot, call.id, call.step)
  <2>1. /\ t.wins = robot.wins /\ t.losses = robot.losses
        /\ t.galePending =>
              robot.galePending /\ t.galeParent = robot.galeParent
    BY <1>0 DEF RecordTrade, Robot
  <2> HIDE DEF t
  <2>2. robot' = t /\ history' = history /\ ClosedStays
    BY <1>7, <1>00 DEF OrderRecorded, t
  <2> QED BY <2>1, <2>2, HistQuiet
<1>8. CASE InsufficientBalance \/ StopEmbedded
  <2>1. Quiet(robot, robot')
    BY <1>0, <1>8, StopQuiet DEF InsufficientBalance, StopEmbedded, AtRest
  <2>2. history' = history /\ ClosedStays
    BY <1>8, <1>00 DEF InsufficientBalance, StopEmbedded
  <2> QED BY <2>1, <2>2, HistQuiet DEF Quiet, SameScore
<1>9. CASE CycleTimeout
  <2>1. robot' = robot /\ history' = history /\ ClosedStays
    BY <1>9, <1>00 DEF CycleTimeout
  <2> QED BY <2>1, HistQuiet
<1>10. CASE Disconnect
  <2>1. Quiet(robot, robot')
    BY <1>0, <1>10, DisconnectQuiet DEF Disconnect
  <2>2. history' = history /\ ClosedStays
    BY <1>10, <1>00 DEF Disconnect
  <2> QED BY <2>1, <2>2, HistQuiet DEF Quiet, SameScore
<1>11. CASE StartRobot
  <2>1. Quiet(robot, robot')
    BY <1>0, <1>11, StartQuiet DEF StartRobot
  <2>2. history' = history /\ ClosedStays
    BY <1>11, <1>00 DEF StartRobot
  <2> QED BY <2>1, <2>2, HistQuiet DEF Quiet, SameScore
<1>12. CASE ClearStaleOpenOperation
  <2>1. /\ robot'.wins = robot.wins /\ robot'.losses = robot.losses
        /\ ~robot'.galePending
    BY <1>0, <1>12 DEF ClearStaleOpenOperation, Robot
  <2>2. history' = history /\ ClosedStays
    BY <1>12, <1>00 DEF ClearStaleOpenOperation
  <2> QED BY <2>1, <2>2, HistQuiet
<1>13. ASSUME NEW o \in Order, BrokerAccepts(o) \/ BrokerCloses(o) PROVE HistInv'
  <2>1. robot' = robot /\ history' = history
    BY <1>13 DEF BrokerAccepts, BrokerCloses
  <2>2. ClosedStays
    BY <1>0, <1>13 DEF BrokerAccepts, BrokerCloses, ClosedStays, TypeOK, Result
  <2> QED BY <2>1, <2>2, HistQuiet
<1>14. ASSUME NEW o \in Order, MonitorFinish(o) \/ OrphanFinished(o) PROVE HistInv'
  BY <1>14, HistFinish DEF MonitorFinish, OrphanFinished
<1>15. CASE ReconcileTimeout
  <2>1. robot.last.id \in Order
    BY <1>15 DEF ReconcileTimeout, IndInv, LastTradeSound
  <2> QED BY <1>15, <2>1, HistFinish DEF ReconcileTimeout
<1>16. ASSUME NEW o \in Order, MonitorTimeout(o) PROVE HistInv'
  <2>1. /\ robot'.wins = robot.wins /\ robot'.losses = robot.losses
        /\ robot'.galePending =>
              robot.galePending /\ robot'.galeParent = robot.galeParent
    <3>1. robot' = robot \/ robot' = TimeoutTrade(robot, o)
      BY <1>16 DEF MonitorTimeout
    <3>2. CASE robot' = TimeoutTrade(robot, o)
      BY <1>0, <3>2, TimeoutFacts
    <3> QED BY <3>1, <3>2
  <2>2. history' = history /\ ClosedStays
    BY <1>16, <1>00 DEF MonitorTimeout
  <2> QED BY <2>1, <2>2, HistQuiet
<1>18. CASE RecoverAnalysisError \/ RealLocked \/ StartLocked
  <2>1. /\ robot' = DropSignal(robot)
        /\ history' = history /\ broker' = broker
    BY <1>18 DEF RecoverAnalysisError, RealLocked, TickDropsSignal, StartLocked
  <2>2. Quiet(robot, robot')
    BY <1>0, <2>1, DropQuiet DEF AtRest
  <2> QED BY <1>00, <2>1, <2>2, HistQuiet DEF Quiet, SameScore
<1>17. CASE UNCHANGED vars
  BY <1>17 DEF vars, HistInv, HistoryAgrees, ScoredIsClosed, LegIsLost, Score
<1> QED BY <1>1, <1>2, <1>3, <1>4, <1>5, <1>6, <1>7, <1>8, <1>9, <1>10, <1>11,
           <1>12, <1>13, <1>14, <1>15, <1>16, <1>17, <1>18
        DEF Next, WorkerStep, OrderStep, UserStep

\* The history the panel shows and the score agree on every order, timed out
\* ones included, under every disturbance and any interleaving.
THEOREM HistoryAlwaysAgrees == Spec => []HistoryAgrees
<1>1. Init => HistInv
  BY DEF Init, InitRobot, HistInv, HistoryAgrees, ScoredIsClosed, LegIsLost,
         Score, ScoreOf
<1>2. IndInv /\ IndInv' /\ HistInv /\ [Next]_vars => HistInv'
  BY HistStep
<1>3. HistInv => HistoryAgrees
  BY DEF HistInv
<1> QED BY <1>1, <1>2, <1>3, Inductive, PTL DEF Spec

-----------------------------------------------------------------------------
(* LegFollowed.                                                            *)

\* The disturbances after which the runtime process still closes the cycle of a
\* lost leg or sends its next step.
Mindful == {"stop", "stale", "timeout", "cycle_timeout", "cycle_error", "locked"}

\* An order gets its parent when it is recorded, and once.
ParentsAreKnown ==
    \A o \in Order : parent[o] # NoOrder =>
        /\ broker[o] # "idle"
        /\ call.stage = "accepted" => call.id # o

\* What is submitted while a leg waits is that leg's next step.
StepOfTheLeg ==
    call.stage # "none" /\ robot.galePending => call.parent = robot.galeParent.id

\* The inductive invariant behind LegFollowed, on top of IndInv.
FollowInv == LegFollowed /\ ParentsAreKnown /\ StepOfTheLeg

\* Parents are given once, a leg that waits goes on waiting, is closed as lost or
\* gets its step, and a row only becomes "LEG" for the leg that waits.
LEMMA FollowKept ==
    ASSUME LegFollowed,
           \A p \in Order : parent[p] # NoOrder => parent'[p] = parent[p],
           \A o \in Order : history'[o] = "LEG" =>
               \/ history[o] = "LEG"
               \/ robot'.galePending /\ robot'.galeParent.id = o,
           robot.galePending =>
               \/ robot'.galePending /\ robot'.galeParent.id = robot.galeParent.id
               \/ history'[robot.galeParent.id] # "LEG"
               \/ \E p \in Order : parent'[p] = robot.galeParent.id
    PROVE  LegFollowed'
<1> SUFFICES ASSUME NEW o \in Order, history'[o] = "LEG",
                    ~(robot'.galePending /\ robot'.galeParent.id = o)
             PROVE  \E p \in Order : parent'[p] = o
  BY DEF LegFollowed
<1>1. \/ robot.galePending /\ robot.galeParent.id = o
      \/ \E p \in Order : parent[p] = o
  BY DEF LegFollowed
<1>2. o # NoOrder
  BY OrderAssumption
<1> QED BY <1>1, <1>2

\* The parents and the submission stay, the broker forgets no order, and no leg
\* begins to wait.
LEMMA FollowSteady ==
    ASSUME FollowInv, UNCHANGED <<parent, history>>,
           \A o \in Order : broker[o] # "idle" => broker'[o] # "idle",
           \/ call' = call
           \/ call'.stage = "none",
           robot'.galePending <=> robot.galePending,
           robot.galePending => robot'.galeParent.id = robot.galeParent.id
    PROVE  FollowInv'
<1>1. LegFollowed'
  BY FollowKept DEF FollowInv
<1>2. ParentsAreKnown'
  BY DEF FollowInv, ParentsAreKnown
<1>3. StepOfTheLeg'
  BY DEF FollowInv, StepOfTheLeg
<1> QED BY <1>1, <1>2, <1>3 DEF FollowInv

\* The broker forgets no order.
LEMMA NothingForgotten ==
    ASSUME TypeOK, broker' = broker \/ AbandonCall
    PROVE  \A o \in Order : broker[o] # "idle" => broker'[o] # "idle"
BY DEF TypeOK, AbandonCall

\* The cycle of a waiting leg is closed as lost before the robot goes on.
LEMMA FollowClosed ==
    ASSUME FollowInv, IndInv, NEW s, AtRest(CloseAbandonedGale(robot), s),
           CloseGaleThen(s), parent' = parent, broker' = broker \/ AbandonCall,
           call' = call \/ call'.stage = "none"
    PROVE  FollowInv'
<1> DEFINE c == CloseAbandonedGale(robot)
<1>1. robot \in Robot /\ history \in [Order -> TradeResult] /\ TypeOK
  BY DEF IndInv, TypeOK
<1>2. ~c.galePending /\ robot.galePending \in BOOLEAN
  BY <1>1, LegIsOrder, CloseAbandonedFacts DEF Robot
<1>3. robot' = s /\ ~robot'.galePending
  BY <1>2 DEF CloseGaleThen, AtRest, Quiet
<1>4. IF robot.galePending
      THEN /\ robot.galeParent.id \in Order
           /\ history' = [history EXCEPT ![robot.galeParent.id] = "LOSS"]
      ELSE history' = history
  BY <1>1, LegIsOrder DEF HasAbandonedGale, CloseGaleThen
<1>5. \A o \in Order : history'[o] = "LEG" => history[o] = "LEG"
  BY <1>1, <1>4
<1>6. robot.galePending => history'[robot.galeParent.id] # "LEG"
  BY <1>1, <1>4
<1>7. LegFollowed'
  BY <1>5, <1>6, FollowKept DEF FollowInv
<1>8. ParentsAreKnown'
  BY <1>1, NothingForgotten DEF FollowInv, ParentsAreKnown
<1>9. StepOfTheLeg'
  BY <1>3 DEF StepOfTheLeg
<1> QED BY <1>7, <1>8, <1>9 DEF FollowInv

\* finish_trade touches no leg that waits, and the row it writes as "LEG" is the
\* one of the leg that begins to wait.
LEMMA FollowFinish ==
    ASSUME FollowInv, IndInv, IndInv', NEW o \in Order, FinishMonitored(o)
    PROVE  FollowInv'
<1> DEFINE r == broker[o]
           s == FinishTrade(robot, o, r)
<1>1. /\ r \in Result /\ broker' = broker /\ parent' = parent /\ call' = call
      /\ call.stage = "none" /\ robot \in Robot /\ history \in [Order -> TradeResult]
  BY DEF FinishMonitored, CycleLockFree, IndInv, TypeOK
<1>2. robot.galePending => ~CanFinish(robot, o) /\ s = robot /\ ~Finalized(robot, o, r)
  BY SoundNow, SoundRecovered DEF FinishTrade, Finalized
<1>3. \/ robot' = s /\ FinishScored(o, r)
      \/ robot' = s /\ FinishWithGalePending(o, r)
      \/ FinishLate(o, r)
  BY DEF FinishMonitored
<1>4. r # "LEG"
  BY <1>1 DEF Result
<1> HIDE DEF r, s
<1>5. robot.galePending => robot'.galePending /\ robot'.galeParent = robot.galeParent
  BY <1>2, <1>3 DEF FinishScored, FinishLate, s
<1>6. \A x \in Order : history'[x] = "LEG" =>
          \/ history[x] = "LEG"
          \/ robot'.galePending /\ robot'.galeParent.id = x
  <2>1. CASE FinishScored(o, r)
    BY <1>1, <1>4, <2>1 DEF FinishScored
  <2>2. CASE FinishWithGalePending(o, r)
    <3>1. robot'.galePending /\ robot'.last \in {robot'.galeParent, NoTrade}
      BY <2>2 DEF FinishWithGalePending, IndInv, LegContext
    <3>2. \/ history' = history
          \/ /\ history' = [history EXCEPT ![robot'.last.id] = robot'.last.result]
             /\ robot'.last.id # NoOrder
      BY <2>2 DEF FinishWithGalePending
    <3> QED BY <1>1, <3>1, <3>2, NoTradeFacts
  <2>3. CASE FinishLate(o, r)
    BY <1>1, <1>4, <2>3 DEF FinishLate
  <2> QED BY <1>3, <2>1, <2>2, <2>3
<1>7. LegFollowed'
  BY <1>1, <1>5, <1>6, FollowKept DEF FollowInv
<1> QED BY <1>1, <1>7 DEF FollowInv, ParentsAreKnown, StepOfTheLeg

\* Every step the mindful disturbances leave keeps FollowInv.
LEMMA FollowStep ==
    ASSUME FollowInv, IndInv, IndInv', [Next]_vars, Worker = TRUE, Events \subseteq Mindful
    PROVE  FollowInv'
<1> DEFINE c == CloseAbandonedGale(robot)
<1>0. /\ robot \in Robot /\ c \in Robot /\ ~c.galePending /\ TypeOK
      /\ robot.galePending \in BOOLEAN /\ call \in Call
      /\ parent \in [Order -> Order \cup {NoOrder}]
  BY LegIsOrder, CloseAbandonedFacts DEF IndInv, TypeOK, Robot
<1>00. /\ "disconnect" \notin Events /\ "refused" \notin Events
       /\ "insufficient" \notin Events /\ "expired" \notin Events
       /\ "invalid" \notin Events /\ "lost_reply" \notin Events
  BY DEF Mindful
<1>01. NoCall.stage = "none"
  BY NoCallFacts
<1> HIDE DEF c
<1>1. CASE RecycleCycle
  <2>1. CloseGaleThen(ResetCycleAfterResult(c)) /\ UNCHANGED <<broker, parent, call>>
    BY <1>1 DEF RecycleCycle, c
  <2> QED BY <1>0, <2>1, ResetQuiet, FollowClosed DEF c
<1>2. CASE PauseRobotByStop
  <2>1. CloseGaleThen(PauseByStop(c)) /\ UNCHANGED <<broker, parent, call>>
    BY <1>2 DEF PauseRobotByStop, c
  <2> QED BY <1>0, <2>1, PauseQuiet, FollowClosed DEF c
<1>3. CASE StopWorker
  <2>1. /\ CloseGaleThen(Stop(c)) /\ parent' = parent /\ AbandonCall
        /\ call'.stage = "none"
    BY <1>3, <1>01 DEF StopWorker, AbandonCall, c
  <2> QED BY <1>0, <2>1, StopQuiet, FollowClosed DEF c
<1>4. CASE FindSignal
  <2>1. /\ ~robot.op /\ robot' = SetPendingSignal(robot)
        /\ UNCHANGED <<parent, history, broker, call>>
    BY <1>4 DEF FindSignal, CanAnalyse
  <2>2. /\ robot'.galePending = robot.galePending
        /\ robot'.galeParent = robot.galeParent
    BY <1>0, <2>1, SetPendingQuiet
  <2> QED BY <2>1, <2>2, FollowSteady
<1>5. CASE BeginSend
  <2>1. /\ ~robot.op /\ robot.enabled /\ UNCHANGED <<parent, history, broker>>
        /\ robot' = StartSendingOrder(SetPendingSignal(robot))
        /\ call' = [stage |-> "submitting", id |-> NoOrder, step |-> SentStep(robot),
                    parent |-> IF IsGaleOrder(robot) THEN robot.galeParent.id
                                                     ELSE NoOrder]
    BY <1>5 DEF BeginSend, CanSend
  <2>2. /\ robot'.galePending = robot.galePending
        /\ robot'.galeParent = robot.galeParent
    BY <1>0, <2>1, SendingQuiet
  <2>3. robot.galePending => IsGaleOrder(robot)
    BY DEF IsGaleOrder
  <2>4. LegFollowed'
    BY <2>1, <2>2, FollowKept DEF FollowInv
  <2>5. ParentsAreKnown'
    BY <2>1 DEF FollowInv, ParentsAreKnown
  <2>6. StepOfTheLeg'
    BY <2>1, <2>2, <2>3 DEF StepOfTheLeg
  <2> QED BY <2>4, <2>5, <2>6 DEF FollowInv
<1>6. CASE OrderRecorded
  <2> DEFINE o == call.id
             p == IF call.parent # NoOrder THEN call.parent ELSE robot.galeOrigin
  <2>1. /\ call.stage = "accepted" /\ robot' = RecordTrade(robot, o, call.step)
        /\ parent' = [parent EXCEPT ![o] = p] /\ UNCHANGED <<history, broker>>
        /\ call'.stage = "none"
    BY <1>6, <1>01 DEF OrderRecorded
  <2>2. /\ o \in Order /\ o \notin robot.completed /\ ~robot.op
        /\ robot.galePending => call.step > 0
        /\ call.step \in 0..MaxGale
    BY <1>0, <2>1 DEF IndInv, CallSound, Call
  <2>3. ~robot'.galePending
    <3>1. robot'.galePending = (IF call.step > 0 THEN FALSE ELSE robot.galePending)
      <4> DEFINE step == call.step
      <4>1. o \in Order /\ o \notin robot.completed /\ ~robot.op /\ step \in 0..MaxGale
        BY <2>2
      <4>2. robot' = RecordTrade(robot, o, step)
        BY <2>1
      <4> HIDE DEF o, step
      <4>3. robot'.galePending = (IF step > 0 THEN FALSE ELSE robot.galePending)
        <5>1. robot \in Robot
          BY <1>0
        <5> QED
          BY <4>1, <4>2, <5>1, RecordFacts, Zenon
      <4> QED
        BY <4>3 DEF step
    <3>2. ~robot.galePending \/ call.step > 0
      BY <2>2
    <3> QED
      BY <3>1, <3>2
  <2>4. broker[o] # "idle" /\ parent[o] = NoOrder
    BY <2>1, <2>2 DEF IndInv, IdleIsUnknown, FollowInv, ParentsAreKnown
  <2> HIDE DEF p
  <2>5. \A x \in Order : parent[x] # NoOrder => parent'[x] = parent[x]
    BY <1>0, <2>1, <2>2, <2>4
  <2>6. robot.galePending => parent'[o] = robot.galeParent.id
    <3>1. robot.galePending => call.parent = robot.galeParent.id
                               /\ robot.galeParent.id \in Order
      BY <2>1, LegIsOrder DEF FollowInv, StepOfTheLeg
    <3>2. robot.galePending => p = robot.galeParent.id
      BY <3>1, OrderAssumption DEF p
    <3> QED BY <1>0, <2>1, <2>2, <3>2
  <2>7. LegFollowed'
    BY <2>1, <2>2, <2>5, <2>6, FollowKept DEF FollowInv
  <2>8. ParentsAreKnown'
    <3>1. \A x \in Order : x # o => parent'[x] = parent[x]
      BY <1>0, <2>1
    <3> QED BY <2>1, <2>4, <3>1 DEF FollowInv, ParentsAreKnown
  <2>9. StepOfTheLeg'
    BY <2>3 DEF StepOfTheLeg
  <2> QED BY <2>7, <2>8, <2>9 DEF FollowInv
<1>7. CASE CycleTimeout
  <2>1. UNCHANGED <<robot, parent, history>> /\ AbandonCall /\ call'.stage = "none"
    BY <1>7, <1>01 DEF CycleTimeout, AbandonCall
  <2> QED BY <1>0, <2>1, NothingForgotten, FollowSteady
<1>8. CASE StartRobot
  <2>1. robot = InitRobot /\ UNCHANGED <<parent, history, broker, call>>
        /\ robot' = Start(robot)
    BY <1>8 DEF StartRobot
  <2>2. ~robot.galePending
    BY <2>1 DEF InitRobot
  <2>3. ~robot'.galePending
    BY <1>0, <2>1, <2>2, StartQuiet DEF Quiet
  <2> QED BY <2>1, <2>2, <2>3, FollowSteady
<1>9. ASSUME NEW o \in Order, BrokerAccepts(o) PROVE FollowInv'
  <2>1. /\ call.stage = "submitting" /\ broker[o] = "idle"
        /\ broker' = [broker EXCEPT ![o] = "open"]
        /\ call' = [call EXCEPT !.stage = "accepted", !.id = o]
        /\ UNCHANGED <<robot, parent, history>>
    BY <1>9 DEF BrokerAccepts
  <2>2. call'.id = o /\ call'.parent = call.parent
    BY <1>0, <2>1 DEF Call
  <2>3. \A x \in Order : broker[x] # "idle" => broker'[x] # "idle"
    BY <1>0, <2>1 DEF TypeOK
  <2>4. LegFollowed'
    BY <2>1, FollowKept DEF FollowInv
  <2>5. ParentsAreKnown'
    BY <2>1, <2>2, <2>3 DEF FollowInv, ParentsAreKnown
  <2>6. StepOfTheLeg'
    BY <2>1, <2>2 DEF FollowInv, StepOfTheLeg
  <2> QED BY <2>4, <2>5, <2>6 DEF FollowInv
<1>10. ASSUME NEW o \in Order, BrokerCloses(o) PROVE FollowInv'
  <2>1. /\ UNCHANGED <<robot, parent, history, call>>
        /\ \E r \in Result : broker' = [broker EXCEPT ![o] = r]
    BY <1>10 DEF BrokerCloses
  <2>2. \A x \in Order : broker[x] # "idle" => broker'[x] # "idle"
    BY <1>0, <2>1 DEF TypeOK, Result
  <2> QED BY <2>1, <2>2, FollowSteady
<1>11. ASSUME NEW o \in Order, MonitorFinish(o) \/ OrphanFinished(o)
       PROVE  FollowInv'
  BY <1>11, FollowFinish DEF MonitorFinish, OrphanFinished
<1>12. CASE ReconcileTimeout
  <2>1. robot.last.id \in Order
    BY <1>12 DEF ReconcileTimeout, IndInv, LastTradeSound
  <2> QED BY <1>12, <2>1, FollowFinish DEF ReconcileTimeout
<1>13. ASSUME NEW o \in Order, MonitorTimeout(o) PROVE FollowInv'
  <2>1. UNCHANGED <<parent, history, broker, call>>
    BY <1>13 DEF MonitorTimeout
  <2>2. \/ robot' = robot
        \/ CanTimeout(robot, o) /\ robot' = TimeoutTrade(robot, o)
    BY <1>13 DEF MonitorTimeout
  <2>3. CanTimeout(robot, o) => ~robot.galePending
    BY OrderAssumption, NoTradeFacts
       DEF CanTimeout, IndInv, LegContext, PendingLegSound
  <2>4. robot' = TimeoutTrade(robot, o) => ~robot'.galePending
    <3>1. robot \in Robot
      BY <1>0
    <3> QED
      BY <3>1, TimeoutFacts, Zenon
  <2>5. robot' = robot \/ (~robot.galePending /\ ~robot'.galePending)
    BY <2>2, <2>3, <2>4
  <2> QED BY <2>1, <2>5, FollowSteady
<1>16. CASE RecoverAnalysisError \/ RealLocked
  <2>1. robot' = DropSignal(robot) /\ UNCHANGED <<parent, history, broker, call>>
    BY <1>16 DEF RecoverAnalysisError, RealLocked, TickDropsSignal
  <2>2. /\ robot'.galePending = robot.galePending
        /\ robot'.galeParent = robot.galeParent
    BY <1>0, <2>1, DropQuiet
  <2> QED BY <2>1, <2>2, FollowSteady
<1>14. CASE UNCHANGED vars
  BY <1>14, FollowSteady DEF vars
<1>15. ~SignalExpires /\ ~OrderInvalid /\ ~OrderFails /\ ~InsufficientBalance
       /\ ~Disconnect /\ ~StopEmbedded /\ ~StartLocked /\ ~ClearStaleOpenOperation
  <2>1. ~SignalExpires /\ ~OrderInvalid /\ ~InsufficientBalance /\ ~Disconnect
    BY <1>00 DEF SignalExpires, OrderInvalid, InsufficientBalance, Disconnect
  <2>2. ~OrderFails
    BY <1>00 DEF OrderFails
  <2>3. ~StopEmbedded /\ ~StartLocked /\ ~ClearStaleOpenOperation
    BY DEF StopEmbedded, StartLocked, ClearStaleOpenOperation
  <2> QED BY <2>1, <2>2, <2>3
<1> QED BY <1>1, <1>2, <1>3, <1>4, <1>5, <1>6, <1>7, <1>8, <1>9, <1>10, <1>11,
           <1>12, <1>13, <1>14, <1>15, <1>16
        DEF Next, WorkerStep, OrderStep, UserStep

\* In the runtime process, whatever stops, stale operations, exceptions, locks,
\* timeouts of orders and of the cycle come in between: a lost leg the panel
\* shows still waits for its step, or the step was sent, or the cycle is listed
\* as lost.
THEOREM LegsAreFollowed ==
    ASSUME Worker = TRUE, Events \subseteq Mindful
    PROVE  Spec => []LegFollowed
<1>1. Init => FollowInv
  BY NoCallFacts
     DEF Init, InitRobot, FollowInv, LegFollowed, ParentsAreKnown, StepOfTheLeg
<1>2. IndInv /\ IndInv' /\ FollowInv /\ [Next]_vars => FollowInv'
  BY FollowStep
<1>3. FollowInv => LegFollowed
  BY DEF FollowInv
<1> QED BY <1>1, <1>2, <1>3, Inductive, PTL DEF Spec

-----------------------------------------------------------------------------
(* SequencePaid.                                                           *)

\* The disturbances that take no order away from the robot.
Local == {"refused", "insufficient", "expired", "invalid", "cycle_error", "locked"}

\* A martingale sequence is under way: a lost leg waits or its next step is open.
LegUnderWay(s) == s.galePending \/ (s.op /\ s.last.step > 0)

\* Money of an order is in the profit once, and not before it is closed.
PaidOnce ==
    \A o \in Order : robot.paid[o] <= 1 /\ (o \notin robot.completed => robot.paid[o] = 0)

\* The row of a closed cycle is paid, and with an order its parent.
ClosedIsPaid ==
    \A o \in Order :
        /\ history[o] \in Result => robot.paid[o] = 1
        /\ parent[o] # NoOrder /\ robot.paid[o] = 1 => robot.paid[parent[o]] = 1

\* While a sequence is under way the chain holds its closed orders, unpaid, from
\* the one that waits or was followed down to the first.
ChainWhole ==
    LegUnderWay(robot) =>
        /\ robot.galeOrigin \in robot.chain
        /\ robot.galePending => robot.galeParent.id \in robot.chain
        /\ \A o \in robot.chain :
              /\ o \in robot.completed /\ robot.paid[o] = 0
              /\ parent[o] # NoOrder =>
                    parent[o] \in robot.chain \/ robot.paid[parent[o]] = 1

\* Otherwise the first order of the last sequence is paid.
OriginPaid ==
    robot.galeOrigin # NoOrder /\ ~LegUnderWay(robot) => robot.paid[robot.galeOrigin] = 1

\* The parent of the open order is paid or in the chain it closes.
OpenHasParent ==
    robot.op /\ parent[robot.last.id] # NoOrder =>
        \/ robot.paid[parent[robot.last.id]] = 1
        \/ robot.last.step > 0 /\ parent[robot.last.id] \in robot.chain

\* Only the open order is awaited; nothing was given up.
AwaitedIsOpen ==
    /\ timedOut = {} /\ (robot.last.result = "PENDING" => robot.op)
    /\ \A o \in Order : o \in monitor \/ mirror[o] = "PENDING" =>
          robot.op /\ robot.last.id = o

\* A martingale step is submitted for the leg that waits.
StepOfLeg ==
    call.stage # "none" /\ (call.step > 0 \/ call.parent # NoOrder) =>
        robot.galePending /\ call.parent = robot.galeParent.id

\* The inductive invariant behind SequencePaid, on top of IndInv and LiveInv.
PaidInv ==
    /\ PaidOnce /\ ClosedIsPaid /\ ChainWhole /\ OriginPaid /\ OpenHasParent
    /\ AwaitedIsOpen /\ StepOfLeg

\* With no open operation: the same sequence goes on waiting, or it is forgotten.
SameMoney(s, t) ==
    /\ ~t.op /\ t.completed = s.completed /\ t.paid = s.paid
    /\ t.last \in {s.last, NoTrade}
    /\ \/ /\ t.galePending = s.galePending /\ t.galeParent = s.galeParent
          /\ t.chain = s.chain /\ t.galeOrigin = s.galeOrigin
       \/ ~t.galePending /\ t.galeOrigin = NoOrder

\* What the operations that move no order do to the money: nothing.
LEMMA MoneyStays ==
    ASSUME NEW s \in Robot, ~s.op
    PROVE  /\ SameMoney(s, SetPendingSignal(s)) /\ SameMoney(s, DropSignal(s))
           /\ SameMoney(s, StartSendingOrder(SetPendingSignal(s)))
           /\ SameMoney(s, ExpirePendingSignal(s)) /\ SameMoney(s, RejectOrder(s))
           /\ SameMoney(s, Stop(s)) /\ SameMoney(s, PauseByStop(s))
           /\ SameMoney(s, ResetCycleAfterResult(s)) /\ SameMoney(s, Start(s))
<1>1. /\ SameMoney(s, SetPendingSignal(s)) /\ SameMoney(s, DropSignal(s))
      /\ SameMoney(s, StartSendingOrder(SetPendingSignal(s)))
  BY DEF SameMoney, SetPendingSignal, DropSignal, StartSendingOrder, Robot
<1>2. SameMoney(s, ExpirePendingSignal(s)) /\ SameMoney(s, RejectOrder(s))
  BY DEF SameMoney, ExpirePendingSignal, RejectOrder, ClearGale, Robot
<1>3. SameMoney(s, Stop(s)) /\ SameMoney(s, PauseByStop(s))
  BY DEF SameMoney, Stop, PauseByStop, ClearGale, Robot
<1>4. SameMoney(s, Start(s))
  BY DEF SameMoney, Start, Robot
<1>5. SameMoney(s, ResetCycleAfterResult(s))
  BY DEF SameMoney, ResetCycleAfterResult, ClearGale, Robot
<1> QED BY <1>1, <1>2, <1>3, <1>4, <1>5

\* Where the mirror says PENDING after persist_robot it said so before, or it is
\* the pending last_trade.
LEMMA MirrorPending ==
    ASSUME NEW s \in Robot, NEW m \in [Order -> TradeResult], NEW o \in Order,
           MirrorLast(s, m)[o] = "PENDING"
    PROVE  m[o] = "PENDING" \/ (s.last.id = o /\ s.last.result = "PENDING")
BY DEF MirrorLast, Robot, Trade

\* A step without an open operation that moves no money keeps PaidInv.
LEMMA PaidQuiet ==
    ASSUME PaidInv, TypeOK, ~robot.op, SameMoney(robot, robot'),
           UNCHANGED <<history, parent, monitor, timedOut>>,
           \A o \in Order : mirror'[o] = "PENDING" =>
               mirror[o] = "PENDING" \/ robot'.last.result = "PENDING",
           call'.stage # "none" /\ (call'.step > 0 \/ call'.parent # NoOrder) =>
               robot'.galePending /\ call'.parent = robot'.galeParent.id
    PROVE  PaidInv'
<1> USE DEF PaidInv
<1>1. LegUnderWay(robot) <=> robot.galePending
  BY DEF LegUnderWay
<1>2. LegUnderWay(robot)' <=> robot'.galePending
  BY DEF LegUnderWay, SameMoney
<1>3. PaidOnce' /\ ClosedIsPaid'
  BY DEF PaidOnce, ClosedIsPaid, SameMoney
<1>4. ChainWhole'
  BY <1>1, <1>2 DEF ChainWhole, SameMoney
<1>5. OriginPaid'
  BY <1>1, <1>2 DEF OriginPaid, SameMoney
<1>6. OpenHasParent'
  BY DEF OpenHasParent, SameMoney
<1>7. AwaitedIsOpen'
  BY NoTradeFacts DEF AwaitedIsOpen, SameMoney
<1>8. StepOfLeg'
  BY DEF StepOfLeg
<1> QED BY <1>3, <1>4, <1>5, <1>6, <1>7, <1>8

\* close_abandoned_gale pays the chain of the leg it counts.
LEMMA CloseGaleMoney ==
    ASSUME NEW s \in Robot, HasAbandonedGale(s), s.chain # {}
    PROVE  LET c == CloseAbandonedGale(s)
           IN  /\ ~c.op /\ ~c.galePending /\ c.galeOrigin = NoOrder
               /\ c.completed = s.completed
               /\ c.last = [s.galeParent EXCEPT !.result = "LOSS"]
               /\ c.paid = [o \in Order |-> IF o \in s.chain THEN s.paid[o] + 1
                                                             ELSE s.paid[o]]
<1> DEFINE c == CloseAbandonedGale(s)
           p == [o \in Order |-> IF o \in s.chain THEN s.paid[o] + 1 ELSE s.paid[o]]
           q == CountResult(s, s.galeParent.id, "LOSS")
           u == Pay(q, s.chain)
           l == [s.galeParent EXCEPT !.result = "LOSS"]
<1>1. c = ClearGale([u EXCEPT !.last = l, !.op = FALSE])
  BY DEF CloseAbandonedGale
<1>2. q = [s EXCEPT !.losses = q.losses, !.wins = q.wins]
  BY DEF CountResult, Robot
<1> HIDE DEF q
<1>3. u = [s EXCEPT !.losses = q.losses, !.wins = q.wins, !.paid = p]
  BY <1>2 DEF Pay, Robot
<1> HIDE DEF u, p, l
<1>4. /\ ~c.op /\ ~c.galePending /\ c.galeOrigin = NoOrder
      /\ c.completed = s.completed /\ c.last = l /\ c.paid = p
  BY <1>1, <1>3 DEF ClearGale, Robot
<1> HIDE DEF c
<1> QED BY <1>4 DEF c, p, l

\* finish_trade, the cycle ends: the order and, after a martingale step, its
\* chain are paid.
LEMMA CloseCycleMoney ==
    ASSUME NEW s \in Robot, NEW o \in Order, NEW r \in Result
    PROVE  LET c == CloseCycle(s, o, r)
               orders == {o} \cup (IF s.last.step > 0 THEN s.chain ELSE {})
           IN  /\ ~c.op /\ ~c.galePending /\ c.galeOrigin = s.galeOrigin
               /\ c.completed = s.completed \cup {o}
               /\ c.last = [s.last EXCEPT !.result = r]
               /\ c.paid = [x \in Order |-> IF x \in orders THEN s.paid[x] + 1
                                                            ELSE s.paid[x]]
<1> DEFINE orders == {o} \cup (IF s.last.step > 0 THEN s.chain ELSE {})
           c == CloseCycle(s, o, r)
           p == [x \in Order |-> IF x \in orders THEN s.paid[x] + 1 ELSE s.paid[x]]
           q == CountResult(s, o, r)
           u == Pay(q, orders)
           l == [s.last EXCEPT !.result = r]
           st == IF s.enabled THEN "result" ELSE "stopped"
<1>1. q = [s EXCEPT !.losses = q.losses, !.wins = q.wins]
  BY DEF CountResult, Robot
<1>2. c = [u EXCEPT !.completed = @ \cup {o}, !.last.result = r, !.op = FALSE,
                    !.status = st, !.galePending = FALSE]
  BY DEF CloseCycle
<1> HIDE DEF q, orders, c, st
<1>3. u = [s EXCEPT !.losses = q.losses, !.wins = q.wins, !.paid = p]
  BY <1>1 DEF Pay, Robot
<1> HIDE DEF u, p
<1>4. /\ ~c.op /\ ~c.galePending /\ c.galeOrigin = s.galeOrigin
      /\ c.completed = s.completed \cup {o} /\ c.last = l /\ c.paid = p
  BY <1>2, <1>3 DEF Robot, Trade
<1> HIDE DEF l
<1> QED BY <1>4 DEF c, orders, p, l

\* trigger_gale pays nothing and puts the order in the chain.
LEMMA TriggerMoney ==
    ASSUME NEW s \in Robot, NEW o \in Order, s.last.id = o
    PROVE  LET t == TriggerGale(s, o)
           IN  /\ ~t.op /\ t.galePending /\ t.galeParent.id = o
               /\ t.last.id = o /\ t.last.result = "LEG"
               /\ t.completed = s.completed \cup {o} /\ t.paid = s.paid
               /\ t.chain = (IF s.last.step > 0 THEN s.chain ELSE {}) \cup {o}
               /\ t.galeOrigin = IF s.last.step > 0 /\ s.galeOrigin # NoOrder
                                 THEN s.galeOrigin ELSE o
BY DEF TriggerGale, Robot, Trade

\* Orders of the chain are orders, unpaid, and the leg that waits is one.
LEMMA ChainFacts ==
    ASSUME PaidInv, IndInv
    PROVE  /\ robot.galePending =>
                 /\ robot.chain # {} /\ robot.galeParent.id \in robot.chain
                 /\ HasAbandonedGale(robot)
           /\ robot.chain \subseteq Order /\ robot.paid \in [Order -> Nat]
<1>1. robot \in Robot
  BY DEF IndInv, TypeOK
<1>2. robot.galePending => robot.galeParent.id \in robot.chain
  BY DEF PaidInv, ChainWhole, LegUnderWay
<1>3. robot.galePending => HasAbandonedGale(robot)
  BY LegIsOrder DEF HasAbandonedGale
<1> QED BY <1>1, <1>2, <1>3 DEF Robot

\* Paying a chain of unpaid orders keeps what is paid in order.
LEMMA PayingKeeps ==
    ASSUME PaidInv, IndInv, IndInv', NEW orders, orders \subseteq Order,
           \A x \in orders : /\ robot.paid[x] = 0 /\ x \in robot'.completed
                             /\ parent[x] # NoOrder =>
                                   parent[x] \in orders \/ robot.paid[parent[x]] = 1,
           robot'.paid = [x \in Order |-> IF x \in orders THEN robot.paid[x] + 1
                                                          ELSE robot.paid[x]],
           robot.completed \subseteq robot'.completed,
           \A x \in Order : history'[x] \in Result =>
               history[x] \in Result \/ x \in orders,
           parent' = parent
    PROVE  PaidOnce' /\ ClosedIsPaid'
<1>1. /\ robot.paid \in [Order -> Nat] /\ robot'.paid \in [Order -> Nat]
      /\ parent \in [Order -> Order \cup {NoOrder}]
  BY DEF IndInv, TypeOK, Robot
<1>2. \A x \in Order : robot'.paid[x] = IF x \in orders THEN 1 ELSE robot.paid[x]
  BY <1>1
<1>3. PaidOnce'
  BY <1>1, <1>2 DEF PaidInv, PaidOnce
<1>4. \A x \in Order : robot.paid[x] = 1 => robot'.paid[x] = 1
  BY <1>2
<1>5. ASSUME NEW x \in Order, history'[x] \in Result PROVE robot'.paid[x] = 1
  BY <1>2, <1>5 DEF PaidInv, ClosedIsPaid
<1>6. ASSUME NEW x \in Order, parent[x] # NoOrder, robot'.paid[x] = 1
      PROVE  robot'.paid[parent[x]] = 1
  <2>1. parent[x] \in Order
    BY <1>1, <1>6
  <2>2. CASE x \in orders
    BY <1>2, <1>4, <1>6, <2>1, <2>2
  <2>3. CASE x \notin orders
    BY <1>2, <1>4, <1>6, <2>1, <2>3 DEF PaidInv, ClosedIsPaid
  <2> QED BY <2>2, <2>3
<1> QED BY <1>3, <1>5, <1>6 DEF ClosedIsPaid

\* Closing an abandoned leg pays its chain, when the row it writes is the leg's.
LEMMA PaidClosed ==
    ASSUME PaidInv, IndInv, IndInv', ~robot.op, call.stage = "none",
           NEW s, SameMoney(CloseAbandonedGale(robot), s),
           CloseGaleThen(s), UNCHANGED <<parent, monitor, timedOut, call>>
    PROVE  PaidInv'
<1> DEFINE c == CloseAbandonedGale(robot)
           id == robot.galeParent.id
<1>1. /\ robot \in Robot /\ robot' \in Robot /\ TypeOK
      /\ history \in [Order -> TradeResult] /\ mirror \in [Order -> TradeResult]
  BY DEF IndInv, TypeOK
<1>2. robot' = s /\ call'.stage = "none"
  BY DEF CloseGaleThen
<1>3. CASE robot.galePending
  <2>1. /\ robot.chain # {} /\ id \in robot.chain /\ HasAbandonedGale(robot)
        /\ robot.chain \subseteq Order /\ robot.paid \in [Order -> Nat]
    BY <1>3, ChainFacts
  <2>2. /\ ~c.op /\ ~c.galePending /\ c.galeOrigin = NoOrder
        /\ c.completed = robot.completed
        /\ c.last = [robot.galeParent EXCEPT !.result = "LOSS"]
        /\ c.paid = [o \in Order |-> IF o \in robot.chain THEN robot.paid[o] + 1
                                                          ELSE robot.paid[o]]
    BY <1>1, <2>1, CloseGaleMoney
  <2>3. c.last.result = "LOSS"
    BY <1>1, <2>2 DEF Robot, Trade
  <2> HIDE DEF c
  <2>4. /\ ~robot'.op /\ ~robot'.galePending /\ robot'.galeOrigin = NoOrder
        /\ robot'.completed = robot.completed /\ robot'.paid = c.paid
        /\ robot'.last.result # "PENDING"
    BY <1>2, <2>2, <2>3, NoTradeFacts DEF SameMoney, c
  <2>5. /\ history' = [history EXCEPT ![id] = "LOSS"]
        /\ mirror' = MirrorLast(robot', [mirror EXCEPT ![id] = "LOSS"])
    BY <1>2, <2>1 DEF CloseGaleThen
  <2>6. \A x \in Order : history'[x] \in Result => history[x] \in Result \/ x \in robot.chain
    BY <1>1, <2>1, <2>5
  <2>7. \A x \in robot.chain :
           /\ robot.paid[x] = 0 /\ x \in robot'.completed
           /\ parent[x] # NoOrder =>
                 parent[x] \in robot.chain \/ robot.paid[parent[x]] = 1
    BY <1>3, <2>4 DEF PaidInv, ChainWhole, LegUnderWay
  <2>8. PaidOnce' /\ ClosedIsPaid'
    BY <2>1, <2>2, <2>4, <2>6, <2>7, PayingKeeps
  <2>9. ChainWhole' /\ OriginPaid' /\ OpenHasParent'
    BY <2>4 DEF ChainWhole, OriginPaid, OpenHasParent, LegUnderWay
  <2>10. AwaitedIsOpen'
    <3>1. [mirror EXCEPT ![id] = "LOSS"] \in [Order -> TradeResult]
      BY <1>1 DEF TradeResult, Final
    <3>2. \A x \in Order : mirror'[x] = "PENDING" => mirror[x] = "PENDING"
      BY <1>1, <2>4, <2>5, <3>1, MirrorPending
    <3> QED BY <2>4, <3>2 DEF PaidInv, AwaitedIsOpen
  <2>11. StepOfLeg'
    BY <1>2 DEF StepOfLeg
  <2> QED BY <2>8, <2>9, <2>10, <2>11 DEF PaidInv
<1>4. CASE ~robot.galePending
  <2>1. c = robot /\ ~HasAbandonedGale(robot)
    BY <1>4 DEF CloseAbandonedGale, HasAbandonedGale
  <2>2. SameMoney(robot, robot') /\ history' = history /\ mirror' = MirrorLast(s, mirror)
    BY <1>2, <2>1 DEF CloseGaleThen, Persist
  <2>3. \A x \in Order : mirror'[x] = "PENDING" =>
            mirror[x] = "PENDING" \/ robot'.last.result = "PENDING"
    BY <1>1, <1>2, <2>2, MirrorPending
  <2> QED BY <1>1, <1>2, <2>2, <2>3, PaidQuiet
<1> QED BY <1>3, <1>4

\* A recorded order is the open one, its parent paid or in the chain.
LEMMA PaidRecord == ASSUME PaidInv, IndInv, IndInv', OrderRecorded PROVE PaidInv'
<1> DEFINE o == call.id
           p == IF call.parent # NoOrder THEN call.parent ELSE robot.galeOrigin
           t == RecordTrade(robot, o, call.step)
<1>1. /\ call.stage = "accepted" /\ robot' = t
      /\ parent' = [parent EXCEPT ![o] = p] /\ Persist(t)
      /\ monitor' = monitor \cup {o} /\ call' = NoCall
      /\ history' = history /\ timedOut' = timedOut
  BY DEF OrderRecorded
<1>2. /\ o \in Order /\ o \notin robot.completed /\ ~robot.op
      /\ robot.galePending => call.step > 0
      /\ call.step \in 0..MaxGale /\ robot \in Robot /\ robot' \in Robot
      /\ parent \in [Order -> Order \cup {NoOrder}]
      /\ mirror \in [Order -> TradeResult]
  BY <1>1 DEF IndInv, CallSound, TypeOK, Call
<1>3. /\ t.op /\ t.completed = robot.completed /\ t.paid = robot.paid
      /\ t.last.id = o /\ t.last.result = "PENDING" /\ t.last.step = call.step
      /\ t.chain = robot.chain /\ t.galeOrigin = robot.galeOrigin
      /\ ~t.galePending
  BY <1>2 DEF RecordTrade, Robot
<1>4. call.step > 0 <=> robot.galePending
  BY <1>1, <1>2 DEF PaidInv, StepOfLeg
<1>5. /\ call.step > 0 => call.parent = robot.galeParent.id /\ call.parent # NoOrder
      /\ call.parent # NoOrder => robot.galePending
  BY <1>1, <1>4, LegIsOrder, OrderAssumption DEF PaidInv, StepOfLeg
<1>6. robot.paid[o] = 0
  BY <1>2 DEF PaidInv, PaidOnce
<1> HIDE DEF t, p
<1>7. LegUnderWay(robot) <=> call.step > 0
  BY <1>2, <1>4 DEF LegUnderWay
<1>8. LegUnderWay(robot)' <=> call.step > 0
  BY <1>1, <1>3 DEF LegUnderWay
<1>9. \A x \in Order : x # o => parent'[x] = parent[x]
  BY <1>1, <1>2
<1>10. PaidOnce' /\ ClosedIsPaid'
  BY <1>1, <1>3, <1>6, <1>9 DEF PaidInv, PaidOnce, ClosedIsPaid
<1>11. ChainWhole'
  <2>1. \A x \in robot.chain : x \in robot.completed => x # o
    BY <1>2
  <2>2. robot.chain \subseteq Order
    BY <1>2 DEF Robot
  <2> QED BY <1>1, <1>3, <1>7, <1>8, <1>9, <2>1, <2>2 DEF PaidInv, ChainWhole
<1>12. OriginPaid'
  BY <1>1, <1>3, <1>7, <1>8 DEF PaidInv, OriginPaid
<1>13. OpenHasParent'
  <2>1. parent'[o] = p
    BY <1>1, <1>2
  <2>2. CASE call.step > 0
    <3>1. p = robot.galeParent.id /\ robot.galeParent.id \in robot.chain
      BY <1>4, <1>5, <2>2, ChainFacts DEF p
    <3> QED BY <1>1, <1>3, <2>1, <2>2, <3>1 DEF OpenHasParent
  <2>3. CASE ~(call.step > 0)
    <3>1. p = robot.galeOrigin
      BY <1>2, <1>4, <1>5, <2>3 DEF p
    <3>2. p # NoOrder => robot.paid[p] = 1
      BY <1>7, <2>3, <3>1 DEF PaidInv, OriginPaid
    <3> QED BY <1>1, <1>3, <2>1, <3>2 DEF OpenHasParent
  <2> QED BY <2>2, <2>3
<1>14. AwaitedIsOpen'
  <2>1. \A x \in Order : mirror'[x] = "PENDING" => mirror[x] = "PENDING" \/ x = o
    BY <1>1, <1>2, <1>3, MirrorPending DEF Persist
  <2> QED BY <1>1, <1>2, <1>3, <2>1 DEF PaidInv, AwaitedIsOpen
<1>15. StepOfLeg'
  BY <1>1, NoCallFacts DEF StepOfLeg
<1> QED BY <1>10, <1>11, <1>12, <1>13, <1>14, <1>15 DEF PaidInv

\* The result of the open order: its sequence is paid, or it joins the chain.
LEMMA PaidFinish ==
    ASSUME PaidInv, IndInv, IndInv', NEW o \in Order, FinishMonitored(o),
           robot.op, robot.last.id = o, monitor' \subseteq monitor, o \notin monitor',
           timedOut' = timedOut
    PROVE  PaidInv'
<1> DEFINE r == broker[o]
           closed == CloseCycle(robot, o, r)
           leg == TriggerGale(robot, o)
           orders == {o} \cup (IF robot.last.step > 0 THEN robot.chain ELSE {})
           s == FinishTrade(robot, o, r)
<1>1. /\ r \in Result /\ UNCHANGED <<parent, broker, call>> /\ call.stage = "none"
      /\ robot \in Robot /\ robot' \in Robot
      /\ history \in [Order -> TradeResult] /\ mirror \in [Order -> TradeResult]
      /\ parent \in [Order -> Order \cup {NoOrder}]
  BY DEF FinishMonitored, CycleLockFree, IndInv, TypeOK
<1>2. /\ robot.last.result = "PENDING" /\ o \notin robot.completed /\ ~robot.galePending
      /\ robot.op = TRUE
  BY <1>1 DEF IndInv, OpenOrderSound, Robot
<1>3. /\ CanFinish(robot, o) /\ Recovered(robot, o) = robot
      /\ Finalized(robot, o, r) <=> ~WantsGale(robot, r)
  BY <1>2 DEF CanFinish, Recovered, Finalized
<1>4. LegUnderWay(robot) <=> robot.last.step > 0
  BY <1>2 DEF LegUnderWay
<1>5. robot.paid[o] = 0 /\ robot.paid \in [Order -> Nat] /\ robot.chain \subseteq Order
  BY <1>1, <1>2, ChainFacts DEF PaidInv, PaidOnce
<1>6. \A x \in orders :
         /\ robot.paid[x] = 0 /\ x \in robot.completed \cup {o}
         /\ parent[x] # NoOrder =>
               parent[x] \in orders \/ robot.paid[parent[x]] = 1
  BY <1>4, <1>5 DEF PaidInv, ChainWhole, OpenHasParent
<1>7. \A x \in Order : (x \in monitor \/ mirror[x] = "PENDING") => x = o
  BY DEF PaidInv, AwaitedIsOpen
<1>8. StepOfLeg'
  BY <1>1 DEF StepOfLeg
<1>9. timedOut' = {}
  BY DEF PaidInv, AwaitedIsOpen
<1>10. CASE WantsGale(robot, r)
  <2>1. CanTriggerGale(robot, o)
    BY <1>2, <1>10 DEF CanTriggerGale, WantsGale
  <2>2. s = leg
    BY <1>3, <1>10, <2>1 DEF FinishTrade
  <2>3. /\ ~leg.op /\ leg.galePending /\ leg.galeParent.id = o
        /\ leg.last.id = o /\ leg.last.result = "LEG"
        /\ leg.completed = robot.completed \cup {o} /\ leg.paid = robot.paid
        /\ leg.chain = orders
        /\ leg.galeOrigin = IF robot.last.step > 0 /\ robot.galeOrigin # NoOrder
                            THEN robot.galeOrigin ELSE o
    <3>1. leg.chain = (IF robot.last.step > 0 THEN robot.chain ELSE {}) \cup {o}
      BY <1>1, TriggerMoney
    <3> HIDE DEF leg
    <3>2. leg.chain = orders
      BY <3>1
    <3> QED BY <1>1, <3>2, TriggerMoney DEF leg
  <2>4. robot' = s /\ FinishWithGalePending(o, r)
    BY <1>3, <1>10, <2>2, <2>3 DEF FinishMonitored, FinishScored, FinishLate
  <2> HIDE DEF leg, s, orders
  <2>5. robot' = leg /\ history' = [history EXCEPT ![o] = "LEG"] /\ Persist(leg)
    BY <2>2, <2>3, <2>4, OrderAssumption DEF FinishWithGalePending
  <2>6. \A x \in Order : history'[x] \in Result => history[x] \in Result
    BY <1>1, <2>5 DEF Result
  <2>7. PaidOnce' /\ ClosedIsPaid'
    BY <1>1, <2>3, <2>5, <2>6 DEF PaidInv, PaidOnce, ClosedIsPaid
  <2>8. leg.galeOrigin \in orders
    BY <1>4, <2>3 DEF PaidInv, ChainWhole, orders
  <2>9. o \in orders
    BY DEF orders
  <2>10. ChainWhole'
    BY <1>1, <1>6, <2>3, <2>5, <2>8, <2>9 DEF ChainWhole
  <2>11. OriginPaid' /\ OpenHasParent'
    BY <2>3, <2>5 DEF OriginPaid, OpenHasParent, LegUnderWay
  <2>12. AwaitedIsOpen'
    <3>1. \A x \in Order : mirror'[x] # "PENDING"
      <4>1. mirror' = [mirror EXCEPT ![o] = "LEG"]
        BY <2>3, <2>5, OrderAssumption DEF Persist, MirrorLast
      <4> QED BY <1>1, <1>7, <4>1
    <3> QED BY <1>7, <1>9, <2>3, <2>5, <3>1 DEF AwaitedIsOpen
  <2> QED BY <1>8, <2>7, <2>10, <2>11, <2>12 DEF PaidInv
<1>11. CASE ~WantsGale(robot, r)
  <2>1. s = closed \/ s = PauseByStop(closed)
    BY <1>3, <1>11 DEF FinishTrade
  <2>2. robot' = s /\ FinishScored(o, r)
    BY <1>3, <1>11 DEF FinishMonitored, FinishWithGalePending, FinishLate
  <2>3. /\ ~closed.op /\ ~closed.galePending /\ closed.galeOrigin = robot.galeOrigin
        /\ closed.completed = robot.completed \cup {o}
        /\ closed.last = [robot.last EXCEPT !.result = r]
        /\ closed.paid = [x \in Order |-> IF x \in orders THEN robot.paid[x] + 1
                                                          ELSE robot.paid[x]]
    BY <1>1, CloseCycleMoney
  <2>4. closed.last.result = r /\ r # "PENDING"
    BY <1>1, <2>3 DEF Robot, Trade, Result
  <2>5. SameMoney(closed, PauseByStop(closed))
    <3>1. closed \in Robot
      BY <1>1, CloseCycleFacts DEF CycleClosed
    <3> QED BY <2>3, <3>1, MoneyStays
  <2> HIDE DEF closed, s, orders
  <2>6. /\ ~robot'.op /\ ~robot'.galePending
        /\ robot'.galeOrigin \in {robot.galeOrigin, NoOrder}
        /\ robot'.completed = robot.completed \cup {o} /\ robot'.paid = closed.paid
        /\ robot'.last.result # "PENDING"
    <3>1. robot' = closed \/ SameMoney(closed, robot')
      BY <2>1, <2>2, <2>5
    <3>2. /\ ~robot'.op /\ robot'.completed = closed.completed
          /\ robot'.paid = closed.paid
      BY <2>3, <3>1 DEF SameMoney
    <3>3. ~robot'.galePending /\ robot'.galeOrigin \in {closed.galeOrigin, NoOrder}
      BY <2>3, <3>1 DEF SameMoney
    <3>4. robot'.last \in {closed.last, NoTrade}
      BY <3>1 DEF SameMoney
    <3> QED
      BY <2>3, <2>4, <3>2, <3>3, <3>4, NoTradeFacts
  <2>7. /\ history' = [history EXCEPT ![o] = r]
        /\ mirror' = MirrorLast(robot', [mirror EXCEPT ![o] = r])
    BY <2>2 DEF FinishScored
  <2>8. o \in orders /\ orders \subseteq Order
    BY <1>5 DEF orders
  <2>9. PaidOnce' /\ ClosedIsPaid'
    <3>1. \A x \in Order : history'[x] \in Result => history[x] \in Result \/ x \in orders
      BY <1>1, <2>7, <2>8
    <3>2. \A x \in orders : /\ robot.paid[x] = 0 /\ x \in robot'.completed
                            /\ parent[x] # NoOrder =>
                                  parent[x] \in orders \/ robot.paid[parent[x]] = 1
      BY <1>6, <2>6
    <3>3. robot'.paid = [x \in Order |-> IF x \in orders THEN robot.paid[x] + 1
                                                         ELSE robot.paid[x]]
      BY <2>3, <2>6
    <3>4. robot.completed \subseteq robot'.completed /\ parent' = parent
      BY <1>1, <2>6
    <3> QED BY <2>8, <3>1, <3>2, <3>3, <3>4, PayingKeeps
  <2>10. OriginPaid'
    <3>1. SUFFICES ASSUME robot'.galeOrigin # NoOrder
                   PROVE  robot'.paid[robot.galeOrigin] = 1
      BY <2>6 DEF OriginPaid
    <3>2. robot.galeOrigin \in Order
      BY <1>1, <2>6, <3>1 DEF Robot
    <3>3. robot'.paid[robot.galeOrigin] = IF robot.galeOrigin \in orders
                                          THEN robot.paid[robot.galeOrigin] + 1
                                          ELSE robot.paid[robot.galeOrigin]
      BY <2>3, <2>6, <3>2
    <3>4. CASE robot.last.step > 0
      BY <1>4, <1>6, <3>3, <3>4 DEF PaidInv, ChainWhole, orders
    <3>5. CASE ~(robot.last.step > 0)
      BY <1>4, <1>6, <2>6, <3>1, <3>3, <3>5 DEF PaidInv, OriginPaid, orders
    <3> QED BY <3>4, <3>5
  <2>11. ChainWhole' /\ OpenHasParent'
    BY <2>6 DEF ChainWhole, OpenHasParent, LegUnderWay
  <2>12. AwaitedIsOpen'
    <3>1. /\ [mirror EXCEPT ![o] = r] \in [Order -> TradeResult]
          /\ \A x \in Order : [mirror EXCEPT ![o] = r][x] # "PENDING"
      BY <1>1, <1>7, <2>4 DEF TradeResult, Final, Result
    <3>2. \A x \in Order : mirror'[x] # "PENDING"
      BY <1>1, <2>6, <2>7, <3>1, MirrorPending
    <3> QED BY <1>7, <1>9, <2>6, <3>2 DEF AwaitedIsOpen
  <2> QED BY <1>8, <2>9, <2>10, <2>11, <2>12 DEF PaidInv
<1> QED BY <1>10, <1>11

\* Every step of the runtime process that the local events leave keeps PaidInv.
LEMMA PaidStep ==
    ASSUME PaidInv, LiveInv, IndInv, IndInv', [Next]_vars,
           Worker = TRUE, Events \subseteq Local
    PROVE  PaidInv'
<1> DEFINE c == CloseAbandonedGale(robot)
<1>0. /\ robot \in Robot /\ c \in Robot /\ TypeOK /\ robot.galePending \in BOOLEAN
      /\ mirror \in [Order -> TradeResult] /\ call \in Call /\ robot' \in Robot
  BY LegIsOrder, CloseAbandonedFacts DEF IndInv, TypeOK, Robot
<1>00. /\ "stop" \notin Events /\ "disconnect" \notin Events /\ "stale" \notin Events
       /\ "timeout" \notin Events /\ "cycle_timeout" \notin Events
       /\ "lost_reply" \notin Events
  BY DEF Local
<1>01. ~robot.op => ~c.op
  <2>1. CASE robot.galePending
    BY <1>0, <2>1, CloseGaleMoney, ChainFacts
  <2>2. CASE ~robot.galePending
    BY <2>2 DEF CloseAbandonedGale, HasAbandonedGale
  <2> QED BY <2>1, <2>2
<1>02. NoCall.stage = "none"
  BY NoCallFacts
<1>03. ASSUME Persist(robot')
       PROVE  \A x \in Order : mirror'[x] = "PENDING" =>
                  mirror[x] = "PENDING" \/ robot'.last.result = "PENDING"
  BY <1>0, <1>03, MirrorPending DEF Persist
<1> HIDE DEF c
<1>1. CASE RecycleCycle
  <2>1. ~robot.op
    BY <1>00, <1>1
       DEF RecycleCycle, ResultShown, WaitingResultStale, LiveInv, OpenIsActive,
           IndInv, OpenOrderSound
  <2>2. /\ CloseGaleThen(ResetCycleAfterResult(c)) /\ call.stage = "none"
        /\ UNCHANGED <<parent, monitor, timedOut, call>>
    BY <1>1 DEF RecycleCycle, CycleLockFree, c
  <2>3. SameMoney(c, ResetCycleAfterResult(c))
    BY <1>0, <1>01, <2>1, MoneyStays
  <2> QED BY <2>1, <2>2, <2>3, PaidClosed DEF c
<1>2. CASE PauseRobotByStop
  <2>1. /\ CloseGaleThen(PauseByStop(c)) /\ call.stage = "none" /\ ~robot.op
        /\ UNCHANGED <<parent, monitor, timedOut, call>>
    BY <1>2 DEF PauseRobotByStop, CycleLockFree, c
  <2>2. SameMoney(c, PauseByStop(c))
    BY <1>0, <1>01, <2>1, MoneyStays
  <2> QED BY <2>1, <2>2, PaidClosed DEF c
<1>3. CASE OrderInvalid
  <2>1. /\ CloseGaleThen(ResetCycleAfterResult(c)) /\ call.stage = "none" /\ ~robot.op
        /\ UNCHANGED <<parent, monitor, timedOut, call>>
    BY <1>3 DEF OrderInvalid, CanSend, CycleLockFree, c
  <2>2. SameMoney(c, ResetCycleAfterResult(c))
    BY <1>0, <1>01, <2>1, MoneyStays
  <2> QED BY <2>1, <2>2, PaidClosed DEF c
<1>4. CASE FindSignal
  <2>1. /\ ~robot.op /\ call.stage = "none" /\ robot' = SetPendingSignal(robot)
        /\ Persist(robot') /\ UNCHANGED <<history, parent, monitor, timedOut, call>>
    BY <1>4 DEF FindSignal, CanAnalyse, CycleLockFree
  <2> QED BY <1>0, <1>03, <2>1, MoneyStays, PaidQuiet
<1>5. CASE SignalExpires
  <2>1. /\ ~robot.op /\ call.stage = "none" /\ robot' = ExpirePendingSignal(robot)
        /\ Persist(robot') /\ UNCHANGED <<history, parent, monitor, timedOut, call>>
    BY <1>5 DEF SignalExpires, CanSend, CycleLockFree
  <2> QED BY <1>0, <1>03, <2>1, MoneyStays, PaidQuiet
<1>6. CASE BeginSend
  <2>1. /\ ~robot.op /\ robot' = StartSendingOrder(SetPendingSignal(robot))
        /\ UNCHANGED <<mirror, history, parent, monitor, timedOut>>
        /\ call' = [stage |-> "submitting", id |-> NoOrder, step |-> SentStep(robot),
                    parent |-> IF IsGaleOrder(robot) THEN robot.galeParent.id
                                                     ELSE NoOrder]
    BY <1>6 DEF BeginSend, CanSend
  <2>2. /\ robot'.galePending = robot.galePending
        /\ robot'.galeParent = robot.galeParent
    BY <1>0, <2>1, SendingQuiet
  <2>3. /\ IsGaleOrder(robot) <=> robot.galePending
        /\ SentStep(robot) > 0 <=> robot.galePending
    BY <1>0, SentStepFacts DEF IndInv, LegContext
  <2>4. call'.step > 0 \/ call'.parent # NoOrder =>
           robot'.galePending /\ call'.parent = robot'.galeParent.id
    BY <2>1, <2>2, <2>3
  <2> QED BY <1>0, <2>1, <2>4, MoneyStays, PaidQuiet
<1>7. CASE OrderFails
  <2>1. /\ call.stage # "none" /\ robot' = RejectOrder(robot) /\ Persist(robot')
        /\ UNCHANGED <<history, parent, monitor, timedOut>> /\ call' = NoCall
    BY <1>7 DEF OrderFails
  <2>2. ~robot.op
    BY <2>1 DEF IndInv, CallSound
  <2> QED BY <1>0, <1>02, <1>03, <2>1, <2>2, MoneyStays, PaidQuiet
<1>8. CASE InsufficientBalance
  <2>1. /\ call.stage # "none" /\ robot' = Stop(robot) /\ Persist(robot')
        /\ UNCHANGED <<history, parent, monitor, timedOut>> /\ call' = NoCall
    BY <1>8 DEF InsufficientBalance
  <2>2. ~robot.op
    BY <2>1 DEF IndInv, CallSound
  <2> QED BY <1>0, <1>02, <1>03, <2>1, <2>2, MoneyStays, PaidQuiet
<1>9. CASE StartRobot
  <2>1. /\ robot = InitRobot /\ robot' = Start(robot) /\ Persist(robot')
        /\ UNCHANGED <<history, parent, monitor, timedOut, call>>
    BY <1>9 DEF StartRobot
  <2>2. ~robot.op /\ ~robot.enabled
    BY <2>1 DEF InitRobot
  <2>3. call.stage = "none"
    BY <2>2 DEF IndInv, CallSound
  <2> QED BY <1>0, <1>03, <2>1, <2>2, <2>3, MoneyStays, PaidQuiet
<1>10. ASSUME NEW o \in Order, BrokerAccepts(o) \/ BrokerCloses(o) PROVE PaidInv'
  <2>1. /\ UNCHANGED <<robot, mirror, parent, history, monitor, timedOut>>
        /\ call'.step = call.step /\ call'.parent = call.parent
        /\ call'.stage # "none" => call.stage # "none"
    <3>1. CASE BrokerAccepts(o)
      BY <1>0, <3>1 DEF BrokerAccepts, Call
    <3>2. CASE BrokerCloses(o)
      BY <3>2 DEF BrokerCloses
    <3> QED BY <1>10, <3>1, <3>2
  <2> QED BY <2>1 DEF PaidInv, PaidOnce, ClosedIsPaid, ChainWhole, OriginPaid,
                      OpenHasParent, AwaitedIsOpen, StepOfLeg, LegUnderWay
<1>11. ASSUME NEW o \in Order, MonitorFinish(o) PROVE PaidInv'
  <2>1. robot.op /\ robot.last.id = o
    BY <1>11 DEF MonitorFinish, PaidInv, AwaitedIsOpen
  <2> QED BY <1>11, <2>1, PaidFinish DEF MonitorFinish
<1>12. ASSUME NEW o \in Order, OrphanFinished(o) PROVE PaidInv'
  <2>1. /\ robot.op /\ robot.last.id = o
        /\ o \notin monitor /\ monitor' = monitor /\ timedOut' = timedOut
    BY <1>12 DEF OrphanFinished, Orphan, PaidInv, AwaitedIsOpen
  <2> QED BY <1>12, <2>1, PaidFinish DEF OrphanFinished
<1>13. CASE ReconcileTimeout
  BY <1>13 DEF ReconcileTimeout, IndInv, LastTradeSound, PaidInv, AwaitedIsOpen
<1>14. CASE CycleTimeout \/ StopEmbedded \/ StopWorker \/ Disconnect
            \/ StartLocked \/ ClearStaleOpenOperation
  BY <1>00, <1>14 DEF CycleTimeout, StopEmbedded, StopWorker, Disconnect,
                      StartLocked, ClearStaleOpenOperation
<1>17. CASE RecoverAnalysisError \/ RealLocked
  <2>1. /\ ~robot.op /\ call.stage = "none" /\ robot' = DropSignal(robot)
        /\ Persist(robot') /\ UNCHANGED <<history, parent, monitor, timedOut, call>>
    BY <1>17 DEF RecoverAnalysisError, RealLocked, TickDropsSignal, CycleLockFree
  <2> QED BY <1>0, <1>03, <2>1, MoneyStays, PaidQuiet
<1>15. ASSUME NEW o \in Order, MonitorTimeout(o) PROVE PaidInv'
  BY <1>00, <1>15 DEF MonitorTimeout
<1>16. CASE UNCHANGED vars
  BY <1>16 DEF vars, PaidInv, PaidOnce, ClosedIsPaid, ChainWhole, OriginPaid,
               OpenHasParent, AwaitedIsOpen, StepOfLeg, LegUnderWay
<1> QED BY <1>1, <1>2, <1>3, <1>4, <1>5, <1>6, <1>7, <1>8, <1>9, <1>10, <1>11,
           <1>12, <1>13, <1>14, <1>15, <1>16, <1>17, PaidRecord
        DEF Next, WorkerStep, OrderStep, UserStep

\* With an order its whole sequence is paid: the paid orders hold their parents.
LEMMA PaidToTheFirst == IndInv /\ PaidInv => SequencePaid
<1> SUFFICES ASSUME IndInv, PaidInv, NEW o \in Order, history[o] \in Result,
                    NEW x \in Sequence(o)
             PROVE  robot.paid[x] = 1
  BY DEF SequencePaid
<1> DEFINE S == {y \in Order : robot.paid[y] = 1}
<1>1. o \in S
  BY DEF PaidInv, ClosedIsPaid
<1>2. ClosedByParent(S)
  <2>1. parent \in [Order -> Order \cup {NoOrder}]
    BY DEF IndInv, TypeOK
  <2> QED BY <2>1 DEF ClosedByParent, PaidInv, ClosedIsPaid
<1>3. S \in SUBSET Order
  OBVIOUS
<1> HIDE DEF S
<1>4. x \in S
  BY <1>1, <1>2, <1>3 DEF Sequence
<1> QED BY <1>4 DEF S

\* In the runtime process, when no disturbance takes an order away from the robot,
\* a closed cycle has the money of each of its orders in the profit, exactly once:
\* for any number of orders, of martingale steps and of cycles.
THEOREM SequencesArePaid ==
    ASSUME Worker = TRUE, Events \subseteq Local
    PROVE  Spec => []SequencePaid
<1>1. Init => LiveInv /\ PaidInv
  <2>1. NoTrade.result # "PENDING" /\ NoCall.stage = "none"
    BY NoTradeFacts, NoCallFacts
  <2>2. Init => LiveInv
    BY NoCallFacts DEF Init, InitRobot, LiveInv, LiveIsKnown, OpenIsActive
  <2>3. Init => PaidInv
    BY <2>1 DEF Init, InitRobot, PaidInv, PaidOnce, ClosedIsPaid, ChainWhole,
                OriginPaid, OpenHasParent, AwaitedIsOpen, StepOfLeg, LegUnderWay, Result
  <2> QED BY <2>2, <2>3
<1>2. IndInv /\ IndInv' /\ LiveInv /\ PaidInv /\ [Next]_vars => LiveInv' /\ PaidInv'
  <2>1. Events \cap Forgetful = {}
    BY DEF Local, Forgetful
  <2> QED BY <2>1, LiveStep, PaidStep
<1> QED BY <1>1, <1>2, PaidToTheFirst, Inductive, PTL DEF Spec
=========================================================================
