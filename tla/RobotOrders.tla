---------------------------- MODULE RobotOrders -----------------------------
(***************************************************************************)
(* One user's orders, from the signal to the score: the worker of          *)
(* backend/main.py (execute_robot_cycle), the broker, the result monitor   *)
(* of each order, the trade mirror (robot_trades) and the history          *)
(* (robot_trade_history), under the interleavings the event loop allows.   *)
(*                                                                         *)
(* The worker holds cycle_lock while it awaits the submission of an order: *)
(* call.stage # "none".  Results (finish_monitored_trade) wait for that    *)
(* lock; timeouts, stop, disconnect and the broker do not.                 *)
(*                                                                         *)
(* persist_robot's write of the mirror is taken here as immediate;         *)
(* RobotRestart models the executor that performs it.                      *)
(***************************************************************************)
EXTENDS AutoTrader

CONSTANTS
    Worker,     \* TRUE: the robot-runtime process; FALSE: embedded mode
    Events,     \* the disturbances a run considers
    MaxScore    \* bound: how often one order may be counted

DisturbanceSet == {"stop", "disconnect", "stale", "timeout", "cycle_timeout",
                   "lost_reply", "refused", "insufficient", "expired",
                   "invalid", "cycle_error", "locked"}

ASSUME WorkerAssumption == Worker \in BOOLEAN
ASSUME EventsAssumption == Events \subseteq DisturbanceSet
ASSUME MaxScoreAssumption == MaxScore \in Nat

VARIABLES
    robot,      \* RobotState of the user
    mirror,     \* robot_trades: last saved result of each order
    parent,     \* history variable: the lost leg an order was sent to recover
    history,    \* robot_trade_history: the row the panel shows
    broker,     \* the broker's view of each order
    monitor,    \* orders with a live TradeResultMonitor task
    call,       \* the submission the worker is awaiting
    timedOut    \* history variable: orders that were ever given up

vars == <<robot, mirror, parent, history, broker, monitor, call, timedOut>>

NoCall == [stage |-> "none", id |-> NoOrder, step |-> 0, parent |-> NoOrder]
Call == [stage : {"none", "submitting", "accepted"}, id : Order \cup {NoOrder},
         step : 0..MaxGale, parent : Order \cup {NoOrder}]
BrokerState == {"idle", "open"} \cup Result

Init ==
    /\ robot = InitRobot
    /\ mirror = [o \in Order |-> "NONE"]
    /\ parent = [o \in Order |-> NoOrder]
    /\ history = [o \in Order |-> "NONE"]
    /\ broker = [o \in Order |-> "idle"]
    /\ monitor = {}
    /\ call = NoCall
    /\ timedOut = {}

CycleLockFree == call.stage = "none"

-----------------------------------------------------------------------------
(* Writes.                                                                 *)

\* persist_robot: the mirror row of last_trade, unless _trade_for_mirror
\* refuses it (a pending copy of an order already closed).
MirrorLast(s, m) ==
    IF s.last.id = NoOrder \/ (s.last.result = "PENDING" /\ s.last.id \in s.completed)
    THEN m
    ELSE [m EXCEPT ![s.last.id] = s.last.result]

Persist(s) == mirror' = MirrorLast(s, mirror)

\* close_abandoned_gale_cycle and what the caller then makes of the robot: s.
CloseGaleThen(s) ==
    LET id == robot.galeParent.id
    IN  /\ robot' = s
        /\ IF HasAbandonedGale(robot)
           THEN /\ history' = [history EXCEPT ![id] = "LOSS"]
                /\ mirror' = MirrorLast(s, [mirror EXCEPT ![id] = "LOSS"])
           ELSE /\ Persist(s)
                /\ UNCHANGED history

-----------------------------------------------------------------------------
(* The worker.                                                             *)

\* robot_worker: the result was shown, or the open operation is stale.
ResultShown == robot.status = "result"
WaitingResultStale ==
    /\ robot.op \/ robot.status = "result_wait"
    /\ \/ robot.last.result \in {"WIN", "LEG", "LOSS", "TIMEOUT", "DRAW"}
       \/ "stale" \in Events

RecycleCycle ==
    /\ robot.enabled /\ CycleLockFree
    /\ ResultShown \/ WaitingResultStale
    /\ CloseGaleThen(ResetCycleAfterResult(CloseAbandonedGale(robot)))
    /\ UNCHANGED <<parent, broker, monitor, call, timedOut>>

\* execute_robot_cycle: the stop is reached and no operation is open.
PauseRobotByStop ==
    /\ robot.enabled /\ CycleLockFree /\ ~robot.op /\ ~ResultShown
    /\ StopHit(robot)
    /\ CloseGaleThen(PauseByStop(CloseAbandonedGale(robot)))
    /\ UNCHANGED <<parent, broker, monitor, call, timedOut>>

FindSignal ==
    /\ CycleLockFree /\ CanAnalyse(robot)
    /\ robot' = SetPendingSignal(robot)
    /\ Persist(robot')
    /\ UNCHANGED <<parent, history, broker, monitor, call, timedOut>>

\* The candle's entry window was missed.
SignalExpires ==
    /\ "expired" \in Events
    /\ CycleLockFree /\ CanSend(robot) /\ ~StopHit(robot)
    /\ robot' = ExpirePendingSignal(robot)
    /\ Persist(robot')
    /\ UNCHANGED <<parent, history, broker, monitor, call, timedOut>>

\* The order is not valid (amount below the broker's minimum, bad payload).
OrderInvalid ==
    /\ "invalid" \in Events
    /\ CycleLockFree /\ CanSend(robot) /\ ~StopHit(robot)
    /\ CloseGaleThen(ResetCycleAfterResult(CloseAbandonedGale(robot)))
    /\ UNCHANGED <<parent, broker, monitor, call, timedOut>>

\* A tick that ends without its signal, before anything was submitted.
TickDropsSignal ==
    /\ robot.enabled /\ CycleLockFree /\ ~robot.op /\ ~ResultShown /\ ~StopHit(robot)
    /\ robot' = DropSignal(robot)
    /\ Persist(robot')
    /\ UNCHANGED <<parent, history, broker, monitor, call, timedOut>>

\* The tick raises, or the server's time is not to be had.  (What the POST
\* itself raises is a refusal: OrderFails.)
RecoverAnalysisError == "cycle_error" \in Events /\ TickDropsSignal

\* The connected account may not trade with real money.
RealLocked == "locked" \in Events /\ TickDropsSignal

\* set_order_attempt, start_sending_order and the POST, up to its first await.
BeginSend ==
    /\ CycleLockFree /\ CanSend(robot) /\ ~StopHit(robot)
    /\ robot' = StartSendingOrder(SetPendingSignal(robot))
    /\ call' = [stage |-> "submitting", id |-> NoOrder, step |-> SentStep(robot),
                parent |-> IF IsGaleOrder(robot) THEN robot.galeParent.id ELSE NoOrder]
    /\ UNCHANGED <<mirror, parent, history, broker, monitor, timedOut>>

\* The submission returned an order id.  The row's parent_order_id is always
\* gale_original_order_id (RobotRestart has the column), which outlives the
\* cycle it is from; "parent" has the leg itself for a martingale step.
OrderRecorded ==
    /\ call.stage = "accepted"
    /\ robot' = RecordTrade(robot, call.id, call.step)
    /\ parent' = [parent EXCEPT ![call.id] =
                     IF call.parent # NoOrder THEN call.parent ELSE robot.galeOrigin]
    /\ Persist(robot')
    /\ monitor' = monitor \cup {call.id}
    /\ call' = NoCall
    /\ UNCHANGED <<history, broker, timedOut>>

\* The broker refused, or the answer to an accepted order never came back.
OrderFails ==
    /\ \/ call.stage = "submitting" /\ "refused" \in Events
       \/ call.stage = "accepted" /\ "lost_reply" \in Events
    /\ robot' = RejectOrder(robot)
    /\ Persist(robot')
    /\ call' = NoCall
    /\ UNCHANGED <<parent, history, broker, monitor, timedOut>>

InsufficientBalance ==
    /\ call.stage = "submitting" /\ "insufficient" \in Events
    /\ robot' = Stop(robot)
    /\ Persist(robot')
    /\ call' = NoCall
    /\ UNCHANGED <<parent, history, broker, monitor, timedOut>>

\* An abandoned submission may still reach the broker.
AbandonCall ==
    /\ call' = NoCall
    /\ \/ broker' = broker
       \/ /\ call.stage = "submitting"
          /\ \E o \in Order : broker[o] = "idle" /\ broker' = [broker EXCEPT ![o] = "open"]

\* ROBOT_CYCLE_TIMEOUT_SECONDS expires during the submission; the signal
\* is kept (should_keep_pending_on_cycle_timeout).
CycleTimeout ==
    /\ "cycle_timeout" \in Events /\ ~CycleLockFree
    /\ AbandonCall
    /\ Persist(robot)
    /\ UNCHANGED <<robot, parent, history, monitor, timedOut>>

-----------------------------------------------------------------------------
(* The broker.                                                             *)

BrokerAccepts(o) ==
    /\ call.stage = "submitting" /\ broker[o] = "idle"
    /\ broker' = [broker EXCEPT ![o] = "open"]
    /\ call' = [call EXCEPT !.stage = "accepted", !.id = o]
    /\ UNCHANGED <<robot, mirror, parent, history, monitor, timedOut>>

BrokerCloses(o) ==
    /\ broker[o] = "open"
    /\ \E r \in Result : broker' = [broker EXCEPT ![o] = r]
    /\ UNCHANGED <<robot, mirror, parent, history, monitor, call, timedOut>>

-----------------------------------------------------------------------------
(* Results: finish_monitored_trade, in its three outcomes.                 *)

\* The order closed its cycle.
FinishScored(o, r) ==
    /\ Finalized(robot, o, r)
    /\ history' = [history EXCEPT ![o] = r]
    /\ mirror' = MirrorLast(robot', [mirror EXCEPT ![o] = r])

\* A martingale leg is pending: this order's, or an older one's.
FinishWithGalePending(o, r) ==
    /\ ~Finalized(robot, o, r) /\ robot'.galePending
    /\ IF robot'.last.id = NoOrder
       THEN UNCHANGED history
       ELSE history' = [history EXCEPT ![robot'.last.id] = robot'.last.result]
    /\ Persist(robot')

\* salvar_resultado_atrasado: the order is no longer the cycle's.
FinishLate(o, r) ==
    LET s == FinishTrade(robot, o, r)
        counts == mirror[o] \notin Final \cup {"NONE"} /\ o \notin s.completed
    IN  /\ ~Finalized(robot, o, r) /\ ~s.galePending
        /\ robot' = IF counts THEN CountLateResult(s, o, r) ELSE s
        /\ history' = IF counts THEN [history EXCEPT ![o] = r] ELSE history
        /\ mirror' = MirrorLast(robot', IF counts THEN [mirror EXCEPT ![o] = r] ELSE mirror)

FinishMonitored(o) ==
    LET r == broker[o] IN
    /\ CycleLockFree /\ r \in Result
    /\ ScoreOf(robot, o) < MaxScore
    /\ \/ robot' = FinishTrade(robot, o, r) /\ FinishScored(o, r)
       \/ robot' = FinishTrade(robot, o, r) /\ FinishWithGalePending(o, r)
       \/ FinishLate(o, r)
    /\ UNCHANGED <<parent, broker, call>>

MonitorFinish(o) ==
    /\ o \in monitor
    /\ FinishMonitored(o)
    /\ monitor' = monitor \ {o}
    /\ UNCHANGED timedOut

\* timeout_monitored_trade: the monitor gives up on an order, its last query
\* having brought no WIN or LOSS (with one, the code goes to MonitorFinish).
MonitorTimeout(o) ==
    /\ "timeout" \in Events /\ o \in monitor
    /\ IF CanTimeout(robot, o)
       THEN /\ robot' = TimeoutTrade(robot, o)
            /\ Persist(robot')
       ELSE /\ robot' = robot
            /\ mirror' = MirrorLast(robot, IF mirror[o] = "PENDING"
                                           THEN [mirror EXCEPT ![o] = "TIMEOUT"]
                                           ELSE mirror)
    /\ monitor' = monitor \ {o}
    /\ timedOut' = timedOut \cup {o}
    /\ UNCHANGED <<parent, history, broker, call>>

\* reconcile_timeout_last_trade: the worker, or the embedded start handler,
\* asks again for the result of a TIMEOUT.
ReconcileTimeout ==
    /\ robot.enabled \/ ~Worker
    /\ robot.last.result = "TIMEOUT"
    /\ broker[robot.last.id] \in {"WIN", "LOSS"}
    /\ FinishMonitored(robot.last.id)
    /\ UNCHANGED <<monitor, timedOut>>

\* _recuperar_ordens_orfas: a pending row that nobody monitors.  (A row whose
\* result is already in the history is repaired; RobotRestart has that case.)
Orphan(o) == Worker /\ mirror[o] = "PENDING" /\ o \notin monitor

OrphanFinished(o) ==
    /\ Orphan(o) /\ history[o] \notin Final
    /\ FinishMonitored(o)
    /\ UNCHANGED <<monitor, timedOut>>

-----------------------------------------------------------------------------
(* The user.                                                               *)

\* A robot that runs may be started again in embedded mode, even while its
\* submission is awaited.  In the runtime process only the first start is
\* modelled: a later one restores the state from the database first.
StartRobot ==
    /\ ~Worker \/ robot = InitRobot
    /\ ~robot.op /\ ~StopHit(robot)
    /\ robot' = Start(robot)
    /\ Persist(robot')
    /\ UNCHANGED <<parent, history, broker, monitor, call, timedOut>>

\* A start of the running robot is refused: an operation is open, or the
\* account may not trade.  (Of a stopped one, only the shown status changes.)
StartLocked ==
    /\ ~Worker /\ robot.enabled /\ ~StopHit(robot)
    /\ robot.op \/ "locked" \in Events
    /\ robot' = DropSignal(robot)
    /\ Persist(robot')
    /\ UNCHANGED <<parent, history, broker, monitor, call, timedOut>>

\* POST /robot/stop in embedded mode.
StopEmbedded ==
    /\ "stop" \in Events /\ ~Worker /\ robot.enabled
    /\ robot' = Stop(robot)
    /\ Persist(robot')
    /\ AbandonCall
    /\ UNCHANGED <<parent, history, monitor, timedOut>>

\* The stop command in the runtime: the abandoned leg is counted first.
StopWorker ==
    /\ "stop" \in Events /\ Worker /\ robot.enabled
    /\ CloseGaleThen(Stop(CloseAbandonedGale(robot)))
    /\ AbandonCall
    /\ UNCHANGED <<parent, monitor, timedOut>>

Disconnect ==
    /\ "disconnect" \in Events /\ robot.status # "disconnected"
    /\ robot' = DisconnectAccount(robot)
    /\ AbandonCall
    /\ UNCHANGED <<mirror, parent, history, monitor, timedOut>>

\* The statuses that promise an order on its way.
StickyStatus == {"sending", "result_wait"}

\* GET /robot/state of a stopped robot: clear_stale_open_operation_if_stopped.
ClearStaleOpenOperation ==
    /\ ~Worker /\ ~robot.enabled
    /\ robot.op \/ robot.galePending \/ robot.status \in StickyStatus
    /\ robot' = [robot EXCEPT !.op = FALSE, !.galePending = FALSE,
                              !.status = IF @ \in StickyStatus THEN "stopped" ELSE @]
    /\ Persist(robot')
    /\ UNCHANGED <<parent, history, broker, monitor, call, timedOut>>

-----------------------------------------------------------------------------
WorkerStep ==
    \/ RecycleCycle \/ PauseRobotByStop \/ FindSignal \/ SignalExpires
    \/ RecoverAnalysisError \/ RealLocked
    \/ OrderInvalid \/ BeginSend \/ OrderRecorded \/ OrderFails \/ InsufficientBalance
    \/ CycleTimeout \/ ReconcileTimeout

OrderStep(o) ==
    \/ BrokerAccepts(o) \/ BrokerCloses(o)
    \/ MonitorFinish(o) \/ MonitorTimeout(o)
    \/ OrphanFinished(o)

UserStep ==
    \/ StartRobot \/ StartLocked \/ StopEmbedded \/ StopWorker \/ Disconnect
    \/ ClearStaleOpenOperation

Next == WorkerStep \/ (\E o \in Order : OrderStep(o)) \/ UserStep

Spec == Init /\ [][Next]_vars
-----------------------------------------------------------------------------
(* Properties.                                                             *)

Score(o) == ScoreOf(robot, o)

\* The types of the state.
TypeOK ==
    /\ robot \in Robot
    /\ mirror \in [Order -> TradeResult]
    /\ parent \in [Order -> Order \cup {NoOrder}]
    /\ history \in [Order -> TradeResult]
    /\ broker \in [Order -> BrokerState]
    /\ monitor \subseteq Order
    /\ call \in Call
    /\ timedOut \subseteq Order

\* While operation_in_progress is set, last_trade is the one pending order,
\* it was not closed before, and neither a signal nor a lost leg waits.  All
\* of record_trade, finish_trade, stop, timeout and disconnect share it.
OpenOrderSound ==
    robot.op =>
        /\ robot.last.result = "PENDING"
        /\ robot.last.id \notin robot.completed
        /\ robot.signal = NoSignal /\ ~robot.galePending

\* While a martingale leg waits, the lost order is closed, is not in the
\* score, and no operation is open: close_abandoned_gale may count it.
PendingLegSound ==
    robot.galePending =>
        /\ robot.galeParent.result = "LEG"
        /\ robot.galeParent.id \in robot.completed
        /\ ~robot.op
        /\ Score(robot.galeParent.id) = 0

\* Whatever the interleaving of monitor, worker, recycle, late result and
\* stop, an order that never timed out is in the score at most once, and a
\* lost leg whose next step was sent is not in it at all: one point a cycle.
CountedOnce ==
    /\ \A o \in Order \ timedOut : Score(o) <= 1
    /\ \A o \in Order : parent[o] # NoOrder => Score(parent[o]) = 0

-----------------------------------------------------------------------------
(* The inductive invariant behind CountedOnce, OpenOrderSound and            *)
(* PendingLegSound.                                                         *)

\* last_trade names an order; a TIMEOUT one was given up.
LastTradeSound ==
    /\ robot.last.result # "NONE" => robot.last.id \in Order
    /\ robot.last.result = "TIMEOUT" => robot.last.id \in timedOut
    /\ robot.op => robot.last.id \notin timedOut

\* A waiting leg is last_trade (or the account was disconnected) and is
\* nobody's parent yet.  It may be without its signal, which an exception, a
\* lock of real trading or an abandoned submission takes; but no signal of a
\* step is there without the leg.
LegContext ==
    /\ robot.galePending =>
          /\ MaxGale > 0
          /\ robot.last \in {robot.galeParent, NoTrade}
          /\ \A o \in Order : parent[o] # robot.galeParent.id
    /\ robot.signal > 0 => robot.enabled /\ robot.galePending

\* The order being submitted is new, and is the leg's next step if any waits.
CallSound ==
    /\ call.stage # "none" =>
          /\ robot.enabled /\ ~robot.op
          /\ robot.galePending => call.step > 0
          /\ call.parent # NoOrder =>
                /\ call.parent \in robot.completed /\ Score(call.parent) = 0
                /\ robot.galePending => call.parent = robot.galeParent.id
    /\ call.stage = "accepted" =>
          /\ call.id \in Order
          /\ call.id \notin robot.completed \cup monitor \cup timedOut
          /\ call.id # robot.last.id

\* An order the broker does not know is nowhere.
IdleIsUnknown ==
    \A o \in Order : broker[o] = "idle" =>
        /\ o \notin robot.completed \cup monitor \cup timedOut
        /\ o # robot.last.id
        /\ call.stage = "accepted" => o # call.id

\* The first order of the last gale sequence is closed and uncounted, and once
\* its steps are under way it is no longer the current trade: the next order
\* may take it for its parent.
OriginSound ==
    robot.enabled /\ robot.galeOrigin # NoOrder =>
        /\ robot.galeOrigin \in robot.completed /\ Score(robot.galeOrigin) = 0
        /\ ~robot.galePending => robot.galeOrigin # robot.last.id

\* Only closed orders are in the score, once unless they timed out; a parent
\* is closed, uncounted and no longer the robot's current trade.
ScoreSound ==
    /\ \A o \in Order \ timedOut :
          Score(o) <= 1 /\ (o \notin robot.completed => Score(o) = 0)
    /\ \A o \in Order : parent[o] # NoOrder =>
          /\ parent[o] \in robot.completed /\ Score(parent[o]) = 0
          /\ parent[o] # robot.last.id

IndInv ==
    /\ TypeOK /\ LastTradeSound
    /\ OpenOrderSound /\ PendingLegSound /\ LegContext
    /\ CallSound /\ IdleIsUnknown /\ OriginSound /\ ScoreSound

-----------------------------------------------------------------------------
\* Same for every order, timed out ones included.
CountedOnceEver == \A o \in Order : Score(o) <= 1

\* The score and the panel's history agree on every order: a WIN or LOSS row
\* exists exactly for the orders the score counts.
HistoryAgrees == \A o \in Order : history[o] \in {"WIN", "LOSS"} <=> Score(o) > 0

\* The robot of the runtime process never has two orders open at the broker,
\* unless something made it forget one: a stop or disconnection by the user, a
\* stale recycle, a timeout of an order or of the cycle, a lost answer.
OneLiveOrder == Cardinality({o \in Order : broker[o] = "open"}) <= 1

\* The robot doubles as often as martingale_steps says: a leg that waits for a
\* step is at most the MaxGale-th loss of its cycle.
GaleStepsBounded == robot.galePending => Cardinality(robot.chain) <= MaxGale

\* Sets of orders that hold the parent of each of their orders.
ClosedByParent(S) == \A x \in S : parent[x] # NoOrder => parent[x] \in S

\* The orders of the martingale sequence that ends with o: o, its parent, the
\* parent's parent, and so on.
Sequence(o) ==
    {x \in Order : \A S \in SUBSET Order : o \in S /\ ClosedByParent(S) => x \in S}

\* When a cycle closes, the money of every order of its sequence is in the
\* profit, once.
SequencePaid ==
    \A o \in Order : history[o] \in Result =>
        \A x \in Sequence(o) : robot.paid[x] = 1

\* A lost leg is always followed: it still waits for its step, the step was
\* sent, or its cycle was counted as lost.
LegFollowed ==
    \A o \in Order : history[o] = "LEG" =>
        \/ robot.galePending /\ robot.galeParent.id = o
        \/ \E p \in Order : parent[p] = o
=============================================================================
