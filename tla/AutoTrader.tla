----------------------------- MODULE AutoTrader -----------------------------
(***************************************************************************)
(* The per-user robot state of backend/auto_trader.py (RobotState) and the *)
(* methods of class AutoTrader that move an order through it: signal,      *)
(* submission, open operation, result, martingale ("gale") leg, late       *)
(* result, timeout, stop.                                                  *)
(*                                                                         *)
(* Every method is an operator from a robot record to a robot record; the  *)
(* methods are synchronous Python on one event loop, so a step of          *)
(* RobotOrders applies one or several of them atomically.                  *)
(*                                                                         *)
(* Abstractions.  Amounts are not modelled: "paid" tells how many times    *)
(* the own money of an order is part of state.profit, and "chain" which    *)
(* orders are summed in gale_chain_profit.  Stops are the "operations"     *)
(* mode.  The score is kept per order (wins[o], losses[o]); state.wins and *)
(* state.losses are the sums.  The panel fields are left out.              *)
(***************************************************************************)
EXTENDS Integers, FiniteSets, Functions

CONSTANTS
    Order,      \* order ids the broker may assign
    NoOrder,    \* "no order"
    MaxGale,    \* martingale_steps, 0 when martingale_enabled is False
    StopWin,    \* stop_win_operations, 0 = off
    StopLoss    \* stop_loss_operations, 0 = off

ASSUME OrderAssumption == NoOrder \notin Order
ASSUME GaleAssumption == MaxGale \in Nat
ASSUME StopAssumption == StopWin \in Nat /\ StopLoss \in Nat

-----------------------------------------------------------------------------
(* Trades, signals and the robot record.                                   *)

\* "LEG" is a LOSS whose cycle goes on: result LOSS, cycle_result None.
Final == {"LEG", "WIN", "LOSS", "DRAW"}
Result == {"WIN", "LOSS", "DRAW"}
TradeResult == Final \cup {"NONE", "PENDING", "TIMEOUT"}

Trade == [id : Order \cup {NoOrder}, result : TradeResult, step : 0..MaxGale]
NoTrade == [id |-> NoOrder, result |-> "NONE", step |-> 0]

\* A pending signal is the martingale step it was made for; -1 is none.
NoSignal == -1

\* "waiting" is every status from which the next tick looks for an entry:
\* WAITING_NEXT_CYCLE, WAITING_ANALYSIS_WINDOW, ORDER_REJECTED and
\* REAL_TRADING_LOCKED among them; prepare_cycle treats them alike.
Status == {"waiting", "entry", "sending", "result_wait", "result",
           "stopped", "stop_hit", "disconnected"}

Robot == [enabled : BOOLEAN, status : Status, op : BOOLEAN,
          signal : -1..MaxGale, last : Trade,
          galePending : BOOLEAN, galeParent : Trade, chain : SUBSET Order,
          galeOrigin : Order \cup {NoOrder},
          completed : SUBSET Order,
          wins : [Order -> Nat], losses : [Order -> Nat], paid : [Order -> Nat]]

InitRobot ==
    [enabled |-> FALSE, status |-> "stopped", op |-> FALSE,
     signal |-> NoSignal, last |-> NoTrade,
     galePending |-> FALSE, galeParent |-> NoTrade, chain |-> {},
     galeOrigin |-> NoOrder,
     completed |-> {},
     wins |-> [o \in Order |-> 0], losses |-> [o \in Order |-> 0],
     paid |-> [o \in Order |-> 0]]

-----------------------------------------------------------------------------
(* Score, money and stop.                                                  *)

Total(f) == SumFunction(f)

CountResult(s, o, r) ==
    [s EXCEPT !.wins[o] = IF r = "WIN" THEN @ + 1 ELSE @,
              !.losses[o] = IF r = "LOSS" THEN @ + 1 ELSE @]

\* How often an order is in the score.
ScoreOf(s, o) == s.wins[o] + s.losses[o]

Pay(s, orders) ==
    [s EXCEPT !.paid = [o \in Order |-> IF o \in orders THEN @[o] + 1 ELSE @[o]]]

StopLossHit(losses) == StopLoss > 0 /\ losses >= StopLoss

StopHit(s) == \/ StopLossHit(Total(s.losses))
              \/ StopWin > 0 /\ Total(s.wins) >= StopWin

ClearGale(s) ==
    [s EXCEPT !.galePending = FALSE, !.galeParent = NoTrade, !.chain = {},
              !.galeOrigin = NoOrder]

-----------------------------------------------------------------------------
(* Lifecycle of the robot and of a cycle.                                  *)

\* The chain of losses survives a start: gale_chain_profit is not reset.
Start(s) ==
    [s EXCEPT !.enabled = TRUE, !.status = "waiting", !.op = FALSE,
              !.signal = NoSignal, !.galePending = FALSE, !.galeParent = NoTrade,
              !.galeOrigin = NoOrder]

Stop(s) ==
    ClearGale([s EXCEPT !.enabled = FALSE, !.status = "stopped", !.op = FALSE,
                        !.signal = NoSignal])

PauseByStop(s) ==
    ClearGale([s EXCEPT !.enabled = FALSE, !.status = "stop_hit", !.op = FALSE,
                        !.signal = NoSignal])

DisconnectAccount(s) ==
    [s EXCEPT !.enabled = FALSE, !.status = "disconnected", !.op = FALSE,
              !.signal = NoSignal, !.last = NoTrade]

ResetCycleAfterResult(s) ==
    LET r == [s EXCEPT !.op = FALSE, !.signal = NoSignal,
                       !.status = IF s.enabled THEN "waiting" ELSE "stopped"]
    IN  IF MaxGale = 0 THEN ClearGale(r) ELSE r

\* prepare_cycle and set_pending_signal: a cycle may look for an entry.
CanAnalyse(s) ==
    /\ s.enabled /\ ~s.op
    /\ s.status = "waiting" /\ s.signal = NoSignal
    /\ ~StopHit(s)

\* The entry that is stored has no field of the martingale step: set again
\* before a submission (set_order_attempt), a leg's signal is as any other.
SetPendingSignal(s) == [s EXCEPT !.signal = 0, !.status = "entry"]

\* The cycle ended in an exception (wait_analysis_window, clear_pending), or
\* real trading is locked (lock_real): the signal goes, a leg's context stays.
DropSignal(s) == [s EXCEPT !.signal = NoSignal, !.op = FALSE, !.status = "waiting"]

ExpirePendingSignal(s) ==
    ClearGale([s EXCEPT !.signal = NoSignal, !.op = FALSE, !.status = "waiting"])

CanSend(s) ==
    /\ s.enabled /\ ~s.op
    /\ s.status \in {"entry", "sending"} /\ s.signal # NoSignal

\* An order is sent as a martingale step when a leg waits, whatever signal is
\* there; the step it is recorded with is 1, the stored signal names no other.
IsGaleOrder(s) == s.galePending \/ s.signal > 0

\* Mutant of SentStep: the flag that outlived its signal is not read.
BugSignalStep(s) == IF s.signal > 0 THEN 1 ELSE 0

SentStep(s) == IF IsGaleOrder(s) THEN 1 ELSE 0

StartSendingOrder(s) == [s EXCEPT !.status = "sending"]

RejectOrder(s) ==
    ClearGale([s EXCEPT !.signal = NoSignal, !.op = FALSE, !.status = "waiting"])

\* Mutant of RecordTrade: the operation is not opened.
BugNotOpened(s, o, step) ==
    [s EXCEPT !.last = [id |-> o, result |-> "PENDING", step |-> step],
              !.signal = NoSignal, !.status = "waiting"]

RecordTrade(s, o, step) ==
    IF o \in s.completed \/ s.op
    THEN s
    ELSE [s EXCEPT !.last = [id |-> o, result |-> "PENDING", step |-> step],
                   !.signal = NoSignal, !.op = TRUE, !.status = "result_wait",
                   !.galePending = IF step > 0 THEN FALSE ELSE @]

-----------------------------------------------------------------------------
(* Results.                                                                *)

\* finish_trade's early returns.
CanFinish(s, o) ==
    /\ s.last.id = o
    /\ \/ s.last.result = "TIMEOUT"
       \/ o \notin s.completed /\ (s.op \/ s.last.result \notin Final)

\* A TIMEOUT that got its answer after all is taken out of the closed orders.
Recovered(s, o) ==
    IF s.last.result = "TIMEOUT" THEN [s EXCEPT !.completed = @ \ {o}] ELSE s

\* should_trigger_gale: the loss that reaches the stop opens no leg.
WantsGale(s, r) ==
    /\ r = "LOSS" /\ s.enabled /\ s.last.step < MaxGale
    /\ ~StopLossHit(Total(s.losses) + (IF s.last.step = 0 THEN 1 ELSE 0))

CanTriggerGale(s, o) == o \notin s.completed /\ s.enabled /\ s.op /\ s.last.id = o

\* Mutant of TriggerGale: only the immediate leg is kept in the sum.
BugForgetsChain(s, o) ==
    LET leg == [s.last EXCEPT !.result = "LEG"]
    IN  [s EXCEPT !.completed = @ \cup {o}, !.last = leg, !.op = FALSE,
                  !.signal = s.last.step + 1, !.status = "entry",
                  !.galePending = TRUE, !.galeParent = leg, !.chain = {o},
                  !.galeOrigin = o]

TriggerGale(s, o) ==
    LET leg == [s.last EXCEPT !.result = "LEG"]
    IN  [s EXCEPT !.completed = @ \cup {o}, !.last = leg, !.op = FALSE,
                  !.signal = s.last.step + 1, !.status = "entry",
                  !.galePending = TRUE, !.galeParent = leg,
                  !.chain = (IF s.last.step > 0 THEN @ ELSE {}) \cup {o},
                  !.galeOrigin = IF s.last.step > 0 /\ @ # NoOrder THEN @ ELSE o]

CloseCycle(s, o, r) ==
    LET orders == {o} \cup (IF s.last.step > 0 THEN s.chain ELSE {})
    IN  [Pay(CountResult(s, o, r), orders) EXCEPT
            !.completed = @ \cup {o}, !.last.result = r, !.op = FALSE,
            !.status = IF s.enabled THEN "result" ELSE "stopped",
            !.galePending = FALSE]

\* finish_trade: the new state; Finalized tells the Boolean it returns.
FinishTrade(s, o, r) ==
    LET rec == Recovered(s, o)
        closed == CloseCycle(rec, o, r)
    IN  IF ~CanFinish(s, o) THEN s
        ELSE IF WantsGale(rec, r)
        THEN IF CanTriggerGale(rec, o) THEN TriggerGale(rec, o) ELSE rec
        ELSE IF s.enabled /\ r # "DRAW" /\ StopHit(closed)
        THEN PauseByStop(closed)
        ELSE closed

Finalized(s, o, r) == CanFinish(s, o) /\ ~WantsGale(Recovered(s, o), r)

CountLateResult(s, o, r) ==
    IF o \in s.completed THEN s
    ELSE [Pay(CountResult(s, o, r), {o}) EXCEPT !.completed = @ \cup {o}]

CanTimeout(s, o) ==
    /\ o \notin s.completed /\ s.last.id = o
    /\ s.op \/ s.last.result \notin {"WIN", "LEG", "LOSS", "TIMEOUT"}

TimeoutTrade(s, o) ==
    ClearGale([s EXCEPT !.completed = @ \cup {o}, !.last.result = "TIMEOUT",
                        !.op = FALSE,
                        !.status = IF s.enabled THEN "waiting" ELSE "stopped"])

\* Mutants of HasAbandonedGale: the flag is not read; the leg is never closed.
BugIgnoresGaleFlag(s) == s.galeParent.result = "LEG"
BugNeverAbandoned(s) == FALSE

\* close_abandoned_gale when a lost leg waits for a step that will not come.
HasAbandonedGale(s) == s.galePending /\ s.galeParent.result = "LEG"

\* Mutant of CloseAbandonedGale: the context is cleared, nothing is counted.
BugUncountedLeg(s) == IF s.galePending THEN ClearGale(s) ELSE s

CloseAbandonedGale(s) ==
    LET parent == s.galeParent
        orders == IF s.chain = {} THEN {parent.id} ELSE s.chain
    IN  IF HasAbandonedGale(s)
        THEN ClearGale([Pay(CountResult(s, parent.id, "LOSS"), orders) EXCEPT
                            !.last = [parent EXCEPT !.result = "LOSS"],
                            !.op = FALSE])
        ELSE IF s.galePending THEN ClearGale(s) ELSE s
=============================================================================
