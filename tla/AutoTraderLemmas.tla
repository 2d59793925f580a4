-------------------------- MODULE AutoTraderLemmas --------------------------
(***************************************************************************)
(* What the operators of AutoTrader do to the fields the invariants of     *)
(* RobotOrders speak of.  The proofs of RobotOrders_proofs use these       *)
(* lemmas and never expand the operators.                                  *)
(***************************************************************************)
EXTENDS AutoTrader, TLAPS

\* Same closed orders and same score.
SameScore(s, t) ==
    t.completed = s.completed /\ t.wins = s.wins /\ t.losses = s.losses

\* t is s with no open operation, and no martingale leg that s did not have.
Quiet(s, t) ==
    /\ t \in Robot /\ ~t.op /\ SameScore(s, t)
    /\ t.last \in {s.last, NoTrade}
    /\ t.galePending => s.galePending /\ t.galeParent = s.galeParent
    /\ t.signal > 0 => s.signal > 0 /\ t.enabled /\ t.galePending = s.galePending
    /\ t.enabled /\ t.galeOrigin # NoOrder =>
          /\ s.enabled /\ t.galeOrigin = s.galeOrigin
          /\ t.galePending <=> s.galePending

\* A quiet step that also drops the signal.
AtRest(s, t) == Quiet(s, t) /\ t.signal = NoSignal

\* t is s with the waiting leg counted as the loss of its cycle.
LegClosed(s, t) ==
    /\ t \in Robot /\ ~t.op /\ ~t.galePending
    /\ t.completed = s.completed /\ t.wins = s.wins
    /\ t.losses = [s.losses EXCEPT ![s.galeParent.id] = @ + 1]
    /\ t.last \in {[s.galeParent EXCEPT !.result = "LOSS"], NoTrade}
    /\ t.enabled => t.galeOrigin = NoOrder

USE DEF NoSignal

\* "No trade" is a trade record.
LEMMA NoTradeType == NoTrade \in Trade
BY GaleAssumption DEF NoTrade, Trade, TradeResult

\* No signal and the first entry are signals a robot may hold.
LEMMA SignalValues == NoSignal \in -1..MaxGale /\ 0 \in -1..MaxGale
BY GaleAssumption

\* The robot of a new user (InitRobot) is a robot record.
LEMMA InitType == InitRobot \in Robot
BY GaleAssumption, NoTradeType DEF InitRobot, Robot, Status

\* _clear_gale_state drops the waiting leg and touches nothing else.
LEMMA ClearGaleFacts ==
    ASSUME NEW s \in Robot
    PROVE  /\ ClearGale(s) \in Robot
           /\ ~ClearGale(s).galePending
           /\ ClearGale(s).last = s.last
           /\ ClearGale(s).op = s.op
           /\ SameScore(s, ClearGale(s))
           /\ ClearGale(s).signal = s.signal
           /\ ClearGale(s).enabled = s.enabled
           /\ ClearGale(s).galeOrigin = NoOrder
BY NoTradeType DEF ClearGale, Robot, SameScore

\* A robot put to rest and without a leg is quiet.
LEMMA RestQuiet ==
    ASSUME NEW s \in Robot, NEW r \in Robot,
           ~r.op, SameScore(s, r), r.last = s.last, r.signal = NoSignal
    PROVE  AtRest(s, ClearGale(r))
BY ClearGaleFacts DEF AtRest, Quiet, SameScore

\* start opens no order, keeps no leg and leaves the score alone.
LEMMA StartQuiet == ASSUME NEW s \in Robot PROVE Quiet(s, Start(s))
<1>1. "waiting" \in Status
  BY DEF Status
<1>2. NoSignal \in -1..MaxGale
  BY SignalValues
<1> DEFINE r == [s EXCEPT !.enabled = TRUE, !.status = "waiting", !.op = FALSE,
                          !.signal = NoSignal]
<1>3. /\ r \in Robot /\ ~r.op /\ r.completed = s.completed
      /\ r.wins = s.wins /\ r.losses = s.losses /\ r.last = s.last
      /\ r.signal = NoSignal
  BY <1>1, <1>2 DEF Robot
<1>4. Start(s) = [r EXCEPT !.galePending = FALSE, !.galeParent = NoTrade,
                           !.galeOrigin = NoOrder]
  BY DEF Start
<1> HIDE DEF r
<1>5. /\ Start(s) \in Robot /\ ~Start(s).op /\ ~Start(s).galePending
      /\ SameScore(s, Start(s)) /\ Start(s).last = s.last
      /\ Start(s).signal = NoSignal /\ Start(s).galeOrigin = NoOrder
  BY <1>3, <1>4, NoTradeType DEF Robot, SameScore
<1> QED BY <1>5 DEF Quiet

\* stop leaves no order, signal or leg, and the score alone.
LEMMA StopQuiet == ASSUME NEW s \in Robot PROVE AtRest(s, Stop(s))
<1>1. "stopped" \in Status
  BY DEF Status
<1>2. NoSignal \in -1..MaxGale
  BY SignalValues
<1> DEFINE r == [s EXCEPT !.enabled = FALSE, !.status = "stopped", !.op = FALSE,
                          !.signal = NoSignal]
<1>3. r \in Robot /\ ~r.op /\ SameScore(s, r) /\ r.last = s.last /\ r.signal = NoSignal
  BY <1>1, <1>2 DEF Robot, SameScore
<1>4. Stop(s) = ClearGale(r)
  BY DEF Stop
<1> HIDE DEF r
<1> QED BY <1>3, <1>4, RestQuiet

\* pause_by_stop leaves no order, signal or leg, and the score alone.
LEMMA PauseQuiet == ASSUME NEW s \in Robot PROVE AtRest(s, PauseByStop(s))
<1>1. "stop_hit" \in Status
  BY DEF Status
<1>2. NoSignal \in -1..MaxGale
  BY SignalValues
<1> DEFINE r == [s EXCEPT !.enabled = FALSE, !.status = "stop_hit", !.op = FALSE,
                          !.signal = NoSignal]
<1>3. r \in Robot /\ ~r.op /\ SameScore(s, r) /\ r.last = s.last /\ r.signal = NoSignal
  BY <1>1, <1>2 DEF Robot, SameScore
<1>4. PauseByStop(s) = ClearGale(r)
  BY DEF PauseByStop
<1> HIDE DEF r
<1> QED BY <1>3, <1>4, RestQuiet

\* pause_by_stop keeps last_trade and disables the robot.
LEMMA PauseKeepsLast ==
    ASSUME NEW s \in Robot
    PROVE  /\ PauseByStop(s).last = s.last /\ ~PauseByStop(s).galePending
           /\ ~PauseByStop(s).op /\ ~PauseByStop(s).enabled
BY DEF PauseByStop, ClearGale, Robot

\* disconnect_account keeps a waiting leg but not its signal.
LEMMA DisconnectQuiet == ASSUME NEW s \in Robot PROVE Quiet(s, DisconnectAccount(s))
<1>1. "disconnected" \in Status
  BY DEF Status
<1>2. NoSignal \in -1..MaxGale
  BY SignalValues
<1> DEFINE t == DisconnectAccount(s)
<1>3. t \in Robot
  BY <1>1, <1>2, NoTradeType DEF Robot, DisconnectAccount
<1>4. /\ ~t.op /\ ~t.enabled /\ SameScore(s, t) /\ t.last = NoTrade
      /\ t.galePending = s.galePending /\ t.galeParent = s.galeParent
      /\ t.signal = NoSignal
  BY DEF Robot, DisconnectAccount, SameScore
<1> HIDE DEF t
<1>5. Quiet(s, t)
  BY <1>3, <1>4 DEF Quiet, Robot
<1> QED BY <1>5 DEF t

\* reset_cycle_after_result drops the signal and keeps the score.
LEMMA ResetQuiet ==
    ASSUME NEW s \in Robot, ~s.galePending
    PROVE  AtRest(s, ResetCycleAfterResult(s))
<1>1. NoSignal \in -1..MaxGale
  BY SignalValues
<1> DEFINE st == IF s.enabled THEN "waiting" ELSE "stopped"
           r == [s EXCEPT !.op = FALSE, !.signal = NoSignal, !.status = st]
<1>2. st \in Status
  BY DEF Status
<1>3. ResetCycleAfterResult(s) = IF MaxGale = 0 THEN ClearGale(r) ELSE r
  BY DEF ResetCycleAfterResult
<1> HIDE DEF st
<1>4. /\ r \in Robot /\ ~r.op /\ SameScore(s, r) /\ r.last = s.last
      /\ ~r.galePending /\ r.signal = NoSignal /\ r.enabled = s.enabled
      /\ r.galeOrigin = s.galeOrigin
  BY <1>1, <1>2 DEF Robot, SameScore
<1> HIDE DEF r
<1>5. AtRest(s, r)
  BY <1>4 DEF Quiet, AtRest
<1>6. AtRest(s, ClearGale(r))
  BY <1>4, RestQuiet
<1> QED BY <1>3, <1>5, <1>6

\* set_pending_signal stores an entry that names no step, and keeps a leg.
LEMMA SetPendingQuiet ==
    ASSUME NEW s \in Robot, ~s.op
    PROVE  LET t == SetPendingSignal(s)
           IN  /\ Quiet(s, t)
               /\ t.enabled = s.enabled /\ t.last = s.last
               /\ t.galePending = s.galePending /\ t.galeParent = s.galeParent
<1>1. "entry" \in Status
  BY DEF Status
<1>2. 0 \in -1..MaxGale
  BY SignalValues
<1> DEFINE t == SetPendingSignal(s)
<1>3. /\ t \in Robot /\ ~t.op /\ SameScore(s, t) /\ t.last = s.last
      /\ t.galePending = s.galePending /\ t.galeParent = s.galeParent
      /\ t.signal = 0 /\ t.enabled = s.enabled
      /\ t.galeOrigin = s.galeOrigin
  BY <1>1, <1>2 DEF SetPendingSignal, Robot, SameScore
<1> HIDE DEF t
<1>4. Quiet(s, t)
  BY <1>3, GaleAssumption DEF Quiet, Robot
<1> QED BY <1>3, <1>4 DEF t

\* The signal goes, a waiting leg stays: wait_analysis_window, lock_real.
LEMMA DropQuiet ==
    ASSUME NEW s \in Robot
    PROVE  LET t == DropSignal(s)
           IN  /\ AtRest(s, t)
               /\ t.enabled = s.enabled /\ t.last = s.last
               /\ t.galePending = s.galePending /\ t.galeParent = s.galeParent
<1>1. "waiting" \in Status
  BY DEF Status
<1>2. NoSignal \in -1..MaxGale
  BY SignalValues
<1> DEFINE t == DropSignal(s)
<1>3. /\ t \in Robot /\ ~t.op /\ SameScore(s, t) /\ t.last = s.last
      /\ t.galePending = s.galePending /\ t.galeParent = s.galeParent
      /\ t.signal = NoSignal /\ t.enabled = s.enabled
      /\ t.galeOrigin = s.galeOrigin
  BY <1>1, <1>2 DEF DropSignal, Robot, SameScore
<1> HIDE DEF t
<1>4. AtRest(s, t)
  BY <1>3 DEF Quiet, AtRest
<1> QED BY <1>3, <1>4 DEF t

\* expire_pending_signal drops the signal and the leg.
LEMMA ExpireQuiet == ASSUME NEW s \in Robot PROVE AtRest(s, ExpirePendingSignal(s))
<1>1. "waiting" \in Status
  BY DEF Status
<1>2. NoSignal \in -1..MaxGale
  BY SignalValues
<1> DEFINE r == [s EXCEPT !.signal = NoSignal, !.op = FALSE, !.status = "waiting"]
<1>3. r \in Robot /\ ~r.op /\ SameScore(s, r) /\ r.last = s.last /\ r.signal = NoSignal
  BY <1>1, <1>2 DEF Robot, SameScore
<1>4. ExpirePendingSignal(s) = ClearGale(r)
  BY DEF ExpirePendingSignal
<1> HIDE DEF r
<1> QED BY <1>3, <1>4, RestQuiet

\* reject_order drops the signal and the leg.
LEMMA RejectQuiet == ASSUME NEW s \in Robot PROVE AtRest(s, RejectOrder(s))
BY ExpireQuiet DEF ExpirePendingSignal, RejectOrder

\* A submission begins: the entry is stored again without the leg's fields
\* (set_order_attempt), then the status changes (start_sending_order).
LEMMA SendingQuiet ==
    ASSUME NEW s \in Robot, ~s.op
    PROVE  LET t == StartSendingOrder(SetPendingSignal(s))
           IN  /\ Quiet(s, t) /\ t.signal = 0
               /\ t.enabled = s.enabled /\ t.last = s.last
               /\ t.galePending = s.galePending /\ t.galeParent = s.galeParent
<1>1. "sending" \in Status
  BY DEF Status
<1>2. 0 \in -1..MaxGale
  BY SignalValues
<1> DEFINE t == StartSendingOrder(SetPendingSignal(s))
<1>3. /\ t \in Robot /\ ~t.op /\ SameScore(s, t) /\ t.last = s.last
      /\ t.galePending = s.galePending /\ t.galeParent = s.galeParent
      /\ t.signal = 0 /\ t.enabled = s.enabled
      /\ t.galeOrigin = s.galeOrigin
  BY <1>1, <1>2 DEF StartSendingOrder, SetPendingSignal, Robot, SameScore
<1> HIDE DEF t
<1>4. Quiet(s, t)
  BY <1>3 DEF Quiet
<1> QED BY <1>3, <1>4 DEF t

\* An order is sent as step 1 when a leg waits and as a first entry otherwise,
\* if no signal of a step is there without the leg.
LEMMA SentStepFacts ==
    ASSUME NEW s \in Robot, s.signal > 0 => s.galePending,
           s.galePending => MaxGale > 0
    PROVE  /\ IsGaleOrder(s) <=> s.galePending
           /\ SentStep(s) \in 0..MaxGale
           /\ SentStep(s) > 0 <=> s.galePending
BY GaleAssumption DEF IsGaleOrder, SentStep

-----------------------------------------------------------------------------
(* Orders.                                                                 *)

\* A new order becomes the open operation.
LEMMA RecordFacts ==
    ASSUME NEW s \in Robot, NEW o \in Order, NEW step \in 0..MaxGale,
           o \notin s.completed, ~s.op
    PROVE  LET t == RecordTrade(s, o, step)
           IN  /\ t \in Robot /\ t.op /\ SameScore(s, t)
               /\ t.last = [id |-> o, result |-> "PENDING", step |-> step]
               /\ t.signal = NoSignal
               /\ t.galePending = (IF step > 0 THEN FALSE ELSE s.galePending)
               /\ t.enabled = s.enabled /\ t.galeOrigin = s.galeOrigin
<1>1. "result_wait" \in Status
  BY DEF Status
<1>2. NoSignal \in -1..MaxGale
  BY SignalValues
<1> DEFINE l == [id |-> o, result |-> "PENDING", step |-> step]
           g == IF step > 0 THEN FALSE ELSE s.galePending
<1>3. l \in Trade
  BY DEF Trade, TradeResult
<1>4. g \in BOOLEAN
  BY DEF Robot
<1>5. RecordTrade(s, o, step) =
        [s EXCEPT !.last = l, !.signal = NoSignal, !.op = TRUE,
                  !.status = "result_wait", !.galePending = g]
  BY DEF RecordTrade, Robot
<1> HIDE DEF l, g
<1>6. LET t == RecordTrade(s, o, step)
      IN  /\ t \in Robot /\ t.op /\ SameScore(s, t)
          /\ t.last = l /\ t.signal = NoSignal /\ t.galePending = g
          /\ t.enabled = s.enabled /\ t.galeOrigin = s.galeOrigin
  <2> DEFINE t == RecordTrade(s, o, step)
           u == [s EXCEPT !.last = l, !.signal = NoSignal, !.op = TRUE]
  <2>1. t \in Robot
    <3>1. u \in Robot
      BY <1>2, <1>3 DEF Robot
    <3>2. t = [u EXCEPT !.status = "result_wait", !.galePending = g]
      BY <1>5
    <3> HIDE DEF t, u
    <3> QED
      BY <1>1, <1>4, <3>1, <3>2 DEF Robot
  <2>2. /\ t.op /\ SameScore(s, t)
        /\ t.last = l /\ t.signal = NoSignal /\ t.galePending = g
        /\ t.enabled = s.enabled /\ t.galeOrigin = s.galeOrigin
    BY <1>5 DEF Robot, SameScore
  <2> QED
    BY <2>1, <2>2
<1> QED BY <1>6 DEF l, g

\* The score of o, and nobody else's, goes up by one when r is a WIN or LOSS.
CountsOnly(s, t, o, r) ==
    /\ t.wins \in [Order -> Nat] /\ t.losses \in [Order -> Nat]
    /\ \A x \in Order \ {o} : t.wins[x] = s.wins[x] /\ t.losses[x] = s.losses[x]
    /\ t.wins[o] + t.losses[o] <= s.wins[o] + s.losses[o] + 1

\* Adding money to the profit changes nothing but the profit.
LEMMA PayFacts ==
    ASSUME NEW s \in Robot, NEW orders
    PROVE  LET t == Pay(s, orders)
           IN  /\ t \in Robot /\ SameScore(s, t)
               /\ t.last = s.last /\ t.op = s.op /\ t.enabled = s.enabled
               /\ t.galePending = s.galePending /\ t.galeParent = s.galeParent
               /\ t.signal = s.signal /\ t.status = s.status
               /\ t.galeOrigin = s.galeOrigin
<1> DEFINE p == [o \in Order |-> IF o \in orders THEN s.paid[o] + 1 ELSE s.paid[o]]
<1>1. p \in [Order -> Nat]
  BY DEF Robot
<1>2. Pay(s, orders) = [s EXCEPT !.paid = p]
  BY DEF Pay, Robot
<1> HIDE DEF p
<1> QED BY <1>1, <1>2 DEF Robot, SameScore

\* A result counts for one order, at most once.
LEMMA CountFacts ==
    ASSUME NEW s \in Robot, NEW o \in Order, NEW r
    PROVE  LET t == CountResult(s, o, r)
           IN  /\ t \in Robot /\ t.completed = s.completed /\ CountsOnly(s, t, o, r)
               /\ t.last = s.last /\ t.op = s.op /\ t.enabled = s.enabled
               /\ t.galePending = s.galePending /\ t.galeParent = s.galeParent
               /\ t.signal = s.signal /\ t.status = s.status
               /\ t.galeOrigin = s.galeOrigin
<1> DEFINE w == [s.wins EXCEPT ![o] = IF r = "WIN" THEN @ + 1 ELSE @]
           l == [s.losses EXCEPT ![o] = IF r = "LOSS" THEN @ + 1 ELSE @]
<1>1. w \in [Order -> Nat] /\ l \in [Order -> Nat]
  BY DEF Robot
<1>2. /\ \A x \in Order \ {o} : w[x] = s.wins[x] /\ l[x] = s.losses[x]
      /\ w[o] + l[o] <= s.wins[o] + s.losses[o] + 1
  BY DEF Robot
<1>3. CountResult(s, o, r) = [s EXCEPT !.wins = w, !.losses = l]
  BY DEF CountResult, Robot
<1> HIDE DEF w, l
<1>4. LET t == CountResult(s, o, r)
      IN  /\ t \in Robot /\ t.completed = s.completed
          /\ t.wins = w /\ t.losses = l
          /\ t.last = s.last /\ t.op = s.op /\ t.enabled = s.enabled
          /\ t.galePending = s.galePending /\ t.galeParent = s.galeParent
          /\ t.signal = s.signal /\ t.status = s.status
          /\ t.galeOrigin = s.galeOrigin
  BY <1>1, <1>3 DEF Robot
<1> QED BY <1>1, <1>2, <1>4 DEF CountsOnly

\* A cycle closes with r.
CycleClosed(s, t, o, r) ==
    /\ t \in Robot /\ ~t.op /\ ~t.galePending
    /\ t.completed = s.completed \cup {o} /\ CountsOnly(s, t, o, r)
    /\ t.last = [s.last EXCEPT !.result = r]
    /\ t.signal \in {s.signal, NoSignal}
    /\ t.enabled => s.enabled /\ t.signal = s.signal /\ t.galeOrigin = s.galeOrigin

\* finish_trade, the cycle ends: the order is closed and counted once.
LEMMA CloseCycleFacts ==
    ASSUME NEW s \in Robot, NEW o \in Order, NEW r \in Result
    PROVE  CycleClosed(s, CloseCycle(s, o, r), o, r)
<1> DEFINE orders == {o} \cup (IF s.last.step > 0 THEN s.chain ELSE {})
           q == CountResult(s, o, r)
           p == Pay(q, orders)
           c == s.completed \cup {o}
           l == [s.last EXCEPT !.result = r]
           st == IF s.enabled THEN "result" ELSE "stopped"
<1>1. /\ p \in Robot /\ p.completed = s.completed /\ CountsOnly(s, p, o, r)
      /\ p.last = s.last /\ p.enabled = s.enabled /\ p.signal = s.signal
      /\ p.galeOrigin = s.galeOrigin
  <2>1. /\ q \in Robot /\ q.completed = s.completed /\ CountsOnly(s, q, o, r)
        /\ q.last = s.last /\ q.enabled = s.enabled /\ q.signal = s.signal
        /\ q.galeOrigin = s.galeOrigin
    BY CountFacts
  <2> HIDE DEF q, orders
  <2>2. /\ p \in Robot /\ SameScore(q, p) /\ p.last = q.last
        /\ p.enabled = q.enabled /\ p.signal = q.signal /\ p.galeOrigin = q.galeOrigin
    BY <2>1, PayFacts
  <2> HIDE DEF p
  <2> QED BY <2>1, <2>2 DEF CountsOnly, SameScore
<1>2. c \in SUBSET Order
  BY DEF Robot
<1>3. l \in Trade
  BY DEF Robot, Trade, TradeResult, Final, Result
<1>4. st \in Status
  BY DEF Status
<1>5. CloseCycle(s, o, r) =
        [p EXCEPT !.completed = c, !.last = l, !.op = FALSE, !.status = st,
                  !.galePending = FALSE]
  BY <1>1 DEF CloseCycle, Robot
<1> HIDE DEF p, c, l, st
<1>6. LET t == CloseCycle(s, o, r)
      IN  /\ t \in Robot /\ ~t.op /\ ~t.galePending /\ t.completed = c
          /\ t.wins = p.wins /\ t.losses = p.losses /\ t.last = l
          /\ t.enabled = p.enabled /\ t.signal = p.signal
          /\ t.galeOrigin = p.galeOrigin
  <2> DEFINE t == CloseCycle(s, o, r)
  <2>1. t \in Robot
    BY <1>1, <1>2, <1>3, <1>4, <1>5 DEF Robot
  <2>2. /\ ~t.op /\ ~t.galePending /\ t.completed = c
        /\ t.wins = p.wins /\ t.losses = p.losses /\ t.last = l
        /\ t.enabled = p.enabled /\ t.signal = p.signal
        /\ t.galeOrigin = p.galeOrigin
    BY <1>1, <1>5 DEF Robot
  <2> QED
    BY <2>1, <2>2
<1> QED BY <1>1, <1>6 DEF CycleClosed, CountsOnly, c, l

\* The lost leg opens the next one.
LegOpened(s, t, o) ==
    /\ t \in Robot /\ ~t.op /\ t.galePending /\ t.signal > 0
    /\ t.completed = s.completed \cup {o} /\ t.wins = s.wins /\ t.losses = s.losses
    /\ t.last = [s.last EXCEPT !.result = "LEG"] /\ t.galeParent = t.last
    /\ t.enabled = s.enabled /\ t.galeOrigin \in {o, s.galeOrigin}

\* trigger_gale closes the lost order uncounted and waits for its leg.
LEMMA TriggerFacts ==
    ASSUME NEW s \in Robot, NEW o \in Order, s.last.step < MaxGale
    PROVE  LegOpened(s, TriggerGale(s, o), o)
<1> DEFINE leg == [s.last EXCEPT !.result = "LEG"]
           c == s.completed \cup {o}
           ch == (IF s.last.step > 0 THEN s.chain ELSE {}) \cup {o}
           sig == s.last.step + 1
           og == IF s.last.step > 0 /\ s.galeOrigin # NoOrder THEN s.galeOrigin ELSE o
<1>1. leg \in Trade
  BY DEF Robot, Trade, TradeResult, Final
<1>2. c \in SUBSET Order /\ ch \in SUBSET Order
  BY DEF Robot
<1>3. sig \in -1..MaxGale /\ sig > 0
  BY GaleAssumption DEF Robot, Trade
<1>4. "entry" \in Status
  BY DEF Status
<1>5. TriggerGale(s, o) =
        [s EXCEPT !.completed = c, !.last = leg, !.op = FALSE, !.signal = sig,
                  !.status = "entry", !.galePending = TRUE, !.galeParent = leg,
                  !.chain = ch, !.galeOrigin = og]
  BY DEF TriggerGale, Robot
<1>9. og \in Order /\ og \in {o, s.galeOrigin}
  BY DEF Robot
<1> HIDE DEF leg, c, ch, sig, og
<1> DEFINE u == [s EXCEPT !.completed = c, !.last = leg, !.op = FALSE, !.signal = sig]
<1>6. u \in Robot /\ ~u.op /\ u.completed = c /\ u.last = leg /\ u.signal = sig
      /\ u.wins = s.wins /\ u.losses = s.losses /\ u.enabled = s.enabled
  BY <1>1, <1>2, <1>3 DEF Robot
<1>7. TriggerGale(s, o) =
        [u EXCEPT !.status = "entry", !.galePending = TRUE, !.galeParent = leg,
                  !.chain = ch, !.galeOrigin = og]
  BY <1>5
<1> HIDE DEF u
<1>8. LET t == TriggerGale(s, o)
      IN  /\ t \in Robot /\ ~t.op /\ t.completed = c /\ t.last = leg /\ t.signal = sig
          /\ t.wins = s.wins /\ t.losses = s.losses /\ t.galePending
          /\ t.galeParent = leg /\ t.enabled = s.enabled /\ t.galeOrigin = og
  <2> DEFINE t == TriggerGale(s, o)
  <2>1. t \in Robot
    BY <1>1, <1>2, <1>4, <1>6, <1>7, <1>9 DEF Robot
  <2>2. /\ ~t.op /\ t.completed = c /\ t.last = leg /\ t.signal = sig
        /\ t.wins = s.wins /\ t.losses = s.losses
    BY <1>6, <1>7 DEF Robot
  <2>3. /\ t.galePending /\ t.galeParent = leg
        /\ t.enabled = s.enabled /\ t.galeOrigin = og
    BY <1>6, <1>7 DEF Robot
  <2> QED
    BY <2>1, <2>2, <2>3
<1> QED BY <1>3, <1>8, <1>9 DEF LegOpened, c, leg

\* count_late_result counts an order that is not closed, once.
LEMMA CountLateFacts ==
    ASSUME NEW s \in Robot, NEW o \in Order, NEW r, o \notin s.completed
    PROVE  LET t == CountLateResult(s, o, r)
           IN  /\ t \in Robot /\ t.completed = s.completed \cup {o}
               /\ CountsOnly(s, t, o, r)
               /\ t.last = s.last /\ t.op = s.op /\ t.enabled = s.enabled
               /\ t.galePending = s.galePending /\ t.signal = s.signal
               /\ t.galeOrigin = s.galeOrigin
<1> DEFINE q == CountResult(s, o, r)
           p == Pay(q, {o})
           c == s.completed \cup {o}
<1>1. /\ q \in Robot /\ q.completed = s.completed /\ CountsOnly(s, q, o, r)
      /\ q.last = s.last /\ q.op = s.op /\ q.enabled = s.enabled
      /\ q.galePending = s.galePending /\ q.signal = s.signal
      /\ q.galeOrigin = s.galeOrigin
  BY CountFacts
<1>2. CountLateResult(s, o, r) = [p EXCEPT !.completed = p.completed \cup {o}]
  BY DEF CountLateResult
<1> HIDE DEF q
<1>3. /\ p \in Robot /\ SameScore(q, p) /\ p.last = q.last /\ p.op = q.op
      /\ p.enabled = q.enabled /\ p.galePending = q.galePending /\ p.signal = q.signal
      /\ p.galeOrigin = q.galeOrigin
  BY <1>1, PayFacts
<1> HIDE DEF p
<1>4. c \in SUBSET Order /\ p.completed \cup {o} = c
  BY <1>1, <1>3 DEF Robot, SameScore
<1> HIDE DEF c
<1>5. LET t == CountLateResult(s, o, r)
      IN  /\ t \in Robot /\ t.completed = c /\ t.wins = p.wins /\ t.losses = p.losses
          /\ t.last = p.last /\ t.op = p.op /\ t.enabled = p.enabled
          /\ t.galePending = p.galePending /\ t.signal = p.signal
          /\ t.galeOrigin = p.galeOrigin
  BY <1>2, <1>3, <1>4 DEF Robot
<1> QED BY <1>1, <1>3, <1>5 DEF CountsOnly, SameScore, c

\* timeout_trade closes the order uncounted and drops the leg.
LEMMA TimeoutFacts ==
    ASSUME NEW s \in Robot, NEW o \in Order
    PROVE  LET t == TimeoutTrade(s, o)
           IN  /\ t \in Robot /\ ~t.op /\ ~t.galePending
               /\ t.completed = s.completed \cup {o}
               /\ t.wins = s.wins /\ t.losses = s.losses
               /\ t.last = [s.last EXCEPT !.result = "TIMEOUT"]
               /\ t.enabled = s.enabled /\ t.signal = s.signal
               /\ t.galeOrigin = NoOrder
<1> DEFINE c == s.completed \cup {o}
           l == [s.last EXCEPT !.result = "TIMEOUT"]
           st == IF s.enabled THEN "waiting" ELSE "stopped"
           u == [s EXCEPT !.completed = c, !.last = l, !.op = FALSE, !.status = st]
<1>1. c \in SUBSET Order
  BY DEF Robot
<1>2. l \in Trade
  BY DEF Robot, Trade, TradeResult
<1>3. st \in Status
  BY DEF Status
<1>4. TimeoutTrade(s, o) = ClearGale(u)
  BY DEF TimeoutTrade, Robot
<1> HIDE DEF c, l, st
<1>5. /\ u \in Robot /\ ~u.op /\ u.completed = c /\ u.last = l
      /\ u.wins = s.wins /\ u.losses = s.losses /\ u.enabled = s.enabled
      /\ u.signal = s.signal
  BY <1>1, <1>2, <1>3 DEF Robot
<1> HIDE DEF u
<1> QED BY <1>4, <1>5, ClearGaleFacts DEF SameScore, c, l

\* close_abandoned_gale counts the waiting leg, and nothing else.
LEMMA CloseAbandonedFacts ==
    ASSUME NEW s \in Robot,
           s.galePending => s.galeParent.result = "LEG" /\ s.galeParent.id \in Order
    PROVE  LET t == CloseAbandonedGale(s)
           IN  /\ t \in Robot /\ ~t.galePending
               /\ IF s.galePending
                  THEN /\ LegClosed(s, t) /\ t.galeOrigin = NoOrder
                       /\ t.last = [s.galeParent EXCEPT !.result = "LOSS"]
                  ELSE t = s
<1>1. CASE ~s.galePending
  BY <1>1 DEF CloseAbandonedGale, HasAbandonedGale
<1>2. CASE s.galePending
  <2> DEFINE id == s.galeParent.id
             orders == IF s.chain = {} THEN {id} ELSE s.chain
             l == [s.galeParent EXCEPT !.result = "LOSS"]
             loss == [s.losses EXCEPT ![id] = @ + 1]
             q == CountResult(s, id, "LOSS")
             p == Pay(q, orders)
             u == [p EXCEPT !.last = l, !.op = FALSE]
  <2>1. id \in Order
    BY <1>2
  <2>2. l \in Trade
    BY <1>2 DEF Robot, Trade, TradeResult, Final
  <2>3. CloseAbandonedGale(s) = ClearGale(u)
    BY <1>2 DEF CloseAbandonedGale, HasAbandonedGale
  <2>4. q \in Robot
    BY <2>1, CountFacts
  <2>5. q.completed = s.completed /\ q.wins = s.wins /\ q.losses = loss
    BY <2>1 DEF CountResult, Robot
  <2> HIDE DEF q, orders
  <2>6. p \in Robot /\ SameScore(q, p)
    BY <2>4, PayFacts
  <2> HIDE DEF p, l
  <2>7. u \in Robot /\ ~u.op /\ u.last = l /\ SameScore(p, u)
    BY <2>2, <2>6 DEF Robot, SameScore
  <2> HIDE DEF u
  <2>8. LET t == ClearGale(u)
        IN  /\ t \in Robot /\ ~t.galePending /\ ~t.op /\ t.last = l /\ SameScore(u, t)
            /\ t.galeOrigin = NoOrder
    BY <2>7, ClearGaleFacts
  <2> QED BY <1>2, <2>3, <2>5, <2>6, <2>7, <2>8 DEF LegClosed, SameScore, l
<1> QED BY <1>1, <1>2 DEF Robot

\* What a quiet step makes of the robot close_abandoned_gale returned.
LEMMA ClosedThenQuiet ==
    ASSUME NEW s \in Robot, NEW c, NEW t, Quiet(c, t), ~c.galePending,
           IF s.galePending
           THEN /\ LegClosed(s, c) /\ c.galeOrigin = NoOrder
                /\ c.last = [s.galeParent EXCEPT !.result = "LOSS"]
           ELSE c = s
    PROVE  IF s.galePending THEN LegClosed(s, t) ELSE Quiet(s, t)
BY DEF Quiet, LegClosed, SameScore

\* A TIMEOUT that is answered is first taken out of the closed orders.
LEMMA RecoveredFacts ==
    ASSUME NEW s \in Robot, NEW o \in Order
    PROVE  LET t == Recovered(s, o)
           IN  /\ t \in Robot
               /\ t.completed = IF s.last.result = "TIMEOUT" THEN s.completed \ {o}
                                                             ELSE s.completed
               /\ t.wins = s.wins /\ t.losses = s.losses
               /\ t.last = s.last /\ t.op = s.op /\ t.enabled = s.enabled
               /\ t.galePending = s.galePending /\ t.galeParent = s.galeParent
               /\ t.signal = s.signal /\ t.galeOrigin = s.galeOrigin
BY DEF Recovered, Robot

\* finish_trade: nothing happens, the leg opens, the TIMEOUT is only reopened,
\* or the cycle closes.
LEMMA FinishFacts ==
    ASSUME NEW s \in Robot, NEW o \in Order, NEW r \in Result
    PROVE  LET rec == Recovered(s, o)
               t == FinishTrade(s, o, r)
           IN  \/ ~CanFinish(s, o) /\ t = s
               \/ CanFinish(s, o) /\ rec.op /\ rec.enabled /\ LegOpened(rec, t, o)
               \/ CanFinish(s, o) /\ ~rec.op /\ t = rec
               \/ CanFinish(s, o) /\ o \in rec.completed /\ t = rec
               \/ CanFinish(s, o) /\ CycleClosed(rec, t, o, r)
<1> DEFINE rec == Recovered(s, o)
           closed == CloseCycle(rec, o, r)
           t == FinishTrade(s, o, r)
<1>1. rec \in Robot /\ rec.last = s.last /\ rec.enabled = s.enabled
  BY RecoveredFacts
<1>2. CASE ~CanFinish(s, o)
  BY <1>2 DEF FinishTrade
<1>3. CASE CanFinish(s, o) /\ WantsGale(rec, r)
  <2>1. rec.last.step < MaxGale /\ rec.enabled
    BY <1>3 DEF WantsGale
  <2>2. CASE CanTriggerGale(rec, o)
    <3>1. t = TriggerGale(rec, o)
      BY <1>3, <2>2 DEF FinishTrade
    <3>2. LegOpened(rec, t, o)
      BY <1>1, <2>1, <3>1, TriggerFacts
    <3> QED BY <1>3, <2>1, <2>2, <3>2 DEF CanTriggerGale
  <2>3. CASE ~CanTriggerGale(rec, o)
    <3>1. t = rec
      BY <1>3, <2>3 DEF FinishTrade
    <3>2. o \in rec.completed \/ ~rec.op
      BY <1>1, <1>3, <2>1, <2>3 DEF CanTriggerGale, CanFinish
    <3> QED BY <1>3, <3>1, <3>2
  <2> QED BY <2>2, <2>3
<1>4. CASE CanFinish(s, o) /\ ~WantsGale(rec, r)
  <2>1. CycleClosed(rec, closed, o, r)
    BY <1>1, CloseCycleFacts
  <2>2. t = closed \/ t = PauseByStop(closed)
    BY <1>4 DEF FinishTrade
  <2> HIDE DEF rec, closed, t
  <2>3. closed \in Robot
    BY <2>1 DEF CycleClosed
  <2>4. /\ AtRest(closed, PauseByStop(closed)) /\ ~PauseByStop(closed).enabled
        /\ PauseByStop(closed).last = closed.last
        /\ ~PauseByStop(closed).galePending
    BY <2>3, PauseQuiet, PauseKeepsLast
  <2>5. CycleClosed(rec, t, o, r)
    BY <2>1, <2>2, <2>4 DEF CycleClosed, AtRest, Quiet, SameScore, CountsOnly
  <2> QED BY <1>4, <2>5 DEF rec, t
<1> QED BY <1>2, <1>3, <1>4

-----------------------------------------------------------------------------
(* What a result counts.                                                   *)

\* The order is counted if it was won or lost, and no other order is.
Counts(s, t, o, r) ==
    /\ \A x \in Order \ {o} : ScoreOf(t, x) = ScoreOf(s, x)
    /\ ScoreOf(t, o) = ScoreOf(s, o) + IF r = "DRAW" THEN 0 ELSE 1

\* A cycle that closes counts its result.
LEMMA CloseCounts ==
    ASSUME NEW s \in Robot, NEW o \in Order, NEW r \in Result
    PROVE  /\ Counts(s, CloseCycle(s, o, r), o, r)
           /\ Counts(s, PauseByStop(CloseCycle(s, o, r)), o, r)
           /\ ~CloseCycle(s, o, r).galePending
<1> DEFINE c == CloseCycle(s, o, r)
           w == [s.wins EXCEPT ![o] = IF r = "WIN" THEN @ + 1 ELSE @]
           l == [s.losses EXCEPT ![o] = IF r = "LOSS" THEN @ + 1 ELSE @]
<1>1. c.wins = w /\ c.losses = l /\ ~c.galePending
  BY DEF CloseCycle, Pay, CountResult, Robot
<1>2. PauseByStop(c).wins = c.wins /\ PauseByStop(c).losses = c.losses
  <2>1. c \in Robot
    BY CloseCycleFacts DEF CycleClosed
  <2> QED BY <2>1, PauseQuiet DEF AtRest, Quiet, SameScore
<1> HIDE DEF c
<1>3. /\ \A x \in Order \ {o} : w[x] = s.wins[x] /\ l[x] = s.losses[x]
      /\ w[o] + l[o] = s.wins[o] + s.losses[o] + IF r = "DRAW" THEN 0 ELSE 1
  BY DEF Robot, Result
<1> HIDE DEF w, l
<1>4. Counts(s, c, o, r) /\ Counts(s, PauseByStop(c), o, r)
  BY <1>1, <1>2, <1>3 DEF Counts, ScoreOf
<1> QED BY <1>1, <1>4 DEF c

\* A late result counts too.
LEMMA LateCounts ==
    ASSUME NEW s \in Robot, NEW o \in Order, NEW r \in Result, o \notin s.completed
    PROVE  Counts(s, CountLateResult(s, o, r), o, r)
<1> DEFINE t == CountLateResult(s, o, r)
           w == [s.wins EXCEPT ![o] = IF r = "WIN" THEN @ + 1 ELSE @]
           l == [s.losses EXCEPT ![o] = IF r = "LOSS" THEN @ + 1 ELSE @]
<1>1. t.wins = w /\ t.losses = l
  BY DEF CountLateResult, Pay, CountResult, Robot
<1> HIDE DEF t
<1>3. /\ \A x \in Order \ {o} : w[x] = s.wins[x] /\ l[x] = s.losses[x]
      /\ w[o] + l[o] = s.wins[o] + s.losses[o] + IF r = "DRAW" THEN 0 ELSE 1
  BY DEF Robot, Result
<1> HIDE DEF w, l
<1>4. Counts(s, t, o, r)
  BY <1>1, <1>3 DEF Counts, ScoreOf
<1> QED BY <1>4 DEF t

\* finish_trade counts exactly when it says the cycle is over; a leg that waits
\* after it is the order itself, lost, or waited before.
LEMMA FinishCounts ==
    ASSUME NEW s \in Robot, NEW o \in Order, NEW r \in Result
    PROVE  LET t == FinishTrade(s, o, r)
           IN  /\ Finalized(s, o, r) => Counts(s, t, o, r) /\ ~t.galePending
               /\ ~Finalized(s, o, r) =>
                    /\ t.wins = s.wins /\ t.losses = s.losses
                    /\ t.galePending =>
                          \/ s.galePending /\ t.galeParent = s.galeParent
                          \/ r = "LOSS" /\ t.galeParent.id = o
<1> DEFINE rec == Recovered(s, o)
           closed == CloseCycle(rec, o, r)
           t == FinishTrade(s, o, r)
<1>1. /\ rec \in Robot /\ rec.wins = s.wins /\ rec.losses = s.losses
      /\ rec.last = s.last /\ rec.enabled = s.enabled
      /\ rec.galePending = s.galePending /\ rec.galeParent = s.galeParent
  BY RecoveredFacts
<1>2. CASE Finalized(s, o, r)
  <2>1. t = closed \/ t = PauseByStop(closed)
    BY <1>2 DEF FinishTrade, Finalized
  <2>2. /\ Counts(rec, closed, o, r) /\ Counts(rec, PauseByStop(closed), o, r)
        /\ ~closed.galePending /\ ~PauseByStop(closed).galePending
    <3>1. closed \in Robot
      BY <1>1, CloseCycleFacts DEF CycleClosed
    <3> QED BY <1>1, <3>1, CloseCounts, PauseKeepsLast
  <2> HIDE DEF rec, closed, t
  <2>3. Counts(rec, t, o, r) /\ ~t.galePending
    BY <2>1, <2>2
  <2>4. Counts(s, t, o, r)
    BY <1>1, <2>3 DEF Counts, ScoreOf
  <2> QED BY <1>2, <2>3, <2>4 DEF t
<1>3. CASE ~Finalized(s, o, r)
  <2>1. CASE ~CanFinish(s, o)
    BY <1>3, <2>1 DEF FinishTrade
  <2>2. CASE CanFinish(s, o)
    <3>1. r = "LOSS" /\ rec.last.step < MaxGale /\ s.last.id = o
      BY <1>1, <1>3, <2>2 DEF Finalized, WantsGale, CanFinish
    <3>2. t = TriggerGale(rec, o) \/ t = rec
      BY <1>3, <2>2 DEF FinishTrade, Finalized
    <3>3. LegOpened(rec, TriggerGale(rec, o), o)
      BY <1>1, <3>1, TriggerFacts
    <3> HIDE DEF rec, t
    <3>4. /\ t.wins = s.wins /\ t.losses = s.losses
          /\ t.galePending =>
                \/ s.galePending /\ t.galeParent = s.galeParent
                \/ r = "LOSS" /\ t.galeParent.id = o
      BY <1>1, <3>1, <3>2, <3>3 DEF LegOpened, Robot, Trade
    <3> QED BY <1>3, <3>4 DEF t
  <2> QED BY <2>1, <2>2
<1> QED BY <1>2, <1>3
=============================================================================
