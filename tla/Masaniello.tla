----------------------------- MODULE Masaniello -----------------------------
(* The money plan (masaniello_cycle) as the processes keep it: a copy in the *)
(* gateway's memory, one in the runtime's, the row of robot_states that both *)
(* write in the background and the snapshot in Redis. The runtime sends the  *)
(* orders and books their results; the gateway opens a plan at a start and   *)
(* ends one for its owner. Copies meet through pick_freshest_cycle. A write  *)
(* reads and replaces the row in one step; a process that restarts has       *)
(* finished its writes.                                                      *)
EXTENDS Naturals, Sequences, FiniteSets

CONSTANTS Order, N, W, Terms,
          MaxId,      \* plans opened
          MaxTurn     \* restarts, settings, late results, expired snapshots

\* valid_plan: 1 <= W < N. An order is not 0, which stands for none.
ASSUME PlanAssumption ==
    /\ N \in Nat /\ W \in 1..(N - 1)
    /\ IsFiniteSet(Order) /\ 0 \notin Order /\ 1 \in Terms
    /\ MaxId \in Nat /\ MaxTurn \in Nat

Member == {"gateway", "runtime"}
Over == {"hit", "bust", "abandoned"}

VARIABLES
    memory,     \* state.masaniello_cycle of each process
    stored,      \* the row's
    shown,      \* the snapshot's
    queue,      \* payloads on their way to the row
    terms,      \* the settings
    running,    \* the robot is on
    asked,      \* a start on its way to the runtime
    open,       \* orders without a result at the broker: the plan of each
    history,    \* robot_trade_history: order, plan and result
    ids, turns,
    waived      \* history: the plan was given up with its order in flight

planVars == <<memory, stored, shown, queue, terms, running, asked, open,
              history, ids, turns, waived>>

\* No plan: what a lookup of an absent one gives.
Nothing == [id |-> 0, rev |-> 0, terms |-> 1, status |-> "abandoned", pending |-> 0,
            unknown |-> FALSE, booked |-> {}, won |-> 0, lost |-> 0]

Cycle == [id : 0..MaxId, rev : 0..4 * Cardinality(Order) + 2, terms : Terms,
          status : {"active"} \union Over, pending : {0} \union Order,
          unknown : BOOLEAN, booked : SUBSET Order, won : 0..N, lost : 0..N]

MoneyTypeOK ==
    /\ memory \in [Member -> Cycle] /\ stored \in Cycle /\ shown \in Cycle
    /\ queue \in [Member -> Seq(Cycle)] /\ terms \in Terms
    /\ running \in BOOLEAN /\ asked \in BOOLEAN
    /\ open \subseteq [order : Order, id : 1..MaxId]
    /\ history \subseteq [order : Order, id : 1..MaxId, result : {"WIN", "LOSS", "DRAW"}]
    /\ ids \in 0..MaxId /\ turns \in 0..MaxTurn /\ waived \in BOOLEAN

MoneyInit ==
    /\ memory = [m \in Member |-> Nothing]
    /\ stored = Nothing /\ shown = Nothing
    /\ queue = [m \in Member |-> <<>>]
    /\ terms = 1 /\ running = FALSE /\ asked = FALSE
    /\ open = {} /\ history = {} /\ ids = 0 /\ turns = 0 /\ waived = FALSE

Turn == turns < MaxTurn /\ turns' = turns + 1 /\ UNCHANGED waived

----------------------------------------------------------------------------
(* masaniello.py *)

Active(c) == c.status = "active"

\* Mutant: equal revisions do not ask who is closed.
PickFreshestById(a, b) == IF b.id > a.id THEN b ELSE a

\* pick_freshest_cycle; ids grow with started_at.
PickFreshest(a, b) ==
    IF a.id # b.id THEN IF b.id > a.id THEN b ELSE a
    ELSE IF a.rev # b.rev THEN IF b.rev > a.rev THEN b ELSE a
    ELSE IF Active(a) /\ ~Active(b) THEN b ELSE a

NewCycle(id) ==
    [Nothing EXCEPT !.id = id, !.rev = 1, !.terms = terms, !.status = "active"]

MarkPending(c, o) == [c EXCEPT !.pending = o, !.unknown = FALSE, !.rev = @ + 1]

FlagUnknown(c, o) ==
    IF c.pending = o /\ ~c.unknown THEN [c EXCEPT !.unknown = TRUE, !.rev = @ + 1]
    ELSE c

Close(c, status) == [c EXCEPT !.status = status, !.rev = @ + 1]

HasOrder(c, o) == o \in c.booked

ApplyResult(c, o, result) ==
    IF HasOrder(c, o) THEN c
    ELSE LET won == IF result = "WIN" THEN c.won + 1 ELSE c.won
             lost == IF result = "LOSS" THEN c.lost + 1 ELSE c.lost
         IN [c EXCEPT !.booked = @ \union {o}, !.won = won, !.lost = lost,
                      !.pending = IF @ = o THEN 0 ELSE @, !.rev = @ + 1,
                      !.status = IF @ # "active" THEN @
                                 ELSE IF won >= W THEN "hit"
                                 ELSE IF lost > N - W THEN "bust" ELSE @]

\* _apply_masaniello_result: only an order of this plan.
ApplyOwn(c, trade) ==
    IF trade.id = c.id THEN ApplyResult(c, trade.order, trade.result) ELSE c

\* _repair_masaniello_cycle: the results of the history that a restored plan
\* lacks. A plan has one order in flight, so it lacks at most one.
Repaired(c) ==
    LET lacks == {t \in history : t.id = c.id /\ t.order \notin c.booked}
    IN IF lacks = {} THEN c ELSE ApplyOwn(c, CHOOSE t \in lacks : TRUE)

\* masaniello_begin_if_needed: a plan that can go on.
GoesOn(c, overdue) == Active(c) /\ c.terms = terms /\ (c.pending # 0 => ~overdue)

----------------------------------------------------------------------------
(* Copies *)

\* sync_masaniello_cycle_on_gateway.
Synced == PickFreshest(memory["gateway"], shown)

SaveLater(m, c) == queue' = [queue EXCEPT ![m] = Append(@, c)]
Calm(m) == Len(queue[m]) < 1
Holds(m, c) == memory' = [memory EXCEPT ![m] = c]

\* persist_robot in the runtime: the snapshot at once, the row later.
Works(c) == Holds("runtime", c) /\ shown' = c /\ SaveLater("runtime", c)

\* GET /robot/state.
GatewaySyncs ==
    /\ LET c == IF shown = Nothing THEN PickFreshest(memory["gateway"], stored)
                ELSE Synced
       IN c # memory["gateway"] /\ Holds("gateway", c)
    /\ UNCHANGED <<stored, shown, queue, terms, running, asked, open, history, ids, turns, waived>>

\* Any of the gateway's routes that saves the robot.
GatewayPersists ==
    /\ Calm("gateway") /\ Synced # stored
    /\ Holds("gateway", Synced) /\ SaveLater("gateway", Synced)
    /\ UNCHANGED <<stored, shown, terms, running, asked, open, history, ids, turns, waived>>

\* Mutant: the row is not looked at.
RowStoredBlindly(m) ==
    /\ queue[m] # <<>>
    /\ stored' = Head(queue[m])
    /\ queue' = [queue EXCEPT ![m] = Tail(@)]
    /\ UNCHANGED <<memory, shown, terms, running, asked, open, history, ids, turns, waived>>

\* _com_ciclo_mais_novo_do_banco and save_state.
RowStored(m) ==
    /\ queue[m] # <<>>
    /\ stored' = PickFreshest(Head(queue[m]), stored)
    /\ queue' = [queue EXCEPT ![m] = Tail(@)]
    /\ UNCHANGED <<memory, shown, terms, running, asked, open, history, ids, turns, waived>>

\* Ten minutes after the last one, with the panel's polls in between.
ShownExpires ==
    /\ ~running /\ shown # Nothing /\ Turn
    /\ Synced = memory["gateway"] /\ \A m \in Member : queue[m] = <<>>
    /\ shown' = Nothing
    /\ UNCHANGED <<memory, stored, queue, terms, running, asked, open, history, ids>>

\* restore: the row, completed from the history.
GatewayReloads ==
    /\ queue["gateway"] = <<>> /\ Turn
    /\ Holds("gateway", Repaired(stored))
    /\ UNCHANGED <<stored, shown, queue, terms, running, asked, open, history, ids>>

RuntimeReloads ==
    /\ queue["runtime"] = <<>> /\ Turn
    /\ Holds("runtime", Repaired(stored))
    /\ asked' = FALSE
    /\ UNCHANGED <<stored, shown, queue, terms, running, open, history, ids>>

----------------------------------------------------------------------------
(* The owner *)

ChangeSettings ==
    /\ ~running /\ ~asked /\ Turn
    /\ terms' \in Terms \ {terms}
    /\ UNCHANGED <<memory, stored, shown, queue, running, asked, open, history, ids>>

Opens == ids < MaxId /\ ids' = ids + 1 /\ waived' = FALSE

\* POST /robot/start; the runtime hears it once the row is written or the
\* wait for that is over.
PlanStarts ==
    /\ ~running /\ ~asked /\ Calm("gateway")
    /\ \E overdue \in BOOLEAN :
        IF GoesOn(Synced, overdue) THEN Holds("gateway", Synced) /\ UNCHANGED <<ids, waived>>
        ELSE Opens /\ Holds("gateway", NewCycle(ids'))
    /\ shown' = memory'["gateway"] /\ SaveLater("gateway", memory'["gateway"])
    /\ asked' = TRUE
    /\ UNCHANGED <<stored, terms, running, open, history, turns>>

\* _hydrate_user_from_persistence, then _begin_masaniello_cycle.
RuntimeStarts ==
    /\ asked /\ Calm("runtime")
    /\ asked' = FALSE /\ running' = TRUE
    /\ LET mine == PickFreshest(Repaired(stored), memory["runtime"])
       IN \E overdue \in BOOLEAN :
           IF GoesOn(mine, overdue)
           THEN Holds("runtime", mine) /\ UNCHANGED <<shown, queue, ids, waived>>
           ELSE Opens /\ Works(NewCycle(ids'))
    /\ UNCHANGED <<stored, terms, open, history, turns>>

RobotStops ==
    /\ running
    /\ running' = FALSE
    /\ UNCHANGED <<memory, stored, shown, queue, terms, asked, open, history, ids, turns, waived>>

\* POST /robot/masaniello/end-cycle: the runtime is not told.
EndCycle ==
    /\ ~running /\ ~asked /\ Calm("gateway") /\ Active(Synced)
    /\ Holds("gateway", Close(Synced, "abandoned"))
    /\ SaveLater("gateway", memory'["gateway"])
    /\ shown' = memory'["gateway"]
    /\ waived' = (waived \/ Synced.pending # 0)
    /\ UNCHANGED <<stored, terms, running, asked, open, history, ids, turns>>

----------------------------------------------------------------------------
(* The robot *)

Mine == memory["runtime"]
Unsent(o) == \A t \in open \union {[order |-> h.order, id |-> h.id] : h \in history} :
                t.order # o

\* masaniello_next_order, the order itself, record_trade.
SendOrder(o) ==
    /\ running /\ Calm("runtime") /\ Active(Mine) /\ Mine.pending = 0 /\ Unsent(o)
    /\ open' = open \union {[order |-> o, id |-> Mine.id]}
    /\ Works(MarkPending(Mine, o))
    /\ waived' = FALSE
    /\ UNCHANGED <<stored, terms, running, asked, history, ids, turns>>

\* masaniello_next_order without the money for the smallest order.
NoCapital ==
    /\ running /\ Calm("runtime") /\ Active(Mine) /\ Mine.pending = 0
    /\ Works(Close(Mine, "bust"))
    /\ running' = FALSE
    /\ UNCHANGED <<stored, terms, asked, open, history, ids, turns, waived>>

\* masaniello_cycle_gate: a result too long in coming stops the robot.
PendingOverdue ==
    /\ running /\ Calm("runtime") /\ Active(Mine) /\ Mine.pending # 0
    /\ Works(Mine)
    /\ running' = FALSE
    /\ UNCHANGED <<stored, terms, asked, open, history, ids, turns, waived>>

\* timeout_trade.
ResultTimesOut(t) ==
    /\ t \in open /\ Calm("runtime")
    /\ FlagUnknown(Mine, t.order) # Mine
    /\ Works(FlagUnknown(Mine, t.order))
    /\ UNCHANGED <<stored, terms, running, asked, open, history, ids, turns, waived>>

\* finish_trade and count_late_result.
ResultArrives(t, result) ==
    /\ t \in open /\ Calm("runtime")
    /\ open' = open \ {t}
    /\ LET trade == [order |-> t.order, id |-> t.id, result |-> result]
           c == ApplyOwn(Mine, trade)
       IN /\ history' = history \union {trade}
          /\ Works(c)
          /\ running' = (running /\ ~(c.status \in {"hit", "bust"}))
    /\ UNCHANGED <<stored, terms, asked, ids, turns, waived>>

MoneyNext ==
    \/ GatewaySyncs \/ GatewayPersists \/ \E m \in Member : RowStored(m)
    \/ ShownExpires \/ GatewayReloads \/ RuntimeReloads
    \/ ChangeSettings \/ PlanStarts \/ RuntimeStarts \/ RobotStops \/ EndCycle
    \/ NoCapital \/ PendingOverdue
    \/ \E o \in Order : SendOrder(o)
    \/ \E t \in open : \/ ResultTimesOut(t)
                       \/ \E r \in {"WIN", "LOSS", "DRAW"} : ResultArrives(t, r)

MoneySpec == MoneyInit /\ [][MoneyNext]_planVars

----------------------------------------------------------------------------
(* Properties *)

\* The copy that every other one yields to.
Freshest ==
    LET copies == {memory["gateway"], memory["runtime"], stored, shown}
                  \union {Head(queue[m]) : m \in {n \in Member : queue[n] # <<>>}}
        first(c) == \A d \in copies : PickFreshest(c, d) = c
    IN IF first(memory["runtime"]) THEN memory["runtime"]
       ELSE CHOOSE c \in copies : first(c)

AsPlan(c) ==
    [id |-> c.id, terms |-> c.terms, status |-> IF Active(c) THEN "active" ELSE "ended",
     pending |-> c.pending, booked |-> c.booked, won |-> c.won, lost |-> c.lost]

Plan == INSTANCE MasanielloPlan WITH plan <- AsPlan(Freshest)

\* The freshest copy keeps what MasanielloPlan promises: no copy that lags
\* behind, in the row, in Redis or in a process that restarted, takes a
\* result back, books one twice or puts a second order beside the first.
KeepsPlan == Plan!PlanSpec

\* The next order's amount rests on all that came before: a plan that may
\* still stake has every result of its orders and no order open that it does
\* not know of.
StakeFounded ==
    Active(Mine) /\ running =>
        /\ {h.order : h \in {t \in history : t.id = Mine.id}} = Mine.booked
        /\ {t.order : t \in {u \in open : u.id = Mine.id}} = {Mine.pending} \ {0}

\* "o proximo Iniciar abre um novo" (POST /robot/masaniello/end-cycle) and
\* "nao se reabre ciclo encerrado" (pick_freshest_cycle).
GivenUpStays ==
    [][Freshest.status = "abandoned" /\ Freshest.id = Freshest'.id
           => Freshest'.status # "active"]_planVars
=============================================================================
