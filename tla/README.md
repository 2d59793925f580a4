# A verification development for El Capo

TLA+ models of the trading robot of this repository, the TLC configurations that
check them, and proofs about them. El Capo trades binary options for many users:
a gateway (FastAPI) and a runtime process keep one robot per user, which looks for
a signal, sends an order to the broker through a second service, waits for its
result, may send a martingale step ("gale") after a loss, and keeps a score
("placar") of wins and losses that the user, the stop rules and the history rely
on. The hard part is that nothing has a single owner: one order passes through a
worker, a broker, a monitor, two tables, a timeout, a reconciliation and an orphan
scan, in any order, and has to be counted exactly once; and the score, the switch,
the money plan and the account each live in several copies, in processes that die,
miss commands and share no lock.

Paths are relative to `src/backend/backend/` unless they start with `src/`.
`PROJECT.json` has the same facts for tools: the components, the runs, the mutant
that shows each property can fail, the source lines of every definition, the
findings, the hazards, the theorems.

## 1. Inventory

### The robot

- **AutoTrader** (`auto_trader.py`). State: one `RobotState` per user (enabled,
  status, operation_in_progress, pending_signal, last_trade, the martingale
  context, score, money) and the closed order ids. All methods are synchronous, so
  each is atomic on the event loop. Correct when an order is counted once, a lost
  leg is counted by whoever ends its cycle, and an open operation is always one
  pending, unclosed order.
- **Worker and cycle** (`main.py` `robot_worker`, `execute_robot_cycle`). One task
  per user: recycles a shown result or a stale operation, checks stop and link,
  scans the market, waits for the window of the next candle, confirms and sends up
  to three candidates under `cycle_lock`, records. Hard: everything may happen
  during its awaits, the candle goes on meanwhile, and the tick may be cut short.
- **Result monitor** (`trade_result_monitor.py`) and **result handlers** (`main.py`).
  One task per order; its end is written to robot, history and mirror, in three
  cases (the cycle's result, a leg whose cycle goes on, a late result), called by
  monitor, reconciliation and orphan scan. Correct when every order ends once.
- **Start, stop, disconnect** (`main.py`, `robot_runtime_main.py`), which differ in
  the embedded process and in the runtime. Correct when a stop holds, a start takes
  and an exit lasts.
- **Robot runtime process** (`robot_runtime_main.py`). Restores the robots at boot,
  scans for orphans, resumes robots that were on, obeys commands. Hard: it dies at
  any point, and does not hear what is said meanwhile.
- **Gateway bus, snapshots, score protection** (`robot_bus.py`, `main.py`). Commands
  over Redis pub/sub, snapshots that expire, marks (score authority, manual
  disconnection, deleted orders). Correct when a copy that is behind never
  replaces the newer one.
- **Persistence** (`robot_persistence.py`, `persist_robot`). `robot_states`, the
  mirror `robot_trades`, `robot_trade_history`. Eight threads write, one at a time
  per user but in any order: a `threading.Lock` is not fair, although the comment at
  `main.py:11486` counts on the order of submission.
- **Strategies and gates** (`signal_engine.py`, `reversion_strategy.py`,
  `vertex_strategy.py`, `sr_level_trade.py`, `live_demo_mode.py`; the guards and gates of
  `main.py`). Four strategies and the LIVE mode judge a candle one after another, each
  with its scale and its floor; the verdict waits a candle in the robot's record, copied
  field by field, and is read again at the order. Hard: a mark that a copy loses changes
  the scale the entry is judged on. Correct when an order leaves on the word of the
  strategy that gave it, on a thesis that still holds, within the pace and the cap.
- **Score counter** (`placar_contador.py`, `migration_placar_contador.sql`). A
  bounded queue and a writer thread per process, four functions in the database, in
  a shadow phase beside the score (`PLACAR_CONTADOR` is `off` by default).
- **Masaniello** (`masaniello.py`). A stake plan with a revision number, in the
  memory of two processes, a row and a snapshot. Correct when one result is applied
  once and no copy takes it back.

### The broker

- **Broker service** (`src/backend/bullex_service`). One session per user behind
  HTTP: login with codes and retries, a token on disk, restore and reconnection,
  cooldowns and backoffs, cached answers, a semaphore for everybody. Correct when a
  transient failure never costs the login, an exit leaves nothing, no socket leaks,
  the gate never fills with those who wait for it.
- **Client library** (`src/backend/bullexapi`). Vendored websocket client: `buy`
  waits for messages of which one names no request; a closing is pushed once.

### The platform

- **Administration and finance** (`finance_service.py`, `admin_service.py`). The
  provider's events give, keep and take access, each in several requests, any number
  of times; operators approve leads; trials end. Correct when access follows the
  payment in the end.
- **Webhooks and e-mail** (`webhook_service.py`, `email_service.py`, `workers/`). An
  outbox, Celery tasks with late acknowledgement, retries, a manual replay. Correct
  when a delivery ends, and is final.
- **Clients' access** (`admin_router.py`, `admin_service.py`, `auth_service.py`). The
  row of a client, and three caches the gateway answers from, filled in several requests.
  Correct when who lost access is not let in for longer than a copy lives.

### Around it

**Pattern memory** (`pattern_memory.py`): statistics over closed trades that veto a signal,
in a row per client and one for all, in two processes; correct when a veto rests on results
that happened. Marketing simulation: synthetic history. Panel websocket, web panel:
request-by-request reads and writes, no influence on the life of an order.

### Who calls whom

    panel --HTTP--> gateway --Redis command--> runtime --snapshot--> Redis --> panel
    worker --submit--> broker service --order id--> worker: record_trade, monitor.start
    monitor --poll--> broker service; monitor --> finish_monitored_trade | timeout
    handlers --> AutoTrader (memory) --> history, then mirror --> persist_robot
    persist_robot --> executor thread --> robot_states, mirror (last_trade as it was)
    orphan scan --> mirror (pending rows) + history --> broker --> handlers
    boot --> robot_states + history + mirror --> AutoTrader.restore --> orphan scan
    AutoTrader --> score counter queue --> writer thread --> database functions
    Cakto --> finance --> profile, ledger, revenue, outbox --> Celery --> webhook, e-mail

`cycle_lock` serialises worker cycles and results of one user; timeouts take another
lock, stop and disconnect none of the two; nothing serialises gateway and runtime.

## 2. Modules

| module | models |
|---|---|
| `AutoTrader` | the robot record and the methods of class AutoTrader, as operators from a record to a record |
| `RobotOrders` | the handlers around it as actions of one user: worker, broker, monitor, orphan scan, user |
| `RobotRestart` | the rows that survive the process, their delayed writes, death, restore, orphan scan with what it read |
| `EntryCycle` | when the robot buys: ticks, scan, window, candidates, send second, attempts, gale flag, against the clock |
| `EntryGates` | what the robot buys: the strategies' verdict, the record that keeps it, the gates, the reading at the order |
| `ScoreCounter` | the score counter: queues, writers, database functions |
| `BrokerSession` | the session of one user in the broker service |
| `BuyOrder` | one entry through gateway, service and library, with retries and late messages |
| `OrderResult` | how the outcome of an order comes back |
| `CallGate` | the semaphore of the broker service |
| `AccountLink` | connect, disconnect and the automatic reconnections of two processes |
| `RobotSwitch` | the robot's switch in its four copies |
| `Masaniello`, `MasanielloPlan` | the money plan in its copies; what they promise together |
| `ScoreCopies` | the session's score in its four copies: results, deletions, resets, restarts |
| `DeletedTrade` | a deleted order, its tombstone and the writes that still hold it |
| `Delivery` | an event of the outbox on one channel |
| `Purchase` | a buyer's access under the provider's events, an operator and a trial |
| `ClientAccess` | a client's access under operators, payments and trials, and the copies it is answered from |
| `PatternMemory` | one pattern's losses in two processes and the rows, and the veto they found |
| `MC...` | instances for TLC |
| `AutoTraderLemmas`, `..._proofs` | lemmas and proofs (section 5) |

### AutoTrader

The robot record holds what decides an order's life. `last` is `last_trade` (id,
result, martingale step); result `"LEG"` is a LOSS whose `cycle_result` is None.
`signal` is the step the pending signal names (-1: no signal). `set_order_attempt` stores
the signal anew before every submission, without the fields of the step, so
`SetPendingSignal` makes it 0, and an order goes out as a step when the flag is set,
recorded as step 1 (`SentStep`, finding 2). `galePending`, `galeParent`,
`chain` are the martingale context: the flag, the lost leg, the orders summed in
`gale_chain_profit`. `galeOrigin` is `gale_original_order_id`; it outlives its
cycle, so a plain order after a martingale cycle is recorded with a stale parent;
the proof shows this is harmless to the score (`OriginSound`). `completed` is
`_completed_order_ids`. Amounts are left out (`paid` counts how often the own money
of an order is in `profit`); the score is kept per order, the code's counters being
sums; stops are in operations mode; panel fields and LIVE display are left out.

### RobotOrders

`robot`, `mirror`, `history`, `broker` (each order: idle, open, or its result), `monitor`
(live monitor tasks), `call` (the submission being awaited: a held `cycle_lock`), and the
history variables `timedOut` and `parent`, the lost leg an order was sent for. (The rows'
`parent_order_id` is `gale_original_order_id` for every order, stale or not;
`RobotRestart`, where a restart reads it, has that column.)
One action per handler or, where a handler awaits, one before and one after:
`BeginSend`, `BrokerAccepts`, `OrderRecorded`. The loop over candidates is one
submission here (`EntryCycle` and `BuyOrder` have it in full). `RecoverAnalysisError` and
`RealLocked` end a tick between two orders: the signal goes, the flag and the leg stay, and
the next signal is sent as the step. `StartLocked` is the same out of a second
POST /robot/start, which the embedded process does not refuse before it touches the robot.
`Events` is the set of disturbances of a run, `Worker` tells the runtime process from the
embedded one.

### RobotRestart

Beyond the robot: `jobs` (writes of `persist_robot` not yet begun), `writing` (the one
that holds the user's lock, between its steps: state, decision of
`_trade_for_mirror`, trade), `scan` (rows still to do, the order whose answer is
awaited, the final rows read once), `saved`, `mirror`, `parent`, `history` (durable),
`broker`. Signal, submission and recording are one step; `TickDropsSignal` is the tick
that loses a leg's signal and keeps the leg. `Crash` clears the volatile
part at any point, `CrashInFinish` between history and mirror; `Boot` restores and
starts the boot scan, for whose end the worker waits. An order the broker closed with
nobody listening is `gone`, later `old` (`STALE_PENDING_LAST_TRADE_SECONDS`, also past
the hour after which the scan gives up). Writes that a result needs have room of
their own (`ResultRoom`), so the bound never blocks a result.

### EntryCycle

`clock` counts the broker's time, three parts to a candle: the window in which an
entry is authorised, the seconds in which it may still be sent and analysis is due,
the rest. One action per await of the tick: scan, confirmation, POST; `ClockAdvances`
may fall in each of them, and a scan or POST may last until the 110 s timeout cuts
the tick short (`CycleTimesOut`). What the market says is a choice. `past` is the
history of the signal in hand, `sent` the order just sent with the time its window
was read. Assumed: the calls between reading the window and the first POST are
shorter than the rest of a candle.

### EntryGates

A `Reading` is what the strategies make of one asset's candles, by classes: the classic
confidence with penalties and filters, an extreme of REV-Z or VERTEX, a level, OTC or
open market. `Analysed` is the chain of `analyze_signal` (`Classic`, `ApplyRevz`,
`ApplyVertex`, `ApplyLevel`, `ApplyLive`), `Judged` what the guards leave of it. `Floor`
and `MeetsFloor` are `candidate_meets_cycle_threshold`, with a case for each strategy;
`CopyFields` is the field list of `set_pending_signal`; `Agrees` is the reading of the
candle just closed (`confirm_revz_before_entry`, `revalidate_level_before_entry`).
`pending` is the waiting signal: `mark` is the strategy the record tells of, `of` the one
that gave it, `revz` REV-Z's verdict, which stays in the record when a level takes over. `saved` is the row, which holds the whole record, `line` the candidates
left, `levelLog` the hour's entries at a level (memory only), `dry` the drought,
`lastEntry` the age of the last order in candles. `onAir`, `reread`, `heard`, `levels`,
`bootAge` are history. `TickCut` is a tick that its timeout ended; `RunEnds` closes the
operation or sends its gale, which passes no gate; `Toggle` is the switch of LIVE;
`Restart` empties what only memory holds. The robot stays on, a tick stays in its candle
(`EntryCycle` has the clock), and a second candidate is any verdict of the same scan.

### ScoreCounter

`live` (the robot's score), `orders` (what became of each), `openLeg`, `resets`, and per
process `queue`, `busy`, `tries`, `off`; `db` holds the two tables. A failed write may
or may not have been done by the database. A restart is taken to restore the live
score exactly.

### BrokerSession, BuyOrder, OrderResult, CallGate

`BrokerSession` is `SessionManager` for one user. What holds the user's lock is one
action, except a login, which waits for the broker with the lock held (`call`). Clock
marks (`offline`, `backoff`, `status`, `cooldown`) are booleans an action turns off.
History: `wanted` (the account of the last completed login), `left`, and the three
known leaks `leaked` (a failed `_attempt_reconnect` leaves its socket), `late`
(GET /account stores after the lock), `refused`. `BuyOrder` follows `buy_real` and
`buy_digital` through the library's wait for a message that names no request and one
that does; a POST the gateway gave up goes on in the service. `OrderResult` has the
push to the socket of the moment, what a new session inherits, and the lookup in the
list of closed options. `CallGate` has users, permits and the login that passes twice.

### AccountLink, RobotSwitch, Masaniello, ScoreCopies, DeletedTrade

All have the gateway and the runtime as two processes and what lies between them.
`AccountLink`: the mark in Redis with a mirror per process, the token at the broker
service, the saved password; each process's automatic reconnection and the routes
`/bullex/connect` and `/bullex/disconnect` are one step per call they await.
`RobotSwitch`: `enabled` in two memories, the row, the snapshot, the bus, the boot of
the runtime in its steps. `Masaniello`: the plan in two memories, the row, the
snapshot and the queue of writes; a plan is its id, settings, revision, status,
pending order and booked results; a write's read, comparison and save is one step.
`MasanielloPlan` has one plan and no copies; `waived` is a plan its owner gave up with an
order in flight, and `Return` what the copies then may do: the plan comes back when that
result is booked, or when a gateway that restarts repairs the abandoned copy. `ScoreCopies`: a score is its number of
results; the score authority with its negative cache; deletion and reset with what
they write, publish and send; writes in any order. `DeletedTrade`: one order, the
deletion in its steps beside the runtime's writes, its restart, the tombstone.

### Delivery, Purchase

`Delivery`: `outgoing` is the row of `webhook_deliveries` or `email_deliveries`; `hand`
has everybody who may hold a copy of it (two tasks, the operator's replay, the attempt
without Celery, the listing that marks orphans), each through read, answer, save, end;
`call` is `queue_event_deliveries`. A task that dies is queued again
(`task_acks_late`). `Purchase`: `handling` has two handlers of `process_cakto_event`,
one step per request they make; `profile`, `ledger`, `revenue`, `outbox` are the rows;
`resends` and `fails` count repeated deliveries and failed handlers; `seen` and `trial` the operator and the end of a trial. "pix", "bought" and "refunded"
stand for the pending, approved and revoking classes of events. The second lookup of an
unknown buyer, by billing reference, can with one buyer only find what the first would have
found had it come later; it is no step of its own (`EventArrives`).

### ClientAccess, PatternMemory

`ClientAccess`: `row` and `user` are the client's profile and user in Auth; `desk` has the
operators' requests (create, register, update, approve, delete), one step per request they
make to the database; `key` is the copy that is followed: the authenticated user of a token
(45 s), a page of the list (20 s), the dashboard (75 s, refilled by a task). `entry` is that
copy, `fill` the requests that may fill it, each between what it read and what it stores.
`owed` and `lostFor` are history. `PatternMemory`: `lost` and `deleted` are what
`record_outcome` and `forget_outcome` were told of, `page` the rows, `book` the pages of each
process, `sends` the absolute upserts the runtime has still to make, `up` how far a starting
process is with its sum over the clients' rows; a request may fail.

## 3. Runs

| run | instance | checks |
|---|---|---|
| `orders_gale` | embedded, 3 orders, 1 step, both stops at 2, every disturbance (exceptions and locks of real trading too) | counted once; the history agrees with the score; the inductive invariant (types, open order, pending leg, ...) |
| `orders_quiet` | runtime, 4 orders, 2 steps; refused, invalid and expired orders, exceptions, locks | one live order; the whole sequence is paid once |
| `orders_worker` | runtime, 3 orders, stop loss 2; stops, stale recycles, timeouts, exceptions, locks | a lost leg is followed by its step or counted |
| `counter_one` | one process, 2 orders, 1 reset, queue 3, 2 attempts | what the counter has and what waits for it is the score; the queue drains |
| `restart` | 2 orders, 1 step, stop loss 2, WIN, LOSS and lost answers, 1 death | the restored score agrees with the history; the robot waits only for an order without a result; every order leaves PENDING in the mirror for good |
| `broker` | see bounds | the session, the purchase, the result, the gate, the entry, the verdict |
| `gateway` | see bounds | account, switch, money plan (refinement), deliveries |
| `rows` | see bounds | score copies, deletion, purchases, access of clients, pattern memory |
| `timeout_recount` | 2 orders, timeouts | finding 1 |
| `gale_doubled` | runtime, 4 orders, 2 steps, no disturbance | finding 2 |
| `digital_twice` | a cycle's purchase on both channels | finding 3 |
| `cycle_reopened` | the money plan | finding 4 |

`broker`, `gateway` and `rows` each hold several modules that share no variable; a
behaviour follows one of them (`focus`, chosen in `Init`) and the others rest: the
states are added, not multiplied, and each part is checked in full.

Deadlock is checked in the counter run. In the others it is off, because orders,
clicks, events are finite and the system comes to rest when they are used up.

**Bounds.**
Orders: an order meets at most two others, the leg before it and the order that took
its place after a stale recycle. Three make every such triple; four make a sequence of
two steps and a plain order after it, or, by finding 2, a sequence of three. `MaxScore`
caps the recounts of finding 1.
Restart: two orders and one death suffice for a leg and its step and for a result
dropped while another leg waits; `MaxJobs` = 1 lets one write wait while the worker
goes on, and up to two more with results, enough for two writes to swap; a DRAW, which
changes nothing a restart restores, is left out.
Counter: 2 attempts and a queue of 3 where the code has 4 and 10,000: success, failure
with and without effect, last failure, full queue.
Broker: 4 client objects (a live one, one each for two attempts, one to restore), 2
accounts, 2 faults; 4 candidates (one more than `MAX_ORDER_ATTEMPTS_PER_CYCLE`), 2
cycles, 2 silences; 2 orders, 2 outages; 3 users, one that passes twice, 2 permits; 5
candles (scan, window, a leg, its window, the next), 2 candidates, 2 mishaps; a minimum
of 75, the top of REV-Z's scale, so that its signals can meet a level at the order (the
default is 80, the panel allows 0 to 100), a spacing of 3 candles (180 s in M1), an
hour of 4 candles with one level entry (60 and 3 in the code) and one restart, a drought
after one candle (2 in the code).
Gateway: 3 mishaps (a lost command, a restart and a failed call together); 4 clicks and
2 deaths; 2 orders of a plan with 3 orders and 2 wins, 2 settings, 2 plans, 1 turn; 2
tries (`MAX_ATTEMPTS` is 6), 2 queueings, 1 trouble.
Rows: score up to 2, 2 waiting writes, 3 events; 2 waiting writes, 1 restart; 2 handlers
at a time, 1 repetition or failure. Access: 1 operator's request at a time, 2 of them, 1
write of a payment or trial or failed request; the times to live are 1 for token and page
and 2 for the dashboard, of which only the order matters. Patterns: 2 clients, 2 results
before a veto (12 in the code), 3 losses, 2 starts, 1 failed request: a pattern may
be vetoed, lose a result and be restored.

**Symmetry** is used in safety runs only (orders and handlers are interchangeable).

**Fairness** is stated in five places. ScoreCounter: the writer thread runs, and a
request has a time limit. RobotRestart: threads and tasks run; the process manager
starts the process again; the scan is periodic; `cycle_lock` is a FIFO `asyncio.Lock`,
so a result that waits for it gets it (strong fairness of `MonitorFinish`,
`ScanFinish`); the candle of a signal passes; the broker closes an order, and one
nobody heard of grows old. MCBroker: a call to the broker ends (it has a timeout);
clock marks expire; the panel's poll and the next use of a session come; a result is
polled for. MCGateway: the runtime boots and reads its bus; a route that was entered
ends; row writes are made; queueing goes on and a Celery worker takes its tasks. No
fairness is assumed of worker, crash, user, operator or provider.

### What the properties are after

- `CountedOnce`, `LegFollowed`, `IndInv`: "one point per cycle". A lost leg is closed
  but uncounted: every path that ends a cycle has to count it, none may when its step
  was sent.
- `HistoryAgrees`: score and history are written in different places by four callers, and
  must tell the same.
- `OneLiveOrder`, `SequencePaid`: the robot of the runtime process, as long as nothing makes
  it forget an order. They are checked, and proved, without the user's stop or
  disconnection, stale recycles, timeouts of orders or cycle and lost answers: after those
  an abandoned submission may live at the broker unknown to the robot (`BuyOrder` follows
  it there), and a stop forgets earlier losses of a sequence (section 6).
- `ScoreFromHistory`, `WaitsForOpenOrder`: what a restart rebuilds. LOSS rows may count
  more than once because of finding 1 and of the waiting leg (section 6); nothing else.
- `MirrorSettles` needs the guards together: writes overtake each other, and the scan's
  TIMEOUT is rewritten by each persist of a stale pending `last_trade`, until the
  two-hour guard of `_trade_for_mirror` stops it. The one exception is a lost leg whose
  signal is gone while no other signal comes: for as long as a leg waits, the late result
  of another order is not saved (`LegWithoutSignal`).
- `EntryInTime`, `LegOwnSignal`: an order leaves in the candle that authorised it, and a
  doubled stake only for the leg's own signal, through retries, exceptions and timeouts.
- `VerdictKept`: a signal that passes under the strategy that gave it passes as the record
  tells it, through copies, a changed chart, a cut tick and a restart (VERTEX's mark is
  the one exception, section 6). `ThesisHolds`: what the order rests on was read on the
  candle that closed. `PaceKept`: LIVE's spacing and the hour's cap of level entries,
  through gales and restarts. An order the robot was not told of counts for neither.
- `StaysOut`, `TokenSurvives`, `AccountOfThisLogin`, `Recovers`: the session between a user
  who leaves and failures that must not look like it.
- `FollowedIsMine`, `OneTurboOrder`: the order the robot follows is its own, and a
  purchase is sent again only when the one before was refused.
- `ExitLasts`, `StopHolds`, `StartTakes`: the user's last word, with lost commands and
  deaths. The exceptions they name (`loose`, `deaf`, `crossed`, `overtaken`) are the races
  the code leaves open (section 6).
- `KeepsPlan` (refinement), `StakeFounded`: many copies, one plan. A plan given up with an
  order in flight may come back without that order's result (`Return`): the gateway's reload
  repairs the abandoned copy, and an end of it that follows leaves the plan active. The
  refinement without `Return` held with one restart and failed with two; the proof met it.
- `ScoreShown`, `DeletedStays`: a decrease survives copies that prefer the larger.
- `DeliverySettles`, `DeliveredIsFinal`: an attempt that is owed is made; what is done
  stays done.
- `AccessFollowsPayment`, `PurchaseIsWhole`: whatever crosses, fails or repeats.
- `ChangesArrive`: no copy lets a client in for longer than it lives after access was lost,
  and a change that an operator's route announced is what every copy shows, but for a
  request that had read the row before.
- `VetoFounded`: a veto rests on results that happened and are still there, each counted
  once, although two processes write absolute counts and start by adding up the rows.
- `CounterFounded`: what the counter's tables have, with what waits in queue and writer
  applied to it, is the robot's score, however often an answer is lost and a write repeated;
  for deletions of trades that were counted (section 6 says what the others do).

Where a property has an exception, the exception is a history variable that marks the
race by what happened (not by its effect), so the property still excludes every other
way to the same end, and the mutants show that it does.

## 4. Findings

1. `timeout_recount`: a TIMEOUT that turns out to be a LOSS with a step left is counted
   again at every reconciliation (`auto_trader.py:3556`).
2. `gale_doubled`: with two or more steps configured the stake is doubled after every loss
   until a win, a draw or a stop. `set_order_attempt` (`main.py:15301`) rebuilds the
   pending signal without `is_gale`, `gale_step`, `gale_amount` and `parent_order_id`, so
   every step is recorded as step 1 (`main.py:15774`) and `finish_trade` always sees one
   more allowed. `src/backend/tests/test_gale_multi_step.py:1` promises "exatamente o que
   foi configurado"; its cases copy the lost fields by hand. With one step, as by default,
   the doubling ends.
3. `digital_twice`: POST /orders/buy-digital keeps the 5 s timeout of any call; the
   gateway gives up, the order opens, and the next candidate's is a second real order of
   one signal (`main.py:4969`).
4. `cycle_reopened`: a plan its owner gave up is active again after the late result of
   its last order (`main.py:17954`).

## 5. Proofs

TLAPS proves the theorems of `PROJECT.json` for every value of the constants, from the named
assumptions of the modules alone (`OrderAssumption`, `GaleAssumption`, `TTLAssumption`,
`PlanAssumption`, ...: an order is not `NoOrder`, a bound is a natural number, fewer users log
in anew than permits, the sets of clients, of the counter's and of a plan's orders are finite; TLC evaluates each of them). Every
safety property that the passing runs check has one; what is left to TLC is named at the end.
An invariant is seldom inductive; what had to be added says why the code is right.

- `RobotOrders_proofs` (`AutoTraderLemmas`). `IndInv`, and from it types, `OpenOrderSound`,
  `PendingLegSound`, `CountedOnce`. It adds `LastTradeSound` (a TIMEOUT `last_trade` was given
  up); `LegContext` (a waiting leg is `last_trade` and nobody's parent yet; its signal may
  be gone, but no step's signal is there without the leg); `CallSound` (what is submitted
  while a leg waits is that leg's step, whatever signal it came from), `IdleIsUnknown` (an
  order accepted but not recorded is unknown to robot, monitor and score); `OriginSound` (the stale
  `gale_original_order_id` is closed and uncounted); `ScoreSound` (only closed orders are in
  the score). The lemmas say what each method does to a well-typed record (*quiet*, *at
  rest*, *closes a leg* or an order), so the step proofs need no definition of AutoTrader.
  On `IndInv` stand four more:
  - `HistoryAgrees`, by `HistInv`: a timed-out or dropped order is the only unfinished one.
  - `OneLiveOrder`, for the runtime process without the disturbances that make the program
    forget an order, by `LiveInv`: a live order is the robot's open operation, its monitor's or the submission's.
  - `LegFollowed`, for the runtime process under stops, stale recycles, timeouts of orders
    and of the cycle, exceptions and locks, by `FollowInv`: only a sent and recorded order has a parent, and what is submitted while a
    leg waits is that leg's step.
  - `SequencePaid`, for the runtime process under refused, insufficient, expired and invalid
    orders, exceptions and locks, by `PaidInv`: while a sequence is under way `gale_chain_profit` holds its closed orders,
    unpaid, from the last down to the first; otherwise the first is paid. A sequence is defined as a closure over parents, so it needs no recursion.
- `RobotRestart_proofs`: `ScoreFromHistory`, `WaitsForOpenOrder`, types. `RestartInv` says
  what each copy of the robot must be against history and broker: in memory, in a waiting
  write, in the write under way, in the row. A restart may take any of them.
- `Broker_proofs`, the entry: `EntryInTime`, `LegOwnSignal` by `EntryInv` (what the tick read, where the
  clock may be since, what flag and signal mean at each stage); `VerdictKept`, `ThesisHolds`,
  `PaceKept` by `GatesInv`: what waits or is about to leave was told by the strategy
  it tells of (`AllTold`), LIVE's gate left the spacing (`PaceRight`), an entry that a level
  took over has room in the hour (`RoomLeft`), and what a restart forgot was within the cap
  too (`LogRight`). Two
  defects of an earlier form of the model came out here: a REV-Z verdict whose mark was lost
  when a level took the record over, and a CASE whose conditions overlapped.
- `Broker_proofs`, the broker: the session's types, `StaysOut`, `TokenSurvives`, `AccountOfThisLogin`, and
  beyond the runs `NoHalfSession` and `SocketsAccounted` (no socket is open but the session's,
  a login's and the known leaks), by `SessInv`: the login under way holds what its two halves
  need; token, session and `wanted` agree. `GateMoves`, by counting: fewer who hold one permit
  and wait for a second than permits. `FollowedIsMine` and `OneTurboOrder`, by `BuyInv`: of
  the calls in the service only the last is waited for, and what is on the way or in the slot
  answers the head of the queue. `BrokerTypeOK`, from the invariants of the six parts.
- `Gateway_proofs`: `ExitLasts` by `LinkInv` (after an exit that left nothing loose every
  reconnection under way carries nothing that could log in); `StopHolds` by `SwitchInv` (after a stop
  row and runtime are off, or a stop is on its way to them with no start behind it); `DeliveredIsFinal`, an action property, by
  `SendInv` (one hand holds the row, each on its channel, a mail is handed over once, nobody is
  about to write over a delivered row);
  `StakeFounded` by `StakeInv`. A plan's copy may be behind in four places, and a copy that is behind still looks active,
  so it must yield to the runtime's copy or to the row; and a plan the runtime has not heard of
  has no order. `StakeInv`
  relates every copy to the runtime's, and that one to broker and history.
- `Rows_proofs`: `ScoreShown` by `ScoreInv` (under the mark whatever is read
  is what counts, without it no copy has more); `DeletedStays` by "tombstone before the mirror is cleaned";
  `AccessFollowsPayment` by `BuyerInv` and `PurchaseIsWhole` by `WholeInv` (what each handler
  knows and has done at each of its steps); `ChangesArrive` by `AccessInv` (a request
  that is still to store an access that is lost was called before the loss; what it holds is
  the row, or a change was announced meanwhile or is still owed);
  `VetoFounded` by `MemoryInv` (the clients' pages together, and the common page, are at most the
  losses that remain and the deletions that could not be undone, save for the upsert about to
  take one back).
  The sums over clients are taken by induction over the set of clients, from least members of
  sets of naturals, since the library's induction theorems cannot be instantiated.
  `RowsTypeOK` by `RowsInv`, which is all of these.
- `Plan_proofs`: the refinement `KeepsPlan`, by `PlanInv` on top of `StakeInv`. `KnownWell`
  says what a copy, wherever it is, knows of its orders: every result and the open one
  (`Full`), or all but the result it waits for (`Half`); an ended one lacks at most the result it
  was ended with (`EndedWell`) and has the runtime's wins and losses save for that one (`Counts`). `PlacesWell` says where copies may be: what the gateway
  holds against the row, what a write of a lost result carries, what a start took. Per action a
  lemma `...Keeps` proves `PlanInv'` and that the abstract plan stutters or takes one of its
  steps. `GatewayTypesKept`, by `GatewayInv`: the types of a step bound counters, and only what a
  counter still has coming bounds it. A delivery's attempts past `MaxTries` each use up one
  answer that is still owed or one failure that may still come (`AttemptsLeft`, `Roomy`); a
  plan's revision is bounded by what it booked and waits for (`Revisions`, `Bounded`), which
  holds only because the row lacks no result but the one it waits for (`RowLackless`).

- `Counter_proofs`: `CounterFounded`, by `CounterInv`. The tables as they will be, `Settled`,
  are a fold over the writes that wait; the proof makes the fold a function of the positions
  of the queue (`Folded`), and the sums over entries counts of wins and losses. `Account` says
  what a queue must be for the score to be what it will leave: each write is legal where it
  stands (`Ready`); a reset that waits closes what is before it, and a deletion is of an order
  out of the history (`Past`); the entries of the period tell of orders that stand (`Tells`);
  and every order the tables know as lost is in the score once (`Known`, `Counted`), which is
  what keeps a lost launch from putting the counter ahead. A write repeated changes nothing
  (`ApplyTwice`), a launch or seed lost leaves tables that lack entries but never have more
  (`Under`). The theorem is about deletions of trades with a launch of their own, as in the
  run: for the others section 6 says what the code does. `IsFiniteSet(Order)` is assumed,
  since the seed is the number of orders counted before.

**Only model-checked:** the liveness properties `QueueDrains`, `MirrorSettles`, `Recovers`,
`ResultTold`, `StartTakes`, `DeliverySettles`: fairness and ENABLED are out of TLAPS's reach.

## 6. What the models leave out, and what they show the code leaves open

### Races and deviations met on the way

They are exceptions of a property or assumptions of a module, with the line where they
come from.

*Orders and score.* A missed window or a rejected step drops a lost leg that
`close_abandoned_gale`'s docstring promises to count (`auto_trader.py:2906`, 3045). A
stop while a step is open clears `gale_chain_profit`, so the earlier losses of the
sequence are forgotten (`auto_trader.py:1909`). A restart while a lost leg waits for its
step counts the leg, and the step counts the cycle again; the middle leg of three is
counted after any restart, since the last one's row names the first as its parent. With
two processes a reset of the counter whose first try had been done loses a result on
retry; deleting a lost leg takes off a loss that was never added, and deleting a trade
that is only in the seed takes nothing off the counter. After
`recover_analysis_error_to_window` or `lock_real` the gale flag survives and the next
signal is sent as the step, with its amount and unconfirmed (`main.py:15932`, 14539; in
RobotOrders, RobotRestart and EntryCycle). POST /robot/start in the embedded process
does not ask whether the robot runs: while an operation is open it takes the lock's
path, else it starts anew and drops a waiting leg uncounted (`main.py:7433`, 17877). The
branch for an open window (`main.py:15148`) never looks at `target_entry_timestamp`: a
signal kept through a connection blip may be bought in a later candle. The check of the
send second is modulo the candle; a tick cut short while posting keeps its signal
without target, so an accepted entry may be sent again (bounded by the three attempts).
`ENTRY_SEND_TOO_LATE` reschedules after one second where its comment says next candle.

*Verdicts.* `docs/ESTRATEGIA_VERTEX.md:155` and the docstring of `vertex_min_confidence`
say that every VERTEX shot in OTC becomes an order, the rescaled minimum being in both
gates; `set_pending_signal` copies no `vertex`, so at the order the panel's minimum
applies (`auto_trader.py:2296`; only with `VERTEX_ENABLED`, off by default). A REV-Z entry
that turns into a level's at the order keeps REV-Z's confidence and is refused by the
level's floor. A signal that LIVE found goes out on LIVE's floor after LIVE was switched
off. A restart empties the log of level entries, as its comment accepts
(`sr_level_trade.py:483`): `PaceKept` allows twice the cap in that hour.

*Copies.* `_protect_session_score_on_persist` decides when the write is scheduled: a
late write can still lower the row (`main.py:11778`). A result counted while a deletion
or reset command is on its way is overwritten. A runtime that is reset does not write
the row; an old score returns with it once mark and snapshot are gone.
`_trade_for_mirror` checks, then saves: a deletion may fall between. The runtime's late
`enabled` write may undo a stop's; a stop may be lost between the restore and the
subscription of a booting runtime; a start and a stop may cross. A reconnection that
read the exit's mark before the exit was made logs the account in after it, against the
route's own comments (`main.py:6328`, 19019, 19043): the `loose` of `ExitLasts`. The
plan's write is check-then-act (`main.py:11687`).

*Broker.* `_attempt_reconnect` never closes the websocket of a failed attempt; GET /account
stores its snapshot after the lock; `connect_existing_2fa` has no clean-up; `buy` erases an
answer that came fast; with as many logins that re-confirm REAL as permits the gate blocks
itself (one permit in `.env copy.example:44`; `CallGate` assumes fewer).

*Platform.* An event that is handled again after a refund (provider's retry, `reconcile`,
whose docstring says "idempotente") gives access back; a refund of a trial that is
`not_required` is ignored; a pix whose row was read before the purchase takes a payer back;
`approve_lead` does not look at the payment and writes the whole row; two handlers of one
purchase, or one that died after the account, leave no first-access link; one that died
after the ledger loses the revenue row; a purchase after an administrator's deletion leaves
`deleted_at`. Finance and worker writes do not reach the authentication cache (it has a
TTL), and a revoked access does not stop a running robot (only requests are checked). A
replay or inline attempt that fails leaves RETRYING with no task behind it, although the
inline one is there "para não deixar status=pending eterno"; an error outside
`EmailDeliveryError` (an httpx timeout) ends the task with the row PENDING; the listing's
orphan mark may go over a delivery; `deliver_email` never looks whether it was delivered;
a task redelivered after FAILED tries once more.

*Access and patterns.* A request of `authenticate` that read the profile before an operator's
route emptied the cache stores it afterwards (one more lifetime of the copy); a route that
fails after it saved empties nothing. The upserts of pattern memory are absolute: a
process that starts before the other's are done overwrites a client's row with less, and a
deleted result comes back with the next sum over the rows, although
`docs/MEMORIA_PADROES.md:41` says "o histórico não se perde".

*Dead code met on the way:* the branch `if selected is None and False` (`main.py:14670`), the
SERVER_TIME_UNAVAILABLE branch (14557), the REAL check after `lock_real`, the begin branch of
`masaniello_cycle_gate`.

### Assumptions

Redis is up in ScoreCopies and DeletedTrade; the score's mark (120 s) outlasts the
decrease it is for, the snapshot (600 s) the mark, the tombstone (36 h) every write;
the gateway does not restart in the middle of a reset; a handler of the gateway reads
its copies in one step. A process that restarts has made or lost its waiting row
writes at once. No exception falls between the recording of an order and the end of its
tick. Delivery has one endpoint and calls of one event come one after
another; Purchase one buyer and one tenant.

### Not modelled

Amounts, payout and profit stops (float arithmetic); what a strategy reads in the candles
(indicators, floating point): RSI stands where REV-Z does, the named strategies where the
classic engine does; SR-R (`SR_ENABLED`, off by default); how a pattern's key is made,
its decay and the personal mode; LIVE's wording and expiry; the marketing simulation; resets of the score in RobotOrders; failed reads of the database in
RobotRestart; several users beside the gate (nothing of one user's robot reads
another's); the vendored library beyond `buy`, results and the socket; plans, metrics,
administrators' CRUD; templates and the Storage fallback of e-mail; the panel
(`robot_state_ws.py`: digests, heartbeats and tickets; no state of the robot depends on it);
the React client.

## 7. Plan

1. **Refinements**: ScoreCopies as one score with one owner; BuyOrder as a purchase that is
   sent, refused or accepted once.
2. **Composition**: RobotSwitch with RobotRestart (a death between a stop and its row).
3. The panel's hub, if a state of the robot ever comes to depend on it.
