---------------------------- MODULE RobotRestart ----------------------------
(***************************************************************************)
(* What survives the death of the robot-runtime process: the rows that the *)
(* background executor of persist_robot writes (robot_states and the trade *)
(* mirror), the history, the restore of the robot from them at boot, and   *)
(* the scan that looks for the results nobody waits for any more.          *)
(*                                                                         *)
(* One user whose robot is on.  Signal, submission and recording are one   *)
(* step, and stop, disconnect and timeouts are left out: RobotOrders has   *)
(* their interleavings, with the writes taken as immediate.                *)
(***************************************************************************)
EXTENDS AutoTrader, SequencesExt

CONSTANTS
    Answers,    \* how the orders of a run may end at the broker
    MaxJobs,    \* bound: writes that may wait when the worker goes on
    MaxCrash    \* bound: deaths of the process

ASSUME AnswerAssumption == Answers \subseteq Result \cup {"gone"}
ASSUME BoundAssumption == MaxJobs \in Nat /\ MaxCrash \in Nat

VARIABLES
    up,         \* the process runs
    crashes,    \* how often it died
    robot,      \* RobotState, in memory
    monitor,    \* orders with a live TradeResultMonitor task, in memory
    jobs,       \* persist_robot's writes in _ROBOT_PERSIST_EXECUTOR
    writing,    \* the write that has the user's persist lock
    scan,       \* the orphan scan
    saved,      \* robot_states
    mirror,     \* robot_trades: result of each order
    parent,     \* parent_order_id of each order, in its rows
    history,    \* robot_trade_history
    broker      \* the broker's view of each order

vars == <<up, crashes, robot, monitor, jobs, writing, scan,
          saved, mirror, parent, history, broker>>

\* Completed orders, score and money are not part of the saved row, or are
\* computed again when it is restored.
Zero == [o \in Order |-> 0]
Snapshot(s) == [s EXCEPT !.completed = {}, !.wins = Zero, !.losses = Zero, !.paid = Zero]

NoJob == [stage |-> "none", last |-> NoTrade]

NoRows == [o \in Order |-> "NONE"]
NoScan == [kind |-> "none", todo |-> {}, at |-> NoOrder, read |-> FALSE, finals |-> NoRows]

\* "gone": closed with nobody listening, the broker does not know it any more;
\* "old": and it was sent more than STALE_PENDING_LAST_TRADE_SECONDS (2 h) ago.
BrokerState == {"idle", "open", "gone", "old"} \cup Result

Init ==
    /\ up = TRUE /\ crashes = 0
    /\ robot = Start(InitRobot)
    /\ saved = robot
    /\ monitor = {}
    /\ jobs = <<>> /\ writing = NoJob
    /\ scan = NoScan
    /\ mirror = NoRows /\ history = NoRows
    /\ parent = [o \in Order |-> NoOrder]
    /\ broker = [o \in Order |-> "idle"]

-----------------------------------------------------------------------------
(* persist_robot: the state and last_trade of now, written later by one of   *)
(* eight threads.  They take the user's lock in any order.                   *)

Persists(states) == jobs' = jobs \o [i \in DOMAIN states |-> Snapshot(states[i])]

Persist == Persists(<<robot'>>)

\* Bounds: the worker does not run far ahead of the writes; what must happen
\* has room of its own.
WorkerRoom == Len(jobs) < MaxJobs
ResultRoom == Len(jobs) <= MaxJobs

JobSavesState(i) ==
    /\ writing = NoJob
    /\ saved' = jobs[i]
    /\ writing' = [stage |-> "saved", last |-> jobs[i].last]
    /\ jobs' = RemoveAt(jobs, i)
    /\ UNCHANGED <<up, crashes, robot, monitor, scan, mirror, parent, history, broker>>

\* _trade_for_mirror refuses a pending copy that is old, or of an order that is
\* closed by now.
TradeForMirror(t) ==
    /\ t.id # NoOrder
    /\ t.result = "PENDING" => t.id \notin robot.completed /\ broker[t.id] # "old"

JobDecides ==
    /\ writing.stage = "saved"
    /\ writing' = IF TradeForMirror(writing.last) THEN [writing EXCEPT !.stage = "decided"] ELSE NoJob
    /\ UNCHANGED <<up, crashes, robot, monitor, jobs, scan, saved, mirror, parent, history, broker>>

JobSavesTrade ==
    /\ writing.stage = "decided"
    /\ mirror' = [mirror EXCEPT ![writing.last.id] = writing.last.result]
    /\ writing' = NoJob
    /\ UNCHANGED <<up, crashes, robot, monitor, jobs, scan, saved, parent, history, broker>>

JobStep == (\E i \in DOMAIN jobs : JobSavesState(i)) \/ JobDecides \/ JobSavesTrade

-----------------------------------------------------------------------------
(* The worker; it starts after the boot's scan.                              *)

Running == up /\ scan.kind # "boot"
Working == Running /\ WorkerRoom /\ robot.enabled

\* A lost leg whose step is not coming is counted in memory, history, mirror.
CloseGaleThen(s) ==
    LET id == robot.galeParent.id
        closed == CloseAbandonedGale(robot)
    IN  /\ robot' = s
        /\ IF HasAbandonedGale(robot)
           THEN /\ history' = [history EXCEPT ![id] = "LOSS"]
                /\ mirror' = [mirror EXCEPT ![id] = "LOSS"]
                /\ Persists(<<closed, robot'>>)
           ELSE Persist /\ UNCHANGED <<history, mirror>>
        /\ UNCHANGED <<up, crashes, monitor, writing, scan, saved, parent, broker>>

\* The result was shown, or the open operation has been open for too long.
RecycleCycle ==
    /\ Working
    /\ robot.status = "result" \/ robot.op \/ robot.status = "result_wait"
    /\ CloseGaleThen(ResetCycleAfterResult(CloseAbandonedGale(robot)))

PauseRobotByStop ==
    /\ Working /\ ~robot.op /\ robot.status # "result"
    /\ StopHit(robot)
    /\ CloseGaleThen(PauseByStop(CloseAbandonedGale(robot)))

FindSignal ==
    /\ Working /\ CanAnalyse(robot)
    /\ robot' = SetPendingSignal(robot)
    /\ Persist
    /\ UNCHANGED <<up, crashes, monitor, writing, scan, saved, mirror, parent, history, broker>>

\* The candle's entry window was missed: likely after a restart.
SignalExpires ==
    /\ Running /\ ResultRoom /\ CanSend(robot) /\ ~StopHit(robot)
    /\ robot' = ExpirePendingSignal(robot)
    /\ Persist
    /\ UNCHANGED <<up, crashes, monitor, writing, scan, saved, mirror, parent, history, broker>>

\* The tick ends in an exception, or finds an account that may not trade: the
\* signal goes, a lost leg stays.  (Without a signal such a tick changes
\* nothing of the robot.)
TickDropsSignal ==
    /\ Working /\ ~robot.op /\ robot.status # "result" /\ ~StopHit(robot)
    /\ robot.signal # NoSignal
    /\ robot' = DropSignal(robot)
    /\ Persist
    /\ UNCHANGED <<up, crashes, monitor, writing, scan, saved, mirror, parent, history, broker>>

\* The row's parent is gale_original_order_id: set_order_attempt has taken the
\* leg's own fields off the signal.
SendOrder(o) ==
    /\ Working /\ CanSend(robot) /\ ~StopHit(robot)
    /\ broker[o] = "idle"
    /\ broker' = [broker EXCEPT ![o] = "open"]
    /\ parent' = [parent EXCEPT ![o] = robot.galeOrigin]
    /\ robot' = RecordTrade(StartSendingOrder(SetPendingSignal(robot)), o, SentStep(robot))
    /\ Persist
    /\ monitor' = monitor \cup {o}
    /\ UNCHANGED <<up, crashes, writing, scan, saved, mirror, history>>

\* The broker's session keeps a result for those who listen when it closes.
BrokerCloses(o) ==
    /\ broker[o] = "open"
    /\ \E r \in IF o \in monitor THEN Answers \ {"gone"} ELSE Answers :
          broker' = [broker EXCEPT ![o] = r]
    /\ UNCHANGED <<up, crashes, robot, monitor, jobs, writing, scan, saved, mirror, parent, history>>

GetsOld(o) ==
    /\ broker[o] = "gone"
    /\ broker' = [broker EXCEPT ![o] = "old"]
    /\ UNCHANGED <<up, crashes, robot, monitor, jobs, writing, scan, saved, mirror, parent, history>>

-----------------------------------------------------------------------------
(* finish_monitored_trade: the robot it makes, and the row it then writes to *)
(* the history and, after that, to the mirror.                               *)

Outcome(s, id, result, writes) ==
    [robot |-> s, id |-> id, result |-> result, writes |-> writes]

Finish(o) ==
    LET r == broker[o]
        s == FinishTrade(robot, o, r)
        late == mirror[o] \notin Final \cup {"NONE"} /\ o \notin s.completed
    IN  IF Finalized(robot, o, r) THEN Outcome(s, o, r, <<s>>)
        ELSE IF s.galePending THEN Outcome(s, s.last.id, s.last.result, <<s>>)
        ELSE IF late THEN LET c == CountLateResult(s, o, r) IN Outcome(c, o, r, <<c, c>>)
        ELSE Outcome(s, NoOrder, "NONE", <<s>>)

Put(rows, f) == IF f.id = NoOrder THEN rows ELSE [rows EXCEPT ![f.id] = f.result]

FinishMonitored(o) ==
    LET f == Finish(o)
    IN  /\ broker[o] \in Result /\ ResultRoom
        /\ robot' = f.robot
        /\ history' = Put(history, f)
        /\ mirror' = Put(mirror, f)
        /\ Persists(f.writes)
        /\ UNCHANGED <<up, crashes, writing, saved, parent, broker>>

MonitorFinish(o) ==
    /\ Running /\ o \in monitor
    /\ FinishMonitored(o)
    /\ monitor' = monitor \ {o}
    /\ UNCHANGED scan

-----------------------------------------------------------------------------
(* _recuperar_ordens_orfas: at boot, before anything else runs, and from     *)
(* time to time.  It reads the pending rows once, the final rows once, and   *)
(* then awaits the broker for one order after the other.                     *)

PendingRows == {o \in Order : mirror[o] = "PENDING"}

StartScan(kind) == [NoScan EXCEPT !.kind = kind, !.todo = PendingRows]

ScanStart ==
    /\ Running /\ scan = NoScan /\ PendingRows # {}
    /\ scan' = StartScan("periodic")
    /\ UNCHANGED <<up, crashes, robot, monitor, jobs, writing, saved, mirror, parent, history, broker>>

Done(s, o) ==
    IF s.todo = {o} THEN NoScan ELSE [s EXCEPT !.todo = @ \ {o}, !.at = NoOrder]

\* Monitored, or its candle is not over (the margin of 180 s is left out).
ScanSkips(o) == scan.kind = "periodic" /\ (o \in monitor \/ broker[o] = "open")

Finals == IF scan.read THEN scan.finals ELSE history

\* A pending row whose result is in the history is only repaired.
ScanNext(o) ==
    /\ up /\ o \in scan.todo /\ scan.at = NoOrder
    /\ LET read == [scan EXCEPT !.read = TRUE, !.finals = Finals]
       IN  \/ /\ ScanSkips(o)
              /\ scan' = Done(scan, o)
              /\ UNCHANGED mirror
           \/ /\ ~ScanSkips(o) /\ Finals[o] \in Final
              /\ scan' = Done(read, o)
              /\ mirror' = [mirror EXCEPT ![o] = Finals[o]]
           \/ /\ ~ScanSkips(o) /\ Finals[o] \notin Final
              /\ scan' = [read EXCEPT !.at = o]
              /\ UNCHANGED mirror
    /\ UNCHANGED <<up, crashes, robot, monitor, jobs, writing, saved, parent, history, broker>>

ScanFinish(o) ==
    /\ up /\ scan.at = o
    /\ FinishMonitored(o)
    /\ scan' = Done(scan, o)
    /\ UNCHANGED monitor

\* Mutant of GivesUp: only the scan at boot does.
BugGivesUpAtBoot(o) ==
    /\ scan.kind = "boot" /\ broker[o] \in {"gone", "old"}
    /\ mirror[o] = "PENDING"

\* marcar_timeout_no_espelho; 60 minutes, which an old order is past.
GivesUp(o) ==
    /\ scan.kind = "periodic" /\ broker[o] \in {"gone", "old"}
    /\ mirror[o] = "PENDING"

\* No result: at boot the monitor of an open order is started again.  An order
\* the broker does not know is given up after an hour, by the periodic scan.
\* (A request that fails leaves the order to the next scan.)
ScanNoAnswer(o) ==
    /\ up /\ scan.at = o /\ broker[o] \notin Result
    /\ scan' = Done(scan, o)
    /\ monitor' = IF broker[o] = "open" THEN monitor \cup {o} ELSE monitor
    /\ \/ UNCHANGED mirror
       \/ GivesUp(o) /\ mirror' = [mirror EXCEPT ![o] = "TIMEOUT"]
    /\ broker[o] = "old" /\ GivesUp(o) => mirror'[o] = "TIMEOUT"
    /\ UNCHANGED <<up, crashes, robot, jobs, writing, saved, parent, history, broker>>

-----------------------------------------------------------------------------
(* Death and restore.                                                        *)

\* The rows the restore reads: the history, and of the mirror the timeouts.
Restored == {o \in Order : history[o] \in Final \/ mirror[o] = "TIMEOUT"}
RestoredResult(o) == IF history[o] \in Final THEN history[o] ELSE mirror[o]

\* A lost leg that some other row names as its parent.
Superseded(o) == history[o] = "LEG" /\ \E p \in Restored : parent[p] = o

\* Mutant of RestoredLosses: the score comes from the mirror.
BugScoreFromMirror == {o \in Order : mirror[o] \in {"LOSS", "LEG"}}

\* _recompute_score_from_history
RestoredLosses == {o \in Order : history[o] \in {"LOSS", "LEG"} /\ ~Superseded(o)}
RestoredWins == {o \in Order : history[o] = "WIN"}

Points(orders) == [o \in Order |-> IF o \in orders THEN 1 ELSE 0]

\* Mutant of RestoredLast: it comes back as it was saved.
BugStaleLast(last) == last

\* _close_stale_last_trade
RestoredLast(last) ==
    IF last.id = NoOrder \/ last.result # "PENDING" THEN last
    ELSE IF last.id \in Restored THEN [last EXCEPT !.result = RestoredResult(last.id)]
    ELSE IF broker[last.id] = "old" THEN NoTrade
    ELSE last

\* shown: the time to show the saved result is not over.
RestoredStatus(s, shown) ==
    IF s.status = "result" /\ shown THEN [s EXCEPT !.op = FALSE]
    ELSE IF s.enabled /\ s.signal # NoSignal THEN [s EXCEPT !.status = "entry"]
    ELSE IF s.enabled /\ ~s.op THEN [s EXCEPT !.status = "waiting"]
    ELSE s

Restore(s, shown) ==
    [RestoredStatus(s, shown) EXCEPT
        !.last = RestoredLast(@),
        !.completed = Restored,
        !.wins = Points(RestoredWins), !.losses = Points(RestoredLosses),
        !.paid = Points(RestoredWins \cup RestoredLosses)]

Dead ==
    /\ up /\ crashes < MaxCrash
    /\ up' = FALSE /\ crashes' = crashes + 1
    /\ robot' = InitRobot
    /\ monitor' = {} /\ jobs' = <<>> /\ writing' = NoJob /\ scan' = NoScan

Crash == Dead /\ UNCHANGED <<saved, mirror, parent, history, broker>>

\* The result is in the history, not yet in the mirror.
CrashInFinish(o) ==
    /\ (Running /\ o \in monitor) \/ scan.at = o
    /\ broker[o] \in Result
    /\ history' = Put(history, Finish(o))
    /\ Dead
    /\ UNCHANGED <<saved, mirror, parent, broker>>

\* restore_robot_states, then the scan; ROBOT_BOOT_RESUME lets the worker of a
\* robot that was on run again.
Boot ==
    /\ ~up /\ up' = TRUE
    /\ \E shown \in BOOLEAN : robot' = Restore(saved, shown)
    /\ scan' = IF PendingRows = {} THEN NoScan ELSE StartScan("boot")
    /\ UNCHANGED <<crashes, monitor, jobs, writing, saved, mirror, parent, history, broker>>

-----------------------------------------------------------------------------
WorkerStep ==
    RecycleCycle \/ PauseRobotByStop \/ FindSignal \/ SignalExpires \/ TickDropsSignal

OrderStep(o) ==
    \/ SendOrder(o) \/ BrokerCloses(o) \/ GetsOld(o) \/ MonitorFinish(o)
    \/ ScanNext(o) \/ ScanFinish(o) \/ ScanNoAnswer(o) \/ CrashInFinish(o)

Next ==
    \/ WorkerStep \/ JobStep \/ ScanStart \/ Crash \/ Boot
    \/ \E o \in Order : OrderStep(o)

Spec == Init /\ [][Next]_vars

\* Threads and tasks run, the process is started again, the scan is periodic,
\* cycle_lock is a FIFO lock, the candle of a signal passes; the broker
\* answers, and an order it does not know grows old.
FairSpec ==
    /\ Spec
    /\ WF_vars(JobStep) /\ WF_vars(Boot) /\ WF_vars(ScanStart)
    /\ SF_vars(SignalExpires)
    /\ \A o \in Order :
          /\ WF_vars(BrokerCloses(o)) /\ WF_vars(GetsOld(o))
          /\ SF_vars(MonitorFinish(o)) /\ SF_vars(ScanFinish(o))
          /\ WF_vars(ScanNext(o)) /\ WF_vars(ScanNoAnswer(o))

-----------------------------------------------------------------------------
(* Properties.                                                             *)

Score(o) == ScoreOf(robot, o)

\* The types of the state.
TypeOK ==
    /\ up \in BOOLEAN /\ crashes \in 0..MaxCrash
    /\ robot \in Robot /\ saved \in Robot
    /\ monitor \subseteq Order
    /\ \A i \in DOMAIN jobs : jobs[i] \in Robot
    /\ writing \in [stage : {"none", "saved", "decided"}, last : Trade]
    /\ scan \in [kind : {"none", "boot", "periodic"}, todo : SUBSET Order,
                 at : Order \cup {NoOrder}, read : BOOLEAN,
                 finals : [Order -> TradeResult]]
    /\ mirror \in [Order -> TradeResult]
    /\ parent \in [Order -> Order \cup {NoOrder}]
    /\ history \in [Order -> TradeResult]
    /\ broker \in [Order -> BrokerState]

\* A restart at any point, even between the history and the mirror, loses no
\* result that was counted and counts none that was not: a won cycle is in the
\* score once, a lost one is in it, and nothing else but a leg can be.
ScoreFromHistory ==
    up => \A o \in Order :
        /\ history[o] = "WIN" => Score(o) = 1
        /\ history[o] = "LOSS" => Score(o) >= 1
        /\ history[o] = "LEG" => Score(o) <= 1
        /\ history[o] \notin Final \ {"DRAW"} => Score(o) = 0

\* The robot never waits for an order whose result is in the history already:
\* that result does not come again, and a restart must not bring the wait back.
WaitsForOpenOrder ==
    up /\ robot.op /\ robot.last.result = "PENDING" => history[robot.last.id] \notin Final

\* Whatever dies in between, whoever stops waiting, and however late a pending
\* copy of an order is written over its result or its timeout: in the end every
\* order of which a row was written has a result or is a timeout, for good;
\* unless a lost leg whose signal is gone waits for ever for another one, for
\* as long as a leg waits the late result of another order is not saved.
LegWithoutSignal == robot.galePending /\ robot.signal = NoSignal
NoRowPending == \A o \in Order : mirror[o] # "PENDING"
MirrorSettles == <>[]NoRowPending \/ <>[]LegWithoutSignal
=============================================================================
