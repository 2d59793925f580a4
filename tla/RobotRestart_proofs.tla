------------------------- MODULE RobotRestart_proofs -------------------------
(* For any number of orders, crashes and restarts: the score is what the      *)
(* history says after every restart (ScoreFromHistory) and the robot waits    *)
(* for an order it follows (WaitsForOpenOrder). RestartInv is the inductive   *)
(* invariant: every copy of the robot, in memory, on its way to the row or    *)
(* saved, is right against the history and the broker.                        *)
EXTENDS RobotRestart, AutoTraderLemmas, SequenceTheorems

-----------------------------------------------------------------------------
(* What a copy of the robot, a row and the score must be.                  *)

\* No result comes for the order any more.
Lost(o) == broker[o] \in {"gone", "old"}

\* A trade that waits or timed out is of an order, which the broker forgot if
\* it timed out.
TradeRight(t) == /\ t.result \in {"PENDING", "TIMEOUT"} => t.id \in Order
                 /\ t.result = "TIMEOUT" => Lost(t.id)

\* A copy of the robot, in memory, waiting to be written or saved: the leg that
\* waits for its step is the last trade, and its row is in the history.
CopyRight(s) ==
    /\ s.galePending => /\ s.last = s.galeParent /\ s.last.id \in Order
                        /\ s.last.result = "LEG" /\ history[s.last.id] \in Final
                        /\ ~s.op /\ MaxGale > 0
    /\ TradeRight(s.last)

\* The robots that are right copies.
Copies == {s \in Robot : CopyRight(s)}

\* The types, every copy of the robot among them.
RestartTypes ==
    /\ up \in BOOLEAN /\ crashes \in 0..MaxCrash
    /\ robot \in Copies /\ saved \in Copies /\ jobs \in Seq(Copies)
    /\ monitor \subseteq Order
    /\ writing \in [stage : {"none", "saved", "decided"}, last : Trade]
    /\ TradeRight(writing.last)
    /\ scan \in [kind : {"none", "boot", "periodic"}, todo : SUBSET Order,
                 at : Order \cup {NoOrder}, read : BOOLEAN,
                 finals : [Order -> TradeResult]]
    /\ mirror \in [Order -> TradeResult]
    /\ parent \in [Order -> Order \cup {NoOrder}]
    /\ history \in [Order -> TradeResult]
    /\ broker \in [Order -> BrokerState]

\* A row is in the history when the broker has told the result, and in the
\* mirror as a timeout when it never will.
RowsRight ==
    \A o \in Order : /\ history[o] \in Final => broker[o] \in Result
                     /\ mirror[o] = "TIMEOUT" => Lost(o)

\* Only closed orders are in the score, and closed orders were sent.
ScoreRight ==
    up => /\ \A o \in Order : o \in robot.completed => broker[o] # "idle"
          /\ \A o \in Order : o \notin robot.completed => Score(o) = 0
          /\ robot.galePending => /\ robot.last.id \in robot.completed
                                  /\ Score(robot.last.id) <= 1

\* The inductive invariant behind ScoreFromHistory and WaitsForOpenOrder.
RestartInv == /\ RestartTypes /\ RowsRight /\ ScoreRight
              /\ ScoreFromHistory /\ WaitsForOpenOrder

-----------------------------------------------------------------------------
\* What was final stays final, and what was forgotten stays forgotten.
Steady ==
    \A o \in Order : /\ history[o] \in Final => history'[o] \in Final
                     /\ Lost(o) => Lost(o)'

\* A copy that was right stays right.
LEMMA CopiesKept ==
    ASSUME Steady
    PROVE  /\ \A s \in Copies : s \in Copies'
           /\ Copies \subseteq Copies'
           /\ \A t : TradeRight(t) => TradeRight(t)'
<1>1. \A t : TradeRight(t) => TradeRight(t)'
  BY DEF Steady, TradeRight
<1>2. \A s \in Copies : s \in Copies'
  BY <1>1 DEF Steady, Copies, CopyRight
<1>3. QED
  BY <1>1, <1>2

\* Where nothing closes, nothing is forgotten.
LEMMA NothingChanges == UNCHANGED <<history, broker>> => Steady
BY DEF Steady, Lost

\* A robot without a leg is a right copy when its last trade is right.
LEMMA RestingCopy ==
    ASSUME NEW t \in Robot, ~t.galePending, TradeRight(t.last)'
    PROVE  t \in Copies'
BY DEF Copies, CopyRight

\* What the saved row keeps.
LEMMA SnapshotFacts ==
    ASSUME NEW s \in Robot
    PROVE  LET t == Snapshot(s)
           IN  /\ t \in Robot /\ t.last = s.last /\ t.op = s.op
               /\ t.galePending = s.galePending /\ t.galeParent = s.galeParent
               /\ t.signal = s.signal
<1>1. Zero \in [Order -> Nat]
  BY DEF Zero
<1>2. QED
  BY <1>1 DEF Snapshot, Robot

\* The saved row of a right copy is one.
LEMMA SnapshotCopy == ASSUME NEW s \in Copies' PROVE Snapshot(s) \in Copies'
<1>1. s \in Robot
  BY DEF Copies
<1> DEFINE t == Snapshot(s)
<1>2. /\ t \in Robot /\ t.last = s.last /\ t.op = s.op
      /\ t.galePending = s.galePending /\ t.galeParent = s.galeParent
      /\ t.signal = s.signal
  BY <1>1, SnapshotFacts
<1> HIDE DEF t
<1>3. t \in Copies'
  BY <1>2 DEF Copies, CopyRight
<1>4. QED
  BY <1>3 DEF t

\* persist_robot queues right copies behind those that wait.
LEMMA PersistsRight ==
    ASSUME jobs \in Seq(Copies), Steady,
           NEW a \in Copies', NEW b \in Copies',
           Persists(<<a>>) \/ Persists(<<a, b>>)
    PROVE  jobs' \in Seq(Copies')
<1>1. jobs \in Seq(Copies')
  BY CopiesKept, SeqMonotonic
<1>2. Snapshot(a) \in Copies' /\ Snapshot(b) \in Copies'
  BY SnapshotCopy
<1>3. CASE Persists(<<a>>)
  <2> DEFINE q == [i \in DOMAIN <<a>> |-> Snapshot(<<a>>[i])]
  <2>1. q = <<Snapshot(a)>>
    OBVIOUS
  <2>2. q \in Seq(Copies')
    BY <1>2, <2>1
  <2>3. jobs' = jobs \o q
    BY <1>3 DEF Persists
  <2> HIDE DEF q
  <2>4. QED
    BY <1>1, <2>2, <2>3, ConcatProperties
<1>4. CASE Persists(<<a, b>>)
  <2> DEFINE q == [i \in DOMAIN <<a, b>> |-> Snapshot(<<a, b>>[i])]
  <2>1. q = <<Snapshot(a), Snapshot(b)>>
    OBVIOUS
  <2>2. q \in Seq(Copies')
    BY <1>2, <2>1
  <2>3. jobs' = jobs \o q
    BY <1>4 DEF Persists
  <2> HIDE DEF q
  <2>4. QED
    BY <1>1, <2>2, <2>3, ConcatProperties
<1>5. QED
  BY <1>3, <1>4

\* A write leaves the queue wherever it stands.
LEMMA RemovedRight ==
    ASSUME NEW S, NEW q \in Seq(S), NEW i \in DOMAIN q
    PROVE  q[i] \in S /\ RemoveAt(q, i) \in Seq(S)
<1>1. Len(q) \in Nat /\ i \in 1..Len(q) /\ \A j \in 1..Len(q) : q[j] \in S
  BY LenProperties, ElementOfSeq
<1>2. SubSeq(q, 1, i - 1) \in Seq(S)
  <2>1. \A j \in 1..(i - 1) : q[j] \in S
    BY <1>1
  <2>2. QED
    BY <1>1, <2>1, SubSeqProperties
<1>3. SubSeq(q, i + 1, Len(q)) \in Seq(S)
  <2>1. \A j \in (i + 1)..Len(q) : q[j] \in S
    BY <1>1
  <2>2. QED
    BY <1>1, <2>1, SubSeqProperties
<1>4. QED
  BY <1>1, <1>2, <1>3, ConcatProperties DEF RemoveAt

\* The robot, its history and what was forgotten are left alone.
RobotStays == UNCHANGED <<up, robot, history>> /\ Steady
\* The score stays right when the robot stays what it was.
LEMMA ScoreStays ==
    ASSUME RestartInv, RobotStays, \A o \in Order : broker'[o] = "idle" => broker[o] = "idle"
    PROVE  ScoreRight' /\ ScoreFromHistory' /\ WaitsForOpenOrder'
BY DEF RestartInv, RobotStays, ScoreRight, ScoreFromHistory, WaitsForOpenOrder, Score, ScoreOf

\* The robot with its score and no open operation.
LEMMA ScoreQuiet ==
    ASSUME RestartInv, up' = up, history' = history, SameScore(robot, robot'),
           robot'.galePending => robot.galePending /\ robot'.last = robot.last, ~robot'.op,
           \A o \in Order : broker'[o] = "idle" => broker[o] = "idle"
    PROVE  ScoreRight' /\ ScoreFromHistory' /\ WaitsForOpenOrder'
BY DEF RestartInv, SameScore, ScoreRight, ScoreFromHistory, WaitsForOpenOrder, Score, ScoreOf

-----------------------------------------------------------------------------
(* finish_monitored_trade.                                                   *)

\* The leg of the last trade waits already: its row is written again.
LegKept(f) == /\ f.id = robot.last.id /\ f.result = "LEG"
              /\ f.robot = robot /\ robot.galePending

\* The lost order opens a leg.
LegOpens(f, o) == /\ LegOpened(robot, f.robot, o) /\ robot.last.id = o
                  /\ f.id = o /\ f.result = "LEG" /\ o \notin robot.completed

\* The order is counted with the broker's answer.
IsCounted(f, o) ==
    /\ Counts(robot, f.robot, o, broker[o])
    /\ f.robot.completed = robot.completed \cup {o} /\ o \notin robot.completed
    /\ f.id = o /\ f.result = broker[o] /\ ~f.robot.galePending

\* It closes the cycle, or it came late.
CycleEnds(f, o) == /\ ~f.robot.op
                   /\ f.robot.last = [robot.last EXCEPT !.result = broker[o]]

\* The order came late: the open operation is another one, or there is none.
ComesLate(f, o) == /\ f.robot.last = robot.last /\ f.robot.op = robot.op
                   /\ robot.op /\ robot.last.result = "PENDING" => robot.last.id # o

\* finish_monitored_trade comes to one of three: the leg that waits is written
\* again, a leg opens, or the order is counted.
LEMMA FinishOutcome ==
    ASSUME RestartInv, up, NEW o \in Order, broker[o] \in Result
    PROVE  LET f == Finish(o)
           IN  /\ f.robot \in Robot
               /\ f.writes = <<f.robot>> \/ f.writes = <<f.robot, f.robot>>
               /\ \/ f.id = NoOrder /\ f.robot = robot
                  \/ LegKept(f)
                  \/ LegOpens(f, o)
                  \/ IsCounted(f, o) /\ (CycleEnds(f, o) \/ ComesLate(f, o))
<1> DEFINE r == broker[o]
           s == FinishTrade(robot, o, r)
           rec == Recovered(robot, o)
           c == CountLateResult(s, o, r)
           late == mirror[o] \notin Final \cup {"NONE"} /\ o \notin s.completed
           f == Finish(o)
<1>1. robot \in Robot /\ CopyRight(robot) /\ r \in Result
  BY DEF RestartInv, RestartTypes, Copies
<1>2. CanFinish(robot, o) => robot.last.id = o /\ rec = robot
  BY <1>1 DEF CanFinish, CopyRight, TradeRight, Lost, Recovered, Result
<1>3. CanFinish(robot, o) => o \notin robot.completed /\ ~robot.galePending
  <2>1. robot.galePending => robot.last.result = "LEG" /\ ~robot.op
    BY <1>1 DEF CopyRight
  <2>2. CanFinish(robot, o) => robot.last.result # "TIMEOUT"
    BY <1>1, <1>2 DEF CopyRight, TradeRight, Lost, Result
  <2>3. QED
    BY <2>1, <2>2 DEF CanFinish, Final
<1>4. /\ Finalized(robot, o, r) => Counts(robot, s, o, r) /\ ~s.galePending
      /\ Finalized(robot, o, r) => CanFinish(robot, o)
  BY <1>1, FinishCounts DEF Finalized
<1>5. \/ ~CanFinish(robot, o) /\ s = robot
      \/ CanFinish(robot, o) /\ LegOpened(robot, s, o) /\ ~Finalized(robot, o, r)
      \/ CanFinish(robot, o) /\ ~robot.op /\ s = robot /\ ~Finalized(robot, o, r)
      \/ CanFinish(robot, o) /\ CycleClosed(robot, s, o, r) /\ Finalized(robot, o, r)
  <2>1. CASE ~CanFinish(robot, o)
    BY <2>1 DEF FinishTrade
  <2>2. CASE CanFinish(robot, o) /\ WantsGale(robot, r)
    <3>1. robot.last.step < MaxGale /\ robot.enabled
      BY <2>2 DEF WantsGale
    <3>2. ~Finalized(robot, o, r)
      BY <1>2, <2>2 DEF Finalized
    <3>3. CASE CanTriggerGale(robot, o)
      <4>1. s = TriggerGale(robot, o)
        BY <1>2, <2>2, <3>3 DEF FinishTrade
      <4>2. LegOpened(robot, TriggerGale(robot, o), o)
        BY <1>1, <3>1, TriggerFacts
      <4>3. QED
        BY <2>2, <3>2, <4>1, <4>2
    <3>4. CASE ~CanTriggerGale(robot, o)
      <4>1. s = robot
        BY <1>2, <2>2, <3>4 DEF FinishTrade
      <4>2. ~robot.op
        BY <1>2, <1>3, <2>2, <3>1, <3>4 DEF CanTriggerGale
      <4>3. QED
        BY <2>2, <3>2, <4>1, <4>2
    <3>5. QED
      BY <3>3, <3>4
  <2>3. CASE CanFinish(robot, o) /\ ~WantsGale(robot, r)
    <3>1. Finalized(robot, o, r)
      BY <1>2, <2>3 DEF Finalized
    <3>2. CycleClosed(robot, CloseCycle(robot, o, r), o, r)
      BY <1>1, CloseCycleFacts
    <3>3. s = CloseCycle(robot, o, r) \/ s = PauseByStop(CloseCycle(robot, o, r))
      BY <1>2, <2>3 DEF FinishTrade
    <3> DEFINE d == CloseCycle(robot, o, r)
    <3> HIDE DEF s, d
    <3>4. d \in Robot
      BY <3>2 DEF CycleClosed, d
    <3>5. /\ AtRest(d, PauseByStop(d)) /\ ~PauseByStop(d).enabled
          /\ PauseByStop(d).last = d.last /\ ~PauseByStop(d).galePending
      BY <3>4, PauseQuiet, PauseKeepsLast
    <3>6. CycleClosed(robot, d, o, r) /\ (s = d \/ s = PauseByStop(d))
      BY <3>2, <3>3 DEF d
    <3>7. CycleClosed(robot, s, o, r)
      BY <3>5, <3>6 DEF CycleClosed, AtRest, Quiet, SameScore, CountsOnly
    <3>8. QED
      BY <2>3, <3>1, <3>7
  <2>4. QED
    BY <2>1, <2>2, <2>3
<1> HIDE DEF s, rec
<1>6. CASE CanFinish(robot, o) /\ LegOpened(robot, s, o) /\ ~Finalized(robot, o, r)
  <2>1. s.galePending /\ s \in Robot /\ s.last.id = o /\ s.last.result = "LEG"
    BY <1>1, <1>2, <1>6 DEF LegOpened, Robot, Trade
  <2>2. f = Outcome(s, s.last.id, s.last.result, <<s>>)
    BY <1>6, <2>1 DEF Finish, s
  <2>3. /\ f.robot = s /\ f.id = o /\ f.result = "LEG" /\ f.writes = <<s>>
    BY <2>1, <2>2 DEF Outcome
  <2> HIDE DEF f
  <2>4. LegOpens(f, o)
    BY <1>2, <1>3, <1>6, <2>3 DEF LegOpens
  <2>5. QED
    BY <2>1, <2>3, <2>4 DEF f
<1>7. CASE CanFinish(robot, o) /\ CycleClosed(robot, s, o, r) /\ Finalized(robot, o, r)
  <2>1. f = Outcome(s, o, r, <<s>>)
    BY <1>7 DEF Finish, s
  <2>2. /\ f.robot = s /\ f.id = o /\ f.result = r /\ f.writes = <<s>>
    BY <2>1 DEF Outcome
  <2> HIDE DEF f
  <2>3. IsCounted(f, o) /\ CycleEnds(f, o) /\ s \in Robot
    BY <1>3, <1>4, <1>7, <2>2 DEF IsCounted, CycleEnds, CycleClosed
  <2>4. QED
    BY <2>2, <2>3 DEF f
<1>8. CASE s = robot /\ ~Finalized(robot, o, r) /\ robot.galePending
  <2>1. robot.last.result = "LEG"
    BY <1>1, <1>8 DEF CopyRight
  <2>2. f = Outcome(s, s.last.id, s.last.result, <<s>>)
    BY <1>8 DEF Finish, s
  <2>3. f.robot = robot /\ f.id = robot.last.id /\ f.result = "LEG" /\ f.writes = <<robot>>
    BY <1>8, <2>1, <2>2 DEF Outcome
  <2> HIDE DEF f
  <2>4. LegKept(f)
    BY <1>8, <2>3 DEF LegKept
  <2>5. QED
    BY <1>1, <2>3, <2>4 DEF f
<1>9. CASE /\ s = robot /\ ~Finalized(robot, o, r) /\ ~robot.galePending
           /\ ~(CanFinish(robot, o) /\ robot.op)
  <2>1. CASE ~late
    <3>1. f = Outcome(s, NoOrder, "NONE", <<s>>)
      BY <1>9, <2>1 DEF Finish, s
    <3>2. f.robot = robot /\ f.id = NoOrder /\ f.writes = <<robot>>
      BY <1>9, <3>1 DEF Outcome
    <3> HIDE DEF f
    <3>3. QED
      BY <1>1, <3>2 DEF f
  <2>2. CASE late
    <3>1. f = Outcome(c, o, r, <<c, c>>)
      BY <1>9, <2>2 DEF Finish, s
    <3>2. f.robot = c /\ f.id = o /\ f.result = r /\ f.writes = <<c, c>>
      BY <3>1 DEF Outcome
    <3>3. o \notin robot.completed /\ c = CountLateResult(robot, o, r)
      BY <1>9, <2>2
    <3>4. /\ c \in Robot /\ c.completed = robot.completed \cup {o}
          /\ c.last = robot.last /\ c.op = robot.op
          /\ c.galePending = robot.galePending /\ Counts(robot, c, o, r)
      BY <1>1, <3>3, CountLateFacts, LateCounts
    <3>5. robot.op /\ robot.last.result = "PENDING" => robot.last.id # o
      BY <1>9, <3>3 DEF CanFinish
    <3> HIDE DEF f, c
    <3>6. IsCounted(f, o) /\ ComesLate(f, o)
      BY <1>9, <3>2, <3>3, <3>4, <3>5 DEF IsCounted, ComesLate
    <3>7. QED
      BY <3>2, <3>4, <3>6 DEF f
  <2>3. QED
    BY <2>1, <2>2
<1>10. ~CanFinish(robot, o) => ~Finalized(robot, o, r)
  BY DEF Finalized
<1>11. QED
  BY <1>5, <1>6, <1>7, <1>8, <1>9, <1>10

\* The row that is written is of an order that has its result.
LEMMA RowWritten ==
    ASSUME RestartInv, up, NEW o \in Order, broker[o] \in Result
    PROVE  LET f == Finish(o)
           IN  \/ f.id = NoOrder
               \/ f.id \in Order /\ f.result \in Final /\ broker[f.id] \in Result
<1> DEFINE f == Finish(o)
<1>1. \/ f.id = NoOrder /\ f.robot = robot
      \/ LegKept(f)
      \/ LegOpens(f, o)
      \/ IsCounted(f, o) /\ (CycleEnds(f, o) \/ ComesLate(f, o))
  BY FinishOutcome
<1> HIDE DEF f
<1>2. CASE LegKept(f)
  <2>1. robot.last.id \in Order /\ history[robot.last.id] \in Final
    BY <1>2 DEF LegKept, RestartInv, RestartTypes, Copies, CopyRight
  <2>2. broker[robot.last.id] \in Result
    BY <2>1 DEF RestartInv, RowsRight
  <2>3. QED
    BY <1>2, <2>1, <2>2 DEF LegKept, f, Final
<1>3. CASE LegOpens(f, o)
  BY <1>3 DEF LegOpens, f, Final
<1>4. CASE IsCounted(f, o)
  BY <1>4 DEF IsCounted, f, Final, Result
<1>5. QED
  BY <1>1, <1>2, <1>3, <1>4 DEF f

\* Rows written of such an order.
LEMMA PutFacts ==
    ASSUME NEW rows \in [Order -> TradeResult], NEW f,
           f.id = NoOrder \/ (f.id \in Order /\ f.result \in Final)
    PROVE  /\ Put(rows, f) \in [Order -> TradeResult]
           /\ \A x \in Order : Put(rows, f)[x] = IF x = f.id THEN f.result ELSE rows[x]
BY OrderAssumption DEF Put, TradeResult

\* What a result's row leaves of the other rows.
LEMMA RowsKept ==
    ASSUME RestartInv, up, NEW o \in Order, broker[o] \in Result,
           history' = Put(history, Finish(o)), broker' = broker
    PROVE  /\ Steady /\ history' \in [Order -> TradeResult]
           /\ \A x \in Order : history'[x] \in Final => broker[x] \in Result
<1> DEFINE f == Finish(o)
<1>1. f.id = NoOrder \/ (f.id \in Order /\ f.result \in Final /\ broker[f.id] \in Result)
  BY RowWritten
<1> HIDE DEF f
<1>2. history \in [Order -> TradeResult] /\ \A x \in Order : history[x] \in Final => broker[x] \in Result
  BY DEF RestartInv, RestartTypes, RowsRight
<1>3. /\ Put(history, f) \in [Order -> TradeResult]
      /\ \A x \in Order : Put(history, f)[x] = IF x = f.id THEN f.result ELSE history[x]
  BY <1>1, <1>2, PutFacts
<1>4. history' = Put(history, f)
  BY DEF f
<1>5. /\ history' \in [Order -> TradeResult]
      /\ \A x \in Order : history'[x] = IF x = f.id THEN f.result ELSE history[x]
  BY <1>3, <1>4
<1>6. Steady
  BY <1>1, <1>2, <1>5, OrderAssumption DEF Steady, Lost
<1>7. QED
  BY <1>1, <1>2, <1>5, <1>6, OrderAssumption

\* The robot that finish_monitored_trade leaves is one a restart may restore.
LEMMA FinishCopy ==
    ASSUME RestartInv, up, NEW o \in Order, FinishMonitored(o)
    PROVE  robot' \in Copies' /\ Steady
<1> DEFINE f == Finish(o)
<1>1. /\ f.robot \in Robot
      /\ \/ f.id = NoOrder /\ f.robot = robot
         \/ LegKept(f)
         \/ LegOpens(f, o)
         \/ IsCounted(f, o) /\ (CycleEnds(f, o) \/ ComesLate(f, o))
  BY FinishOutcome DEF FinishMonitored
<1>2. /\ Steady /\ history \in [Order -> TradeResult]
      /\ broker' = broker /\ broker[o] \in Result
  BY RowsKept DEF FinishMonitored, RestartInv, RestartTypes
<1>3. robot' = f.robot /\ history' = Put(history, f)
  BY DEF FinishMonitored
<1>4. /\ robot \in Robot /\ robot \in Copies'
      /\ TradeRight(robot.last)
  BY <1>2, CopiesKept DEF RestartInv, RestartTypes, Copies, CopyRight
<1> HIDE DEF f
<1>5. CASE f.robot = robot
  BY <1>2, <1>3, <1>4, <1>5
<1>6. CASE LegOpens(f, o)
  <2>1. /\ robot'.galePending /\ robot'.galeParent = robot'.last /\ ~robot'.op
        /\ robot'.signal > 0 /\ robot'.last = [robot.last EXCEPT !.result = "LEG"]
    BY <1>3, <1>6 DEF LegOpens, LegOpened
  <2>2. robot'.last.id = o /\ robot'.last.result = "LEG"
    BY <1>4, <1>6, <2>1 DEF LegOpens, Robot, Trade
  <2>3. history'[o] = "LEG"
    <3>1. f.id = o /\ f.result = "LEG"
      BY <1>6 DEF LegOpens
    <3>2. QED
      BY <1>2, <1>3, <3>1, PutFacts DEF Final
  <2>4. robot' \in Robot
    BY <1>1, <1>3
  <2>5. MaxGale > 0
    BY <2>1, <2>4, GaleAssumption DEF Robot
  <2>6. CopyRight(robot)'
    BY <2>1, <2>2, <2>3, <2>5 DEF CopyRight, TradeRight, Final
  <2>7. QED
    BY <1>2, <2>4, <2>6 DEF Copies
<1>7. CASE IsCounted(f, o) /\ (CycleEnds(f, o) \/ ComesLate(f, o))
  <2>1. TradeRight(robot.last)'
    <3>1. CASE CycleEnds(f, o)
      <4>1. robot'.last.result = broker[o]
        BY <1>3, <1>4, <3>1 DEF CycleEnds, Robot, Trade
      <4>2. QED
        BY <1>2, <4>1 DEF TradeRight, Result
    <3>2. CASE ComesLate(f, o)
      <4>1. robot'.last = robot.last
        BY <1>3, <3>2 DEF ComesLate
      <4>2. QED
        BY <1>2, <1>4, <4>1 DEF TradeRight, Lost
    <3>3. QED
      BY <1>7, <3>1, <3>2
  <2>2. ~robot'.galePending /\ robot' \in Robot
    BY <1>1, <1>3, <1>7 DEF IsCounted
  <2>3. robot' \in Copies'
    BY <2>1, <2>2 DEF Copies, CopyRight
  <2>4. QED
    BY <1>2, <2>3
<1>8. QED
  BY <1>1, <1>5, <1>6, <1>7 DEF LegKept

\* Score and history move together.
LEMMA FinishScore ==
    ASSUME RestartInv, up, up', NEW o \in Order, FinishMonitored(o)
    PROVE  ScoreRight' /\ ScoreFromHistory' /\ WaitsForOpenOrder'
<1> DEFINE f == Finish(o)
<1>1. /\ f.robot \in Robot
      /\ \/ f.id = NoOrder /\ f.robot = robot
         \/ LegKept(f)
         \/ LegOpens(f, o)
         \/ IsCounted(f, o) /\ (CycleEnds(f, o) \/ ComesLate(f, o))
  BY FinishOutcome DEF FinishMonitored
<1>2. /\ history \in [Order -> TradeResult] /\ broker' = broker /\ broker[o] \in Result
      /\ f.id = NoOrder \/ (f.id \in Order /\ f.result \in Final)
  BY RowWritten DEF FinishMonitored, RestartInv, RestartTypes
<1>3. robot' = f.robot /\ history' = Put(history, f)
  BY DEF FinishMonitored
<1> HIDE DEF f
<1>4. \A x \in Order : history'[x] = IF x = f.id THEN f.result ELSE history[x]
  BY <1>2, <1>3, PutFacts
<1>5. robot \in Robot /\ CopyRight(robot)
  BY DEF RestartInv, RestartTypes, Copies
<1>6. /\ ScoreFromHistory /\ WaitsForOpenOrder
      /\ \A x \in Order : x \in robot.completed => broker[x] # "idle"
      /\ \A x \in Order : x \notin robot.completed => ScoreOf(robot, x) = 0
      /\ robot.galePending => /\ robot.last.id \in robot.completed
                              /\ ScoreOf(robot, robot.last.id) <= 1
  BY DEF RestartInv, ScoreRight, Score
<1>7. CASE f.id = NoOrder /\ f.robot = robot
  <2>1. \A x \in Order : history'[x] = history[x]
    BY <1>4, <1>7, OrderAssumption
  <2>2. history' = history
    BY <1>2, <1>3, <1>7 DEF Put
  <2>3. RobotStays
    BY <1>2, <1>3, <1>7, <2>2, NothingChanges DEF RobotStays
  <2>4. QED
    BY <1>2, <2>3, ScoreStays
<1>8. CASE LegKept(f)
  <2>1. robot' = robot /\ f.result = "LEG" /\ f.id = robot.last.id /\ robot.galePending
    BY <1>3, <1>8 DEF LegKept
  <2>2. ~robot.op
    BY <1>5, <2>1 DEF CopyRight
  <2>3. ScoreRight' /\ WaitsForOpenOrder'
    BY <1>2, <1>6, <2>1, <2>2 DEF ScoreRight, Score, ScoreOf, WaitsForOpenOrder
  <2>4. ScoreFromHistory'
    BY <1>4, <1>6, <2>1 DEF ScoreFromHistory, Score, ScoreOf, Final
  <2>5. QED
    BY <2>3, <2>4
<1>9. CASE LegOpens(f, o)
  <2>1. /\ robot'.completed = robot.completed \cup {o} /\ ~robot'.op
        /\ robot'.wins = robot.wins /\ robot'.losses = robot.losses
        /\ robot'.last = [robot.last EXCEPT !.result = "LEG"]
        /\ robot.last.id = o /\ f.id = o /\ f.result = "LEG" /\ o \notin robot.completed
    BY <1>3, <1>9 DEF LegOpens, LegOpened
  <2>2. robot'.last.id = o
    BY <1>5, <2>1 DEF Robot, Trade
  <2>3. \A x \in Order : ScoreOf(robot', x) = ScoreOf(robot, x)
    BY <2>1 DEF ScoreOf
  <2>4. ScoreRight' /\ WaitsForOpenOrder'
    BY <1>2, <1>6, <2>1, <2>2, <2>3 DEF ScoreRight, Score, WaitsForOpenOrder, Result
  <2>5. ScoreFromHistory'
    BY <1>4, <1>6, <2>1, <2>3 DEF ScoreFromHistory, Score, Final
  <2>6. QED
    BY <2>4, <2>5
<1>10. CASE IsCounted(f, o) /\ (CycleEnds(f, o) \/ ComesLate(f, o))
  <2>1. /\ \A x \in Order \ {o} : ScoreOf(robot', x) = ScoreOf(robot, x)
        /\ ScoreOf(robot', o) = ScoreOf(robot, o) + IF broker[o] = "DRAW" THEN 0 ELSE 1
        /\ robot'.completed = robot.completed \cup {o} /\ o \notin robot.completed
        /\ f.id = o /\ f.result = broker[o] /\ ~robot'.galePending
    BY <1>3, <1>10 DEF IsCounted, Counts
  <2>2. ScoreOf(robot', o) = IF broker[o] = "DRAW" THEN 0 ELSE 1
    BY <1>5, <1>6, <2>1
  <2>3. ScoreRight'
    BY <1>2, <1>6, <2>1, <2>2 DEF ScoreRight, Score, Result
  <2>4. ScoreFromHistory'
    BY <1>2, <1>4, <1>6, <2>1, <2>2 DEF ScoreFromHistory, Score, Final, Result
  <2>5. WaitsForOpenOrder'
    <3>1. CASE CycleEnds(f, o)
      BY <1>3, <3>1 DEF CycleEnds, WaitsForOpenOrder
    <3>2. CASE ComesLate(f, o)
      <4>1. /\ robot'.op = robot.op /\ robot'.last = robot.last
            /\ robot.op /\ robot.last.result = "PENDING" => robot.last.id # o
        BY <1>3, <3>2 DEF ComesLate
      <4>2. robot.op /\ robot.last.result = "PENDING" => history' = [history EXCEPT ![o] = f.result]
        BY <1>2, <1>3, <2>1, OrderAssumption DEF Put
      <4>5. robot.last.result = "PENDING" => robot.last.id \in Order
        BY <1>5 DEF CopyRight, TradeRight
      <4>3. robot.op /\ robot.last.result = "PENDING" =>
                history'[robot.last.id] = history[robot.last.id]
        BY <1>2, <4>1, <4>2, <4>5
      <4>4. QED
        BY <1>6, <4>1, <4>3 DEF WaitsForOpenOrder
    <3>3. QED
      BY <1>10, <3>1, <3>2
  <2>6. QED
    BY <2>3, <2>4, <2>5
<1>11. QED
  BY <1>1, <1>7, <1>8, <1>9, <1>10

-----------------------------------------------------------------------------
(* The types that are no copy of the robot, and those that are.              *)

\* The types of what is no copy of the robot.
PlainTypes ==
    /\ up \in BOOLEAN /\ crashes \in 0..MaxCrash /\ monitor \subseteq Order
    /\ writing \in [stage : {"none", "saved", "decided"}, last : Trade]
    /\ mirror \in [Order -> TradeResult]
    /\ parent \in [Order -> Order \cup {NoOrder}]
    /\ history \in [Order -> TradeResult]
    /\ broker \in [Order -> BrokerState]

\* The scan's type.
ScanType ==
    scan \in [kind : {"none", "boot", "periodic"}, todo : SUBSET Order,
              at : Order \cup {NoOrder}, read : BOOLEAN,
              finals : [Order -> TradeResult]]

\* The copies, and the trade being written.
CopyTypes ==
    /\ robot \in Copies /\ saved \in Copies /\ jobs \in Seq(Copies)
    /\ TradeRight(writing.last)

\* The three are all the types.
LEMMA RestartParts == RestartTypes <=> PlainTypes /\ ScanType /\ CopyTypes
BY DEF RestartTypes, PlainTypes, ScanType, CopyTypes

\* The parts are the invariant, after a step as before it.
LEMMA AllParts ==
    ASSUME PlainTypes', ScanType', CopyTypes', RowsRight',
           ScoreRight', ScoreFromHistory', WaitsForOpenOrder'
    PROVE  RestartInv'
BY DEF RestartInv, RestartTypes, PlainTypes, ScanType, CopyTypes

\* What no step of the robot touches stays right.
LEMMA CopiesStay ==
    ASSUME RestartInv, Steady
    PROVE  /\ UNCHANGED robot => robot' \in Copies'
           /\ UNCHANGED saved => saved' \in Copies'
           /\ UNCHANGED jobs => jobs' \in Seq(Copies')
           /\ UNCHANGED writing => TradeRight(writing.last)'
<1>1. robot \in Copies' /\ saved \in Copies' /\ jobs \in Seq(Copies')
  BY CopiesKept, SeqMonotonic DEF RestartInv, RestartTypes
<1>2. TradeRight(writing.last) /\ Steady
  BY DEF RestartInv, RestartTypes
<1>3. UNCHANGED writing => TradeRight(writing.last)'
  BY <1>2 DEF TradeRight, Steady
<1>4. QED
  BY <1>1, <1>3

\* What a process starts with.
LEMMA EmptyRows ==
    /\ NoRows \in [Order -> TradeResult]
    /\ NoJob \in [stage : {"none", "saved", "decided"}, last : Trade]
    /\ NoJob.last.result = "NONE"
    /\ NoScan \in [kind : {"none", "boot", "periodic"}, todo : SUBSET Order,
                   at : Order \cup {NoOrder}, read : BOOLEAN,
                   finals : [Order -> TradeResult]]
<1>1. NoRows \in [Order -> TradeResult]
  BY DEF NoRows, TradeResult
<1>2. NoJob \in [stage : {"none", "saved", "decided"}, last : Trade]
  BY NoTradeType DEF NoJob
<1>3. NoJob.last.result = "NONE"
  BY DEF NoJob, NoTrade
<1>4. {} \in SUBSET Order
  OBVIOUS
<1>5. NoScan \in [kind : {"none", "boot", "periodic"}, todo : SUBSET Order,
                  at : Order \cup {NoOrder}, read : BOOLEAN,
                  finals : [Order -> TradeResult]]
  BY <1>1, <1>4 DEF NoScan
<1>6. QED
  BY <1>1, <1>2, <1>3, <1>5

-----------------------------------------------------------------------------
(* The steps of the writes and of the broker.                                *)

\* A thread saves the state it was given.
LEMMA SavesStateStep ==
    ASSUME RestartInv, NEW i \in DOMAIN jobs, JobSavesState(i) PROVE RestartInv'
<1> DEFINE j == jobs[i]
<1>1. /\ writing' = [stage |-> "saved", last |-> j.last] /\ saved' = j
      /\ jobs' = RemoveAt(jobs, i)
      /\ UNCHANGED <<up, crashes, robot, monitor, scan, mirror, parent, history, broker>>
  BY DEF JobSavesState
<1>2. Steady /\ RobotStays
  BY <1>1, NothingChanges DEF RobotStays
<1>3. j \in Copies /\ jobs' \in Seq(Copies)
  BY <1>1, RemovedRight DEF RestartInv, RestartTypes
<1> HIDE DEF j
<1>4. Copies \subseteq Copies'
  BY <1>2, CopiesKept
<1>5. saved' \in Copies' /\ jobs' \in Seq(Copies')
  BY <1>1, <1>3, <1>4, SeqMonotonic
<1>6. writing'.last = j.last /\ j.last \in Trade /\ TradeRight(j.last)
  BY <1>1, <1>3 DEF Copies, CopyRight, Robot
<1>7. TradeRight(writing.last)'
  BY <1>1, <1>6 DEF TradeRight, Lost
<1>8. CopyTypes'
  BY <1>1, <1>2, <1>5, <1>7, CopiesStay DEF CopyTypes
<1>9. PlainTypes' /\ ScanType'
  BY <1>1, <1>6, RestartParts DEF RestartInv, PlainTypes, ScanType
<1>10. RowsRight'
  BY <1>1 DEF RestartInv, RowsRight, Lost
<1>11. ScoreRight' /\ ScoreFromHistory' /\ WaitsForOpenOrder'
  BY <1>1, <1>2, ScoreStays
<1>12. QED
  BY <1>8, <1>9, <1>10, <1>11, AllParts

\* It looks whether the trade may still be mirrored.
LEMMA DecidesStep == ASSUME RestartInv, JobDecides PROVE RestartInv'
<1>1. /\ writing' \in {[writing EXCEPT !.stage = "decided"], NoJob}
      /\ UNCHANGED <<up, crashes, robot, monitor, jobs, scan, saved, mirror, parent, history, broker>>
  BY DEF JobDecides
<1>2. Steady /\ RobotStays
  BY <1>1, NothingChanges DEF RobotStays
<1>3. /\ writing \in [stage : {"none", "saved", "decided"}, last : Trade]
      /\ TradeRight(writing.last)
  BY DEF RestartInv, RestartTypes
<1>4. /\ writing' \in [stage : {"none", "saved", "decided"}, last : Trade]
      /\ writing'.last = writing.last \/ writing'.last.result = "NONE"
  BY <1>1, <1>3, EmptyRows
<1>5. TradeRight(writing.last)'
  BY <1>1, <1>3, <1>4 DEF TradeRight, Lost
<1>6. CopyTypes'
  BY <1>1, <1>2, <1>5, CopiesStay DEF CopyTypes
<1>7. PlainTypes' /\ ScanType'
  BY <1>1, <1>4, RestartParts DEF RestartInv, PlainTypes, ScanType
<1>8. RowsRight'
  BY <1>1 DEF RestartInv, RowsRight, Lost
<1>9. ScoreRight' /\ ScoreFromHistory' /\ WaitsForOpenOrder'
  BY <1>1, <1>2, ScoreStays
<1>10. QED
  BY <1>6, <1>7, <1>8, <1>9, AllParts

\* And writes it, however late.
LEMMA SavesTradeStep == ASSUME RestartInv, JobSavesTrade PROVE RestartInv'
<1> DEFINE t == writing.last
<1>1. /\ mirror' = [mirror EXCEPT ![t.id] = t.result] /\ writing' = NoJob
      /\ UNCHANGED <<up, crashes, robot, monitor, jobs, scan, saved, parent, history, broker>>
  BY DEF JobSavesTrade
<1>2. Steady /\ RobotStays
  BY <1>1, NothingChanges DEF RobotStays
<1>3. t \in Trade /\ TradeRight(t) /\ mirror \in [Order -> TradeResult]
  BY DEF RestartInv, RestartTypes
<1> HIDE DEF t
<1>4. /\ mirror' \in [Order -> TradeResult]
      /\ \A o \in Order : mirror'[o] = mirror[o] \/ (o = t.id /\ mirror'[o] = t.result)
  BY <1>1, <1>3 DEF Trade
<1>5. TradeRight(writing.last)'
  BY <1>1, EmptyRows DEF TradeRight
<1>6. CopyTypes'
  BY <1>1, <1>2, <1>5, CopiesStay DEF CopyTypes
<1>7. PlainTypes' /\ ScanType'
  BY <1>1, <1>4, EmptyRows, RestartParts DEF RestartInv, PlainTypes, ScanType
<1>8. RowsRight'
  BY <1>1, <1>3, <1>4 DEF RestartInv, RowsRight, Lost, TradeRight
<1>9. ScoreRight' /\ ScoreFromHistory' /\ WaitsForOpenOrder'
  BY <1>1, <1>2, ScoreStays
<1>10. QED
  BY <1>6, <1>7, <1>8, <1>9, AllParts

\* An order closes at the broker, or grows too old to be asked for.
LEMMA BrokerStep ==
    ASSUME RestartInv, NEW o \in Order, BrokerCloses(o) \/ GetsOld(o) PROVE RestartInv'
<1>1. UNCHANGED <<up, crashes, robot, monitor, jobs, writing, scan, saved, mirror, parent, history>>
  BY DEF BrokerCloses, GetsOld
<1>2. broker \in [Order -> BrokerState]
  BY DEF RestartInv, RestartTypes
<1>3. PICK b \in Result \cup {"gone", "old"} :
          /\ broker' = [broker EXCEPT ![o] = b]
          /\ \/ broker[o] = "open"
             \/ broker[o] = "gone" /\ b = "old"
  BY AnswerAssumption DEF BrokerCloses, GetsOld
<1>4. /\ broker' \in [Order -> BrokerState] /\ broker'[o] = b
      /\ \A x \in Order \ {o} : broker'[x] = broker[x]
  BY <1>2, <1>3 DEF BrokerState
<1>5. \A x \in Order : history[x] \in Final => broker[x] \in Result
  BY DEF RestartInv, RowsRight
<1>6. Steady
  BY <1>1, <1>3, <1>4 DEF Steady, Lost
<1>7. RobotStays /\ \A x \in Order : broker'[x] = "idle" => broker[x] = "idle"
  BY <1>1, <1>3, <1>4, <1>6 DEF RobotStays, Result
<1>8. CopyTypes'
  BY <1>1, <1>6, CopiesStay DEF CopyTypes
<1>9. PlainTypes' /\ ScanType'
  BY <1>1, <1>4, RestartParts DEF RestartInv, PlainTypes, ScanType
<1>10. RowsRight'
  BY <1>1, <1>3, <1>4, <1>5, <1>6 DEF RestartInv, RowsRight, Lost, Result, Steady
<1>11. ScoreRight' /\ ScoreFromHistory' /\ WaitsForOpenOrder'
  BY <1>1, <1>7, ScoreStays
<1>12. QED
  BY <1>8, <1>9, <1>10, <1>11, AllParts

-----------------------------------------------------------------------------
(* The scan.                                                                 *)

\* The scans that a step may leave.
LEMMA ScanFacts ==
    ASSUME RestartInv
    PROVE  /\ \A k \in {"boot", "periodic"} : StartScan(k) \in
                [kind : {"none", "boot", "periodic"}, todo : SUBSET Order,
                 at : Order \cup {NoOrder}, read : BOOLEAN,
                 finals : [Order -> TradeResult]]
           /\ Finals \in [Order -> TradeResult]
           /\ \A s, o : ScanType /\ s \in
                [kind : {"none", "boot", "periodic"}, todo : SUBSET Order,
                 at : Order \cup {NoOrder}, read : BOOLEAN,
                 finals : [Order -> TradeResult]] => Done(s, o) \in
                [kind : {"none", "boot", "periodic"}, todo : SUBSET Order,
                 at : Order \cup {NoOrder}, read : BOOLEAN,
                 finals : [Order -> TradeResult]]
<1>1. PendingRows \in SUBSET Order
  BY DEF PendingRows
<1>2. \A k \in {"boot", "periodic"} : StartScan(k) \in
                [kind : {"none", "boot", "periodic"}, todo : SUBSET Order,
                 at : Order \cup {NoOrder}, read : BOOLEAN,
                 finals : [Order -> TradeResult]]
  BY <1>1, EmptyRows DEF StartScan
<1>3. Finals \in [Order -> TradeResult]
  BY RestartParts DEF RestartInv, PlainTypes, ScanType, Finals
<1>4. QED
  BY <1>2, <1>3, EmptyRows DEF Done

\* A scan starts with the orders the rows call open.
LEMMA ScanStartStep == ASSUME RestartInv, ScanStart PROVE RestartInv'
<1>1. /\ scan' = StartScan("periodic")
      /\ UNCHANGED <<up, crashes, robot, monitor, jobs, writing, saved, mirror, parent, history, broker>>
  BY DEF ScanStart
<1>2. Steady /\ RobotStays
  BY <1>1, NothingChanges DEF RobotStays
<1>3. CopyTypes'
  BY <1>1, <1>2, CopiesStay DEF CopyTypes
<1>4. PlainTypes' /\ ScanType'
  BY <1>1, ScanFacts, RestartParts DEF RestartInv, PlainTypes, ScanType
<1>5. RowsRight'
  BY <1>1 DEF RestartInv, RowsRight, Lost
<1>6. ScoreRight' /\ ScoreFromHistory' /\ WaitsForOpenOrder'
  BY <1>1, <1>2, ScoreStays
<1>7. QED
  BY <1>3, <1>4, <1>5, <1>6, AllParts

\* A row is skipped, repaired from the history, or asked for.
LEMMA ScanNextStep == ASSUME RestartInv, NEW o \in Order, ScanNext(o) PROVE RestartInv'
<1> DEFINE read == [scan EXCEPT !.read = TRUE, !.finals = Finals]
<1>1. UNCHANGED <<up, crashes, robot, monitor, jobs, writing, saved, parent, history, broker>>
  BY DEF ScanNext
<1>2. Steady /\ RobotStays
  BY <1>1, NothingChanges DEF RobotStays
<1>3. CopyTypes'
  BY <1>1, <1>2, CopiesStay DEF CopyTypes
<1>4. /\ ScanType /\ Finals \in [Order -> TradeResult]
      /\ mirror \in [Order -> TradeResult]
  BY ScanFacts, RestartParts DEF RestartInv, PlainTypes
<1>5. read \in [kind : {"none", "boot", "periodic"}, todo : SUBSET Order,
                at : Order \cup {NoOrder}, read : BOOLEAN,
                finals : [Order -> TradeResult]]
  BY <1>4 DEF ScanType
<1>6. /\ scan' \in {Done(scan, o), Done(read, o), [read EXCEPT !.at = o]}
      /\ \/ mirror' = mirror
         \/ Finals[o] \in Final /\ mirror' = [mirror EXCEPT ![o] = Finals[o]]
  BY DEF ScanNext
<1> HIDE DEF read
<1>7. [read EXCEPT !.at = o] \in
        [kind : {"none", "boot", "periodic"}, todo : SUBSET Order,
         at : Order \cup {NoOrder}, read : BOOLEAN, finals : [Order -> TradeResult]]
  BY <1>5
<1>8. ScanType'
  BY <1>4, <1>5, <1>6, <1>7, ScanFacts DEF ScanType
<1>9. /\ mirror' \in [Order -> TradeResult]
      /\ \A x \in Order : mirror'[x] = "TIMEOUT" => mirror[x] = "TIMEOUT"
  BY <1>4, <1>6 DEF Final
<1>10. PlainTypes'
  BY <1>1, <1>9, RestartParts DEF RestartInv, PlainTypes
<1>11. RowsRight'
  BY <1>1, <1>9 DEF RestartInv, RowsRight, Lost
<1>12. ScoreRight' /\ ScoreFromHistory' /\ WaitsForOpenOrder'
  BY <1>1, <1>2, ScoreStays
<1>13. QED
  BY <1>3, <1>8, <1>10, <1>11, <1>12, AllParts

\* No result: the order is monitored again, left, or given up.
LEMMA NoAnswerStep == ASSUME RestartInv, NEW o \in Order, ScanNoAnswer(o) PROVE RestartInv'
<1>1. /\ UNCHANGED <<up, crashes, robot, jobs, writing, saved, parent, history, broker>>
      /\ scan' = Done(scan, o)
      /\ monitor' \in {monitor, monitor \cup {o}}
      /\ mirror' = mirror \/ (Lost(o) /\ mirror' = [mirror EXCEPT ![o] = "TIMEOUT"])
  BY DEF ScanNoAnswer, GivesUp, Lost
<1>2. Steady /\ RobotStays
  BY <1>1, NothingChanges DEF RobotStays
<1>3. CopyTypes'
  BY <1>1, <1>2, CopiesStay DEF CopyTypes
<1>4. ScanType'
  BY <1>1, ScanFacts, RestartParts DEF RestartInv, ScanType
<1>5. mirror \in [Order -> TradeResult] /\ monitor \subseteq Order
  BY RestartParts DEF RestartInv, PlainTypes
<1>6. /\ mirror' \in [Order -> TradeResult]
      /\ \A x \in Order : mirror'[x] = "TIMEOUT" => mirror[x] = "TIMEOUT" \/ Lost(x)
  BY <1>1, <1>5 DEF TradeResult
<1>7. PlainTypes'
  BY <1>1, <1>5, <1>6, RestartParts DEF RestartInv, PlainTypes
<1>8. RowsRight'
  BY <1>1, <1>6 DEF RestartInv, RowsRight, Lost
<1>9. ScoreRight' /\ ScoreFromHistory' /\ WaitsForOpenOrder'
  BY <1>1, <1>2, ScoreStays
<1>10. QED
  BY <1>3, <1>4, <1>7, <1>8, <1>9, AllParts

-----------------------------------------------------------------------------
(* The worker.                                                               *)

\* A leg that waits in t waits in s.
LegStays(s, t) ==
    t.galePending => s.galePending /\ t.galeParent = s.galeParent /\ t.last = s.last

\* A step of the worker that closes nothing, and opens neither order nor leg.
LEMMA RestStep ==
    ASSUME RestartInv, NEW t \in Robot, robot' = t, SameScore(robot, t),
           LegStays(robot, t), ~t.op, t.last \in {robot.last, NoTrade},
           Persist,
           UNCHANGED <<up, crashes, monitor, writing, scan, saved, mirror, parent, history, broker>>
    PROVE  RestartInv'
<1>1. Steady
  BY NothingChanges
<1>2. TradeRight(robot.last)
  BY DEF RestartInv, RestartTypes, Copies, CopyRight
<1>3. TradeRight(robot.last)'
  BY <1>2 DEF TradeRight, Lost, NoTrade
<1>4. robot' \in Copies'
  BY <1>3 DEF Copies, CopyRight, LegStays, RestartInv, RestartTypes
<1>5. jobs' \in Seq(Copies')
  BY <1>1, <1>4, PersistsRight DEF Persist, RestartInv, RestartTypes
<1>6. CopyTypes'
  BY <1>1, <1>4, <1>5, CopiesStay DEF CopyTypes
<1>7. PlainTypes' /\ ScanType'
  BY RestartParts DEF RestartInv, PlainTypes, ScanType
<1>8. RowsRight'
  BY DEF RestartInv, RowsRight, Lost
<1>9. ScoreRight' /\ ScoreFromHistory' /\ WaitsForOpenOrder'
  BY ScoreQuiet DEF LegStays
<1>10. QED
  BY <1>6, <1>7, <1>8, <1>9, AllParts

\* A signal is found, or goes; a waiting leg stays.
LEMMA SignalStep == ASSUME RestartInv, FindSignal \/ TickDropsSignal PROVE RestartInv'
<1>1. robot \in Robot /\ ~robot.op
  BY DEF RestartInv, RestartTypes, Copies, FindSignal, TickDropsSignal, CanAnalyse
<1>2. PICK t : /\ t \in {SetPendingSignal(robot), DropSignal(robot)} /\ robot' = t /\ Persist
               /\ UNCHANGED <<up, crashes, monitor, writing, scan, saved, mirror,
                              parent, history, broker>>
  BY DEF FindSignal, TickDropsSignal
<1>3. Quiet(robot, t) /\ LegStays(robot, t)
  BY <1>1, <1>2, SetPendingQuiet, DropQuiet DEF AtRest, LegStays
<1>4. /\ t \in Robot /\ SameScore(robot, t) /\ ~t.op /\ t.last \in {robot.last, NoTrade}
  BY <1>3 DEF Quiet
<1>5. QED
  BY <1>2, <1>3, <1>4, RestStep

\* A signal expires.
LEMMA ExpireStep == ASSUME RestartInv, SignalExpires PROVE RestartInv'
<1> DEFINE t == ExpirePendingSignal(robot)
<1>1. robot \in Robot
  BY DEF RestartInv, RestartTypes, Copies
<1>2. AtRest(robot, t) /\ ~t.galePending
  BY <1>1, ExpireQuiet DEF ExpirePendingSignal, ClearGale, Robot
<1>3. /\ robot' = t /\ Persist
      /\ UNCHANGED <<up, crashes, monitor, writing, scan, saved, mirror, parent, history, broker>>
  BY DEF SignalExpires
<1> HIDE DEF t
<1>4. /\ t \in Robot /\ SameScore(robot, t) /\ LegStays(robot, t) /\ ~t.op
      /\ t.last \in {robot.last, NoTrade}
  BY <1>2 DEF AtRest, Quiet, LegStays
<1>5. QED
  BY <1>3, <1>4, RestStep

\* A leg that is given up is counted in memory, in the history and the mirror.
LEMMA LegClosedStep ==
    ASSUME RestartInv, up, robot.galePending, NEW c \in Robot, NEW t \in Robot,
           LegClosed(robot, c), c.last = [robot.galeParent EXCEPT !.result = "LOSS"],
           AtRest(c, t), robot' = t, Persists(<<c, t>>),
           history' = [history EXCEPT ![robot.galeParent.id] = "LOSS"],
           mirror' = [mirror EXCEPT ![robot.galeParent.id] = "LOSS"],
           UNCHANGED <<up, crashes, monitor, writing, scan, saved, parent, broker>>
    PROVE  RestartInv'
<1> DEFINE id == robot.last.id
<1>1. /\ id \in Order /\ robot.galeParent = robot.last /\ robot \in Robot
      /\ history[id] \in Final
  BY DEF RestartInv, RestartTypes, Copies, CopyRight
<1>2. /\ history \in [Order -> TradeResult] /\ mirror \in [Order -> TradeResult]
      /\ broker[id] \in Result
  BY <1>1 DEF RestartInv, RestartTypes, RowsRight
<1>3. /\ history' = [history EXCEPT ![id] = "LOSS"]
      /\ mirror' = [mirror EXCEPT ![id] = "LOSS"]
  BY <1>1
<1>4. /\ c.completed = robot.completed /\ c.wins = robot.wins /\ ~c.galePending /\ ~c.op
      /\ c.losses = [robot.losses EXCEPT ![id] = @ + 1]
      /\ c.last = [robot.last EXCEPT !.result = "LOSS"]
  BY <1>1 DEF LegClosed
<1>5. /\ t.completed = c.completed /\ t.wins = c.wins /\ t.losses = c.losses
      /\ ~t.galePending /\ ~t.op /\ t.last \in {c.last, NoTrade}
  BY <1>4 DEF AtRest, Quiet, SameScore
<1> HIDE DEF id
<1>6. /\ history' \in [Order -> TradeResult] /\ mirror' \in [Order -> TradeResult]
      /\ \A x \in Order : history'[x] = IF x = id THEN "LOSS" ELSE history[x]
      /\ \A x \in Order : mirror'[x] = IF x = id THEN "LOSS" ELSE mirror[x]
  <2>1. "LOSS" \in TradeResult
    BY DEF TradeResult, Final
  <2>2. \A x \in Order : history'[x] = IF x = id THEN "LOSS" ELSE history[x]
    BY <1>1, <1>2, <1>3
  <2>3. \A x \in Order : mirror'[x] = IF x = id THEN "LOSS" ELSE mirror[x]
    BY <1>1, <1>2, <1>3
  <2>4. history' \in [Order -> TradeResult]
    BY <1>2, <1>3, <2>1
  <2>5. mirror' \in [Order -> TradeResult]
    BY <1>2, <1>3, <2>1
  <2>6. QED
    BY <2>2, <2>3, <2>4, <2>5
<1>7. Steady
  BY <1>6 DEF Steady, Lost, Final
<1>8. c.last.result = "LOSS" /\ t.last.result \in {"LOSS", "NONE"}
  BY <1>1, <1>4, <1>5 DEF NoTrade, Robot, Trade
<1>9. c \in Copies' /\ t \in Copies'
  BY <1>4, <1>5, <1>8 DEF Copies, CopyRight, TradeRight
<1>10. jobs' \in Seq(Copies')
  BY <1>7, <1>9, PersistsRight DEF RestartInv, RestartTypes
<1>11. CopyTypes'
  BY <1>7, <1>9, <1>10, CopiesStay DEF CopyTypes
<1>12. PlainTypes' /\ ScanType'
  BY <1>6, RestartParts DEF RestartInv, PlainTypes, ScanType
<1>13. RowsRight'
  BY <1>2, <1>6 DEF RestartInv, RowsRight, Lost
<1>14. /\ \A x \in Order \ {id} : ScoreOf(robot', x) = ScoreOf(robot, x)
       /\ ScoreOf(robot', id) >= 1
  BY <1>1, <1>4, <1>5 DEF ScoreOf, Robot
<1>15. id \in robot.completed
  BY DEF RestartInv, ScoreRight, id
<1>16. ScoreRight'
  BY <1>4, <1>5, <1>14, <1>15 DEF RestartInv, ScoreRight, Score
<1>17. ScoreFromHistory'
  BY <1>6, <1>14 DEF RestartInv, ScoreFromHistory, Score, Final
<1>18. WaitsForOpenOrder'
  BY <1>5 DEF WaitsForOpenOrder
<1>19. QED
  BY <1>11, <1>12, <1>13, <1>16, <1>17, <1>18, AllParts

\* close_abandoned_gale_cycle and a quiet operation after it.
LEMMA CloseGaleStep ==
    ASSUME RestartInv, up, NEW s, AtRest(CloseAbandonedGale(robot), s), CloseGaleThen(s)
    PROVE  RestartInv'
<1> DEFINE c == CloseAbandonedGale(robot)
<1>1. robot \in Robot /\ CopyRight(robot)
  BY DEF RestartInv, RestartTypes, Copies
<1>2. robot.galePending => robot.galeParent.result = "LEG" /\ robot.galeParent.id \in Order
  BY <1>1 DEF CopyRight
<1>3. /\ c \in Robot /\ ~c.galePending
      /\ IF robot.galePending
         THEN /\ LegClosed(robot, c) /\ c.galeOrigin = NoOrder
              /\ c.last = [robot.galeParent EXCEPT !.result = "LOSS"]
         ELSE c = robot
  BY <1>1, <1>2, CloseAbandonedFacts
<1>4. HasAbandonedGale(robot) <=> robot.galePending
  BY <1>1, <1>2 DEF HasAbandonedGale, Robot
<1>5. robot' = s /\ s \in Robot
  BY DEF CloseGaleThen, AtRest, Quiet
<1>6. UNCHANGED <<up, crashes, monitor, writing, scan, saved, parent, broker>>
  BY DEF CloseGaleThen
<1> HIDE DEF c
<1>7. CASE robot.galePending
  <2>1. /\ history' = [history EXCEPT ![robot.galeParent.id] = "LOSS"]
        /\ mirror' = [mirror EXCEPT ![robot.galeParent.id] = "LOSS"]
        /\ Persists(<<c, s>>)
    BY <1>4, <1>5, <1>7 DEF CloseGaleThen, c
  <2>2. AtRest(c, s)
    BY DEF c
  <2>3. QED
    BY <1>3, <1>5, <1>6, <1>7, <2>1, <2>2, LegClosedStep
<1>8. CASE ~robot.galePending
  <2>1. Persist /\ UNCHANGED <<history, mirror>>
    BY <1>4, <1>8 DEF CloseGaleThen
  <2>2. AtRest(robot, s)
    BY <1>3, <1>8 DEF c
  <2>3. /\ SameScore(robot, s) /\ LegStays(robot, s) /\ ~s.op
        /\ s.last \in {robot.last, NoTrade}
    BY <1>8, <2>2 DEF AtRest, Quiet, LegStays
  <2>4. QED
    BY <1>5, <1>6, <2>1, <2>3, RestStep
<1>9. QED
  BY <1>7, <1>8

\* The next cycle begins, or the stop pauses the robot.
LEMMA RecycleStep == ASSUME RestartInv, RecycleCycle \/ PauseRobotByStop PROVE RestartInv'
<1> DEFINE c == CloseAbandonedGale(robot)
<1>1. robot \in Robot /\ CopyRight(robot)
  BY DEF RestartInv, RestartTypes, Copies
<1>2. robot.galePending => robot.galeParent.result = "LEG" /\ robot.galeParent.id \in Order
  BY <1>1 DEF CopyRight
<1>3. c \in Robot /\ ~c.galePending
  BY <1>1, <1>2, CloseAbandonedFacts
<1>4. up /\ (CloseGaleThen(ResetCycleAfterResult(c)) \/ CloseGaleThen(PauseByStop(c)))
  BY DEF RecycleCycle, PauseRobotByStop, Working, Running
<1>5. AtRest(c, ResetCycleAfterResult(c)) /\ AtRest(c, PauseByStop(c))
  BY <1>3, ResetQuiet, PauseQuiet
<1>6. QED
  BY <1>4, <1>5, CloseGaleStep

\* An order is sent, recorded and monitored.
LEMMA SendStep == ASSUME RestartInv, NEW o \in Order, SendOrder(o) PROVE RestartInv'
<1> DEFINE q == StartSendingOrder(SetPendingSignal(robot))
           step == SentStep(robot)
           t == RecordTrade(q, o, step)
<1>1. robot \in Robot /\ CopyRight(robot)
  BY DEF RestartInv, RestartTypes, Copies
<1>2. /\ up /\ ~robot.op /\ broker[o] = "idle"
  BY <1>1 DEF SendOrder, Working, Running, CanSend, Robot
<1>3. o \notin robot.completed
  BY <1>2 DEF RestartInv, ScoreRight
<1>4. /\ Quiet(robot, q) /\ q.galePending = robot.galePending /\ q.galeParent = robot.galeParent
  BY <1>1, <1>2, SendingQuiet
<1>5. step \in 0..MaxGale
  <2>1. IsGaleOrder(robot) => MaxGale > 0
    BY <1>1, GaleAssumption DEF IsGaleOrder, CopyRight, Robot
  <2>2. QED
    BY <2>1, GaleAssumption DEF SentStep
<1>6. robot.galePending => step > 0
  BY DEF SentStep, IsGaleOrder
<1>7. /\ robot' = t /\ broker' = [broker EXCEPT ![o] = "open"] /\ Persist
      /\ parent' = [parent EXCEPT ![o] = robot.galeOrigin]
      /\ monitor' = monitor \cup {o}
      /\ UNCHANGED <<up, crashes, writing, scan, saved, mirror, history>>
  BY DEF SendOrder
<1> HIDE DEF q, step
<1>8. /\ t \in Robot /\ t.op /\ SameScore(q, t)
      /\ t.last = [id |-> o, result |-> "PENDING", step |-> step]
      /\ t.galePending = (IF step > 0 THEN FALSE ELSE q.galePending)
  <2>1. q \in Robot /\ ~q.op /\ o \notin q.completed
    BY <1>3, <1>4 DEF Quiet, SameScore
  <2>2. t \in Robot /\ t.op /\ SameScore(q, t)
    BY <1>5, <2>1, RecordFacts
  <2>3. QED
    BY <2>1, <2>2 DEF RecordTrade, Robot
<1> HIDE DEF t
<1>9. ~t.galePending
  BY <1>4, <1>6, <1>8
<1>10. t.last.id = o /\ t.last.result = "PENDING" /\ SameScore(robot, t)
  BY <1>4, <1>8 DEF Quiet, SameScore
<1>11. /\ broker \in [Order -> BrokerState] /\ monitor \subseteq Order
       /\ parent \in [Order -> Order \cup {NoOrder}]
  BY DEF RestartInv, RestartTypes
<1>12. /\ broker' \in [Order -> BrokerState] /\ broker'[o] = "open"
       /\ \A x \in Order \ {o} : broker'[x] = broker[x]
  BY <1>7, <1>11 DEF BrokerState
<1>13. Steady
  BY <1>2, <1>7, <1>12 DEF Steady, Lost
<1>14. robot' \in Copies'
  BY <1>7, <1>8, <1>9, <1>10 DEF Copies, CopyRight, TradeRight
<1>15. jobs' \in Seq(Copies')
  BY <1>7, <1>13, <1>14, PersistsRight DEF Persist, RestartInv, RestartTypes
<1>16. CopyTypes'
  BY <1>7, <1>13, <1>14, <1>15, CopiesStay DEF CopyTypes
<1>17. parent' \in [Order -> Order \cup {NoOrder}]
  BY <1>1, <1>7, <1>11 DEF Robot
<1>18. PlainTypes' /\ ScanType'
  BY <1>7, <1>11, <1>12, <1>17, RestartParts DEF RestartInv, PlainTypes, ScanType
<1>19. \A x \in Order : /\ history[x] \in Final => broker[x] \in Result
                        /\ mirror[x] = "TIMEOUT" => Lost(x)
  BY DEF RestartInv, RowsRight
<1>20. RowsRight'
  BY <1>2, <1>7, <1>12, <1>19 DEF RowsRight, Lost, Result
<1>21. ScoreRight' /\ ScoreFromHistory'
  <2>1. \A x \in Order : broker'[x] = "idle" => broker[x] = "idle"
    BY <1>12
  <2>2. \A x \in Order : ScoreOf(robot', x) = ScoreOf(robot, x)
    BY <1>7, <1>10 DEF SameScore, ScoreOf
  <2>3. QED
    BY <1>7, <1>9, <1>10, <2>1, <2>2 DEF RestartInv, ScoreRight, ScoreFromHistory,
       Score, SameScore
<1>22. WaitsForOpenOrder'
  BY <1>2, <1>7, <1>10, <1>19 DEF WaitsForOpenOrder, Result
<1>23. QED
  BY <1>16, <1>18, <1>20, <1>21, <1>22, AllParts

-----------------------------------------------------------------------------
(* Results, death and restore.                                               *)

\* A monitor or the scan brings a result.
LEMMA FinishStep ==
    ASSUME RestartInv, NEW o \in Order, MonitorFinish(o) \/ ScanFinish(o) PROVE RestartInv'
<1> DEFINE f == Finish(o)
<1>1. /\ FinishMonitored(o) /\ up /\ broker[o] \in Result
      /\ monitor' \in {monitor, monitor \ {o}} /\ scan' \in {scan, Done(scan, o)}
  BY DEF MonitorFinish, ScanFinish, Running, FinishMonitored
<1>2. /\ robot' = f.robot /\ history' = Put(history, f) /\ mirror' = Put(mirror, f)
      /\ Persists(f.writes)
      /\ UNCHANGED <<up, crashes, writing, saved, parent, broker>>
  BY <1>1 DEF FinishMonitored
<1>3. robot' \in Copies' /\ Steady
  BY <1>1, FinishCopy
<1>4. f.writes = <<f.robot>> \/ f.writes = <<f.robot, f.robot>>
  BY <1>1, FinishOutcome
<1>5. f.id = NoOrder \/ (f.id \in Order /\ f.result \in Final /\ broker[f.id] \in Result)
  BY <1>1, RowWritten
<1> HIDE DEF f
<1>6. jobs' \in Seq(Copies')
  <2>1. Persists(<<robot'>>) \/ Persists(<<robot', robot'>>)
    BY <1>2, <1>4
  <2>2. jobs \in Seq(Copies)
    BY DEF RestartInv, RestartTypes
  <2>3. QED
    BY <1>3, <2>1, <2>2, PersistsRight
<1>7. CopyTypes'
  BY <1>2, <1>3, <1>6, CopiesStay DEF CopyTypes
<1>8. ScanType'
  BY <1>1, ScanFacts, RestartParts DEF RestartInv, ScanType
<1>9. /\ history \in [Order -> TradeResult] /\ mirror \in [Order -> TradeResult]
      /\ monitor \subseteq Order
  BY DEF RestartInv, RestartTypes
<1>10. /\ history' \in [Order -> TradeResult] /\ mirror' \in [Order -> TradeResult]
       /\ \A x \in Order : history'[x] = IF x = f.id THEN f.result ELSE history[x]
       /\ \A x \in Order : mirror'[x] = IF x = f.id THEN f.result ELSE mirror[x]
  BY <1>2, <1>5, <1>9, PutFacts
<1>11. PlainTypes'
  BY <1>1, <1>2, <1>9, <1>10, RestartParts DEF RestartInv, PlainTypes
<1>12. RowsRight'
  BY <1>2, <1>5, <1>10, OrderAssumption DEF RestartInv, RowsRight, Lost, Final
<1>13. ScoreRight' /\ ScoreFromHistory' /\ WaitsForOpenOrder'
  BY <1>1, <1>2, FinishScore
<1>14. QED
  BY <1>7, <1>8, <1>11, <1>12, <1>13, AllParts

\* The process dies, perhaps between the history and the mirror.
LEMMA CrashStep ==
    ASSUME RestartInv, Crash \/ \E o \in Order : CrashInFinish(o) PROVE RestartInv'
<1>1. /\ up /\ crashes < MaxCrash /\ up' = FALSE /\ crashes' = crashes + 1
      /\ robot' = InitRobot /\ monitor' = {} /\ jobs' = <<>> /\ writing' = NoJob
      /\ scan' = NoScan
      /\ UNCHANGED <<saved, mirror, parent, broker>>
  BY DEF Crash, CrashInFinish, Dead
<1>2. /\ Steady /\ history' \in [Order -> TradeResult]
      /\ \A x \in Order : history'[x] \in Final => broker[x] \in Result
  <2>1. CASE history' = history
    BY <1>1, <2>1, NothingChanges DEF RestartInv, RestartTypes, RowsRight
  <2>2. ASSUME NEW o \in Order, CrashInFinish(o)
        PROVE  /\ Steady /\ history' \in [Order -> TradeResult]
               /\ \A x \in Order : history'[x] \in Final => broker[x] \in Result
    BY <1>1, <2>2, RowsKept DEF CrashInFinish
  <2>3. QED
    BY <2>1, <2>2 DEF Crash
<1>3. robot' \in Copies'
  <2>1. InitRobot \in Robot /\ ~InitRobot.galePending /\ InitRobot.last = NoTrade
    BY InitType DEF InitRobot
  <2>2. QED
    BY <1>1, <2>1 DEF Copies, CopyRight, TradeRight, NoTrade
<1>4. jobs' \in Seq(Copies') /\ TradeRight(writing.last)'
  BY <1>1, EmptyRows DEF TradeRight
<1>5. CopyTypes'
  BY <1>1, <1>2, <1>3, <1>4, CopiesStay DEF CopyTypes
<1>6. crashes' \in 0..MaxCrash
  BY <1>1, BoundAssumption DEF RestartInv, RestartTypes
<1>7. PlainTypes' /\ ScanType'
  BY <1>1, <1>2, <1>6, EmptyRows, RestartParts DEF RestartInv, PlainTypes, ScanType
<1>8. RowsRight'
  BY <1>1, <1>2 DEF RestartInv, RowsRight, Lost
<1>9. ScoreRight' /\ ScoreFromHistory' /\ WaitsForOpenOrder'
  BY <1>1 DEF ScoreRight, ScoreFromHistory, WaitsForOpenOrder
<1>10. QED
  BY <1>5, <1>7, <1>8, <1>9, AllParts

\* What restore_robot_states makes of the saved row.
LEMMA RestoreFacts ==
    ASSUME RestartInv, NEW shown \in BOOLEAN
    PROVE  LET t == Restore(saved, shown)
           IN  /\ t \in Robot
               /\ t.completed = Restored
               /\ t.wins = Points(RestoredWins) /\ t.losses = Points(RestoredLosses)
               /\ t.galePending = saved.galePending /\ t.galeParent = saved.galeParent
               /\ t.signal = saved.signal /\ t.op \in {saved.op, FALSE}
               /\ t.last = RestoredLast(saved.last)
<1>1. saved \in Robot /\ mirror \in [Order -> TradeResult] /\ history \in [Order -> TradeResult]
  BY DEF RestartInv, RestartTypes, Copies
<1> DEFINE s == RestoredStatus(saved, shown)
           l == RestoredLast(saved.last)
           w == Points(RestoredWins)
           k == Points(RestoredLosses)
           p == Points(RestoredWins \cup RestoredLosses)
<1>2. /\ s \in Robot /\ s.op \in {saved.op, FALSE} /\ s.last = saved.last
      /\ s.galePending = saved.galePending /\ s.galeParent = saved.galeParent
      /\ s.signal = saved.signal
  BY <1>1 DEF RestoredStatus, Robot, Status
<1>3. l \in Trade
  <2>1. saved.last \in Trade
    BY <1>1 DEF Robot
  <2>2. saved.last.id \in Restored => RestoredResult(saved.last.id) \in TradeResult
    BY <1>1 DEF Restored, RestoredResult
  <2>3. QED
    BY <2>1, <2>2, NoTradeType DEF RestoredLast, Trade
<1>4. Restored \in SUBSET Order
  BY DEF Restored
<1>5. w \in [Order -> Nat] /\ k \in [Order -> Nat] /\ p \in [Order -> Nat]
  BY DEF Points
<1>6. Restore(saved, shown) = [s EXCEPT !.last = l, !.completed = Restored,
                                        !.wins = w, !.losses = k, !.paid = p]
  BY <1>2 DEF Restore
<1> HIDE DEF s, l, w, k, p
<1>7. LET t == Restore(saved, shown)
      IN  /\ t \in Robot
          /\ t.completed = Restored
          /\ t.wins = w /\ t.losses = k
          /\ t.galePending = s.galePending /\ t.galeParent = s.galeParent
          /\ t.signal = s.signal /\ t.op = s.op
          /\ t.last = l
  BY <1>2, <1>3, <1>4, <1>5, <1>6 DEF Robot
<1>8. QED
  BY <1>2, <1>7 DEF l, w, k

\* The robot comes back with the score its history tells.
LEMMA BootStep == ASSUME RestartInv, Boot PROVE RestartInv'
<1>1. PICK shown \in BOOLEAN : robot' = Restore(saved, shown)
  BY DEF Boot
<1>2. /\ up' = TRUE /\ scan' \in {NoScan, StartScan("boot")}
      /\ UNCHANGED <<crashes, monitor, jobs, writing, saved, mirror, parent, history, broker>>
  BY DEF Boot
<1>3. /\ robot' \in Robot
      /\ robot'.completed = Restored
      /\ robot'.wins = Points(RestoredWins) /\ robot'.losses = Points(RestoredLosses)
      /\ robot'.galePending = saved.galePending /\ robot'.galeParent = saved.galeParent
      /\ robot'.signal = saved.signal /\ robot'.op \in {saved.op, FALSE}
      /\ robot'.last = RestoredLast(saved.last)
  BY <1>1, RestoreFacts
<1>4. Steady
  BY <1>2, NothingChanges
<1>5. saved \in Robot /\ CopyRight(saved) /\ history \in [Order -> TradeResult]
      /\ RowsRight
  BY DEF RestartInv, RestartTypes, Copies
<1>6. saved.galePending => robot'.last = saved.last
  BY <1>3, <1>5 DEF CopyRight, RestoredLast
<1>7. TradeRight(robot'.last) /\ (robot'.last.result = "PENDING" =>
            robot'.last.id \in Order \ Restored)
  <2>1. TradeRight(saved.last) /\ saved.last \in Trade
    BY <1>5 DEF CopyRight, Robot
  <2>2. CASE saved.last.id = NoOrder \/ saved.last.result # "PENDING"
    <3>1. robot'.last = saved.last
      BY <1>3, <2>2 DEF RestoredLast
    <3>2. robot'.last.result # "PENDING"
      BY <2>1, <2>2, <3>1, OrderAssumption DEF TradeRight
    <3>3. QED
      BY <2>1, <3>1, <3>2
  <2>3. CASE /\ ~(saved.last.id = NoOrder \/ saved.last.result # "PENDING")
             /\ saved.last.id \in Restored
    <3>1. robot'.last = [saved.last EXCEPT !.result = RestoredResult(saved.last.id)]
      BY <1>3, <2>3 DEF RestoredLast
    <3>2. /\ robot'.last.id = saved.last.id /\ saved.last.id \in Order
          /\ robot'.last.result = RestoredResult(saved.last.id)
      BY <2>1, <2>3, <3>1 DEF Trade, Restored
    <3>3. \/ robot'.last.result \in Final
          \/ robot'.last.result = "TIMEOUT" /\ mirror[saved.last.id] = "TIMEOUT"
      BY <2>3, <3>2 DEF Restored, RestoredResult
    <3>4. QED
      BY <1>5, <3>2, <3>3 DEF TradeRight, RowsRight, Final
  <2>4. CASE /\ ~(saved.last.id = NoOrder \/ saved.last.result # "PENDING")
             /\ saved.last.id \notin Restored
    <3>1. robot'.last \in {NoTrade, saved.last}
      BY <1>3, <2>4 DEF RestoredLast
    <3>2. QED
      BY <2>1, <2>4, <3>1 DEF TradeRight, NoTrade
  <2>5. QED
    BY <2>2, <2>3, <2>4
<1>8. robot' \in Copies'
  <2>1. TradeRight(robot.last)'
    BY <1>2, <1>7 DEF TradeRight, Lost
  <2>2. robot'.galePending =>
            /\ robot'.last = robot'.galeParent /\ robot'.last.id \in Order
            /\ robot'.last.result = "LEG" /\ history'[robot'.last.id] \in Final
            /\ ~robot'.op /\ MaxGale > 0
    BY <1>2, <1>3, <1>5, <1>6 DEF CopyRight
  <2>3. QED
    BY <1>3, <2>1, <2>2 DEF Copies, CopyRight
<1>9. CopyTypes'
  BY <1>2, <1>4, <1>8, CopiesStay DEF CopyTypes
<1>10. PlainTypes' /\ ScanType'
  BY <1>2, EmptyRows, ScanFacts, RestartParts DEF RestartInv, PlainTypes, ScanType
<1>11. RowsRight'
  BY <1>2 DEF RestartInv, RowsRight, Lost
<1>12. \A o \in Order : ScoreOf(robot', o) =
            (IF history[o] = "WIN" THEN 1 ELSE 0)
            + (IF history[o] \in {"LOSS", "LEG"} /\ ~Superseded(o) THEN 1 ELSE 0)
  BY <1>3 DEF ScoreOf, Points, RestoredWins, RestoredLosses
<1>13. ScoreFromHistory'
  BY <1>2, <1>12 DEF ScoreFromHistory, Score, Superseded, Final
<1>14. ScoreRight'
  <2>1. \A o \in Order : o \in robot'.completed => broker'[o] # "idle"
    BY <1>2, <1>3, <1>5 DEF Restored, RowsRight, Lost, Result
  <2>2. \A o \in Order : o \notin robot'.completed => ScoreOf(robot', o) = 0
    BY <1>3, <1>12 DEF Restored, Final
  <2>3. \A o \in Order : history[o] \in Final => o \in robot'.completed /\ ScoreOf(robot', o) <= 1
    BY <1>3, <1>12 DEF Restored, Final
  <2>4. robot'.galePending => history[robot'.last.id] \in Final /\ robot'.last.id \in Order
    BY <1>3, <1>5, <1>6 DEF CopyRight
  <2>5. QED
    BY <2>1, <2>2, <2>3, <2>4 DEF ScoreRight, Score
<1>15. WaitsForOpenOrder'
  BY <1>2, <1>7 DEF WaitsForOpenOrder, Restored
<1>16. QED
  BY <1>9, <1>10, <1>11, <1>13, <1>14, <1>15, AllParts

-----------------------------------------------------------------------------
(* The theorems.                                                             *)

\* The invariant holds at first.
LEMMA RestartStart == Init => RestartInv
<1> SUFFICES ASSUME Init PROVE RestartInv
  OBVIOUS
<1> DEFINE t == Start(InitRobot)
<1>1. Quiet(InitRobot, t) /\ InitRobot \in Robot
  BY InitType, StartQuiet
<1>2. /\ InitRobot.last = NoTrade /\ InitRobot.completed = {}
      /\ InitRobot.wins = [o \in Order |-> 0] /\ InitRobot.losses = [o \in Order |-> 0]
      /\ ~InitRobot.galePending
  BY DEF InitRobot
<1>3. /\ robot = t /\ saved = t /\ up = TRUE /\ crashes = 0 /\ monitor = {}
      /\ jobs = <<>> /\ writing = NoJob /\ scan = NoScan
      /\ mirror = NoRows /\ history = NoRows
      /\ parent = [o \in Order |-> NoOrder] /\ broker = [o \in Order |-> "idle"]
  BY DEF Init
<1> HIDE DEF t
<1>4. /\ t \in Robot /\ ~t.galePending /\ ~t.op /\ t.last = NoTrade /\ t.completed = {}
      /\ t.wins = [o \in Order |-> 0] /\ t.losses = [o \in Order |-> 0]
  BY <1>1, <1>2 DEF Quiet, SameScore
<1>5. t \in Copies
  BY <1>4 DEF Copies, CopyRight, TradeRight, NoTrade
<1>6. jobs \in Seq(Copies) /\ TradeRight(writing.last)
  BY <1>3, EmptyRows DEF TradeRight
<1>7. CopyTypes
  BY <1>3, <1>5, <1>6 DEF CopyTypes
<1>8. crashes \in 0..MaxCrash
  BY <1>3, BoundAssumption
<1>9. PlainTypes
  BY <1>3, <1>8, EmptyRows DEF PlainTypes, BrokerState
<1>10. ScanType
  BY <1>3, EmptyRows DEF ScanType
<1>11. \A o \in Order : history[o] = "NONE" /\ mirror[o] = "NONE" /\ ScoreOf(robot, o) = 0
  BY <1>3, <1>4 DEF NoRows, ScoreOf
<1>12. RowsRight
  BY <1>11 DEF RowsRight, Final
<1>13. ScoreRight /\ ScoreFromHistory
  BY <1>3, <1>4, <1>11 DEF ScoreRight, ScoreFromHistory, Score, Final
<1>14. WaitsForOpenOrder
  BY <1>3, <1>4 DEF WaitsForOpenOrder
<1>15. RestartTypes
  BY <1>7, <1>9, <1>10, RestartParts
<1>16. QED
  BY <1>12, <1>13, <1>14, <1>15 DEF RestartInv

\* Every step keeps it.
LEMMA RestartStep == RestartInv /\ [Next]_vars => RestartInv'
<1> SUFFICES ASSUME RestartInv, [Next]_vars PROVE RestartInv'
  OBVIOUS
<1>1. CASE UNCHANGED vars
  <2>1. RobotStays /\ broker' = broker
    BY <1>1, NothingChanges DEF vars, RobotStays
  <2>2. CopyTypes'
    BY <1>1, <2>1, CopiesStay DEF vars, CopyTypes, RobotStays
  <2>3. PlainTypes' /\ ScanType' /\ RowsRight'
    BY <1>1, RestartParts DEF vars, RestartInv, PlainTypes, ScanType, RowsRight, Lost
  <2>4. ScoreRight' /\ ScoreFromHistory' /\ WaitsForOpenOrder'
    BY <2>1, ScoreStays
  <2>5. QED
    BY <2>2, <2>3, <2>4, AllParts
<1>2. CASE WorkerStep
  BY <1>2, RecycleStep, SignalStep, ExpireStep DEF WorkerStep
<1>3. CASE JobStep
  BY <1>3, SavesStateStep, DecidesStep, SavesTradeStep DEF JobStep
<1>4. CASE ScanStart \/ Crash \/ Boot
  BY <1>4, ScanStartStep, CrashStep, BootStep
<1>5. ASSUME NEW o \in Order, OrderStep(o) PROVE RestartInv'
  BY <1>5, SendStep, BrokerStep, FinishStep, ScanNextStep, NoAnswerStep, CrashStep
  DEF OrderStep
<1>6. QED
  BY <1>1, <1>2, <1>3, <1>4, <1>5 DEF Next

\* So it holds at every moment.
LEMMA RestartAlways == Spec => []RestartInv
BY RestartStart, RestartStep, PTL DEF Spec

\* For any number of orders, restarts and waiting writes, whatever dies between
\* the history and the mirror and however stale the saved row is: the score
\* agrees with the history, before and after the restart.
THEOREM ScoreSurvives == Spec => []ScoreFromHistory
<1>1. RestartInv => ScoreFromHistory
  BY DEF RestartInv
<1>2. QED
  BY RestartAlways, <1>1, PTL

\* For any number of orders, restarts and waiting writes: the robot never waits
\* for an order whose result is in the history, not even after a restore of a
\* row that was saved before the result.
THEOREM WaitsEnd == Spec => []WaitsForOpenOrder
<1>1. RestartInv => WaitsForOpenOrder
  BY DEF RestartInv
<1>2. QED
  BY RestartAlways, <1>1, PTL

\* For any constants: the robot, its copies and its rows keep their types.
THEOREM RestartTypeCorrect == Spec => []TypeOK
<1>1. RestartInv => TypeOK
  <2>1. RestartInv => \A i \in DOMAIN jobs : jobs[i] \in Copies
    BY LenProperties, ElementOfSeq DEF RestartInv, RestartTypes
  <2>2. QED
    BY <2>1 DEF RestartInv, RestartTypes, TypeOK, Copies
<1>2. QED
  BY RestartAlways, <1>1, PTL
==============================================================================
