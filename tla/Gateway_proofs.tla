--------------------------- MODULE Gateway_proofs ----------------------------
(* What the gateway decides with other processes: the broker account, the    *)
(* robot's switch, the messages of the Celery workers and the copies of the  *)
(* money plan, for any number of clicks, failures, restarts, tasks, retries, *)
(* plans and orders.                                                         *)
EXTENDS MCGateway, TLAPS

-----------------------------------------------------------------------------
(* AccountLink: a disconnection that ended with nothing loose is not undone. *)

Types ==
    /\ left \in BOOLEAN /\ loose \in BOOLEAN /\ saved \in BOOLEAN
    /\ link \in {"none", "fallen", "live"}
    /\ attempt \in [Process -> {"none", "ssid", "last ssid", "no ssid", "login"}]
    /\ entry \in {"none", "sent"}
    /\ exit \in {"none", "sent", "again", "answered"}

\* The two routes exclude each other.
OneRoute == exit # "none" => entry = "none"

\* What is left after an exit with nothing loose: no session and no token of
\* one, no password, and no attempt that needs neither.
NothingLeft ==
    left /\ ~loose =>
        /\ link = "none" /\ ~saved /\ entry = "none"
        /\ \A p \in Process : attempt[p] # "login"

LinkInv == Types /\ OneRoute /\ NothingLeft

\* No step of the user, of a process or of what breaks leaves the invariant.
LEMMA LinkStep ==
    ASSUME LinkInv, [LinkNext]_linkVars
    PROVE  LinkInv'
<1> USE DEF LinkInv, Types, OneRoute, NothingLeft
<1>1. CASE UNCHANGED linkVars
  BY <1>1 DEF linkVars
<1>2. CASE EntryBegins
  BY <1>2 DEF EntryBegins
<1>3. CASE EntryEnds
  BY <1>3 DEF EntryEnds
<1>4. CASE RobotStarts
  BY <1>4 DEF RobotStarts
<1>5. CASE ExitBegins
  BY <1>5 DEF ExitBegins
<1>6. CASE ServiceDisconnects
  BY <1>6 DEF ServiceDisconnects
<1>7. CASE ExitUnanswered
  BY <1>7 DEF ExitUnanswered, Mishap
<1>8. CASE ExitEnds
  BY <1>8 DEF ExitEnds, Unsettled, Mishap
<1>9. ASSUME NEW p \in Process, AttemptBegins(p) PROVE LinkInv'
  BY <1>9 DEF AttemptBegins
<1>10. ASSUME NEW p \in Process, SsidEnds(p) PROVE LinkInv'
  BY <1>10 DEF SsidEnds
<1>11. ASSUME NEW p \in Process, LoginBegins(p) PROVE LinkInv'
  BY <1>11 DEF LoginBegins
<1>12. ASSUME NEW p \in Process, LoginEnds(p) PROVE LinkInv'
  BY <1>12 DEF LoginEnds
<1>13. CASE RuntimeHears
  BY <1>13 DEF RuntimeHears, OnlyItsCall, Process
<1>14. CASE LinkFalls
  BY <1>14 DEF LinkFalls, Mishap
<1>15. CASE RedisFails
  BY <1>15 DEF RedisFails, Mishap
<1>16. CASE RedisReturns
  BY <1>16 DEF RedisReturns
<1>17. ASSUME NEW p \in Process, ProcessRestarts(p) PROVE LinkInv'
  BY <1>17 DEF ProcessRestarts, Mishap, OnlyItsCall
<1> QED  BY <1>1, <1>2, <1>3, <1>4, <1>5, <1>6, <1>7, <1>8, <1>9, <1>10,
            <1>11, <1>12, <1>13, <1>14, <1>15, <1>16, <1>17 DEF LinkNext

\* Whatever restarts, fails or is lost, automatic reconnections stay out after
\* POST /bullex/disconnect: mark, token and password each bar one way in.
THEOREM ExitsLast == LinkSpec => []ExitLasts
<1>1. LinkInit => LinkInv
  BY DEF LinkInit, LinkInv, Types, OneRoute, NothingLeft
<1>2. LinkInv => ExitLasts
  BY DEF LinkInv, Types, NothingLeft, ExitLasts
<1> QED  BY <1>1, <1>2, LinkStep, PTL DEF LinkSpec

-----------------------------------------------------------------------------
(* RobotSwitch: a stop holds.                                              *)

\* What excuses a robot that runs against the wish: a stop nobody heard, a start
\* that crossed it, a late write of the runtime.
Excused == deaf \/ crossed \/ overtaken

\* A stop is on its way and no start behind it.
StopAhead(q) == \E i \in DOMAIN q : q[i] = "stop" /\ \A j \in DOMAIN q : j > i => q[j] # "start"
\* A queue holds the value.
Carries(q, value) == \E i \in DOMAIN q : q[i] = value

\* The types of the switch, with no bound on the queues.
SwitchTypes ==
    /\ wish \in BOOLEAN /\ enabled \in [Side -> BOOLEAN] /\ row \in BOOLEAN
    /\ writes \in [Side -> Seq(BOOLEAN)]
    /\ starting \in BOOLEAN
    /\ bus \in Seq({"start", "stop", "ensure"})
    /\ up \in {"down", "loaded", "listening"} /\ worker \in BOOLEAN
    /\ deaf \in BOOLEAN /\ crossed \in BOOLEAN /\ overtaken \in BOOLEAN

\* Only a runtime that listens has a worker, writes or commands on their way.
OnlyListening ==
    up # "listening" => ~worker /\ writes["rt"] = <<>> /\ bus = <<>>

\* The gateway's write of a start is waited for.
StartWaits ==
    ~crossed /\ Carries(writes["gw"], TRUE) => starting /\ wish

\* The row that a runtime would load says off, or a write of that is under way.
RowOff ==
    ~wish /\ ~Excused =>
        ~row \/ Carries(writes["gw"], FALSE) \/ Carries(writes["rt"], FALSE)

\* The runtime is off, or a stop is on its way to it with no start behind.
RuntimeOff ==
    ~wish /\ ~Excused =>
        \/ ~worker /\ (up # "down" => ~enabled["rt"]) /\ ~Carries(bus, "start")
        \/ StopAhead(bus)

\* The inductive invariant behind StopHolds.
SwitchInv == SwitchTypes /\ OnlyListening /\ StartWaits /\ RowOff /\ RuntimeOff

\* What a queue holds after one more.
LEMMA AppendCarries ==
    ASSUME NEW S, NEW q \in Seq(S), NEW x \in S, NEW v
    PROVE  Carries(Append(q, x), v) <=> Carries(q, v) \/ x = v
<1> DEFINE longer == Append(q, x)
<1>1. \A i \in DOMAIN q : i \in DOMAIN longer /\ longer[i] = q[i]
  OBVIOUS
<1>2. \A i \in DOMAIN longer : i \in DOMAIN q \/ longer[i] = x
  OBVIOUS
<1>3. Len(q) + 1 \in DOMAIN longer /\ longer[Len(q) + 1] = x
  OBVIOUS
<1> HIDE DEF longer
<1>4. Carries(longer, v) <=> Carries(q, v) \/ x = v
  BY <1>1, <1>2, <1>3 DEF Carries
<1> QED  BY <1>4 DEF longer

\* What a queue holds is its head or in its tail.
LEMMA TailCarries ==
    ASSUME NEW S, NEW q \in Seq(S), q # <<>>, NEW v
    PROVE  /\ Carries(q, v) <=> Head(q) = v \/ Carries(Tail(q), v)
           /\ Tail(q) \in Seq(S) /\ Head(q) \in S
<1> DEFINE rest == Tail(q)
<1>1. \A i \in DOMAIN rest : rest[i] = q[i + 1] /\ i + 1 \in DOMAIN q
  OBVIOUS
<1>2. \A i \in DOMAIN q : i = 1 \/ (i - 1 \in DOMAIN rest /\ q[i] = rest[i - 1])
  OBVIOUS
<1>3. Head(q) = q[1] /\ 1 \in DOMAIN q
  OBVIOUS
<1>4. rest \in Seq(S) /\ Head(q) \in S
  OBVIOUS
<1> HIDE DEF rest
<1>5. Carries(q, v) <=> Head(q) = v \/ Carries(rest, v)
  BY <1>1, <1>2, <1>3 DEF Carries
<1> QED  BY <1>4, <1>5 DEF rest

\* The empty queue holds nothing.
LEMMA EmptyCarries == ASSUME NEW v PROVE ~Carries(<<>>, v)
BY DEF Carries

\* The queues of row writes take one more.
LEMMA FlagAppend ==
    ASSUME NEW q \in Seq(BOOLEAN)
    PROVE  /\ Append(q, TRUE) \in Seq(BOOLEAN) /\ Append(q, FALSE) \in Seq(BOOLEAN)
           /\ Carries(Append(q, TRUE), TRUE)
           /\ Carries(Append(q, TRUE), FALSE) <=> Carries(q, FALSE)
           /\ Carries(Append(q, FALSE), FALSE)
           /\ Carries(Append(q, FALSE), TRUE) <=> Carries(q, TRUE)
<1>1. Append(q, TRUE) \in Seq(BOOLEAN) /\ Append(q, FALSE) \in Seq(BOOLEAN)
  <2> DEFINE flags == BOOLEAN
  <2>1. q \in Seq(flags) /\ TRUE \in flags /\ FALSE \in flags
    OBVIOUS
  <2> HIDE DEF flags
  <2>2. \A x \in flags : Append(q, x) \in Seq(flags)
    BY <2>1
  <2> QED  BY <2>1, <2>2, Zenon DEF flags
<1>a. ASSUME NEW x \in BOOLEAN, NEW y \in BOOLEAN
      PROVE  Carries(Append(q, x), y) <=> Carries(q, y) \/ x = y
  <2> DEFINE flags == BOOLEAN
  <2>1. q \in Seq(flags) /\ x \in flags
    OBVIOUS
  <2> HIDE DEF flags
  <2> QED  BY <2>1, AppendCarries, Zenon
<1>2. Carries(Append(q, TRUE), TRUE) <=> Carries(q, TRUE) \/ TRUE = TRUE
  BY <1>a, Zenon
<1>3. Carries(Append(q, TRUE), FALSE) <=> Carries(q, FALSE) \/ TRUE = FALSE
  BY <1>a, Zenon
<1>4. Carries(Append(q, FALSE), FALSE) <=> Carries(q, FALSE) \/ FALSE = FALSE
  BY <1>a, Zenon
<1>5. Carries(Append(q, FALSE), TRUE) <=> Carries(q, TRUE) \/ FALSE = TRUE
  BY <1>a, Zenon
<1> QED  BY <1>1, <1>2, <1>3, <1>4, <1>5

\* A stop stays ahead unless a start is published behind it.
LEMMA StopAheadAppend ==
    ASSUME NEW q \in Seq({"start", "stop", "ensure"})
    PROVE  StopAhead(Append(q, "stop"))
<1>1. Append(q, "stop")[Len(q) + 1] = "stop"
  OBVIOUS
<1> QED BY <1>1 DEF StopAhead

\* A stop that is ahead of the queue stays ahead when another command is taken.
LEMMA StopAheadTail ==
    ASSUME NEW q \in Seq({"start", "stop", "ensure"}), q # <<>>, StopAhead(q)
    PROVE  \/ StopAhead(Tail(q))
           \/ Head(q) = "stop" /\ ~Carries(Tail(q), "start")
<1>1. PICK i \in DOMAIN q : q[i] = "stop" /\ \A j \in DOMAIN q : j > i => q[j] # "start"
  BY DEF StopAhead
<1>2. \A k \in DOMAIN Tail(q) : Tail(q)[k] = q[k + 1] /\ k + 1 \in DOMAIN q
  OBVIOUS
<1>3. CASE i = 1
  BY <1>1, <1>2, <1>3 DEF Carries
<1>4. CASE i # 1
  <2>1. i - 1 \in DOMAIN Tail(q) /\ Tail(q)[i - 1] = "stop"
    BY <1>1, <1>4
  <2> QED BY <1>1, <1>2, <2>1 DEF StopAhead
<1> QED BY <1>3, <1>4

\* A stop ahead is a command in the queue.
LEMMA StopAheadSome ==
    ASSUME NEW q \in Seq({"start", "stop", "ensure"}), StopAhead(q)
    PROVE  q # <<>> /\ Carries(q, "stop")
BY DEF StopAhead, Carries

\* No step of the user, of a process or of what breaks leaves the invariant.
LEMMA SwitchStep ==
    ASSUME SwitchInv, [SwitchNext]_switchVars
    PROVE  SwitchInv'
<1> USE DEF SwitchInv, SwitchTypes, OnlyListening, StartWaits, RowOff, RuntimeOff, Excused,
            Side, Set, Persist, Publish
<1> DEFINE Commands == {"start", "stop", "ensure"}
<1>0. \A s \in Side :
        /\ Append(writes[s], TRUE) \in Seq(BOOLEAN) /\ Append(writes[s], FALSE) \in Seq(BOOLEAN)
        /\ Carries(Append(writes[s], TRUE), TRUE)
        /\ Carries(Append(writes[s], TRUE), FALSE) <=> Carries(writes[s], FALSE)
        /\ Carries(Append(writes[s], FALSE), FALSE)
        /\ Carries(Append(writes[s], FALSE), TRUE) <=> Carries(writes[s], TRUE)
  BY FlagAppend
<1>e. \A c \in Commands :
        /\ Append(bus, c) \in Seq(Commands)
        /\ Carries(Append(bus, c), "start") <=> Carries(bus, "start") \/ c = "start"
  BY AppendCarries
<1>f. ~Carries(<<>>, TRUE) /\ ~Carries(<<>>, FALSE) /\ ~Carries(<<>>, "start")
  BY EmptyCarries
<1>a. \A s \in Side : writes[s] # <<>> =>
        /\ Tail(writes[s]) \in Seq(BOOLEAN) /\ Head(writes[s]) \in BOOLEAN
        /\ \A v \in BOOLEAN : Carries(writes[s], v) <=>
                                Head(writes[s]) = v \/ Carries(Tail(writes[s]), v)
  BY TailCarries
<1>b. bus # <<>> =>
        /\ Tail(bus) \in Seq(Commands) /\ Head(bus) \in Commands
        /\ \A v \in Commands : Carries(bus, v) <=> Head(bus) = v \/ Carries(Tail(bus), v)
        /\ StopAhead(bus) => \/ StopAhead(Tail(bus))
                             \/ Head(bus) = "stop" /\ ~Carries(Tail(bus), "start")
  BY TailCarries, StopAheadTail
<1>c. StopAhead(bus) => bus # <<>>
  BY StopAheadSome
<1>d. StopAhead(Append(bus, "stop"))
  BY StopAheadAppend
<1>1. CASE UNCHANGED switchVars
  BY <1>1 DEF switchVars
<1>2. CASE StartClicked
  BY <1>0, <1>e, <1>f, <1>2 DEF StartClicked
<1>3. CASE StartPublished
  BY <1>0, <1>e, <1>f, <1>3 DEF StartPublished, Carries
<1>4. CASE StopClicked
  BY <1>0, <1>e, <1>f, <1>d, <1>4 DEF StopClicked
<1>5. CASE PanelPolls
  BY <1>0, <1>e, <1>f, <1>c, <1>5 DEF PanelPolls
<1>6. CASE HearStart
  BY <1>0, <1>e, <1>f, <1>b, <1>6 DEF HearStart, Hear
<1>7. CASE HearEnsure
  BY <1>0, <1>e, <1>f, <1>b, <1>7 DEF HearEnsure, Hear
<1>8. CASE HearStop
  BY <1>0, <1>e, <1>f, <1>b, <1>8 DEF HearStop, Hear
<1>9. CASE WorkerPersists
  BY <1>0, <1>e, <1>f, <1>9 DEF WorkerPersists
<1>10. CASE RobotStopsItself
  BY <1>0, <1>e, <1>f, <1>10 DEF RobotStopsItself, Carries
<1>11. ASSUME NEW s \in Side, RowWritten(s) PROVE SwitchInv'
  BY <1>0, <1>e, <1>f, <1>a, <1>11 DEF RowWritten
<1>12. CASE RuntimeDies
  <2>1. Carries(writes["rt"], FALSE) => overtaken'
    BY <1>12 DEF RuntimeDies, Carries
  <2>2. StopAhead(bus) => deaf'
    BY <1>12 DEF RuntimeDies, StopAhead
  <2>3. SwitchTypes'
    <3>1. /\ <<>> \in Seq({"start", "stop", "ensure"}) /\ <<>> \in Seq(BOOLEAN)
          /\ deaf' \in BOOLEAN /\ overtaken' \in BOOLEAN
      BY <1>12 DEF RuntimeDies
    <3>2. writes' \in [Side -> Seq(BOOLEAN)]
      BY <1>12, <3>1 DEF RuntimeDies
    <3> QED  BY <1>12, <3>1, <3>2 DEF RuntimeDies
  <2>6. OnlyListening' /\ StartWaits'
    BY <1>f, <1>12 DEF RuntimeDies
  <2>4. RowOff'
    BY <1>12, <2>1 DEF RuntimeDies
  <2>5. RuntimeOff'
    BY <1>f, <1>12, <2>2 DEF RuntimeDies
  <2> QED  BY <2>3, <2>4, <2>5, <2>6
<1>13. CASE RuntimeLoads
  BY <1>0, <1>e, <1>f, <1>13 DEF RuntimeLoads
<1>14. CASE RuntimeListens
  BY <1>0, <1>e, <1>f, <1>14 DEF RuntimeListens
<1>15. CASE GatewayRestarts
  BY <1>0, <1>e, <1>f, <1>15 DEF GatewayRestarts
<1>16. CASE SnapshotExpires
  BY <1>0, <1>e, <1>f, <1>16 DEF SnapshotExpires
<1> QED  BY <1>1, <1>2, <1>3, <1>4, <1>5, <1>6, <1>7, <1>8, <1>9, <1>10,
            <1>11, <1>12, <1>13, <1>14, <1>15, <1>16 DEF SwitchNext, RuntimeSteps

\* Nothing runs and nothing waits at first.
LEMMA SwitchStart == SwitchInit => SwitchInv
<1> SUFFICES ASSUME SwitchInit PROVE SwitchInv
  OBVIOUS
<1>1. ~Carries(<<>>, "start") /\ ~Carries(<<>>, TRUE)
  BY EmptyCarries
<1>2. bus = <<>> /\ writes["gw"] = <<>> /\ writes \in [Side -> Seq(BOOLEAN)]
  BY DEF SwitchInit, Side
<1>3. SwitchTypes
  <2>1. <<>> \in Seq({"start", "stop", "ensure"})
    OBVIOUS
  <2> QED  BY <1>2, <2>1 DEF SwitchInit, SwitchTypes, Side
<1>4. OnlyListening /\ StartWaits /\ RowOff
  BY <1>1, <1>2 DEF SwitchInit, OnlyListening, StartWaits, RowOff
<1>5. RuntimeOff
  BY <1>1, <1>2 DEF SwitchInit, RuntimeOff, Side
<1> QED  BY <1>3, <1>4, <1>5 DEF SwitchInv

\* For any number of starts, stops, restarts and pending writes: a robot
\* the user stopped has no worker once the runtime has heard every command.
THEOREM StopsHold == SwitchSpec => []StopHolds
<1>1. SwitchInv => StopHolds
  BY StopAheadSome DEF SwitchInv, SwitchTypes, RuntimeOff, StopHolds, Excused
<1> QED  BY <1>1, SwitchStart, SwitchStep, PTL DEF SwitchSpec

-----------------------------------------------------------------------------
(* Delivery: what is delivered stays so.                                   *)

\* A task's copy of the delivery's row.
Copy == [status : {"none", "pending", "retrying", "delivered", "failed"}, tries : Nat]

\* A hand: its step and the copy it holds.
HandRow == [step : {"away", "queued", "holds", "answered", "saved", "over"},
            copy : Copy, retries : Nat]

\* The types of the delivery, with no bound on the attempts.
SendTypes ==
    /\ channel \in {"webhook", "mail"} /\ outgoing \in Copy
    /\ hand \in [Hand -> HandRow]
    /\ call \in {"row", "task", "over"}
    /\ sent \in Nat
    /\ mingled \in BOOLEAN /\ doubtful \in BOOLEAN

\* The hand holds a copy it will write.
Writing(h) == hand[h].step \in {"holds", "answered"}

\* Without a crossing the row is in one hand at a time.
OneHolds == ~mingled => \A g, h \in Hand : Writing(g) /\ Writing(h) => g = h

\* Who works on which channel.
OwnChannel ==
    /\ channel = "webhook" => /\ hand["inline"].step = "away"
                              /\ hand["listing"].step = "away"
                              /\ outgoing.status # "none"
    /\ channel = "mail" => hand["replay"].step = "away"
    /\ hand["listing"].step \notin {"queued", "answered", "saved"}

\* The hands that send: the Celery tasks and the gateway itself.
Senders == Tasks \cup {"inline"}

\* A mail is handed over once: to one task or to the process itself.
OneSender ==
    channel = "mail" =>
        /\ outgoing.status = "none" => call # "task" /\ \A h \in Hand : hand[h].step = "away"
        /\ call = "task" => \A h \in Senders : hand[h].step = "away"
        /\ \A g, h \in Senders :
              hand[g].step # "away" /\ hand[h].step # "away" => g = h

\* Nobody copies a row that is not there.
NoneToCopy == \A h \in Hand : hand[h].copy.status # "none"

\* Nobody is about to write over a delivered row, or to send another copy.
NobodyActs ==
    outgoing.status = "delivered" /\ ~mingled /\ ~(channel = "mail" /\ doubtful) =>
        /\ \A h \in Hand : ~Writing(h)
        /\ channel = "mail" =>
             /\ call # "task"
             /\ \A h \in Hand : /\ hand[h].step # "queued"
                                /\ hand[h].step = "saved" => hand[h].copy.status = "delivered"

\* The inductive invariant behind DeliveredIsFinal.
SendInv == SendTypes /\ OneHolds /\ OwnChannel /\ OneSender /\ NoneToCopy /\ NobodyActs

\* What a step does to the one hand it is about.
Becomes(h, step, copy) ==
    /\ hand' \in [Hand -> HandRow]
    /\ hand'[h].step = step /\ hand'[h].copy = copy
    /\ \A g \in Hand : g # h => hand'[g] = hand[g]

\* What a hand is after its record is replaced.
LEMMA HandPut ==
    ASSUME SendTypes, NEW h \in Hand, NEW r \in HandRow, hand' = [hand EXCEPT ![h] = r]
    PROVE  Becomes(h, r.step, r.copy)
BY DEF SendTypes, Becomes

\* A hand that goes one step on.
LEMMA StepsBecomes ==
    ASSUME SendTypes, NEW h \in Hand, NEW step \in {"queued", "holds", "answered", "saved", "over"},
           Steps(h, step)
    PROVE  Becomes(h, step, hand[h].copy)
<1> DEFINE r == [hand[h] EXCEPT !.step = step]
<1>1. r \in HandRow /\ r.step = step /\ r.copy = hand[h].copy
  BY DEF SendTypes, HandRow
<1>2. hand' = [hand EXCEPT ![h] = r]
  BY DEF Steps
<1> HIDE DEF r
<1> QED  BY <1>1, <1>2, HandPut

\* The records of a hand without a copy.
LEMMA AtRow == \A step \in {"away", "queued", "over"}, n \in Nat :
                 LET r == [At(step) EXCEPT !.retries = n] IN
                   /\ At(step) \in HandRow /\ At(step).step = step /\ At(step).copy = New
                   /\ r \in HandRow /\ r.step = step /\ r.copy = New /\ New \in Copy
BY DEF At, HandRow, Copy, New

\* A hand that is over.
LEMMA EndsBecomes ==
    ASSUME SendTypes, NEW h \in Hand, Ends(h)
    PROVE  Becomes(h, "over", New)
<1>1. At("over") \in HandRow /\ At("over").step = "over" /\ At("over").copy = New
  BY AtRow
<1> QED  BY <1>1, HandPut DEF Ends

\* A hand that is queued.
LEMMA QueuesBecomes ==
    ASSUME SendTypes, NEW h \in Hand, NEW n \in Nat, Queues(h, n)
    PROVE  Becomes(h, "queued", New)
<1> DEFINE r == [At("queued") EXCEPT !.retries = n]
<1>1. r \in HandRow /\ r.step = "queued" /\ r.copy = New
  BY AtRow
<1>2. hand' = [hand EXCEPT ![h] = r]
  BY DEF Queues
<1> HIDE DEF r
<1> QED  BY <1>1, <1>2, HandPut

\* A hand that has read the row.
LEMMA ReadsBecomes ==
    ASSUME SendTypes, NEW h \in Hand, Reads(h)
    PROVE  /\ Becomes(h, "holds", outgoing)
           /\ mingled' \in BOOLEAN
           /\ ~mingled' => ~mingled /\ \A g \in Hand : g # h => ~Writing(g)
<1> DEFINE r == [hand[h] EXCEPT !.step = "holds", !.copy = outgoing]
<1>1. r \in HandRow /\ r.step = "holds" /\ r.copy = outgoing
  BY DEF SendTypes, HandRow
<1>2. hand' = [hand EXCEPT ![h] = r]
  BY DEF Reads, SendTypes, HandRow
<1>3. mingled' \in BOOLEAN /\ (~mingled' => ~mingled /\ \A g \in Hand : g # h => ~Writing(g))
  BY DEF Reads, Writing, SendTypes
<1> HIDE DEF r
<1> QED  BY <1>1, <1>2, <1>3, HandPut

\* A hand whose attempt was answered.
LEMMA AnsweredBecomes ==
    ASSUME SendTypes, NEW h \in Hand, NEW ok \in BOOLEAN, Answered(h, ok)
    PROVE  \E copy \in Copy : Becomes(h, "answered", copy) /\ copy.status # "none"
<1> DEFINE tries == hand[h].copy.tries + 1
           copy == [status |-> IF ok THEN "delivered" ELSE AfterFailure(tries), tries |-> tries]
           r == [hand[h] EXCEPT !.step = "answered", !.copy = copy]
<1>1. copy \in Copy /\ copy.status # "none"
  BY DEF SendTypes, HandRow, Copy, AfterFailure
<1>2. hand' = [hand EXCEPT ![h] = r]
  BY DEF Answered, SendTypes, HandRow
<1>3. r.step = "answered" /\ r.copy = copy /\ (copy \in Copy => r \in HandRow)
  <2> HIDE DEF copy
  <2> QED  BY DEF SendTypes, HandRow
<1> HIDE DEF copy, r
<1>4. Becomes(h, r.step, r.copy)
  BY <1>1, <1>2, <1>3, HandPut
<1> QED  BY <1>1, <1>3, <1>4

\* Every step but a pause is one of a hand, and the row stays or is its copy.
LEMMA Hands ==
    /\ Senders \subseteq Hand /\ Tasks \subseteq Senders
    /\ {"inline", "listing", "replay"} \subseteq Hand
    /\ \A h \in Hand : h \in Senders \/ h = "listing" \/ h = "replay"
    /\ "inline" \in Senders /\ "listing" \notin Senders /\ "replay" \notin Senders
    /\ "first task" \in Tasks /\ "second task" \in Tasks /\ "inline" \notin Tasks
    /\ New \in Copy /\ New.status = "pending"
BY DEF Senders, Hand, Tasks, New, Copy

\* A sender of a mail moves that is the only one.
LEMMA SenderMoves ==
    ASSUME NEW h \in Hand, NEW step, NEW copy, Becomes(h, step, copy), channel' = channel,
           OneSender, outgoing'.status # "none", call' = "task" => call = "task",
           channel = "mail" /\ h \in Senders =>
             /\ call' # "task"
             /\ \A g \in Senders : g # h => hand[g].step = "away"
    PROVE  OneSender'
<1>1. \A g \in Senders : g # h => hand'[g] = hand[g]
  BY Hands DEF Becomes
<1>2. channel = "mail" /\ call' = "task" => \A g \in Senders : hand'[g].step = "away"
  BY <1>1 DEF OneSender
<1>3. channel = "mail" => \A f, g \in Senders :
              hand'[f].step # "away" /\ hand'[g].step # "away" => f = g
  <2>1. CASE h \in Senders
    BY <1>1, <2>1
  <2>2. CASE h \notin Senders
    BY <1>1, <2>2 DEF OneSender
  <2> QED  BY <2>1, <2>2
<1> QED  BY <1>2, <1>3 DEF OneSender

\* No step of the service, its tasks, the operator or what breaks leaves the
\* invariant.
LEMMA SendStep ==
    ASSUME SendInv, [SendNext]_sendVars
    PROVE  SendInv'
<1> USE DEF SendInv, marks
<1>h. /\ SendTypes
      /\ "inline" \in Hand /\ "listing" \in Hand /\ "replay" \in Hand
      /\ \A h \in Hand : h \in Senders \/ h = "listing" \/ h = "replay"
      /\ \A h \in Tasks : h \in Senders /\ h \in Hand /\ h # "inline"
  BY Hands
<1>n. /\ outgoing.status = "none" => call # "task" /\ \A h \in Hand : hand[h].step = "away"
      /\ \A h \in Hand : channel = "mail" /\ h \in Senders /\ hand[h].step # "away" =>
            call # "task" /\ \A g \in Senders : g # h => hand[g].step = "away"
      /\ channel = "mail" /\ call = "task" => \A g \in Senders : hand[g].step = "away"
  BY DEF OneSender, OwnChannel, SendTypes
<1>1. CASE UNCHANGED sendVars
  <2>a. SendTypes'
    BY <1>1, <1>h DEF sendVars, SendTypes
  <2>b. OneHolds'
    BY <1>1, <1>h DEF sendVars, OneHolds, Writing
  <2>c. OwnChannel' /\ NoneToCopy'
    BY <1>1, <1>h, Hands DEF sendVars, OwnChannel, NoneToCopy
  <2>d. OneSender'
    BY <1>1, <1>h, Hands DEF sendVars, OneSender, OwnChannel, NoneToCopy
  <2>e. NobodyActs'
    BY <1>1, <1>h, Hands DEF sendVars, NobodyActs, OneHolds, OwnChannel, OneSender, Writing
  <2> QED  BY <2>a, <2>b, <2>c, <2>d, <2>e
<1>2. CASE RowNoted
  <2>a. SendTypes'
    BY <1>2, <1>h, Hands DEF RowNoted, SendTypes
  <2>b. OneHolds'
    BY <1>2, <1>h DEF RowNoted, OneHolds, Writing
  <2>c. OwnChannel' /\ NoneToCopy'
    BY <1>2, <1>h, <1>n, Hands DEF RowNoted, OwnChannel, NoneToCopy
  <2>d. OneSender'
    BY <1>2, <1>h, <1>n, Hands DEF RowNoted, OneSender
  <2>e. NobodyActs'
    BY <1>2, <1>h, Hands DEF RowNoted, NobodyActs, OneHolds, OwnChannel, OneSender, Writing
  <2> QED  BY <2>a, <2>b, <2>c, <2>d, <2>e
<1>3. CASE TaskQueued
  <2> DEFINE h == IF calls = 1 THEN "first task" ELSE "second task"
  <2>1. h \in Tasks /\ h \in Hand
    BY Hands
  <2>2. Becomes(h, "queued", hand[h].copy)
    BY <1>3, <2>1, <1>h, StepsBecomes DEF TaskQueued
  <2> HIDE DEF h
  <2>a. SendTypes'
    BY <1>3, <2>1, <2>2, <1>h DEF TaskQueued, Becomes, SendTypes
  <2>b. OneHolds'
    BY <1>3, <2>1, <2>2, <1>h DEF TaskQueued, Becomes, OneHolds, Writing
  <2>c. OwnChannel' /\ NoneToCopy'
    BY <1>3, <2>1, <2>2, <1>h, <1>n, Hands DEF TaskQueued, Becomes, OwnChannel, NoneToCopy
  <2>d. OneSender'
    BY <1>3, <2>1, <2>2, <1>h, <1>n, Hands, SenderMoves DEF TaskQueued, Becomes
  <2>e. NobodyActs'
    BY <1>3, <2>1, <2>2, <1>h, Hands DEF TaskQueued, Becomes, NobodyActs, OneHolds, OwnChannel, OneSender, Writing
  <2> QED  BY <2>a, <2>b, <2>c, <2>d, <2>e
<1>4. CASE MailSentInline
  <2>1. /\ Becomes("inline", "holds", outgoing) /\ mingled' \in BOOLEAN
        /\ ~mingled' => ~mingled /\ \A g \in Hand : g # "inline" => ~Writing(g)
    BY <1>4, <1>h, ReadsBecomes DEF MailSentInline
  <2>a. SendTypes'
    BY <1>4, <2>1, <1>h DEF MailSentInline, Becomes, SendTypes
  <2>b. OneHolds'
    BY <1>4, <2>1, <1>h DEF MailSentInline, Becomes, OneHolds, Writing
  <2>c. OwnChannel' /\ NoneToCopy'
    BY <1>4, <2>1, <1>h, <1>n, Hands DEF MailSentInline, Becomes, OwnChannel, NoneToCopy
  <2>d. OneSender'
    BY <1>4, <2>1, <1>h, <1>n, Hands, SenderMoves DEF MailSentInline, Becomes
  <2>e. NobodyActs'
    BY <1>4, <2>1, <1>h, Hands DEF MailSentInline, Becomes, NobodyActs, OneHolds, OwnChannel, OneSender, Writing
  <2> QED  BY <2>a, <2>b, <2>c, <2>d, <2>e
<1>5. CASE Replayed
  <2>1. /\ Becomes("replay", "holds", outgoing) /\ mingled' \in BOOLEAN
        /\ ~mingled' => ~mingled /\ \A g \in Hand : g # "replay" => ~Writing(g)
    BY <1>5, <1>h, ReadsBecomes DEF Replayed
  <2>a. SendTypes'
    BY <1>5, <2>1, <1>h DEF Replayed, DoneAlready, Becomes, SendTypes
  <2>b. OneHolds'
    BY <1>5, <2>1, <1>h DEF Replayed, DoneAlready, Becomes, OneHolds, Writing
  <2>c. OwnChannel' /\ NoneToCopy'
    BY <1>5, <2>1, <1>h, <1>n, Hands DEF Replayed, DoneAlready, Becomes, OwnChannel, NoneToCopy
  <2>d. OneSender'
    BY <1>5 DEF Replayed, OneSender
  <2>e. NobodyActs'
    BY <1>5, <2>1, <1>h, Hands DEF Replayed, DoneAlready, Becomes, NobodyActs, OneHolds, OwnChannel, OneSender, Writing
  <2> QED  BY <2>a, <2>b, <2>c, <2>d, <2>e
<1>6. CASE Listed
  <2>1. /\ Becomes("listing", "holds", outgoing) /\ mingled' \in BOOLEAN
        /\ ~mingled' => ~mingled /\ \A g \in Hand : g # "listing" => ~Writing(g)
    BY <1>6, <1>h, ReadsBecomes DEF Listed
  <2>a. SendTypes'
    BY <1>6, <2>1, <1>h DEF Listed, Becomes, SendTypes
  <2>b. OneHolds'
    BY <1>6, <2>1, <1>h DEF Listed, Becomes, OneHolds, Writing
  <2>c. OwnChannel' /\ NoneToCopy'
    BY <1>6, <2>1, <1>h, <1>n, Hands DEF Listed, Becomes, OwnChannel, NoneToCopy
  <2>d. OneSender'
    BY <1>6, <2>1, <1>h, <1>n, Hands, SenderMoves DEF Listed, Becomes
  <2>e. NobodyActs'
    BY <1>6, <2>1, <1>h, Hands DEF Listed, Becomes, NobodyActs, OneHolds, OwnChannel, OneSender, Writing
  <2> QED  BY <2>a, <2>b, <2>c, <2>d, <2>e
<1>7. CASE CallFails \/ CalledAgain
  <2>a. SendTypes'
    BY <1>7, <1>h DEF CallFails, CalledAgain, SendTypes
  <2>b. OneHolds'
    BY <1>7, <1>h DEF CallFails, CalledAgain, OneHolds, Writing
  <2>c. OwnChannel' /\ NoneToCopy'
    BY <1>7, <1>h, <1>n, Hands DEF CallFails, CalledAgain, OwnChannel, NoneToCopy
  <2>d. OneSender'
    BY <1>7, <1>h, Hands DEF CallFails, CalledAgain, OneSender
  <2>e. NobodyActs'
    BY <1>7, <1>h, Hands DEF CallFails, CalledAgain, NobodyActs, OneHolds, OwnChannel, OneSender, Writing
  <2> QED  BY <2>a, <2>b, <2>c, <2>d, <2>e
<1>8. CASE MarkedFailed
  <2>1. Becomes("listing", "over", New)
    BY <1>8, <1>h, EndsBecomes DEF MarkedFailed
  <2>2. hand["listing"].copy \in Copy
    BY <1>h DEF SendTypes, HandRow
  <2>3. outgoing' \in Copy /\ outgoing'.status = "failed"
    BY <1>8, <2>2 DEF MarkedFailed, Copy
  <2>a. SendTypes'
    BY <1>8, <2>1, <2>3, <1>h DEF MarkedFailed, Becomes, SendTypes
  <2>b. OneHolds'
    BY <1>8, <2>1, <2>3, <1>h DEF MarkedFailed, Becomes, OneHolds, Writing
  <2>c. OwnChannel' /\ NoneToCopy'
    BY <1>8, <2>1, <2>3, <1>h, <1>n, Hands DEF MarkedFailed, Becomes, OwnChannel, NoneToCopy
  <2>d. OneSender'
    BY <1>8, <2>1, <2>3, <1>h, <1>n, Hands, SenderMoves DEF MarkedFailed, Becomes
  <2>e. NobodyActs'
    BY <1>8, <2>1, <2>3, <1>h, Hands DEF MarkedFailed, Becomes, NobodyActs, OneHolds, OwnChannel, OneSender, Writing
  <2> QED  BY <2>a, <2>b, <2>c, <2>d, <2>e
<1>9. ASSUME NEW h \in Hand, Taken(h) PROVE SendInv'
  <2>1. CASE DoneAlready
    <3>1. Becomes(h, "over", New)
      BY <1>9, <2>1, <1>h, EndsBecomes DEF Taken
    <3>a. SendTypes'
      BY <1>9, <2>1, <3>1, <1>h DEF Taken, Becomes, SendTypes
    <3>b. OneHolds'
      BY <1>9, <2>1, <3>1, <1>h DEF Taken, Becomes, OneHolds, Writing
    <3>c. OwnChannel' /\ NoneToCopy'
      BY <1>9, <2>1, <3>1, <1>h, <1>n, Hands DEF Taken, Becomes, OwnChannel, NoneToCopy
    <3>d. OneSender'
      BY <1>9, <2>1, <3>1, <1>h, <1>n, Hands, SenderMoves DEF Taken, Becomes
    <3>e. NobodyActs'
      BY <1>9, <2>1, <3>1, <1>h, Hands DEF Taken, Becomes, NobodyActs, OneHolds, OwnChannel, OneSender, Writing
    <3> QED  BY <3>a, <3>b, <3>c, <3>d, <3>e
  <2>2. CASE ~DoneAlready
    <3>1. /\ Becomes(h, "holds", outgoing) /\ mingled' \in BOOLEAN
          /\ ~mingled' => ~mingled /\ \A g \in Hand : g # h => ~Writing(g)
      BY <1>9, <2>2, <1>h, ReadsBecomes DEF Taken
    <3>a. SendTypes'
      BY <1>9, <2>2, <3>1, <1>h DEF Taken, DoneAlready, Becomes, SendTypes
    <3>b. OneHolds'
      BY <1>9, <2>2, <3>1, <1>h DEF Taken, DoneAlready, Becomes, OneHolds, Writing
    <3>c. OwnChannel' /\ NoneToCopy'
      BY <1>9, <2>2, <3>1, <1>h, <1>n, Hands DEF Taken, DoneAlready, Becomes, OwnChannel, NoneToCopy
    <3>d. OneSender'
      BY <1>9, <2>2, <3>1, <1>h, <1>n, Hands, SenderMoves DEF Taken, DoneAlready, Becomes
    <3>2. ~(outgoing.status = "delivered" /\ ~mingled /\ ~(channel = "mail" /\ doubtful))
      BY <1>9, <2>2, <1>h DEF Taken, DoneAlready, NobodyActs, SendTypes
    <3>e. NobodyActs'
      BY <1>9, <3>1, <3>2 DEF Taken, NobodyActs
    <3> QED  BY <3>a, <3>b, <3>c, <3>d, <3>e
  <2> QED  BY <2>1, <2>2
<1>10. ASSUME NEW h \in Hand, Reaches(h) \/ Refused(h) \/ AnswerLost(h) PROVE SendInv'
  <2>1. PICK copy \in Copy : Becomes(h, "answered", copy) /\ copy.status # "none"
    BY <1>10, <1>h, AnsweredBecomes DEF Reaches, Refused, AnswerLost
  <2>2. sent' \in Nat /\ doubtful' \in BOOLEAN
    <3>1. sent \in Nat /\ doubtful \in BOOLEAN
      BY <1>h DEF SendTypes
    <3>2. (sent' = sent \/ sent' = sent + 1) /\ (doubtful' = doubtful \/ doubtful')
      BY <1>10 DEF Reaches, Refused, AnswerLost
    <3>3. doubtful' \in BOOLEAN
      BY <1>10, <3>1, Zenon DEF Reaches, Refused, AnswerLost
    <3> QED  BY <3>1, <3>2, <3>3
  <2>3. channel' = channel /\ outgoing' = outgoing /\ call' = call /\ mingled' = mingled
    BY <1>10 DEF Reaches, Refused, AnswerLost
  <2>a. SendTypes'
    BY <2>1, <2>2, <2>3, <1>h DEF Becomes, SendTypes
  <2>b. OneHolds'
    BY <1>10, <2>1, <1>h DEF Reaches, Refused, AnswerLost, Becomes, OneHolds, Writing
  <2>c. OwnChannel' /\ NoneToCopy'
    BY <1>10, <2>1, <1>h, <1>n, Hands DEF Reaches, Refused, AnswerLost, Becomes, OwnChannel, NoneToCopy
  <2>d. OneSender'
    <3>1. hand[h].step # "away"
      BY <1>10 DEF Reaches, Refused, AnswerLost
    <3>2. outgoing'.status # "none"
      BY <1>n, <2>3, <3>1
    <3>3. channel = "mail" /\ h \in Senders =>
             call' # "task" /\ \A g \in Senders : g # h => hand[g].step = "away"
      BY <1>n, <2>3, <3>1
    <3>4. OneSender
      BY DEF SendInv
    <3> HIDE DEF OneSender
    <3> QED  BY <2>1, <2>3, <3>2, <3>3, <3>4, SenderMoves
  <2>e. NobodyActs'
    BY <1>10, <2>1, <1>h, Hands DEF Reaches, Refused, AnswerLost, Becomes, NobodyActs, OneHolds, OwnChannel, OneSender, Writing
  <2> QED  BY <2>a, <2>b, <2>c, <2>d, <2>e
<1>11. ASSUME NEW h \in Hand, Saved(h) PROVE SendInv'
  <2>1. Becomes(h, "saved", hand[h].copy)
    BY <1>11, <1>h, StepsBecomes DEF Saved
  <2>2. hand[h].copy \in Copy
    BY <1>h DEF SendTypes, HandRow
  <2>a. SendTypes'
    BY <1>11, <2>1, <2>2, <1>h DEF Saved, Becomes, NoneToCopy, SendTypes
  <2>b. OneHolds'
    BY <1>11, <2>1, <2>2, <1>h DEF Saved, Becomes, NoneToCopy, OneHolds, Writing
  <2>c. OwnChannel' /\ NoneToCopy'
    BY <1>11, <2>1, <2>2, <1>h, <1>n, Hands DEF Saved, Becomes, NoneToCopy, OwnChannel, NoneToCopy
  <2>d. OneSender'
    BY <1>11, <2>1, <2>2, <1>h, <1>n, Hands, SenderMoves DEF Saved, Becomes, NoneToCopy
  <2>e. NobodyActs'
    BY <1>11, <2>1, <2>2, <1>h, Hands DEF Saved, Becomes, NoneToCopy, NobodyActs, OneHolds, OwnChannel, OneSender, Writing
  <2> QED  BY <2>a, <2>b, <2>c, <2>d, <2>e
<1>12. ASSUME NEW h \in Hand, Finished(h) PROVE SendInv'
  <2>0. hand[h].retries \in Nat
    BY <1>h DEF SendTypes, HandRow
  <2>1. CASE TriesAgain(h)
    <3>1. Becomes(h, "queued", New)
      BY <1>12, <2>0, <2>1, <1>h, QueuesBecomes DEF Finished
    <3>a. SendTypes'
      BY <1>12, <2>1, <3>1, <1>h DEF Finished, Becomes, TriesAgain, SendTypes
    <3>b. OneHolds'
      BY <1>12, <2>1, <3>1, <1>h DEF Finished, Becomes, TriesAgain, OneHolds, Writing
    <3>c. OwnChannel' /\ NoneToCopy'
      BY <1>12, <2>1, <3>1, <1>h, <1>n, Hands DEF Finished, Becomes, TriesAgain, OwnChannel, NoneToCopy
    <3>d. OneSender'
      BY <1>12, <2>1, <3>1, <1>h, <1>n, Hands, SenderMoves DEF Finished, Becomes, TriesAgain
    <3>e. NobodyActs'
      BY <1>12, <2>1, <3>1, <1>h, Hands DEF Finished, Becomes, TriesAgain, NobodyActs, OneHolds, OwnChannel, OneSender, Writing
    <3> QED  BY <3>a, <3>b, <3>c, <3>d, <3>e
  <2>2. CASE ~TriesAgain(h)
    <3>1. Becomes(h, "over", New)
      BY <1>12, <2>2, <1>h, EndsBecomes DEF Finished
    <3>a. SendTypes'
      BY <1>12, <2>2, <3>1, <1>h DEF Finished, Becomes, SendTypes
    <3>b. OneHolds'
      BY <1>12, <2>2, <3>1, <1>h DEF Finished, Becomes, OneHolds, Writing
    <3>c. OwnChannel' /\ NoneToCopy'
      BY <1>12, <2>2, <3>1, <1>h, <1>n, Hands DEF Finished, Becomes, OwnChannel, NoneToCopy
    <3>d. OneSender'
      BY <1>12, <2>2, <3>1, <1>h, <1>n, Hands, SenderMoves DEF Finished, Becomes
    <3>e. NobodyActs'
      BY <1>12, <2>2, <3>1, <1>h, Hands DEF Finished, Becomes, NobodyActs, OneHolds, OwnChannel, OneSender, Writing
    <3> QED  BY <3>a, <3>b, <3>c, <3>d, <3>e
  <2> QED  BY <2>1, <2>2
<1>13. ASSUME NEW h \in Hand, Dies(h) \/ Raises(h) PROVE SendInv'
  <2>0. hand[h].retries \in Nat
    BY <1>h DEF SendTypes, HandRow
  <2>1. Becomes(h, "over", New) \/ (Becomes(h, "queued", New) /\ h \in Tasks)
    BY <1>13, <2>0, <1>h, QueuesBecomes, EndsBecomes DEF Dies, Raises
  <2>a. SendTypes'
    BY <1>13, <2>1, <1>h DEF Dies, Raises, Becomes, SendTypes
  <2>b. OneHolds'
    BY <1>13, <2>1, <1>h DEF Dies, Raises, Becomes, OneHolds, Writing
  <2>c. OwnChannel' /\ NoneToCopy'
    BY <1>13, <2>1, <1>h, <1>n, Hands DEF Dies, Raises, Becomes, OwnChannel, NoneToCopy
  <2>d. OneSender'
    BY <1>13, <2>1, <1>h, <1>n, Hands, SenderMoves DEF Dies, Raises, Becomes
  <2>e. NobodyActs'
    BY <1>13, <2>1, <1>h, Hands DEF Dies, Raises, Becomes, NobodyActs, OneHolds, OwnChannel, OneSender, Writing
  <2> QED  BY <2>a, <2>b, <2>c, <2>d, <2>e
<1> QED  BY <1>1, <1>2, <1>3, <1>4, <1>5, <1>6, <1>7, <1>8, <1>9, <1>10, <1>11, <1>12, <1>13
         DEF SendNext, Attempt, Queueing

\* Nobody holds anything at first.
LEMMA SendStart == SendInit => SendInv
<1> SUFFICES ASSUME SendInit PROVE SendInv
  OBVIOUS
<1>1. At("away") \in HandRow /\ At("away").step = "away" /\ At("away").copy = New
  BY AtRow
<1>2. \A h \in Hand : hand[h] = At("away")
  BY DEF SendInit
<1>3. outgoing \in Copy /\ (channel = "webhook" => outgoing.status = "pending")
  BY DEF SendInit, New, Copy
<1> QED  BY <1>1, <1>2, <1>3, Hands DEF SendInit, SendInv, SendTypes, OneHolds, OwnChannel, OneSender,
            NoneToCopy, NobodyActs, Writing

\* For any number of tasks, deliveries of a task and retries: a message marked as
\* delivered stays so and is not sent again, unless two mingled or a mail came twice.
THEOREM DeliveredStays == SendSpec => DeliveredIsFinal
<1>1. SendInv /\ [SendNext]_sendVars =>
        (outgoing.status = "delivered" /\ ~mingled /\ ~(channel = "mail" /\ doubtful) =>
            outgoing'.status = "delivered" /\ sent' = sent)
  <2> SUFFICES ASSUME SendInv, SendNext, outgoing.status = "delivered", ~mingled,
                      ~(channel = "mail" /\ doubtful)
               PROVE  outgoing' = outgoing /\ sent' = sent
    BY DEF sendVars
  <2>1. \A h \in Hand : ~Writing(h)
    BY DEF SendInv, NobodyActs
  <2> QED  BY <2>1, Hands DEF SendNext, Queueing, Attempt, RowNoted, TaskQueued, MailSentInline, CallFails,
              CalledAgain, Replayed, Listed, MarkedFailed, Taken, Reaches, Refused, AnswerLost, Saved,
              Finished, Dies, Raises, Writing
<1> QED  BY <1>1, SendStart, SendStep, PTL DEF SendSpec, DeliveredIsFinal

-----------------------------------------------------------------------------
(* Masaniello: what is staked rests on every result.                       *)

\* The records of copies, over any sets of their fields.
CopyOver(statuses, orders, flags, books) ==
    [id : Nat, rev : Nat, terms : Terms, status : statuses, pending : orders,
     unknown : flags, booked : books, won : Nat, lost : Nat]
\* What a plan can be.
Statuses == {"active"} \union Over
\* A copy of the plan, with no bound on its counters.
PlanCopy == CopyOver(Statuses, {0} \union Order, BOOLEAN, SUBSET Order)

\* What the broker says of an order.
Results == {"WIN", "LOSS", "DRAW"}

\* The types of the plan, with no bound on what is numbered.
PlanTypes ==
    /\ memory \in [Member -> PlanCopy] /\ stored \in PlanCopy /\ shown \in PlanCopy
    /\ queue \in [Member -> Seq(PlanCopy)] /\ terms \in Terms
    /\ running \in BOOLEAN /\ asked \in BOOLEAN
    /\ open \subseteq [order : Order, id : Nat]
    /\ history \subseteq [order : Order, id : Nat, result : Results]
    /\ ids \in Nat

\* The orders of one plan among orders or results.
Told(H, p) == {h.order : h \in {t \in H : t.id = p}}

\* What a queue holds.
Elems(q) == {q[i] : i \in 1..Len(q)}

\* Every copy but the runtime's.
Others(mem, kept, snap, q) == {mem["gateway"], kept, snap} \union Elems(q["gateway"])

\* An active copy that another one overtakes.
Yields(c, d) == c.rev < d.rev \/ (c.rev = d.rev /\ (~Active(d) \/ c = d))

\* A copy of a plan the runtime has not heard of has no order.
Fresh(c, mine) == c.id > mine.id => c.booked = {} /\ c.pending = 0

\* An active copy of the runtime's plan yields to it, and to the row.
Follows(c, mine, kept) ==
    Active(c) /\ c.id = mine.id =>
        /\ Yields(c, mine)
        /\ \/ c = mine
           \/ kept.id > mine.id
           \/ kept.id = mine.id /\ Yields(c, kept)

\* Two copies of such a plan differ only where one is ended.
Agree(c, d, mine) ==
    c.id = d.id /\ c.id > mine.id /\ Active(c) => c.rev <= d.rev /\ (Active(d) => c = d)

\* The copies outside the runtime against the runtime's.
CopiesFollow(all, mine, kept, top) ==
    /\ mine.id <= top
    /\ \A c \in all : c.id <= top /\ Fresh(c, mine) /\ Follows(c, mine, kept)
    /\ \A c \in all, d \in all : Agree(c, d, mine)

\* The runtime's copy of an active plan has every result and the open order.
MineRight(mine, O, H) ==
    Active(mine) => Told(H, mine.id) = mine.booked /\ Told(O, mine.id) = {mine.pending} \ {0}

\* Orders belong to plans the runtime knows, and are sent once.
OrdersOnce(O, H, mine) ==
    /\ \A t \in O \union H : t.id <= mine.id
    /\ \A t \in O, h \in H : t.order # h.order
    /\ \A t \in O, u \in O : t.order = u.order => t = u

\* With nothing on its way to the row, the row is as good as the runtime's copy.
RowSettled(mine, kept) ==
    \/ kept.id > mine.id
    \/ kept.id = mine.id /\ (Active(kept) => kept = mine) /\ (Active(mine) => Yields(mine, kept))

\* The results of its plan that a copy has not booked.
Lacks(c, H) == {t \in H : t.id = c.id /\ t.order \notin c.booked}
\* Repaired, of any history.
Repair(c, H) ==
    IF Lacks(c, H) = {} THEN c ELSE ApplyOwn(c, CHOOSE t \in Lacks(c, H) : TRUE)

\* With a write of the runtime under way, the row lacks at most what it repairs.
RowLags(mine, kept, H) ==
    kept.id = mine.id /\ Active(kept) =>
        \/ Told(H, kept.id) = kept.booked
        \/ mine = Repair(kept, H)

\* The inductive invariant behind StakeFounded: every copy of the plan against the
\* runtime's, and that one against the broker and the history.
StakeInv ==
    /\ PlanTypes
    /\ CopiesFollow(Others(memory, stored, shown, queue), Mine, stored, ids)
    /\ MineRight(Mine, open, history)
    /\ OrdersOnce(open, history, Mine)
    /\ Len(queue["gateway"]) <= 1
    /\ queue["runtime"] = <<>> \/ queue["runtime"] = <<Mine>>
    /\ queue["runtime"] = <<>> => RowSettled(Mine, stored)
    /\ queue["runtime"] # <<>> => RowLags(Mine, stored, history)

\* Orders at the broker.
Orders == [order : Order, id : Nat]
\* Results in the history.
Trades == [order : Order, id : Nat, result : Results]

\* The fields of a copy.
LEMMA FieldsOf ==
    ASSUME NEW c \in PlanCopy
    PROVE  /\ c.id \in Nat /\ c.rev \in Nat /\ c.won \in Nat /\ c.lost \in Nat
           /\ c.status \in Statuses /\ c.pending \in {0} \union Order
           /\ c.booked \in SUBSET Order /\ c.terms \in Terms
<1> DEFINE flags == BOOLEAN
           orders == {0} \union Order
           books == SUBSET Order
<1>1. c \in CopyOver(Statuses, orders, flags, books)
  BY DEF PlanCopy
<1> HIDE DEF flags, orders, books
<1>2. /\ c.id \in Nat /\ c.rev \in Nat /\ c.won \in Nat /\ c.lost \in Nat
      /\ c.status \in Statuses /\ c.pending \in orders
      /\ c.booked \in books /\ c.terms \in Terms
  BY <1>1 DEF CopyOver
<1> QED  BY <1>2 DEF orders, books

\* What apply_result leaves of a copy.
LEMMA ApplyOf ==
    ASSUME NEW c \in PlanCopy, NEW o \in Order, NEW result \in Results
    PROVE  LET d == ApplyResult(c, o, result) IN
           /\ d \in PlanCopy /\ d.id = c.id
           /\ Active(d) => Active(c)
           /\ d.booked = c.booked \union {o}
           /\ d = c \/ d.rev = c.rev + 1
           /\ o \in c.booked => d = c
           /\ o \notin c.booked => d.pending = IF c.pending = o THEN 0 ELSE c.pending
<1>1. CASE o \in c.booked
  BY <1>1 DEF ApplyResult, HasOrder
<1>2. CASE o \notin c.booked
  <2> DEFINE won == IF result = "WIN" THEN c.won + 1 ELSE c.won
             lost == IF result = "LOSS" THEN c.lost + 1 ELSE c.lost
             status == IF c.status # "active" THEN c.status
                       ELSE IF won >= W THEN "hit"
                       ELSE IF lost > N - W THEN "bust" ELSE c.status
             waits == IF c.pending = o THEN 0 ELSE c.pending
             booked == c.booked \union {o}
             rev == c.rev + 1
             d == ApplyResult(c, o, result)
             flags == BOOLEAN
             orders == {0} \union Order
             books == SUBSET Order
  <2>1. d = [c EXCEPT !.booked = booked, !.won = won, !.lost = lost,
                      !.pending = waits, !.rev = rev, !.status = status]
    BY <1>2 DEF ApplyResult, HasOrder
  <2>2. won \in Nat /\ lost \in Nat /\ rev \in Nat
    BY FieldsOf
  <2>3. waits \in orders /\ booked \in books
    BY FieldsOf
  <2>4. status \in Statuses /\ (status = "active" => c.status = "active")
    BY FieldsOf DEF Statuses, Over
  <2>5. c \in CopyOver(Statuses, orders, flags, books) /\ PlanCopy = CopyOver(Statuses, orders, flags, books)
    BY DEF PlanCopy
  <2> HIDE DEF won, lost, status, waits, d, booked, rev, flags, orders, books
  <2>6. d \in PlanCopy
    BY <2>1, <2>2, <2>3, <2>4, <2>5 DEF CopyOver
  <2>7. d.id = c.id /\ d.rev = rev /\ d.booked = booked /\ d.pending = waits /\ d.status = status
    BY <2>1, <2>5 DEF CopyOver
  <2> QED  BY <1>2, <2>4, <2>6, <2>7 DEF Active, waits, d, booked, rev
<1> QED  BY <1>1, <1>2

\* What a repair leaves of a copy: a copy that lacks nothing stays.
LEMMA RepairOf ==
    ASSUME NEW c \in PlanCopy, NEW H \in SUBSET Trades
    PROVE  LET d == Repair(c, H) IN
           /\ d \in PlanCopy /\ d.id = c.id
           /\ Active(d) => Active(c)
           /\ d = c \/ d.rev = c.rev + 1
           /\ Told(H, c.id) \subseteq c.booked => d = c
<1>1. CASE Lacks(c, H) = {}
  BY <1>1 DEF Repair
<1>2. CASE Lacks(c, H) # {}
  <2> DEFINE t == CHOOSE u \in Lacks(c, H) : TRUE
  <2>1. t \in Lacks(c, H)
    BY <1>2
  <2> HIDE DEF t
  <2>2. t \in Trades /\ t.id = c.id /\ t.order \notin c.booked /\ t \in H
    BY <2>1 DEF Lacks
  <2>3. Repair(c, H) = ApplyResult(c, t.order, t.result)
    BY <1>2, <2>2 DEF Repair, ApplyOwn, t
  <2>4. t.order \in Order /\ t.result \in Results
    BY <2>2 DEF Trades
  <2>5. ~(Told(H, c.id) \subseteq c.booked)
    BY <2>2 DEF Told
  <2> QED  BY <2>3, <2>4, <2>5, ApplyOf
<1> QED  BY <1>1, <1>2

\* A repair, of the history there is.
LEMMA RepairedIs == \A c : Repaired(c) = Repair(c, history)
BY DEF Repaired, Repair, Lacks

\* What close leaves of a copy.
LEMMA CloseOf ==
    ASSUME NEW c \in PlanCopy, NEW s \in Over
    PROVE  LET d == Close(c, s) IN
           /\ d \in PlanCopy /\ d.id = c.id /\ d.rev = c.rev + 1 /\ ~Active(d)
           /\ d.booked = c.booked /\ d.pending = c.pending
<1> DEFINE d == Close(c, s)
           rev == c.rev + 1
           flags == BOOLEAN
           orders == {0} \union Order
           books == SUBSET Order
<1>1. d = [c EXCEPT !.status = s, !.rev = rev]
  BY DEF Close
<1>2. rev \in Nat /\ s \in Statuses /\ s # "active"
  BY FieldsOf DEF Statuses, Over
<1>3. c \in CopyOver(Statuses, orders, flags, books) /\ PlanCopy = CopyOver(Statuses, orders, flags, books)
  BY DEF PlanCopy
<1> HIDE DEF d, rev, flags, orders, books
<1>4. d \in PlanCopy
  BY <1>1, <1>2, <1>3 DEF CopyOver
<1>5. d.id = c.id /\ d.rev = rev /\ d.booked = c.booked /\ d.pending = c.pending /\ d.status = s
  BY <1>1, <1>3 DEF CopyOver
<1> QED  BY <1>2, <1>4, <1>5 DEF Active, d, rev

\* What flag_unknown leaves of a copy that it changes.
LEMMA FlagOf ==
    ASSUME NEW c \in PlanCopy, NEW o \in Order, FlagUnknown(c, o) # c
    PROVE  LET d == FlagUnknown(c, o) IN
           /\ d \in PlanCopy /\ d.id = c.id /\ d.rev = c.rev + 1 /\ d.status = c.status
           /\ d.booked = c.booked /\ d.pending = c.pending
<1> DEFINE d == FlagUnknown(c, o)
           rev == c.rev + 1
           flags == BOOLEAN
           orders == {0} \union Order
           books == SUBSET Order
<1>1. d = [c EXCEPT !.unknown = TRUE, !.rev = rev]
  BY DEF FlagUnknown
<1>2. rev \in Nat /\ TRUE \in flags
  BY FieldsOf DEF Statuses, Over
<1>3. c \in CopyOver(Statuses, orders, flags, books) /\ PlanCopy = CopyOver(Statuses, orders, flags, books)
  BY DEF PlanCopy
<1> HIDE DEF d, rev, flags, orders, books
<1>4. d \in PlanCopy
  BY <1>1, <1>2, <1>3 DEF CopyOver
<1>5. d.id = c.id /\ d.rev = rev /\ d.booked = c.booked /\ d.pending = c.pending /\ d.status = c.status
  BY <1>1, <1>3 DEF CopyOver
<1> QED  BY <1>4, <1>5 DEF d, rev

\* What mark_pending leaves of a copy.
LEMMA MarkOf ==
    ASSUME NEW c \in PlanCopy, NEW o \in Order
    PROVE  LET d == MarkPending(c, o) IN
           /\ d \in PlanCopy /\ d.id = c.id /\ d.rev = c.rev + 1 /\ d.status = c.status
           /\ d.booked = c.booked /\ d.pending = o
<1> DEFINE d == MarkPending(c, o)
           rev == c.rev + 1
           flags == BOOLEAN
           orders == {0} \union Order
           books == SUBSET Order
<1>1. d = [c EXCEPT !.pending = o, !.unknown = FALSE, !.rev = rev]
  BY DEF MarkPending
<1>2. rev \in Nat /\ FALSE \in flags /\ o \in orders
  BY FieldsOf DEF Statuses, Over
<1>3. c \in CopyOver(Statuses, orders, flags, books) /\ PlanCopy = CopyOver(Statuses, orders, flags, books)
  BY DEF PlanCopy
<1> HIDE DEF d, rev, flags, orders, books
<1>4. d \in PlanCopy
  BY <1>1, <1>2, <1>3 DEF CopyOver
<1>5. d.id = c.id /\ d.rev = rev /\ d.booked = c.booked /\ d.pending = o /\ d.status = c.status
  BY <1>1, <1>3 DEF CopyOver
<1> QED  BY <1>4, <1>5 DEF d, rev

\* A new plan.
LEMMA NewOf ==
    ASSUME NEW i \in Nat, terms \in Terms
    PROVE  LET d == NewCycle(i) IN
           /\ d \in PlanCopy /\ d.id = i /\ Active(d) /\ d.booked = {} /\ d.pending = 0
<1> DEFINE flags == BOOLEAN
           none == {}
           orders == {0} \union Order
           books == SUBSET Order
           d == NewCycle(i)
<1>1. /\ FALSE \in flags /\ 0 \in orders /\ none \in books
      /\ "abandoned" \in Statuses /\ "active" \in Statuses
      /\ PlanCopy = CopyOver(Statuses, orders, flags, books)
  BY DEF PlanCopy, Statuses, Over
<1>2. Nothing = [id |-> 0, rev |-> 0, terms |-> 1, status |-> "abandoned", pending |-> 0,
                 unknown |-> FALSE, booked |-> none, won |-> 0, lost |-> 0]
  BY DEF Nothing
<1>3. d = [Nothing EXCEPT !.id = i, !.rev = 1, !.terms = terms, !.status = "active"]
  BY DEF NewCycle
<1> HIDE DEF flags, none, orders, books, d
<1>4. d \in PlanCopy /\ d.id = i /\ d.status = "active" /\ d.booked = none /\ d.pending = 0
  BY <1>1, <1>2, <1>3 DEF CopyOver
<1> QED  BY <1>4 DEF Active, none, d

\* Queues of at most one write.
LEMMA ShortQueue ==
    ASSUME NEW q \in Seq(PlanCopy)
    PROVE  /\ Len(q) < 1 => q = <<>>
           /\ q # <<>> => Head(q) \in PlanCopy /\ Tail(q) \in Seq(PlanCopy)
           /\ q # <<>> /\ Len(q) <= 1 => q = <<Head(q)>> /\ Tail(q) = <<>>
<1>1. \A s \in Seq(PlanCopy) : Len(s) < 1 => s = <<>>
  OBVIOUS
<1>2. q # <<>> => Head(q) \in PlanCopy /\ Tail(q) \in Seq(PlanCopy)
  OBVIOUS
<1>3. ASSUME q # <<>>, Len(q) <= 1 PROVE q = <<Head(q)>> /\ Tail(q) = <<>>
  <2>1. Len(q) = 1 /\ Head(q) = q[1] /\ q[1] \in PlanCopy
    <3>1. Len(q) \in Nat /\ ~(Len(q) < 1)
      BY <1>1, <1>3
    <3> DEFINE n == Len(q)
    <3>2. n \in Nat /\ ~(n < 1) /\ n <= 1
      BY <3>1, <1>3, Zenon
    <3> HIDE DEF n
    <3>3. n = 1
      BY <3>2
    <3>4. Len(q) = 1
      BY <3>3 DEF n
    <3> QED  BY <3>4
  <2>2. Tail(q) \in Seq(PlanCopy) /\ Len(Tail(q)) < 1
    BY <1>3, <2>1
  <2>3. Tail(q) = <<>>
    BY <2>2, <1>1, Zenon
  <2>4. q = <<q[1]>>
    BY <2>1
  <2> QED  BY <2>1, <2>3, <2>4
<1> QED  BY <1>1, <1>2, <1>3

\* The queue of one write.
LEMMA OneWrite ==
    ASSUME NEW c \in PlanCopy
    PROVE  /\ Append(<<>>, c) = <<c>> /\ <<c>> \in Seq(PlanCopy) /\ <<c>> # <<>>
           /\ Len(<<c>>) = 1 /\ Elems(<<c>>) = {c} /\ Elems(<<>>) = {}
<1>1. Append(<<>>, c) = <<c>> /\ <<c>> \in Seq(PlanCopy) /\ <<c>> # <<>> /\ Len(<<c>>) = 1
  OBVIOUS
<1>2. Elems(<<c>>) = {c} /\ Elems(<<>>) = {}
  BY DEF Elems
<1> QED  BY <1>1, <1>2

\* Every copy is a copy.
LEMMA Parties ==
    ASSUME StakeInv
    PROVE  /\ Mine \in PlanCopy /\ memory["gateway"] \in PlanCopy /\ stored \in PlanCopy /\ shown \in PlanCopy
           /\ queue["gateway"] \in Seq(PlanCopy) /\ queue["runtime"] \in Seq(PlanCopy)
           /\ Others(memory, stored, shown, queue) \subseteq PlanCopy
           /\ memory["gateway"] \in Others(memory, stored, shown, queue)
           /\ stored \in Others(memory, stored, shown, queue)
           /\ shown \in Others(memory, stored, shown, queue)
<1>1. /\ Mine \in PlanCopy /\ memory["gateway"] \in PlanCopy /\ stored \in PlanCopy /\ shown \in PlanCopy
      /\ queue["gateway"] \in Seq(PlanCopy) /\ queue["runtime"] \in Seq(PlanCopy)
  BY DEF StakeInv, PlanTypes, Member, Mine
<1>2. Elems(queue["gateway"]) \subseteq PlanCopy
  BY <1>1 DEF Elems
<1> QED  BY <1>1, <1>2 DEF Others

\* A copy outside the runtime is replaced by one that follows the runtime's.
LEMMA OthersMove ==
    ASSUME StakeInv, PlanTypes', Mine' = Mine, stored' = stored,
           open' = open, history' = history, queue'["runtime"] = queue["runtime"],
           ids <= ids', Len(queue'["gateway"]) <= 1,
           NEW n \in PlanCopy,
           Others(memory', stored', shown', queue') \subseteq Others(memory, stored, shown, queue) \union {n},
           n.id <= ids', Fresh(n, Mine), Follows(n, Mine, stored),
           \A c \in Others(memory, stored, shown, queue) : Agree(c, n, Mine) /\ Agree(n, c, Mine)
    PROVE  StakeInv'
<1> DEFINE all == Others(memory, stored, shown, queue)
           next == Others(memory', stored', shown', queue')
<1>1. CopiesFollow(all, Mine, stored, ids)
  BY DEF StakeInv
<1>2. all \subseteq PlanCopy /\ next \subseteq all \union {n} /\ Mine \in PlanCopy /\ ids \in Nat /\ ids' \in Nat
  BY Parties DEF StakeInv, PlanTypes
<1>3. \A c \in all : c.id \in Nat
  BY <1>2, FieldsOf
<1>a. Mine.id \in Nat /\ n.rev \in Nat
  BY <1>2, FieldsOf
<1>4. Agree(n, n, Mine)
  BY <1>a DEF Agree
<1> HIDE DEF all, next
<1>5. \A c \in next : c.id <= ids' /\ Fresh(c, Mine) /\ Follows(c, Mine, stored)
  BY <1>1, <1>2, <1>3 DEF CopiesFollow
<1>6. \A c \in next, d \in next : Agree(c, d, Mine)
  BY <1>1, <1>2, <1>4 DEF CopiesFollow, all
<1>7. CopiesFollow(next, Mine, stored, ids')
  BY <1>1, <1>2, <1>5, <1>6, <1>a DEF CopiesFollow
<1> QED  BY <1>7 DEF StakeInv, next

\* No plan is a copy that is not active.
LEMMA NothingIs == Nothing \in PlanCopy /\ Nothing.id = 0 /\ ~Active(Nothing) /\ Nothing.pending = 0 /\ Nothing.booked = {}
<1> DEFINE flags == BOOLEAN
           none == {}
           orders == {0} \union Order
           books == SUBSET Order
<1>1. /\ FALSE \in flags /\ 0 \in orders /\ none \in books
      /\ "abandoned" \in Statuses
      /\ PlanCopy = CopyOver(Statuses, orders, flags, books)
  BY DEF PlanCopy, Statuses, Over
<1>2. Nothing = [id |-> 0, rev |-> 0, terms |-> 1, status |-> "abandoned", pending |-> 0,
                 unknown |-> FALSE, booked |-> none, won |-> 0, lost |-> 0]
  BY DEF Nothing
<1>3. 1 \in Terms
  BY PlanAssumption
<1> HIDE DEF flags, none, orders, books
<1>4. Nothing \in PlanCopy /\ Nothing.id = 0 /\ Nothing.status = "abandoned" /\ Nothing.pending = 0 /\ Nothing.booked = none
  BY <1>1, <1>2, <1>3 DEF CopyOver
<1> QED  BY <1>4 DEF Active, none

\* A copy outside the runtime is replaced by one that was there.
LEMMA KnownMoves ==
    ASSUME StakeInv, PlanTypes', Mine' = Mine, stored' = stored,
           open' = open, history' = history, queue'["runtime"] = queue["runtime"],
           ids <= ids', Len(queue'["gateway"]) <= 1,
           Others(memory', stored', shown', queue') \subseteq Others(memory, stored, shown, queue) \union {Nothing}
    PROVE  StakeInv'
<1>1. Nothing \in PlanCopy /\ Nothing.id = 0 /\ ~Active(Nothing) /\ Nothing.pending = 0 /\ Nothing.booked = {}
  BY NothingIs
<1>2. Mine \in PlanCopy /\ Mine.id \in Nat /\ ids' \in Nat
  BY Parties, FieldsOf DEF PlanTypes
<1>3. Fresh(Nothing, Mine) /\ Follows(Nothing, Mine, stored)
  BY <1>1, <1>2 DEF Fresh, Follows
<1>4. \A c \in Others(memory, stored, shown, queue) : Agree(c, Nothing, Mine) /\ Agree(Nothing, c, Mine)
  BY <1>1, <1>2 DEF Agree
<1> QED  BY <1>1, <1>2, <1>3, <1>4, OthersMove

\* The gateway holds another copy.
LEMMA GatewayTakes ==
    ASSUME StakeInv, NEW c \in PlanCopy, Holds("gateway", c)
    PROVE  /\ memory' \in [Member -> PlanCopy]
           /\ memory'["gateway"] = c /\ Mine' = Mine
BY DEF StakeInv, PlanTypes, Member, Holds, Mine

\* The runtime holds another copy.
LEMMA RuntimeTakes ==
    ASSUME StakeInv, NEW c \in PlanCopy, Holds("runtime", c)
    PROVE  /\ memory' \in [Member -> PlanCopy]
           /\ memory'["gateway"] = memory["gateway"] /\ Mine' = c
BY DEF StakeInv, PlanTypes, Member, Holds, Mine

\* The gateway sends a copy to the row.
LEMMA GatewaySaves ==
    ASSUME StakeInv, NEW c \in PlanCopy, Calm("gateway"), SaveLater("gateway", c)
    PROVE  /\ queue' \in [Member -> Seq(PlanCopy)]
           /\ Len(queue'["gateway"]) = 1 /\ Elems(queue'["gateway"]) = {c}
           /\ queue'["runtime"] = queue["runtime"]
<1>1. queue["gateway"] = <<>>
  BY Parties, ShortQueue DEF Calm
<1>2. queue' = [queue EXCEPT !["gateway"] = <<c>>]
  BY <1>1, OneWrite DEF SaveLater
<1>3. queue'["gateway"] = <<c>> /\ queue'["runtime"] = queue["runtime"]
  BY <1>2 DEF StakeInv, PlanTypes, Member
<1>4. queue' \in [Member -> Seq(PlanCopy)]
  BY <1>2, OneWrite DEF StakeInv, PlanTypes, Member
<1> QED  BY <1>3, <1>4, OneWrite

\* The runtime sends a copy to the row.
LEMMA RuntimeSaves ==
    ASSUME StakeInv, NEW c \in PlanCopy, Calm("runtime"), SaveLater("runtime", c)
    PROVE  /\ queue' \in [Member -> Seq(PlanCopy)]
           /\ queue["runtime"] = <<>>
           /\ queue'["runtime"] = <<c>> /\ queue'["runtime"] # <<>>
           /\ queue'["gateway"] = queue["gateway"]
<1>1. queue["runtime"] = <<>>
  BY Parties, ShortQueue DEF Calm
<1>2. queue' = [queue EXCEPT !["runtime"] = <<c>>]
  BY <1>1, OneWrite DEF SaveLater
<1>3. queue'["runtime"] = <<c>> /\ queue'["gateway"] = queue["gateway"]
  BY <1>2 DEF StakeInv, PlanTypes, Member
<1>4. queue' \in [Member -> Seq(PlanCopy)]
  BY <1>2, OneWrite DEF StakeInv, PlanTypes, Member
<1> QED  BY <1>1, <1>3, <1>4, OneWrite

\* The gateway reads its own copy or the snapshot.
LEMMA SyncedIs ==
    ASSUME StakeInv
    PROVE  Synced \in {memory["gateway"], shown} /\ Synced \in PlanCopy
BY Parties DEF Synced, PickFreshest

\* A poll of the panel keeps the invariant.
LEMMA SyncStep ==
    ASSUME StakeInv, GatewaySyncs
    PROVE  StakeInv'
<1> PICK c : /\ c = (IF shown = Nothing THEN PickFreshest(memory["gateway"], stored) ELSE Synced)
             /\ Holds("gateway", c)
  BY DEF GatewaySyncs
<1>1. c \in {memory["gateway"], stored, shown} /\ c \in PlanCopy
  BY Parties, SyncedIs DEF PickFreshest
<1>2. UNCHANGED <<stored, shown, queue, terms, running, asked, open, history, ids>>
  BY DEF GatewaySyncs
<1>3. memory' \in [Member -> PlanCopy] /\ memory'["gateway"] = c /\ Mine' = Mine
  BY <1>1, GatewayTakes
<1>4. PlanTypes'
  BY <1>2, <1>3 DEF StakeInv, PlanTypes
<1>5. Others(memory', stored', shown', queue') \subseteq Others(memory, stored, shown, queue) \union {Nothing}
  BY <1>1, <1>2, <1>3 DEF Others
<1>6. ids \in Nat /\ Len(queue["gateway"]) <= 1
  BY DEF StakeInv, PlanTypes
<1> QED  BY <1>2, <1>3, <1>4, <1>5, <1>6, KnownMoves

\* A save of the gateway's keeps the invariant.
LEMMA PersistStep ==
    ASSUME StakeInv, GatewayPersists
    PROVE  StakeInv'
<1> DEFINE c == Synced
<1>1. c \in {memory["gateway"], shown} /\ c \in PlanCopy
  BY SyncedIs
<1>2. UNCHANGED <<stored, shown, terms, running, asked, open, history, ids>>
  BY DEF GatewayPersists
<1>3. memory' \in [Member -> PlanCopy] /\ memory'["gateway"] = c /\ Mine' = Mine
  BY <1>1, GatewayTakes DEF GatewayPersists
<1>4. /\ queue' \in [Member -> Seq(PlanCopy)] /\ Len(queue'["gateway"]) = 1
      /\ Elems(queue'["gateway"]) = {c} /\ queue'["runtime"] = queue["runtime"]
  BY <1>1, GatewaySaves DEF GatewayPersists
<1> HIDE DEF c
<1>5. PlanTypes'
  BY <1>2, <1>3, <1>4 DEF StakeInv, PlanTypes
<1>6. Others(memory', stored', shown', queue') \subseteq Others(memory, stored, shown, queue) \union {Nothing}
  BY <1>1, <1>2, <1>3, <1>4 DEF Others
<1>7. ids \in Nat /\ Len(queue'["gateway"]) <= 1
  BY <1>4 DEF StakeInv, PlanTypes
<1> QED  BY <1>2, <1>3, <1>4, <1>5, <1>6, <1>7, KnownMoves

\* Steps that only lose the snapshot or change the settings keep the invariant.
LEMMA RestStep ==
    ASSUME StakeInv, ShownExpires \/ ChangeSettings \/ RobotStops \/ UNCHANGED planVars
    PROVE  StakeInv'
<1>1. UNCHANGED <<memory, stored, queue, open, history, ids>> /\ shown' \in {shown, Nothing}
  BY DEF ShownExpires, ChangeSettings, RobotStops, planVars
<1>2. terms' \in Terms /\ running' \in BOOLEAN /\ asked' \in BOOLEAN
  BY DEF StakeInv, PlanTypes, ShownExpires, ChangeSettings, RobotStops, planVars
<1>3. Nothing \in PlanCopy
  BY NothingIs
<1>4. PlanTypes'
  BY <1>1, <1>2, <1>3 DEF StakeInv, PlanTypes
<1>5. Others(memory', stored', shown', queue') \subseteq Others(memory, stored, shown, queue) \union {Nothing}
  BY <1>1 DEF Others
<1>6. ids \in Nat /\ Len(queue["gateway"]) <= 1 /\ Mine' = Mine
  BY <1>1 DEF StakeInv, PlanTypes, Mine
<1> QED  BY <1>1, <1>4, <1>5, <1>6, KnownMoves

\* No order is of a plan the runtime has not heard of.
LEMMA UntoldAbove ==
    ASSUME StakeInv, NEW p \in Nat, p > Mine.id
    PROVE  Told(history, p) = {} /\ Told(open, p) = {}
<1>1. \A t \in open \union history : t.id \in Nat /\ t.id <= Mine.id
  BY DEF StakeInv, PlanTypes, OrdersOnce
<1>2. Mine.id \in Nat
  BY Parties, FieldsOf
<1> QED  BY <1>1, <1>2 DEF Told

\* The row, repaired: of a plan of the runtime's it is what the runtime has.
LEMMA RepairedRow ==
    ASSUME StakeInv
    PROVE  LET r == Repaired(stored) IN
           /\ r \in PlanCopy /\ r.id = stored.id
           /\ Active(r) => Active(stored)
           /\ r = stored \/ r.rev = stored.rev + 1
           /\ stored.id > Mine.id => r = stored
           /\ stored.id = Mine.id /\ Active(stored) => r = stored \/ r = Mine
<1> DEFINE r == Repair(stored, history)
<1>1. r = Repaired(stored)
  BY RepairedIs
<1>2. history \in SUBSET Trades
  BY DEF StakeInv, PlanTypes, Trades
<1>3. stored \in PlanCopy /\ stored.id \in Nat
  BY Parties, FieldsOf
<1>4. /\ r \in PlanCopy /\ r.id = stored.id
      /\ Active(r) => Active(stored)
      /\ r = stored \/ r.rev = stored.rev + 1
      /\ Told(history, stored.id) \subseteq stored.booked => r = stored
  BY <1>2, <1>3, RepairOf
<1>5. stored.id > Mine.id => r = stored
  BY <1>3, <1>4, UntoldAbove
<1>6. ASSUME stored.id = Mine.id, Active(stored) PROVE r = stored \/ r = Mine
  <2>1. CASE queue["runtime"] = <<>>
    <3>1. stored = Mine
      BY <1>6, <1>3, <2>1 DEF StakeInv, RowSettled
    <3>2. Told(history, stored.id) = stored.booked
      BY <1>6, <3>1 DEF StakeInv, MineRight
    <3> QED  BY <3>2, <1>4
  <2>2. CASE queue["runtime"] # <<>>
    <3>1. Told(history, stored.id) = stored.booked \/ Mine = r
      BY <1>6, <2>2 DEF StakeInv, RowLags
    <3> QED  BY <3>1, <1>4
  <2> QED  BY <2>1, <2>2
<1> HIDE DEF r
<1> QED  BY <1>1, <1>4, <1>5, <1>6

\* A restart of the gateway keeps the invariant.
LEMMA ReloadStep ==
    ASSUME StakeInv, GatewayReloads
    PROVE  StakeInv'
<1> DEFINE n == Repaired(stored)
<1>1. /\ n \in PlanCopy /\ n.id = stored.id
      /\ Active(n) => Active(stored)
      /\ stored.id > Mine.id => n = stored
      /\ stored.id = Mine.id /\ Active(stored) => n = stored \/ n = Mine
  BY RepairedRow
<1>2. UNCHANGED <<stored, shown, queue, terms, running, asked, open, history, ids>> /\ Holds("gateway", n)
  BY DEF GatewayReloads
<1> HIDE DEF n
<1>3. memory' \in [Member -> PlanCopy] /\ memory'["gateway"] = n /\ Mine' = Mine
  BY <1>1, <1>2, GatewayTakes
<1>4. PlanTypes'
  BY <1>2, <1>3 DEF StakeInv, PlanTypes
<1>5. Others(memory', stored', shown', queue') \subseteq Others(memory, stored, shown, queue) \union {n}
  BY <1>2, <1>3 DEF Others
<1>6. ids \in Nat /\ Len(queue["gateway"]) <= 1
  BY DEF StakeInv, PlanTypes
<1>7. CopiesFollow(Others(memory, stored, shown, queue), Mine, stored, ids)
  BY DEF StakeInv
<1>8. /\ stored \in Others(memory, stored, shown, queue) /\ Mine \in PlanCopy /\ stored \in PlanCopy
      /\ Others(memory, stored, shown, queue) \subseteq PlanCopy
      /\ stored.id \in Nat /\ Mine.id \in Nat /\ Mine.rev \in Nat
  BY Parties, FieldsOf
<1>9. n.id <= ids' /\ Fresh(n, Mine)
  BY <1>1, <1>2, <1>7, <1>8 DEF CopiesFollow, Fresh
<1>10. Follows(n, Mine, stored)
  BY <1>1, <1>7, <1>8 DEF CopiesFollow, Follows, Yields
<1>11. \A c \in Others(memory, stored, shown, queue) : Agree(c, n, Mine) /\ Agree(n, c, Mine)
  BY <1>1, <1>7, <1>8 DEF CopiesFollow, Agree
<1> QED  BY <1>1, <1>2, <1>3, <1>4, <1>5, <1>6, <1>9, <1>10, <1>11, OthersMove

\* A start keeps the invariant.
LEMMA StartStep ==
    ASSUME StakeInv, PlanStarts
    PROVE  StakeInv'
<1> DEFINE n == memory'["gateway"]
<1>0. /\ Calm("gateway") /\ shown' = n /\ SaveLater("gateway", n) /\ asked'
      /\ UNCHANGED <<stored, terms, running, open, history, turns>>
      /\ \/ Holds("gateway", Synced) /\ ids' = ids
         \/ ids' = ids + 1 /\ Holds("gateway", NewCycle(ids'))
  BY DEF PlanStarts, Opens
<1>1. Synced \in {memory["gateway"], shown} /\ Synced \in PlanCopy
  BY SyncedIs
<1>2. ids \in Nat /\ terms \in Terms
  BY DEF StakeInv, PlanTypes
<1>3. memory' \in [Member -> PlanCopy] /\ n \in PlanCopy /\ Mine' = Mine /\ (n = Synced \/ n = NewCycle(ids'))
  BY <1>0, <1>1, <1>2, NewOf, GatewayTakes
<1>4. /\ queue' \in [Member -> Seq(PlanCopy)] /\ Len(queue'["gateway"]) = 1
      /\ Elems(queue'["gateway"]) = {n} /\ queue'["runtime"] = queue["runtime"]
  BY <1>0, <1>3, GatewaySaves
<1>5. PlanTypes'
  BY <1>0, <1>2, <1>3, <1>4 DEF StakeInv, PlanTypes
<1>6. Others(memory', stored', shown', queue') \subseteq Others(memory, stored, shown, queue) \union {n}
  BY <1>0, <1>3, <1>4 DEF Others
<1>7. CASE Holds("gateway", Synced) /\ ids' = ids
  <2>1. n = Synced
    BY <1>1, <1>7, GatewayTakes
  <2>2. Others(memory', stored', shown', queue') \subseteq Others(memory, stored, shown, queue) \union {Nothing}
    BY <1>1, <1>6, <2>1 DEF Others
  <2> HIDE DEF n
  <2> QED  BY <1>0, <1>2, <1>3, <1>4, <1>5, <1>7, <2>2, KnownMoves
<1>8. CASE ids' = ids + 1 /\ Holds("gateway", NewCycle(ids'))
  <2>1. NewCycle(ids') \in PlanCopy
    BY <1>2, <1>8, NewOf
  <2>2. n = NewCycle(ids')
    BY <1>8, <2>1, GatewayTakes
  <2>3. n \in PlanCopy /\ n.id = ids + 1 /\ n.booked = {} /\ n.pending = 0
    BY <1>2, <1>8, <2>2, NewOf
  <2> HIDE DEF n
  <2>4. CopiesFollow(Others(memory, stored, shown, queue), Mine, stored, ids)
    BY DEF StakeInv
  <2>5. Mine \in PlanCopy /\ Mine.id \in Nat /\ Others(memory, stored, shown, queue) \subseteq PlanCopy
    BY Parties, FieldsOf
  <2>6. \A c \in Others(memory, stored, shown, queue) : c.id \in Nat /\ c.id <= ids
    BY <2>4, <2>5, FieldsOf DEF CopiesFollow
  <2>7. Mine.id <= ids
    BY <2>4 DEF CopiesFollow
  <2>8. n.id <= ids' /\ Fresh(n, Mine) /\ Follows(n, Mine, stored)
    BY <1>2, <1>8, <2>3, <2>5, <2>7 DEF Fresh, Follows
  <2>9. \A c \in Others(memory, stored, shown, queue) : Agree(c, n, Mine) /\ Agree(n, c, Mine)
    BY <1>2, <2>3, <2>6 DEF Agree
  <2>10. ids <= ids' /\ Len(queue'["gateway"]) <= 1
    BY <1>2, <1>4, <1>8
  <2> QED  BY <1>0, <1>3, <1>4, <1>5, <1>6, <2>3, <2>8, <2>9, <2>10, OthersMove
<1> QED  BY <1>0, <1>7, <1>8

\* The owner who ends a plan keeps the invariant.
LEMMA EndStep ==
    ASSUME StakeInv, EndCycle
    PROVE  StakeInv'
<1> DEFINE n == Close(Synced, "abandoned")
<1>0. /\ Calm("gateway") /\ Active(Synced) /\ Holds("gateway", n)
      /\ SaveLater("gateway", memory'["gateway"]) /\ shown' = memory'["gateway"]
      /\ UNCHANGED <<stored, terms, running, asked, open, history, ids, turns>>
  BY DEF EndCycle
<1>1. Synced \in {memory["gateway"], shown} /\ Synced \in PlanCopy
  BY SyncedIs
<1>2. ids \in Nat /\ terms \in Terms
  BY DEF StakeInv, PlanTypes
<1>3. /\ n \in PlanCopy /\ n.id = Synced.id /\ n.rev = Synced.rev + 1 /\ ~Active(n)
      /\ n.booked = Synced.booked /\ n.pending = Synced.pending
  BY <1>1, CloseOf DEF Over
<1> HIDE DEF n
<1>4. memory' \in [Member -> PlanCopy] /\ memory'["gateway"] = n /\ Mine' = Mine
  BY <1>0, <1>3, GatewayTakes
<1>5. /\ queue' \in [Member -> Seq(PlanCopy)] /\ Len(queue'["gateway"]) = 1
      /\ Elems(queue'["gateway"]) = {n} /\ queue'["runtime"] = queue["runtime"]
  BY <1>0, <1>3, <1>4, GatewaySaves
<1>6. PlanTypes'
  BY <1>0, <1>2, <1>3, <1>4, <1>5 DEF StakeInv, PlanTypes
<1>7. Others(memory', stored', shown', queue') \subseteq Others(memory, stored, shown, queue) \union {n}
  BY <1>0, <1>4, <1>5 DEF Others
<1>8. CopiesFollow(Others(memory, stored, shown, queue), Mine, stored, ids)
  BY DEF StakeInv
<1>9. Synced \in Others(memory, stored, shown, queue) /\ Others(memory, stored, shown, queue) \subseteq PlanCopy
  BY <1>1, Parties
<1>10. n.id <= ids' /\ Fresh(n, Mine) /\ Follows(n, Mine, stored)
  BY <1>0, <1>3, <1>8, <1>9 DEF CopiesFollow, Fresh, Follows
<1>11. \A c \in Others(memory, stored, shown, queue) : c.rev \in Nat
  BY <1>9, FieldsOf
<1>12. \A c \in Others(memory, stored, shown, queue) : Agree(c, n, Mine) /\ Agree(n, c, Mine)
  BY <1>3, <1>8, <1>9, <1>11 DEF CopiesFollow, Agree
<1> QED  BY <1>0, <1>2, <1>3, <1>4, <1>5, <1>6, <1>7, <1>10, <1>12, OthersMove

\* An active copy that yielded to the row yields to what replaces it.
LEMMA RowMoves ==
    ASSUME NEW c \in PlanCopy, NEW h \in PlanCopy, NEW kept \in PlanCopy, NEW mine \in PlanCopy,
           Follows(c, mine, kept), Follows(h, mine, kept), Follows(kept, mine, kept)
    PROVE  Follows(c, mine, PickFreshest(h, kept))
<1>1. c.rev \in Nat /\ h.rev \in Nat /\ kept.rev \in Nat /\ mine.rev \in Nat
  BY FieldsOf
<1>2. c.id \in Nat /\ h.id \in Nat /\ kept.id \in Nat /\ mine.id \in Nat
  BY FieldsOf
<1> SUFFICES ASSUME Active(c), c.id = mine.id, c # mine
             PROVE  LET d == PickFreshest(h, kept) IN d.id > mine.id \/ (d.id = mine.id /\ Yields(c, d))
  BY DEF Follows
<1>3. kept.id > mine.id \/ (kept.id = mine.id /\ Yields(c, kept))
  BY DEF Follows
<1>4. CASE kept.id > mine.id
  BY <1>2, <1>4 DEF PickFreshest
<1>5. CASE kept.id = mine.id /\ Yields(c, kept)
  <2>1. CASE PickFreshest(h, kept) = kept
    BY <1>5, <2>1
  <2>2. CASE PickFreshest(h, kept) = h /\ h # kept
    <3>1. h.id > kept.id \/ (h.id = kept.id /\ (h.rev > kept.rev \/ (h.rev = kept.rev /\ ~(Active(h) /\ ~Active(kept)))))
      BY <1>1, <1>2, <2>2 DEF PickFreshest
    <3>2. CASE h.id > kept.id
      BY <1>5, <2>2, <3>2
    <3>3. CASE h.id = kept.id /\ h.rev > kept.rev
      BY <1>1, <1>5, <2>2, <3>3 DEF Yields
    <3>4. CASE h.id = kept.id /\ h.rev = kept.rev /\ ~Active(h)
      BY <1>1, <1>5, <2>2, <3>4 DEF Yields
    <3>5. CASE h.id = kept.id /\ h.rev = kept.rev /\ Active(h) /\ Active(kept)
      <4>1. h = mine \/ Yields(h, kept)
        BY <1>2, <1>5, <3>5 DEF Follows
      <4>2. Yields(h, kept) => h = kept
        BY <1>1, <3>5 DEF Yields
      <4>3. h = mine
        BY <2>2, <4>1, <4>2
      <4>4. Yields(kept, mine)
        BY <1>5, <3>5 DEF Follows
      <4>5. kept = mine
        BY <1>1, <3>5, <4>3, <4>4 DEF Yields
      <4> QED  BY <2>2, <4>3, <4>5
    <3> QED  BY <3>1, <3>2, <3>3, <3>4, <3>5
  <2> QED  BY <2>1, <2>2 DEF PickFreshest
<1> QED  BY <1>3, <1>4, <1>5

\* A write that reaches the row: the copies still follow the runtime's.
LEMMA RowTaken ==
    ASSUME StakeInv, PlanTypes', NEW h \in PlanCopy, Follows(h, Mine, stored),
           stored' = PickFreshest(h, stored), Len(queue'["gateway"]) <= 1,
           UNCHANGED <<memory, shown, open, history, ids>>,
           Elems(queue'["gateway"]) \subseteq Elems(queue["gateway"]),
           h \in Others(memory, stored, shown, queue) \union {Mine}
    PROVE  /\ Mine' = Mine
           /\ CopiesFollow(Others(memory', stored', shown', queue'), Mine', stored', ids')
           /\ MineRight(Mine', open', history')
           /\ OrdersOnce(open', history', Mine')
<1> DEFINE all == Others(memory, stored, shown, queue)
           next == Others(memory', stored', shown', queue')
<1>1. Mine' = Mine
  BY DEF Mine
<1>2. CopiesFollow(all, Mine, stored, ids)
  BY DEF StakeInv
<1>3. all \subseteq PlanCopy /\ Mine \in PlanCopy /\ stored \in PlanCopy /\ stored \in all
  BY Parties
<1>4. next \subseteq all \union {Mine}
  BY DEF Others, PickFreshest
<1>5. \A c \in all \union {Mine} : c \in PlanCopy /\ c.id \in Nat /\ c.rev \in Nat
  BY <1>3, FieldsOf
<1> HIDE DEF all, next
<1>6. \A c \in all : Follows(c, Mine, stored') 
  <2> TAKE c \in all
  <2>1. c \in PlanCopy /\ Follows(c, Mine, stored) /\ Follows(stored, Mine, stored)
    BY <1>2, <1>3 DEF CopiesFollow
  <2> QED  BY <1>3, <2>1, RowMoves
<1>7. Follows(Mine, Mine, stored') /\ Fresh(Mine, Mine) /\ Mine.id <= ids
  BY <1>2, <1>5 DEF Follows, Fresh, Yields, CopiesFollow
<1>8. \A c \in next : c.id <= ids /\ Fresh(c, Mine) /\ Follows(c, Mine, stored')
  BY <1>2, <1>4, <1>6, <1>7 DEF CopiesFollow
<1>9. \A c \in next, d \in next : Agree(c, d, Mine)
  BY <1>2, <1>4, <1>5 DEF CopiesFollow, Agree
<1>10. CopiesFollow(next, Mine, stored', ids')
  BY <1>7, <1>8, <1>9 DEF CopiesFollow
<1> QED  BY <1>1, <1>10 DEF next, StakeInv

\* A write of the gateway's that reaches the row keeps the invariant.
LEMMA GatewayRowStep ==
    ASSUME StakeInv, RowStored("gateway")
    PROVE  StakeInv'
<1> DEFINE h == Head(queue["gateway"])
<1>0. /\ queue["gateway"] # <<>> /\ stored' = PickFreshest(h, stored)
      /\ queue' = [queue EXCEPT !["gateway"] = Tail(@)]
      /\ UNCHANGED <<memory, shown, terms, running, asked, open, history, ids, turns>>
  BY DEF RowStored
<1>1. /\ queue["gateway"] \in Seq(PlanCopy) /\ Len(queue["gateway"]) <= 1
      /\ Mine \in PlanCopy /\ stored \in PlanCopy
  BY Parties DEF StakeInv
<1>2. h \in PlanCopy /\ queue["gateway"] = <<h>> /\ Tail(queue["gateway"]) = <<>>
  BY <1>0, <1>1, ShortQueue
<1> HIDE DEF h
<1>3. Elems(queue["gateway"]) = {h} /\ Elems(<<>>) = {}
  BY <1>2, OneWrite
<1>4. /\ queue' = [queue EXCEPT !["gateway"] = <<>>]
      /\ queue \in [Member -> Seq(PlanCopy)]
  BY <1>0, <1>2 DEF StakeInv, PlanTypes
<1>5. queue'["gateway"] = <<>> /\ queue'["runtime"] = queue["runtime"] /\ queue' \in [Member -> Seq(PlanCopy)]
  BY <1>4 DEF Member
<1>6. stored' \in {h, stored} /\ stored' \in PlanCopy
  BY <1>0, <1>1, <1>2 DEF PickFreshest
<1>7. PlanTypes'
  BY <1>0, <1>5, <1>6 DEF StakeInv, PlanTypes
<1>8. h \in Others(memory, stored, shown, queue) /\ stored \in Others(memory, stored, shown, queue)
  BY <1>3 DEF Others
<1>9. Follows(h, Mine, stored) /\ Follows(stored, Mine, stored)
  BY <1>8 DEF StakeInv, CopiesFollow
<1>10. Elems(queue'["gateway"]) \subseteq Elems(queue["gateway"]) /\ Len(queue'["gateway"]) <= 1
  BY <1>3, <1>5
<1>11. /\ Mine' = Mine
       /\ CopiesFollow(Others(memory', stored', shown', queue'), Mine', stored', ids')
       /\ MineRight(Mine', open', history')
       /\ OrdersOnce(open', history', Mine')
  BY <1>0, <1>2, <1>7, <1>8, <1>9, <1>10, RowTaken
<1>12. /\ h.id \in Nat /\ h.rev \in Nat /\ stored.id \in Nat /\ stored.rev \in Nat
       /\ Mine.id \in Nat /\ Mine.rev \in Nat
  BY <1>1, <1>2, FieldsOf
\* The head takes the row's place.
<1>13. ASSUME stored' = h, h # stored, h.id = Mine.id, Active(h), ~(stored.id > Mine.id) PROVE h = Mine
  <2>1. stored.id = h.id => h.rev > stored.rev \/ (h.rev = stored.rev /\ Active(stored))
    BY <1>0, <1>13, <1>12 DEF PickFreshest
  <2>2. CASE stored.id = Mine.id
    <3>1. h = Mine \/ Yields(h, stored)
      BY <1>9, <1>12, <1>13, <2>2 DEF Follows
    <3>2. ~Yields(h, stored)
      BY <1>12, <1>13, <2>1, <2>2 DEF Yields
    <3> QED  BY <3>1, <3>2
  <2>3. CASE stored.id # Mine.id
    BY <1>9, <1>12, <1>13, <2>3 DEF Follows
  <2> QED  BY <2>2, <2>3
<1>14. stored' = h /\ h # stored => h.id > stored.id \/ (h.id = stored.id /\ h.rev >= stored.rev)
  BY <1>0, <1>12 DEF PickFreshest
<1>15. queue'["runtime"] = <<>> \/ queue'["runtime"] = <<Mine'>>
  BY <1>5, <1>11 DEF StakeInv
<1>16. ASSUME queue'["runtime"] = <<>> PROVE RowSettled(Mine, stored')
  <2>1. RowSettled(Mine, stored)
    BY <1>5, <1>16 DEF StakeInv
  <2>2. CASE stored' = stored
    BY <2>1, <2>2
  <2>3. CASE stored' = h /\ h # stored
    <3>1. CASE stored.id > Mine.id
      BY <1>12, <1>14, <2>3, <3>1 DEF RowSettled
    <3>2. CASE stored.id = Mine.id /\ h.id > stored.id
      BY <2>3, <3>2 DEF RowSettled
    <3>3. CASE stored.id = Mine.id /\ h.id = stored.id
      <4>1. Active(h) => h = Mine
        BY <1>12, <1>13, <2>3, <3>3
      <4>2. ASSUME Active(Mine) PROVE Yields(Mine, h)
        <5>1. Yields(Mine, stored) /\ h.rev >= stored.rev
          BY <1>12, <1>14, <2>1, <2>3, <3>3, <4>2 DEF RowSettled
        <5>2. CASE Active(h)
          BY <4>1, <5>2 DEF Yields
        <5>3. CASE ~Active(h)
          BY <1>12, <5>1, <5>3 DEF Yields
        <5> QED  BY <5>2, <5>3
      <4> QED  BY <2>3, <3>3, <4>1, <4>2 DEF RowSettled
    <3> QED  BY <1>12, <1>14, <2>1, <2>3, <3>1, <3>2, <3>3 DEF RowSettled
  <2> QED  BY <1>6, <2>2, <2>3
<1>17. ASSUME queue'["runtime"] # <<>> PROVE RowLags(Mine, stored', history)
  <2>1. RowLags(Mine, stored, history)
    BY <1>5, <1>17 DEF StakeInv
  <2>2. CASE stored' = stored
    BY <2>1, <2>2
  <2>3. CASE stored' = h /\ h # stored
    <3> SUFFICES ASSUME h.id = Mine.id, Active(h) PROVE Told(history, h.id) = h.booked
      BY <2>3 DEF RowLags
    <3>1. ~(stored.id > Mine.id)
      BY <1>12, <1>14, <2>3
    <3>2. h = Mine
      BY <1>13, <2>3, <3>1
    <3> QED  BY <3>2 DEF StakeInv, MineRight
  <2> QED  BY <1>6, <2>2, <2>3
<1> QED  BY <1>0, <1>7, <1>10, <1>11, <1>15, <1>16, <1>17 DEF StakeInv

\* A write of the runtime's that reaches the row keeps the invariant.
LEMMA RuntimeRowStep ==
    ASSUME StakeInv, RowStored("runtime")
    PROVE  StakeInv'
<1>0. /\ queue["runtime"] # <<>> /\ stored' = PickFreshest(Head(queue["runtime"]), stored)
      /\ queue' = [queue EXCEPT !["runtime"] = Tail(@)]
      /\ UNCHANGED <<memory, shown, terms, running, asked, open, history, ids, turns>>
  BY DEF RowStored
<1>1. Mine \in PlanCopy /\ stored \in PlanCopy /\ queue["runtime"] = <<Mine>>
  BY <1>0, Parties DEF StakeInv
<1>2. Head(<<Mine>>) = Mine /\ Tail(<<Mine>>) = <<>>
  OBVIOUS
<1>3. /\ stored' = PickFreshest(Mine, stored)
      /\ queue' = [queue EXCEPT !["runtime"] = <<>>]
      /\ queue \in [Member -> Seq(PlanCopy)]
  BY <1>0, <1>1, <1>2 DEF StakeInv, PlanTypes
<1>4. queue'["runtime"] = <<>> /\ queue'["gateway"] = queue["gateway"] /\ queue' \in [Member -> Seq(PlanCopy)]
  BY <1>3 DEF Member
<1>5. stored' \in PlanCopy
  BY <1>1, <1>3 DEF PickFreshest
<1>6. PlanTypes'
  BY <1>0, <1>4, <1>5 DEF StakeInv, PlanTypes
<1>7. /\ Mine.id \in Nat /\ Mine.rev \in Nat /\ stored.id \in Nat /\ stored.rev \in Nat
  BY <1>1, FieldsOf
<1>8. Follows(Mine, Mine, stored)
  BY <1>7 DEF Follows, Yields
<1>9. Elems(queue'["gateway"]) \subseteq Elems(queue["gateway"]) /\ Len(queue'["gateway"]) <= 1
  BY <1>4 DEF StakeInv
<1>10. /\ Mine' = Mine
       /\ CopiesFollow(Others(memory', stored', shown', queue'), Mine', stored', ids')
       /\ MineRight(Mine', open', history')
       /\ OrdersOnce(open', history', Mine')
  BY <1>0, <1>1, <1>3, <1>6, <1>8, <1>9, RowTaken
<1>11. Follows(stored, Mine, stored)
  BY Parties DEF StakeInv, CopiesFollow
<1>12. RowSettled(Mine, stored')
  <2>1. CASE stored.id > Mine.id
    BY <1>3, <1>7, <2>1 DEF PickFreshest, RowSettled
  <2>2. CASE stored.id < Mine.id
    BY <1>3, <1>7, <2>2 DEF PickFreshest, RowSettled, Yields
  <2>3. CASE stored.id = Mine.id
    <3>1. CASE stored' = Mine
      BY <1>7, <3>1 DEF RowSettled, Yields
    <3>2. CASE stored' = stored /\ stored # Mine
      <4>1. stored.rev > Mine.rev \/ (stored.rev = Mine.rev /\ Active(Mine) /\ ~Active(stored))
        BY <1>3, <1>7, <2>3, <3>2 DEF PickFreshest
      <4>2. ~Active(stored)
        BY <1>7, <1>11, <2>3, <3>2, <4>1 DEF Follows, Yields
      <4> QED  BY <1>7, <2>3, <3>2, <4>1, <4>2 DEF RowSettled, Yields
    <3> QED  BY <1>3, <3>1, <3>2 DEF PickFreshest
  <2> QED  BY <1>7, <2>1, <2>2, <2>3
<1> QED  BY <1>0, <1>4, <1>6, <1>9, <1>10, <1>12 DEF StakeInv

\* The runtime keeps its copy or takes the row's, its results completed.
LEMMA RuntimeTurns ==
    ASSUME StakeInv, PlanTypes', queue["runtime"] = <<>>,
           Mine' = Mine \/ (Mine' = Repaired(stored) /\ stored.id >= Mine.id),
           memory'["gateway"] = memory["gateway"],
           UNCHANGED <<stored, shown, queue, open, history, ids>>
    PROVE  StakeInv'
<1> DEFINE all == Others(memory, stored, shown, queue)
           r == Mine'
<1>1. /\ Repaired(stored) \in PlanCopy /\ Repaired(stored).id = stored.id
      /\ Active(Repaired(stored)) => Active(stored)
      /\ Repaired(stored) = stored \/ Repaired(stored).rev = stored.rev + 1
      /\ stored.id > Mine.id => Repaired(stored) = stored
      /\ stored.id = Mine.id /\ Active(stored) => Repaired(stored) = stored \/ Repaired(stored) = Mine
  BY RepairedRow
<1>2. RowSettled(Mine, stored) /\ CopiesFollow(all, Mine, stored, ids)
  BY DEF StakeInv
<1>3. /\ all \subseteq PlanCopy /\ stored \in all /\ Mine \in PlanCopy /\ stored \in PlanCopy
      /\ all = Others(memory', stored', shown', queue')
  BY Parties DEF Others
<1>4. /\ Mine.id \in Nat /\ Mine.rev \in Nat /\ stored.id \in Nat /\ stored.rev \in Nat
      /\ \A c \in all : c.id \in Nat /\ c.rev \in Nat
  BY <1>3, FieldsOf
<1>5. CASE r = Mine
  <2>1. CopiesFollow(Others(memory', stored', shown', queue'), Mine', stored', ids')
    BY <1>2, <1>3, <1>5
  <2>2. MineRight(Mine', open', history') /\ OrdersOnce(open', history', Mine')
    BY <1>5 DEF StakeInv
  <2> QED  BY <1>2, <1>5, <2>1, <2>2 DEF StakeInv
<1>6. CASE r # Mine /\ stored.id = Mine.id
  <2>0. r = Repaired(stored)
    BY <1>6
  <2> HIDE DEF r, all
  <2>1. ~Active(stored) /\ r.id = Mine.id /\ r \in PlanCopy /\ ~Active(r) /\ r.rev >= stored.rev /\ r.rev \in Nat
    <3>1. ASSUME Active(stored) PROVE FALSE
      <4>1. stored = Mine
        BY <1>2, <1>4, <1>6, <3>1 DEF RowSettled
      <4> QED  BY <1>1, <1>6, <2>0, <3>1, <4>1
    <3>2. r.rev \in Nat
      BY <1>1, <2>0, FieldsOf
    <3> QED  BY <1>1, <1>4, <1>6, <2>0, <3>1, <3>2
  <2>2. ASSUME NEW c \in all PROVE c.id <= ids /\ Fresh(c, r) /\ Follows(c, r, stored)
    <3>1. c.id <= ids /\ Fresh(c, Mine) /\ Follows(c, Mine, stored)
      BY <1>2 DEF CopiesFollow
    <3>2. Fresh(c, r)
      BY <2>1, <3>1 DEF Fresh
    <3>3. ASSUME Active(c), c.id = Mine.id PROVE Yields(c, stored)
      <4>1. CASE c = Mine
        BY <1>2, <1>4, <1>6, <3>3, <4>1 DEF RowSettled
      <4>2. CASE c # Mine
        BY <1>4, <1>6, <3>1, <3>3, <4>2 DEF Follows
      <4> QED  BY <4>1, <4>2
    <3>4. Follows(c, r, stored)
      BY <1>4, <1>6, <2>1, <3>3 DEF Follows, Yields
    <3> QED  BY <3>1, <3>2, <3>4
  <2>3. CopiesFollow(all, r, stored, ids)
    BY <1>2, <2>1, <2>2 DEF CopiesFollow, Agree
  <2>4. MineRight(r, open', history') /\ OrdersOnce(open', history', r)
    BY <2>1 DEF StakeInv, MineRight, OrdersOnce
  <2>5. RowSettled(r, stored)
    BY <1>6, <2>1 DEF RowSettled
  <2> QED  BY <1>3, <2>3, <2>4, <2>5 DEF StakeInv, r
<1>7. CASE r # Mine /\ stored.id > Mine.id
  <2>1. r = stored
    BY <1>1, <1>7
  <2> HIDE DEF r, all
  <2>2. ASSUME NEW c \in all PROVE c.id <= ids /\ Fresh(c, r) /\ Follows(c, r, stored)
    <3>1. c.id <= ids /\ Fresh(c, Mine) /\ Agree(c, stored, Mine)
      BY <1>2, <1>3 DEF CopiesFollow
    <3>2. Fresh(c, r)
      BY <1>4, <1>7, <2>1, <3>1 DEF Fresh
    <3>3. Follows(c, r, stored)
      BY <1>4, <1>7, <2>1, <3>1 DEF Follows, Agree, Yields
    <3> QED  BY <3>1, <3>2, <3>3
  <2>3. \A c \in all, d \in all : Agree(c, d, r)
    BY <1>2, <1>4, <1>7, <2>1 DEF CopiesFollow, Agree
  <2>4. CopiesFollow(all, r, stored, ids)
    BY <1>3, <2>1, <2>2, <2>3 DEF CopiesFollow
  <2>5. MineRight(r, open, history)
    <3>1. stored.booked = {} /\ stored.pending = 0
      BY <1>2, <1>3, <1>7 DEF CopiesFollow, Fresh
    <3>2. Told(history, stored.id) = {} /\ Told(open, stored.id) = {}
      BY <1>4, <1>7, UntoldAbove
    <3> QED  BY <2>1, <3>1, <3>2 DEF MineRight
  <2>6. OrdersOnce(open, history, r)
    <3>1. \A t \in open \union history : t.id \in Nat
      BY DEF StakeInv, PlanTypes
    <3> QED  BY <1>4, <1>7, <2>1, <3>1 DEF StakeInv, OrdersOnce
  <2>7. RowSettled(r, stored)
    BY <2>1 DEF RowSettled, Yields
  <2> QED  BY <1>3, <2>4, <2>5, <2>6, <2>7 DEF StakeInv, r
<1> QED  BY <1>4, <1>5, <1>6, <1>7

\* A restart of the runtime keeps the invariant.
LEMMA RuntimeReloadStep ==
    ASSUME StakeInv, RuntimeReloads
    PROVE  StakeInv'
<1>1. Repaired(stored) \in PlanCopy
  BY RepairedRow
<1>2. /\ queue["runtime"] = <<>> /\ Holds("runtime", Repaired(stored)) /\ asked' = FALSE
      /\ UNCHANGED <<stored, shown, queue, terms, running, open, history, ids>>
  BY DEF RuntimeReloads
<1>3. memory' \in [Member -> PlanCopy] /\ memory'["gateway"] = memory["gateway"] /\ Mine' = Repaired(stored)
  BY <1>1, <1>2, RuntimeTakes
<1>4. PlanTypes'
  BY <1>2, <1>3 DEF StakeInv, PlanTypes
<1>5. RowSettled(Mine, stored)
  BY <1>2 DEF StakeInv
<1>6. stored.id >= Mine.id
  BY <1>5, Parties, FieldsOf DEF RowSettled
<1> QED  BY <1>2, <1>3, <1>4, <1>6, RuntimeTurns

\* The runtime's own change of its copy, or a new plan.
LEMMA WorksOf ==
    ASSUME StakeInv, NEW c \in PlanCopy, Calm("runtime"), Works(c)
    PROVE  /\ memory' \in [Member -> PlanCopy] /\ memory'["gateway"] = memory["gateway"]
           /\ Mine' = c /\ shown' = c
           /\ queue' \in [Member -> Seq(PlanCopy)] /\ queue["runtime"] = <<>>
           /\ queue'["runtime"] = <<c>> /\ queue'["runtime"] # <<>>
           /\ queue'["gateway"] = queue["gateway"]
<1>1. Holds("runtime", c) /\ shown' = c /\ SaveLater("runtime", c)
  BY DEF Works
<1> QED  BY <1>1, RuntimeTakes, RuntimeSaves

\* A copy of the runtime that goes on: the others still follow it.
LEMMA WorkFollows ==
    ASSUME StakeInv, NEW c \in PlanCopy, Calm("runtime"), Works(c), stored' = stored, ids' = ids,
           c.id = Mine.id, c = Mine \/ c.rev > Mine.rev
    PROVE  CopiesFollow(Others(memory', stored', shown', queue'), c, stored', ids')
<1> DEFINE all == Others(memory, stored, shown, queue)
           next == Others(memory', stored', shown', queue')
<1>1. /\ memory'["gateway"] = memory["gateway"] /\ shown' = c
      /\ queue["runtime"] = <<>> /\ queue'["gateway"] = queue["gateway"]
  BY WorksOf
<1>2. next \subseteq all \union {c}
  BY <1>1 DEF Others
<1>3. /\ all \subseteq PlanCopy /\ Mine \in PlanCopy /\ stored \in PlanCopy
  BY Parties
<1>4. /\ \A d \in all : d.id \in Nat /\ d.rev \in Nat
      /\ Mine.id \in Nat /\ Mine.rev \in Nat /\ c.rev \in Nat /\ stored.rev \in Nat /\ stored.id \in Nat
  BY <1>3, FieldsOf
<1>5. CopiesFollow(all, Mine, stored, ids) /\ RowSettled(Mine, stored)
  BY <1>1 DEF StakeInv
<1> HIDE DEF all, next
<1>6. ASSUME NEW d \in all PROVE d.id <= ids /\ Fresh(d, c) /\ Follows(d, c, stored)
  <2>1. d.id <= ids /\ Fresh(d, Mine) /\ Follows(d, Mine, stored)
    BY <1>5 DEF CopiesFollow
  <2>2. Fresh(d, c)
    BY <2>1 DEF Fresh
  <2>3. ASSUME Active(d), d.id = c.id, d # c
        PROVE  Yields(d, c) /\ (stored.id > c.id \/ (stored.id = c.id /\ Yields(d, stored)))
    <3>1. Yields(d, Mine)
      BY <2>1, <2>3 DEF Follows
    <3>2. Yields(d, c)
      BY <1>4, <3>1 DEF Yields
    <3>3. CASE d = Mine
      BY <1>4, <1>5, <2>3, <3>2, <3>3 DEF RowSettled
    <3>4. CASE d # Mine
      BY <2>1, <2>3, <3>2, <3>4 DEF Follows
    <3> QED  BY <3>2, <3>3, <3>4
  <2>4. Yields(c, c)
    BY <1>4 DEF Yields
  <2>5. Follows(d, c, stored)
    BY <2>3, <2>4 DEF Follows
  <2> QED  BY <2>1, <2>2, <2>5
<1>7. c.id <= ids /\ Fresh(c, c) /\ Follows(c, c, stored)
  BY <1>4, <1>5 DEF CopiesFollow, Fresh, Follows, Yields
<1>8. \A d \in next, e \in next : Agree(d, e, c)
  <2>1. \A d \in all, e \in all : Agree(d, e, c)
    BY <1>5 DEF CopiesFollow, Agree
  <2> QED  BY <1>2, <1>4, <2>1 DEF Agree
<1>9. CopiesFollow(next, c, stored, ids)
  BY <1>2, <1>6, <1>7, <1>8 DEF CopiesFollow
<1> QED  BY <1>9 DEF next

\* The runtime's own step: the orders and results decide.
LEMMA WorkStep ==
    ASSUME StakeInv, NEW c \in PlanCopy, Calm("runtime"), Works(c), stored' = stored, ids' = ids,
           c.id = Mine.id, c = Mine \/ c.rev > Mine.rev,
           terms' \in Terms, running' \in BOOLEAN, asked' \in BOOLEAN,
           open' \subseteq Orders, history' \subseteq Trades,
           MineRight(c, open', history'), OrdersOnce(open', history', c),
           RowLags(c, stored, history')
    PROVE  StakeInv'
<1>1. /\ memory' \in [Member -> PlanCopy] /\ memory'["gateway"] = memory["gateway"]
      /\ Mine' = c /\ shown' = c
      /\ queue' \in [Member -> Seq(PlanCopy)]
      /\ queue'["runtime"] = <<c>> /\ queue'["runtime"] # <<>>
      /\ queue'["gateway"] = queue["gateway"]
  BY WorksOf
<1>2. PlanTypes'
  BY <1>1 DEF StakeInv, PlanTypes, Orders, Trades
<1>3. CopiesFollow(Others(memory', stored', shown', queue'), Mine', stored', ids')
  BY <1>1, WorkFollows
<1>4. Len(queue'["gateway"]) <= 1
  BY <1>1 DEF StakeInv
<1> QED  BY <1>1, <1>2, <1>3, <1>4 DEF StakeInv

\* With no new result, the row lacks none.
LEMMA RowLacksNone ==
    ASSUME StakeInv, queue["runtime"] = <<>>, NEW c
    PROVE  c.id = Mine.id => RowLags(c, stored, history)
<1>1. RowSettled(Mine, stored) /\ MineRight(Mine, open, history)
  BY DEF StakeInv
<1>2. Mine.id \in Nat /\ stored.id \in Nat
  BY Parties, FieldsOf
<1> QED  BY <1>1, <1>2 DEF RowSettled, MineRight, RowLags

\* An order that is sent keeps the invariant.
LEMMA OrderSent ==
    ASSUME StakeInv, NEW o \in Order, SendOrder(o)
    PROVE  StakeInv'
<1> DEFINE c == MarkPending(Mine, o)
           t == [order |-> o, id |-> Mine.id]
<1>0. /\ running /\ Calm("runtime") /\ Active(Mine) /\ Mine.pending = 0 /\ Unsent(o)
      /\ open' = open \union {t} /\ Works(c)
      /\ UNCHANGED <<stored, terms, running, asked, history, ids, turns>>
  BY DEF SendOrder
<1>1. Mine \in PlanCopy /\ Mine.id \in Nat /\ Mine.rev \in Nat
  BY Parties, FieldsOf
<1>2. /\ c \in PlanCopy /\ c.id = Mine.id /\ c.rev = Mine.rev + 1 /\ c.status = Mine.status
      /\ c.booked = Mine.booked /\ c.pending = o
  BY <1>1, MarkOf
<1>3. t \in Orders /\ t.order = o /\ t.id = Mine.id /\ open \subseteq Orders /\ history \subseteq Trades
  BY <1>1 DEF StakeInv, PlanTypes, Orders, Trades
<1> HIDE DEF c, t
<1>4. /\ \A u \in open : u.order # o
      /\ \A h \in history : h.order # o
  <2>1. \A u \in open : u.order # o
    BY <1>0 DEF Unsent
  <2>2. ASSUME NEW h \in history PROVE h.order # o
    <3> DEFINE u == [order |-> h.order, id |-> h.id]
    <3>1. u \in {[order |-> k.order, id |-> k.id] : k \in history}
      OBVIOUS
    <3>2. u.order # o
      BY <1>0, <3>1 DEF Unsent
    <3> QED  BY <3>2
  <2> QED  BY <2>1, <2>2
<1>5. MineRight(Mine, open, history) /\ OrdersOnce(open, history, Mine)
  BY DEF StakeInv
<1>6. Told(open', c.id) = {o}
  <2>1. Told(open, Mine.id) = {}
    BY <1>0, <1>5 DEF MineRight
  <2>2. Told(open', Mine.id) = Told(open, Mine.id) \union {o}
    BY <1>0, <1>3 DEF Told
  <2> QED  BY <1>2, <2>1, <2>2
<1>7. o # 0
  BY PlanAssumption
<1>8. MineRight(c, open', history')
  BY <1>0, <1>2, <1>5, <1>6, <1>7 DEF MineRight
<1>9. OrdersOnce(open', history', c)
  BY <1>0, <1>1, <1>2, <1>3, <1>4, <1>5 DEF OrdersOnce
<1>10. RowLags(c, stored, history')
  BY <1>0, <1>2, WorksOf, RowLacksNone
<1>11. terms' \in Terms /\ running' \in BOOLEAN /\ asked' \in BOOLEAN
  BY <1>0 DEF StakeInv, PlanTypes
<1>12. open' \subseteq Orders /\ history' \subseteq Trades
  BY <1>0, <1>3
<1>13. Calm("runtime") /\ Works(c) /\ stored' = stored /\ ids' = ids
  BY <1>0
<1>14. c = Mine \/ c.rev > Mine.rev
  BY <1>1, <1>2
<1> QED  BY <1>2, <1>8, <1>9, <1>10, <1>11, <1>12, <1>13, <1>14, WorkStep

\* No money, an overdue order and a result that times out keep the invariant.
LEMMA QuietWorkStep ==
    ASSUME StakeInv, NoCapital \/ PendingOverdue \/ (\E t \in open : ResultTimesOut(t))
    PROVE  StakeInv'
<1>1. PICK c \in PlanCopy :
        /\ Calm("runtime") /\ Works(c) /\ c.id = Mine.id /\ (c = Mine \/ c.rev > Mine.rev)
        /\ Active(c) => Active(Mine) /\ c.booked = Mine.booked /\ c.pending = Mine.pending
  <2>1. Mine \in PlanCopy /\ Mine.rev \in Nat
    BY Parties, FieldsOf
  <2>2. CASE NoCapital
    BY <2>1, <2>2, CloseOf DEF NoCapital, Over
  <2>3. CASE PendingOverdue
    BY <2>1, <2>3 DEF PendingOverdue
  <2>4. ASSUME NEW t \in open, ResultTimesOut(t)
        PROVE  LET d == FlagUnknown(Mine, t.order) IN
               /\ d \in PlanCopy /\ Calm("runtime") /\ Works(d) /\ d.id = Mine.id /\ d.rev > Mine.rev
               /\ Active(d) => Active(Mine) /\ d.booked = Mine.booked /\ d.pending = Mine.pending
    <3>1. t.order \in Order
      BY DEF StakeInv, PlanTypes
    <3>2. Calm("runtime") /\ FlagUnknown(Mine, t.order) # Mine /\ Works(FlagUnknown(Mine, t.order))
      BY <2>4 DEF ResultTimesOut
    <3> QED  BY <2>1, <3>1, <3>2, FlagOf DEF Active
  <2> QED  BY <2>2, <2>3, <2>4
<1>2. /\ UNCHANGED <<stored, terms, asked, open, history, ids>>
      /\ running' \in {running, FALSE}
  BY DEF NoCapital, PendingOverdue, ResultTimesOut
<1>a. MineRight(Mine, open, history) /\ OrdersOnce(open, history, Mine)
  BY DEF StakeInv
<1>b. open' = open /\ history' = history /\ stored' = stored /\ ids' = ids
  BY <1>2
<1>3. MineRight(c, open', history') /\ OrdersOnce(open', history', c)
  BY <1>1, <1>a, <1>b DEF MineRight, OrdersOnce
<1>c. queue["runtime"] = <<>>
  BY <1>1, WorksOf
<1>4. RowLags(c, stored, history')
  BY <1>1, <1>b, <1>c, RowLacksNone
<1>5. /\ terms' \in Terms /\ running' \in BOOLEAN /\ asked' \in BOOLEAN
      /\ open' \subseteq Orders /\ history' \subseteq Trades
  BY <1>2 DEF StakeInv, PlanTypes, Orders, Trades
<1> QED  BY <1>1, <1>b, <1>3, <1>4, <1>5, WorkStep

\* The row, an order behind at most, repairs to the copy the result gives.
LEMMA RowRepairs ==
    ASSUME StakeInv, queue["runtime"] = <<>>,
           NEW trade \in Trades, NEW H \in SUBSET Trades, H = history \union {trade},
           \A h \in history : h.order # trade.order
    PROVE  RowLags(ApplyOwn(Mine, trade), stored, H)
<1> DEFINE c == ApplyOwn(Mine, trade)
<1>1. Mine \in PlanCopy /\ Mine.id \in Nat /\ stored.id \in Nat /\ trade.order \in Order /\ trade.result \in Results
  BY Parties, FieldsOf DEF Trades
<1>2. c.id = Mine.id
  BY <1>1, ApplyOf DEF ApplyOwn
<1> SUFFICES ASSUME stored.id = Mine.id, Active(stored)
             PROVE  Told(H, Mine.id) = Mine.booked \/ c = Repair(Mine, H)
  <2>1. RowSettled(Mine, stored)
    BY DEF StakeInv
  <2> QED  BY <1>1, <1>2, <2>1 DEF RowSettled, RowLags
<1>3. stored = Mine
  BY <1>1 DEF StakeInv, RowSettled
<1>4. Told(history, Mine.id) = Mine.booked
  BY <1>3 DEF StakeInv, MineRight
<1>5. CASE trade.id # Mine.id
  BY <1>4, <1>5 DEF Told
<1>6. CASE trade.id = Mine.id
  <2>1. trade.order \notin Mine.booked
    BY <1>4 DEF Told
  <2>2. \A h \in history : h.id = Mine.id => h.order \in Mine.booked
    BY <1>4 DEF Told
  <2>3. Lacks(Mine, H) = {trade}
    BY <1>6, <2>1, <2>2 DEF Lacks
  <2>4. (CHOOSE t \in {trade} : TRUE) = trade
    OBVIOUS
  <2>5. Repair(Mine, H) = c
    BY <2>3, <2>4 DEF Repair
  <2> QED  BY <2>5
<1> QED  BY <1>5, <1>6

\* A result keeps the invariant.
LEMMA ResultStep ==
    ASSUME StakeInv, NEW t \in open, NEW result \in Results, ResultArrives(t, result)
    PROVE  StakeInv'
<1> DEFINE trade == [order |-> t.order, id |-> t.id, result |-> result]
           c == ApplyOwn(Mine, trade)
<1>0. /\ Calm("runtime") /\ open' = open \ {t} /\ history' = history \union {trade} /\ Works(c)
      /\ running' = (running /\ ~(c.status \in {"hit", "bust"}))
      /\ UNCHANGED <<stored, terms, asked, ids, turns>>
  BY DEF ResultArrives
<1>1. Mine \in PlanCopy /\ Mine.id \in Nat /\ Mine.rev \in Nat
  BY Parties, FieldsOf
<1>2. t.order \in Order /\ t.id \in Nat /\ open \subseteq Orders /\ history \subseteq Trades
  BY DEF StakeInv, PlanTypes, Orders, Trades
<1>3. trade \in Trades /\ trade.order = t.order /\ trade.id = t.id /\ trade.result = result
  BY <1>2 DEF Trades
<1> HIDE DEF trade
<1>4. MineRight(Mine, open, history) /\ OrdersOnce(open, history, Mine)
  BY DEF StakeInv
<1>5. \A h \in history : h.order # trade.order
  BY <1>3, <1>4 DEF OrdersOnce
<1>6. /\ c \in PlanCopy /\ c.id = Mine.id /\ (Active(c) => Active(Mine)) /\ (c = Mine \/ c.rev = Mine.rev + 1)
      /\ t.id # Mine.id => c = Mine
      /\ t.id = Mine.id => c.booked = Mine.booked \union {t.order}
      /\ t.id = Mine.id /\ t.order \notin Mine.booked =>
            c.pending = IF Mine.pending = t.order THEN 0 ELSE Mine.pending
  BY <1>1, <1>2, <1>3, ApplyOf DEF ApplyOwn
<1>7. RowLags(c, stored, history')
  BY <1>0, <1>2, <1>3, <1>5, WorksOf, RowRepairs, <1>6
<1> HIDE DEF c
<1>8. MineRight(c, open', history')
  <2> SUFFICES ASSUME Active(c)
               PROVE  Told(history', c.id) = c.booked /\ Told(open', c.id) = {c.pending} \ {0}
    BY DEF MineRight
  <2>1. Told(history, Mine.id) = Mine.booked /\ Told(open, Mine.id) = {Mine.pending} \ {0}
    BY <1>4, <1>6 DEF MineRight
  <2>2. CASE t.id # Mine.id
    <3>1. Told(history', Mine.id) = Told(history, Mine.id) /\ Told(open', Mine.id) = Told(open, Mine.id)
      BY <1>0, <1>3, <2>2 DEF Told
    <3> QED  BY <1>6, <2>1, <2>2, <3>1
  <2>3. CASE t.id = Mine.id
    <3>1. t.order \in Told(open, Mine.id)
      BY <2>3 DEF Told
    <3>2. t.order = Mine.pending /\ t.order # 0
      BY <2>1, <3>1
    <3>3. t.order \notin Mine.booked
      BY <1>3, <1>5, <2>1 DEF Told
    <3>4. c.pending = 0 /\ c.booked = Mine.booked \union {t.order}
      BY <1>6, <2>3, <3>2, <3>3
    <3>5. Told(history', Mine.id) = Told(history, Mine.id) \union {t.order}
      BY <1>0, <1>3, <2>3 DEF Told
    <3>6. \A u \in open : u.order = t.order => u = t
      BY <1>4 DEF OrdersOnce
    <3>7. Told(open', Mine.id) = Told(open, Mine.id) \ {t.order}
      BY <1>0, <3>6 DEF Told
    <3> QED  BY <1>6, <2>1, <3>2, <3>4, <3>5, <3>7
  <2> QED  BY <2>2, <2>3
<1>9. OrdersOnce(open', history', c)
  <2>1. \A u \in open' \union history' : u.id <= c.id
    BY <1>0, <1>3, <1>4, <1>6 DEF OrdersOnce
  <2>2. \A u \in open', h \in history' : u.order # h.order
    BY <1>0, <1>3, <1>4 DEF OrdersOnce
  <2>3. \A u \in open', v \in open' : u.order = v.order => u = v
    BY <1>0, <1>4 DEF OrdersOnce
  <2> QED  BY <2>1, <2>2, <2>3 DEF OrdersOnce
<1>10. terms' \in Terms /\ asked' \in BOOLEAN
  BY <1>0 DEF StakeInv, PlanTypes
<1>11. running' \in BOOLEAN
  BY <1>0
<1>12. open' \subseteq Orders /\ history' \subseteq Trades
  BY <1>0, <1>2, <1>3
<1>13. c = Mine \/ c.rev > Mine.rev
  BY <1>1, <1>6
<1>14. Calm("runtime") /\ Works(c) /\ stored' = stored /\ ids' = ids
  BY <1>0
<1> QED  BY <1>6, <1>7, <1>8, <1>9, <1>10, <1>11, <1>12, <1>13, <1>14, WorkStep

\* A plan of the runtime's own is above every other.
LEMMA RuntimeOpens ==
    ASSUME StakeInv, NEW c \in PlanCopy, Calm("runtime"), Works(c), ids' = ids + 1, c = NewCycle(ids'),
           running' \in BOOLEAN, asked' \in BOOLEAN,
           UNCHANGED <<stored, terms, open, history>>
    PROVE  StakeInv'
<1> DEFINE all == Others(memory, stored, shown, queue)
           next == Others(memory', stored', shown', queue')
<1>1. /\ memory' \in [Member -> PlanCopy] /\ memory'["gateway"] = memory["gateway"]
      /\ Mine' = c /\ shown' = c
      /\ queue' \in [Member -> Seq(PlanCopy)]
      /\ queue'["runtime"] = <<c>> /\ queue'["runtime"] # <<>>
      /\ queue'["gateway"] = queue["gateway"]
  BY WorksOf
<1>2. ids \in Nat /\ terms \in Terms /\ Len(queue["gateway"]) <= 1
  BY DEF StakeInv, PlanTypes
<1>3. c.id = ids + 1 /\ Active(c) /\ c.booked = {} /\ c.pending = 0
  BY <1>2, NewOf
<1>4. PlanTypes'
  BY <1>1, <1>2 DEF StakeInv, PlanTypes
<1>5. next \subseteq all \union {c} /\ stored \in all
  BY <1>1 DEF Others
<1>6. CopiesFollow(all, Mine, stored, ids)
  BY DEF StakeInv
<1>7. all \subseteq PlanCopy /\ Mine \in PlanCopy
  BY Parties
<1>8. Mine.id \in Nat /\ c.rev \in Nat /\ \A d \in all : d.id \in Nat /\ d.rev \in Nat
  BY <1>7, FieldsOf
<1> HIDE DEF all, next
<1>9. \A d \in all : d.id < c.id
  BY <1>2, <1>3, <1>6, <1>8 DEF CopiesFollow
<1>10. \A d \in next : d.id <= ids' /\ Fresh(d, c) /\ Follows(d, c, stored)
  BY <1>2, <1>3, <1>5, <1>8, <1>9 DEF Fresh, Follows, Yields
<1>11. \A d \in next, e \in next : Agree(d, e, c)
  BY <1>3, <1>5, <1>8, <1>9 DEF Agree
<1>12. CopiesFollow(next, c, stored, ids')
  BY <1>2, <1>3, <1>10, <1>11 DEF CopiesFollow
<1>13. Mine.id < c.id
  BY <1>2, <1>3, <1>6, <1>8 DEF CopiesFollow
<1>14. MineRight(c, open, history)
  <2>1. Told(history, c.id) = {} /\ Told(open, c.id) = {}
    BY <1>2, <1>3, <1>8, <1>13, UntoldAbove
  <2> QED  BY <1>3, <2>1 DEF MineRight
<1>15. OrdersOnce(open, history, c)
  <2>1. OrdersOnce(open, history, Mine)
    BY DEF StakeInv
  <2>2. \A t \in open \union history : t.id \in Nat
    BY DEF StakeInv, PlanTypes
  <2> QED  BY <1>2, <1>3, <1>8, <1>13, <2>1, <2>2 DEF OrdersOnce
<1>16. RowLags(c, stored, history)
  BY <1>5, <1>8, <1>9 DEF RowLags
<1> QED  BY <1>1, <1>2, <1>4, <1>12, <1>14, <1>15, <1>16 DEF StakeInv, next

\* A start that reaches the runtime keeps the invariant.
LEMMA RuntimeStartStep ==
    ASSUME StakeInv, RuntimeStarts
    PROVE  StakeInv'
<1> DEFINE mine == PickFreshest(Repaired(stored), memory["runtime"])
<1>0. /\ Calm("runtime") /\ asked' = FALSE /\ running' = TRUE
      /\ UNCHANGED <<stored, terms, open, history, turns>>
      /\ \/ Holds("runtime", mine) /\ UNCHANGED <<shown, queue, ids>>
         \/ ids' = ids + 1 /\ Works(NewCycle(ids'))
  BY DEF RuntimeStarts, Opens
<1>1. CASE Holds("runtime", mine) /\ UNCHANGED <<shown, queue, ids>>
  <2>1. Repaired(stored) \in PlanCopy /\ Repaired(stored).id = stored.id /\ Mine \in PlanCopy
    BY RepairedRow, Parties
  <2>2. stored.id \in Nat /\ Mine.id \in Nat
    BY Parties, FieldsOf
  <2>3. mine = Mine \/ (mine = Repaired(stored) /\ stored.id >= Mine.id)
    BY <2>1, <2>2 DEF PickFreshest, Mine
  <2>4. mine \in PlanCopy
    BY <2>1, <2>3
  <2> HIDE DEF mine
  <2>5. memory' \in [Member -> PlanCopy] /\ memory'["gateway"] = memory["gateway"] /\ Mine' = mine
    BY <1>1, <2>4, RuntimeTakes
  <2>6. PlanTypes'
    BY <1>0, <1>1, <2>5 DEF StakeInv, PlanTypes
  <2>7. queue["runtime"] = <<>>
    BY <1>0, Parties, ShortQueue DEF Calm
  <2> QED  BY <1>0, <1>1, <2>3, <2>5, <2>6, <2>7, RuntimeTurns
<1>2. CASE ids' = ids + 1 /\ Works(NewCycle(ids'))
  <2>1. NewCycle(ids') \in PlanCopy
    BY <1>2, NewOf DEF StakeInv, PlanTypes
  <2> QED  BY <1>0, <1>2, <2>1, RuntimeOpens
<1> QED  BY <1>0, <1>1, <1>2

\* The invariant holds at first.
LEMMA StakeStart == MoneyInit => StakeInv
<1> SUFFICES ASSUME MoneyInit PROVE StakeInv
  OBVIOUS
<1>1. /\ Nothing \in PlanCopy /\ Nothing.id = 0 /\ ~Active(Nothing) /\ Nothing.pending = 0 /\ Nothing.booked = {}
      /\ Nothing.rev \in Nat
  BY NothingIs, FieldsOf
<1>2. /\ memory = [m \in Member |-> Nothing] /\ stored = Nothing /\ shown = Nothing
      /\ queue = [m \in Member |-> <<>>]
      /\ terms = 1 /\ running = FALSE /\ asked = FALSE
      /\ open = {} /\ history = {} /\ ids = 0
  BY DEF MoneyInit
<1>3. memory["gateway"] = Nothing /\ Mine = Nothing /\ queue["gateway"] = <<>> /\ queue["runtime"] = <<>>
  BY <1>2 DEF Member, Mine
<1>4. PlanTypes
  <2>1. memory \in [Member -> PlanCopy] /\ stored \in PlanCopy /\ shown \in PlanCopy
    BY <1>1, <1>2
  <2>2. queue \in [Member -> Seq(PlanCopy)]
    BY <1>2
  <2>3. terms \in Terms
    BY <1>2, PlanAssumption
  <2> QED  BY <1>2, <2>1, <2>2, <2>3 DEF PlanTypes
<1>5. Others(memory, stored, shown, queue) = {Nothing}
  BY <1>2, <1>3, OneWrite, <1>1 DEF Others
<1>6. CopiesFollow({Nothing}, Nothing, Nothing, 0)
  BY <1>1 DEF CopiesFollow, Fresh, Follows, Agree
<1>7. MineRight(Nothing, {}, {}) /\ OrdersOnce({}, {}, Nothing) /\ RowSettled(Nothing, Nothing)
  BY <1>1 DEF MineRight, OrdersOnce, RowSettled
<1>8. Len(queue["gateway"]) <= 1
  BY <1>3
<1> QED  BY <1>2, <1>3, <1>4, <1>5, <1>6, <1>7, <1>8 DEF StakeInv

\* Every step keeps the invariant.
LEMMA StakeStep ==
    ASSUME StakeInv, [MoneyNext]_planVars
    PROVE  StakeInv'
<1>1. CASE GatewaySyncs
  BY <1>1, SyncStep
<1>2. CASE GatewayPersists
  BY <1>2, PersistStep
<1>3. CASE \E m \in Member : RowStored(m)
  BY <1>3, GatewayRowStep, RuntimeRowStep DEF Member
<1>4. CASE ShownExpires \/ ChangeSettings \/ RobotStops \/ UNCHANGED planVars
  BY <1>4, RestStep
<1>5. CASE GatewayReloads
  BY <1>5, ReloadStep
<1>6. CASE RuntimeReloads
  BY <1>6, RuntimeReloadStep
<1>7. CASE PlanStarts
  BY <1>7, StartStep
<1>8. CASE RuntimeStarts
  BY <1>8, RuntimeStartStep
<1>9. CASE EndCycle
  BY <1>9, EndStep
<1>10. CASE \E o \in Order : SendOrder(o)
  BY <1>10, OrderSent
<1>11. CASE NoCapital \/ PendingOverdue \/ (\E t \in open : ResultTimesOut(t))
  BY <1>11, QuietWorkStep
<1>12. CASE \E t \in open : \E r \in {"WIN", "LOSS", "DRAW"} : ResultArrives(t, r)
  BY <1>12, ResultStep DEF Results
<1> QED  BY <1>1, <1>2, <1>3, <1>4, <1>5, <1>6, <1>7, <1>8, <1>9, <1>10, <1>11, <1>12 DEF MoneyNext

\* The invariant is what the stake rests on.
LEMMA StakeIsFounded == StakeInv => StakeFounded
BY DEF StakeInv, MineRight, StakeFounded, Told

\* For any number of orders, plans, restarts, late results and lost snapshots: what
\* the robot stakes next rests on every result of the plan's orders, and no order of
\* it is open that the plan does not know of.
THEOREM StakesFounded == MoneySpec => []StakeFounded
<1>1. StakeInv /\ [MoneyNext]_planVars => StakeInv'
  BY StakeStep
<1> QED  BY StakeStart, <1>1, StakeIsFounded, PTL DEF MoneySpec
==============================================================================
