----------------------------- MODULE RobotSwitch -----------------------------
(* The robot's on/off switch in ROBOT_RUNTIME_MODE=external. The gateway     *)
(* takes the clicks, the runtime runs the worker, and each has the flag      *)
(* `enabled` in memory; a third copy is the state_json row both write in the *)
(* background, a fourth the snapshot the panel reads. Commands go over Redis *)
(* pub/sub: whoever does not listen at that moment never hears them.         *)
EXTENDS Naturals, Sequences

CONSTANTS MaxClick,    \* starts and stops
          MaxDown      \* deaths of a process, waits that give up

ASSUME SwitchAssumption == MaxClick \in Nat /\ MaxDown \in Nat

Side == {"gw", "rt"}

VARIABLES
    wish,       \* what the user clicked last
    enabled,    \* the flag in each process's memory
    row,        \* the flag in state_json
    writes,     \* each process's writes of the row under way, in order
    snapshot,   \* enabled in robot:snapshot:{user}; "none" when it expired
    starting,   \* POST /robot/start waits for its write
    bus,        \* commands on their way
    up,         \* the runtime: down, loaded, listening
    worker,     \* robot_tasks has the user's worker
    clicks, downs,
    \* history: a stop, a start nobody heard; a start published or heard after
    \* a later stop, a read of the row before the gateway's write; a late
    \* write of the runtime that undid the click, a lost one of its own stop
    deaf, crossed, overtaken

switchVars == <<wish, enabled, row, writes, snapshot, starting, bus, up,
                worker, clicks, downs, deaf, crossed, overtaken>>

SwitchTypeOK ==
    /\ wish \in BOOLEAN /\ enabled \in [Side -> BOOLEAN] /\ row \in BOOLEAN
    /\ writes \in [Side -> Seq(BOOLEAN)]
    /\ snapshot \in {"none", "on", "off"}
    /\ starting \in BOOLEAN
    /\ bus \in Seq({"start", "stop", "ensure"})
    /\ up \in {"down", "loaded", "listening"} /\ worker \in BOOLEAN
    /\ clicks \in 0..MaxClick /\ downs \in 0..MaxDown
    /\ deaf \in BOOLEAN /\ crossed \in BOOLEAN /\ overtaken \in BOOLEAN
    /\ worker => up = "listening"

SwitchInit ==
    /\ wish = FALSE /\ enabled = [s \in Side |-> FALSE] /\ row = FALSE
    /\ writes = [s \in Side |-> <<>>] /\ snapshot = "none"
    /\ starting = FALSE /\ bus = <<>> /\ up = "listening" /\ worker = FALSE
    /\ clicks = 0 /\ downs = 0
    /\ deaf = FALSE /\ crossed = FALSE /\ overtaken = FALSE

Click == clicks < MaxClick /\ clicks' = clicks + 1
Goes == downs < MaxDown /\ downs' = downs + 1
Shown(on) == IF on THEN "on" ELSE "off"

\* publish_robot_control_snapshot: the panel sees the click at once.
ShowControl(on) == snapshot' = Shown(on)

Set(s, on) == [enabled EXCEPT ![s] = on]

\* persist_robot: the value of this moment, written later.
Persist(s, on) == [writes EXCEPT ![s] = Append(@, on)]

\* publish_command.
Publish(command) ==
    IF up = "listening" THEN bus' = Append(bus, command) /\ UNCHANGED deaf
    ELSE UNCHANGED bus /\ deaf' = (deaf \/ command # "ensure")

----------------------------------------------------------------------------
(* The gateway *)

\* POST /robot/start, up to the wait for its write.
StartClicked ==
    /\ ~enabled["gw"] /\ ~starting /\ Click
    /\ wish' = TRUE
    /\ enabled' = Set("gw", TRUE)
    /\ writes' = Persist("gw", TRUE)
    /\ ShowControl(TRUE)
    /\ starting' = TRUE
    /\ deaf' = FALSE /\ crossed' = FALSE /\ overtaken' = FALSE
    /\ UNCHANGED <<row, bus, up, worker, downs>>

\* Mutant: the command does not wait for the write.
StartPublishedAtOnce ==
    /\ starting
    /\ starting' = FALSE
    /\ Publish("start")
    /\ crossed' = (crossed \/ ~wish)
    /\ UNCHANGED <<wish, enabled, row, writes, snapshot, up, worker, clicks,
                   downs, overtaken>>

\* start_robot_worker publishes once the write is done, or the wait is over.
StartPublished ==
    /\ starting
    /\ IF TRUE \in {writes["gw"][i] : i \in DOMAIN writes["gw"]}
       THEN Goes /\ crossed' = TRUE
       ELSE UNCHANGED downs /\ crossed' = (crossed \/ ~wish)
    /\ starting' = FALSE
    /\ Publish("start")
    /\ UNCHANGED <<wish, enabled, row, writes, snapshot, up, worker, clicks,
                   overtaken>>

\* Mutant: the stop is told to the runtime through the row alone.
StopUnpublished ==
    /\ Click
    /\ wish' = FALSE
    /\ enabled' = Set("gw", FALSE)
    /\ writes' = Persist("gw", FALSE)
    /\ ShowControl(FALSE)
    /\ crossed' = (crossed \/ starting)
    /\ UNCHANGED <<row, starting, bus, deaf, up, worker, downs, overtaken>>

\* POST /robot/stop: memory, row, snapshot, command.
StopClicked ==
    /\ Click
    /\ wish' = FALSE
    /\ enabled' = Set("gw", FALSE)
    /\ writes' = Persist("gw", FALSE)
    /\ ShowControl(FALSE)
    /\ Publish("stop")
    /\ crossed' = (crossed \/ starting)
    /\ UNCHANGED <<row, starting, up, worker, downs, overtaken>>

\* The panel's poll with the flag on: the gateway takes over a stop of the
\* runtime (from the snapshot, else from the row) or asks for the worker.
PanelPolls ==
    /\ enabled["gw"] /\ ~starting
    /\ IF snapshot = "off" \/ (snapshot = "none" /\ ~row)
       THEN enabled' = Set("gw", FALSE) /\ UNCHANGED <<bus, deaf>>
       ELSE /\ bus = <<>>
            /\ Publish("ensure")
            /\ UNCHANGED enabled
    /\ UNCHANGED <<wish, row, writes, snapshot, starting, up, worker, clicks,
                   downs, crossed, overtaken>>

----------------------------------------------------------------------------
(* The runtime *)

Hear(command) == bus # <<>> /\ Head(bus) = command /\ bus' = Tail(bus)

\* "start" reads the row again; a worker needs the flag.
HearStart ==
    /\ Hear("start")
    /\ enabled' = Set("rt", row)
    /\ worker' = (worker \/ row)
    /\ UNCHANGED <<wish, row, writes, snapshot, starting, up, clicks, downs,
                   deaf, crossed, overtaken>>

\* "ensure" does not.
HearEnsure ==
    /\ Hear("ensure")
    /\ worker' = (worker \/ enabled["rt"])
    /\ UNCHANGED <<wish, enabled, row, writes, snapshot, starting, up, clicks,
                   downs, deaf, crossed, overtaken>>

\* "stop" turns the flag off, shows it and cancels the worker; nothing is
\* written.
HearStop ==
    /\ Hear("stop")
    /\ enabled' = Set("rt", FALSE)
    /\ worker' = FALSE
    /\ snapshot' = "off"
    /\ UNCHANGED <<wish, row, writes, starting, up, clicks, downs, deaf,
                   crossed, overtaken>>

\* The worker persists after most things it does, and the publisher shows
\* the flag every second.
WorkerPersists ==
    /\ worker /\ Len(writes["rt"]) < 1
    /\ writes' = Persist("rt", enabled["rt"])
    /\ snapshot' = Shown(enabled["rt"])
    /\ UNCHANGED <<wish, enabled, row, starting, bus, up, worker, clicks,
                   downs, deaf, crossed, overtaken>>

\* A stop win, a stop loss, no balance: the robot stops itself.
RobotStopsItself ==
    /\ worker /\ Click
    /\ enabled' = Set("rt", FALSE)
    /\ worker' = FALSE
    /\ writes' = Persist("rt", FALSE)
    /\ snapshot' = "off"
    /\ wish' = FALSE
    /\ crossed' = (crossed \/ starting \/ \E i \in DOMAIN bus : bus[i] = "start")
    /\ UNCHANGED <<row, starting, bus, up, downs, deaf, overtaken>>

RowWritten(s) ==
    /\ writes[s] # <<>>
    /\ row' = Head(writes[s])
    /\ writes' = [writes EXCEPT ![s] = Tail(@)]
    /\ overtaken' = (overtaken \/ (s = "rt" /\ row' # wish))
    /\ UNCHANGED <<wish, enabled, snapshot, starting, bus, up, worker, clicks,
                   downs, deaf, crossed>>

RuntimeDies ==
    /\ up # "down" /\ Goes
    /\ up' = "down" /\ worker' = FALSE
    /\ writes' = [writes EXCEPT !["rt"] = <<>>]
    /\ bus' = <<>>
    /\ deaf' = (deaf \/ \E i \in DOMAIN bus : bus[i] # "ensure")
    /\ overtaken' = (overtaken \/ \E i \in DOMAIN writes["rt"] : ~writes["rt"][i])
    /\ UNCHANGED <<wish, enabled, row, snapshot, starting, clicks, crossed>>

\* Mutant: the accounts are resumed before the listener subscribes.
RuntimeLoadsAndResumes ==
    /\ up = "down"
    /\ up' = "loaded"
    /\ enabled' = Set("rt", row) /\ worker' = row
    /\ crossed' = (crossed \/ writes["gw"] # <<>>)
    /\ UNCHANGED <<wish, row, writes, snapshot, starting, bus, clicks,
                   downs, deaf, overtaken>>

\* restore_robot_states, before the listener subscribes.
RuntimeLoads ==
    /\ up = "down"
    /\ up' = "loaded"
    /\ enabled' = Set("rt", row)
    /\ crossed' = (crossed \/ writes["gw"] # <<>>)
    /\ UNCHANGED <<wish, row, writes, snapshot, starting, bus, worker, clicks,
                   downs, deaf, overtaken>>

\* The listener subscribes and the accounts that were on are resumed.
RuntimeListens ==
    /\ up = "loaded"
    /\ up' = "listening"
    /\ worker' = enabled["rt"]
    /\ UNCHANGED <<wish, enabled, row, writes, snapshot, starting, bus, clicks,
                   downs, deaf, crossed, overtaken>>

GatewayRestarts ==
    /\ Goes /\ ~starting /\ writes["gw"] = <<>>
    /\ enabled' = Set("gw", row)
    /\ UNCHANGED <<wish, row, writes, snapshot, starting, bus, up, worker,
                   clicks, deaf, crossed, overtaken>>

\* After ten minutes without a worker that publishes.
SnapshotExpires ==
    /\ ~worker /\ snapshot # "none"
    /\ snapshot' = "none"
    /\ UNCHANGED <<wish, enabled, row, writes, starting, bus, up, worker,
                   clicks, downs, deaf, crossed, overtaken>>

RuntimeSteps == \/ HearStart \/ HearEnsure \/ HearStop
                \/ RuntimeLoads \/ RuntimeListens

SwitchNext ==
    \/ StartClicked \/ StartPublished \/ StopClicked \/ PanelPolls
    \/ RuntimeSteps
    \/ WorkerPersists \/ RobotStopsItself \/ \E s \in Side : RowWritten(s)
    \/ RuntimeDies \/ GatewayRestarts \/ SnapshotExpires

SwitchSpec == SwitchInit /\ [][SwitchNext]_switchVars

----------------------------------------------------------------------------
(* Properties *)

\* No robot trades for a user who stopped it: once the runtime listens and
\* has heard every command, there is no worker, also after restarts, unless
\* nobody heard the stop, a start crossed it, or a late write of the worker
\* put the flag back in the row.
StopHolds ==
    ~wish /\ up = "listening" /\ bus = <<>> =>
        ~worker \/ deaf \/ crossed \/ overtaken

\* A start takes: the worker runs, or the user or the robot stopped, unless
\* the command was lost or the row it reads did not say so.
StartTakes == wish ~> worker \/ ~wish \/ deaf \/ crossed \/ overtaken
=============================================================================
