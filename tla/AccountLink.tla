----------------------------- MODULE AccountLink -----------------------------
(* The user's decision to connect or disconnect the broker account, and the *)
(* reconnections that gateway and runtime start on their own. Three things  *)
(* keep a disconnection from being undone: a mark (in Redis, with a mirror  *)
(* in each process), the token that the broker service revokes, and the     *)
(* saved password that the gateway erases. None of the routes holds a lock  *)
(* across its calls to the broker service.                                  *)
EXTENDS Naturals

CONSTANTS MaxMishap     \* failures of Redis, of calls, restarts, falls

ASSUME LinkAssumption == MaxMishap \in Nat

Process == {"gateway", "runtime"}

VARIABLES
    redis,     \* Redis answers
    mark,      \* bullex:manual_disconnect:{user}
    mirror,    \* bullex_manual_disconnect of each process
    hear,      \* a "disconnect" command on its way to the runtime
    link,      \* the session at the broker service
    saved,     \* the e-mail and password are stored
    robot,     \* a robot of the user runs in the runtime
    attempt,   \* each process's automatic reconnection
    entry,     \* POST /bullex/connect
    exit,      \* POST /bullex/disconnect
    pending,   \* disconnections waiting at the broker service
    mishaps,
    \* history: the last thing the user did was to disconnect; when that route
    \* ended, a reconnection or an unanswered disconnection was under way, or
    \* the password had not been erased
    left, loose

linkVars == <<redis, mark, mirror, hear, link, saved, robot, attempt, entry,
              exit, pending, mishaps, left, loose>>

LinkTypeOK ==
    /\ redis \in BOOLEAN /\ mark \in BOOLEAN /\ hear \in BOOLEAN
    /\ mirror \in [Process -> BOOLEAN]
    /\ link \in {"none", "fallen", "live"}
    /\ saved \in BOOLEAN /\ robot \in BOOLEAN
    /\ attempt \in [Process -> {"none", "ssid", "last ssid", "no ssid", "login"}]
    /\ entry \in {"none", "sent"}
    /\ exit \in {"none", "sent", "again", "answered"}
    /\ pending \in 0..3 /\ mishaps \in 0..MaxMishap
    /\ left \in BOOLEAN /\ loose \in BOOLEAN

LinkInit ==
    /\ redis = TRUE /\ mark = FALSE /\ hear = FALSE
    /\ mirror = [p \in Process |-> FALSE]
    /\ link = "none" /\ saved = FALSE /\ robot = FALSE
    /\ attempt = [p \in Process |-> "none"]
    /\ entry = "none" /\ exit = "none" /\ pending = 0
    /\ mishaps = 0 /\ left = FALSE /\ loose = FALSE

Mishap == mishaps < MaxMishap /\ mishaps' = mishaps + 1

\* is_manual_disconnect: Redis decides and corrects the mirror, which answers
\* when Redis does not.
Marked(p) == IF redis THEN mark ELSE mirror[p]
Corrected(p) == [mirror EXCEPT ![p] = Marked(p)]

\* set_manual_disconnect at the gateway: Redis if it answers, and the mirror.
SetMark(on) ==
    /\ mark' = IF redis THEN on ELSE mark
    /\ mirror' = [mirror EXCEPT !["gateway"] = on]

----------------------------------------------------------------------------
(* What the user does *)

\* POST /bullex/connect: the mark goes first, whatever becomes of the login.
EntryBegins ==
    /\ entry = "none" /\ exit = "none"
    /\ entry' = "sent"
    /\ SetMark(FALSE)
    /\ left' = FALSE /\ loose' = FALSE
    /\ UNCHANGED <<redis, hear, link, saved, robot, attempt, exit, pending, mishaps>>

\* The login revokes whatever token there was; the password of one that
\* succeeds is saved, unless that fails.
EntryEnds ==
    /\ entry = "sent"
    /\ entry' = "none"
    /\ \/ link' = "live" /\ saved' = TRUE
       \/ link' \in {"live", "none"} /\ UNCHANGED saved
    /\ UNCHANGED <<redis, mark, mirror, hear, robot, attempt, exit, pending,
              mishaps, left, loose>>

RobotStarts ==
    /\ link = "live" /\ ~left /\ exit = "none" /\ ~robot
    /\ robot' = TRUE
    /\ UNCHANGED <<redis, mark, mirror, hear, link, saved, attempt, entry, exit,
              pending, mishaps, left, loose>>

\* POST /bullex/disconnect marks, tells the runtime and asks the service.
ExitBegins ==
    /\ entry = "none" /\ exit = "none" /\ pending < 2
    /\ exit' = "sent" /\ pending' = pending + 1
    /\ SetMark(TRUE)
    /\ hear' = (hear \/ redis)
    /\ UNCHANGED <<redis, link, saved, robot, attempt, entry, mishaps, left, loose>>

\* The service closes the session and revokes its token, also for a call the
\* gateway no longer waits for: it queues behind the user's lock.
ServiceDisconnects ==
    /\ pending > 0
    /\ pending' = pending - 1
    /\ link' = "none"
    /\ exit' = IF exit \in {"sent", "again"} THEN "answered" ELSE exit
    /\ UNCHANGED <<redis, mark, mirror, hear, saved, robot, attempt, entry,
              mishaps, left, loose>>

\* One retry, then the route goes on as if it had been answered. A call may
\* be late or lost.
ExitUnanswered ==
    /\ exit \in {"sent", "again"} /\ Mishap
    /\ exit' = IF exit = "sent" THEN "again" ELSE "answered"
    /\ \E n \in {pending, pending - 1} :
        pending' = IF exit = "sent" THEN n + 1 ELSE n
    /\ UNCHANGED <<redis, mark, mirror, hear, link, saved, robot, attempt, entry,
              left, loose>>

Unsettled == link # "none" \/ pending > 0
             \/ \E p \in Process : attempt[p] # "none"

\* Mutant: the password is kept for the next login.
ExitEndsKeepingPassword ==
    /\ exit = "answered"
    /\ exit' = "none"
    /\ robot' = (robot /\ ~redis)
    /\ left' = TRUE
    /\ loose' = Unsettled
    /\ UNCHANGED <<redis, mark, mirror, hear, link, saved, attempt, entry, pending,
              mishaps>>

\* The rest of the route: the robot's stop command, the password.
ExitEnds ==
    /\ exit = "answered"
    /\ exit' = "none"
    /\ robot' = (robot /\ ~redis)
    /\ \/ saved' = FALSE /\ UNCHANGED mishaps
       \/ UNCHANGED saved /\ Mishap
    /\ left' = TRUE
    /\ loose' = (Unsettled \/ saved')
    /\ UNCHANGED <<redis, mark, mirror, hear, link, attempt, entry, pending>>

----------------------------------------------------------------------------
(* Reconnections nobody asked for *)

\* The panel's poll and its hook at the gateway, the worker in the runtime:
\* the mark is read here and not again.
AttemptBegins(p) ==
    /\ attempt[p] = "none" /\ link # "live"
    /\ p = "runtime" => robot
    /\ mirror' = Corrected(p)
    /\ attempt' = IF Marked(p) THEN attempt
                  ELSE [attempt EXCEPT ![p] = "ssid"]
    /\ UNCHANGED <<redis, mark, hear, link, saved, robot, entry, exit, pending,
              mishaps, left, loose>>

\* POST /sessions/reconnect needs a session or the token of one.
SsidEnds(p) ==
    /\ attempt[p] \in {"ssid", "last ssid"}
    /\ \/ /\ link # "none" /\ link' = "live"
          /\ attempt' = [attempt EXCEPT ![p] = "none"]
       \/ /\ link' = IF link = "live" THEN "fallen" ELSE link
          /\ attempt' = [attempt EXCEPT ![p] =
                            IF @ = "ssid" THEN "no ssid" ELSE "none"]
    /\ UNCHANGED <<redis, mark, mirror, hear, saved, robot, entry, exit, pending,
              mishaps, left, loose>>

\* The saved password is the last resort.
LoginBegins(p) ==
    /\ attempt[p] = "no ssid"
    /\ attempt' = [attempt EXCEPT ![p] = IF saved THEN "login" ELSE "none"]
    /\ UNCHANGED <<redis, mark, mirror, hear, link, saved, robot, entry, exit,
              pending, mishaps, left, loose>>

LoginEnds(p) ==
    /\ attempt[p] = "login"
    /\ link' \in {"live", "none"}
    /\ attempt' = [attempt EXCEPT ![p] = "none"]
    /\ UNCHANGED <<redis, mark, mirror, hear, saved, robot, entry, exit, pending,
              mishaps, left, loose>>

\* What is left of an attempt that is cut short: the call it had sent.
OnlyItsCall(step) ==
    CASE step = "ssid" -> "last ssid"
      [] step = "no ssid" -> "none"
      [] OTHER -> step

\* The runtime's handler stops the robot and cancels the worker; a call the
\* worker had sent is carried out all the same.
RuntimeHears ==
    /\ hear
    /\ hear' = FALSE
    /\ mirror' = [mirror EXCEPT !["runtime"] = TRUE]
    /\ robot' = FALSE
    /\ attempt' = [attempt EXCEPT !["runtime"] = OnlyItsCall(@)]
    /\ UNCHANGED <<redis, mark, link, saved, entry, exit, pending, mishaps, left,
              loose>>

----------------------------------------------------------------------------
(* What breaks *)

LinkFalls ==
    /\ link = "live" /\ Mishap
    /\ link' = "fallen"
    /\ UNCHANGED <<redis, mark, mirror, hear, saved, robot, attempt, entry, exit,
              pending, left, loose>>

RedisFails ==
    /\ redis /\ Mishap
    /\ redis' = FALSE /\ hear' = FALSE
    /\ UNCHANGED <<mark, mirror, link, saved, robot, attempt, entry, exit, pending,
              left, loose>>

RedisReturns ==
    /\ ~redis
    /\ redis' = TRUE
    /\ UNCHANGED <<mark, mirror, hear, link, saved, robot, attempt, entry, exit,
              pending, mishaps, left, loose>>

\* A process loses its mirror and what it was at, except the calls it had
\* sent; a disconnection cut short is the user's to repeat. The runtime
\* resumes the robots that were on.
ProcessRestarts(p) ==
    /\ Mishap
    /\ mirror' = [mirror EXCEPT ![p] = FALSE]
    /\ attempt' = [attempt EXCEPT ![p] = OnlyItsCall(@)]
    /\ IF p = "gateway" THEN exit' = "none" /\ UNCHANGED hear
       ELSE hear' = FALSE /\ UNCHANGED exit
    /\ UNCHANGED <<redis, mark, link, saved, robot, entry, pending, left, loose>>

LinkNext ==
    \/ EntryBegins \/ EntryEnds \/ RobotStarts
    \/ ExitBegins \/ ServiceDisconnects \/ ExitUnanswered \/ ExitEnds
    \/ \E p \in Process : \/ AttemptBegins(p) \/ SsidEnds(p)
                          \/ LoginBegins(p) \/ LoginEnds(p)
                          \/ ProcessRestarts(p)
    \/ RuntimeHears \/ LinkFalls \/ RedisFails \/ RedisReturns

LinkSpec == LinkInit /\ [][LinkNext]_linkVars

----------------------------------------------------------------------------
(* Properties *)

\* Once POST /bullex/disconnect has ended, the account is disconnected until
\* the user connects it: no restart, no answer that Redis withholds and no lost
\* command lets an automatic reconnection in, even when the mark itself is
\* lost, unless that route ended with something loose.
ExitLasts == left /\ link = "live" => loose
=============================================================================
