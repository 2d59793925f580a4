---------------------------- MODULE OrderResult -----------------------------
(* How the outcome of an order comes back: the broker pushes it once over    *)
(* the socket of the moment, the service keeps it in the client object, and  *)
(* GET /orders/{id}/result reads it there or, some time after the expiry,    *)
(* asks the broker for the list of closed options.                           *)
EXTENDS Naturals

CONSTANTS Order,      \* ids of one user's orders
          MaxOutage   \* falls, restarts and lookups that fail

ASSUME OutageAssumption == MaxOutage \in Nat

VARIABLES closed,   \* orders the broker has closed
          up,       \* the session's socket is open
          held,     \* closings the session's client object has stored
          due,      \* orders whose lookup time has come (_pode_consultar)
          told,     \* orders whose outcome the gateway has read
          outages

resultVars == <<closed, up, held, due, told, outages>>

ResultTypeOK ==
    /\ closed \subseteq Order /\ held \subseteq Order /\ due \subseteq Order
    /\ told \subseteq Order /\ up \in BOOLEAN /\ outages \in 0..MaxOutage

ResultInit == closed = {} /\ up = TRUE /\ held = {} /\ due = {} /\ told = {}
              /\ outages = 0

Outage == outages < MaxOutage /\ outages' = outages + 1

\* The closing is pushed to the socket open at that moment, or to nobody.
OrderCloses(o) ==
    /\ o \notin closed
    /\ closed' = closed \cup {o}
    /\ held' = IF up THEN held \cup {o} ELSE held
    /\ UNCHANGED <<up, due, told, outages>>

\* Fifteen seconds after the expiry, and after each lookup.
LookupFallsDue(o) ==
    /\ o \in closed \ due
    /\ due' = due \cup {o}
    /\ UNCHANGED <<closed, up, held, told, outages>>

SocketDrops ==
    /\ up /\ Outage
    /\ up' = FALSE
    /\ UNCHANGED <<closed, held, due, told>>

\* The process starts with empty maps: an order it did not send is old, and
\* may be looked up at once.
ServiceForgets ==
    /\ Outage
    /\ up' = FALSE /\ held' = {} /\ due' = Order
    /\ UNCHANGED <<closed, told>>

\* A reconnection hands the old client's closings to the new one
\* (herdar_resultados); a login or a restored session starts without.
SessionReturns(inherits) ==
    /\ ~up
    /\ up' = TRUE
    /\ held' = IF inherits THEN held ELSE {}
    /\ UNCHANGED <<closed, due, told, outages>>

\* GET /orders/{id}/result: known, found at the broker, or pending.
ReadHeld(o) ==
    /\ up /\ o \in held \ told
    /\ told' = told \cup {o}
    /\ UNCHANGED <<closed, up, held, due, outages>>

\* Mutant: only the closings pushed to the session count.
LookUpNothing(o) ==
    /\ up /\ o \in due \ (held \cup told)
    /\ due' = due \ {o}
    /\ UNCHANGED <<closed, up, held, told, outages>>

LookUp(o) ==
    /\ up /\ o \in due \ (held \cup told)
    /\ due' = due \ {o}
    /\ \/ o \in closed /\ told' = told \cup {o} /\ UNCHANGED outages
       \/ o \in closed /\ UNCHANGED told /\ Outage
       \/ o \notin closed /\ UNCHANGED <<told, outages>>
    /\ UNCHANGED <<closed, up, held>>

ResultNext ==
    \/ \E o \in Order : \/ OrderCloses(o) \/ LookupFallsDue(o)
                        \/ ReadHeld(o) \/ LookUp(o)
    \/ SocketDrops \/ ServiceForgets
    \/ \E inherits \in BOOLEAN : SessionReturns(inherits)

ResultSpec == ResultInit /\ [][ResultNext]_resultVars

\* The monitor polls every second and the session is brought back.
ResultFairness ==
    /\ \A o \in Order : /\ WF_resultVars(LookupFallsDue(o))
                        /\ WF_resultVars(ReadHeld(o))
                        /\ WF_resultVars(LookUp(o))
    /\ WF_resultVars(\E inherits \in BOOLEAN : SessionReturns(inherits))

\* A closed order's outcome reaches the gateway, however the socket falls
\* between the purchase and the poll.
ResultTold == \A o \in Order : o \in closed ~> o \in told
=============================================================================
