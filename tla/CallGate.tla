------------------------------ MODULE CallGate ------------------------------
(* The semaphore through which bullex-service lets its users' operations     *)
(* talk to the broker. A user's lock makes them come one at a time; a login  *)
(* that reuses a live session whose REAL mode was lost passes the gate twice *)
(* on one thread, the second time while it holds the first permit.           *)
EXTENDS Naturals, FiniteSets

CONSTANTS User,        \* users with an operation of their own
          Reconfirms,  \* those who may log in again with the REAL mode lost
          Permits      \* BULLEX_MAX_CONCURRENT_API_CALLS

ASSUME GateAssumption ==
    /\ IsFiniteSet(User) /\ Reconfirms \subseteq User
    /\ Permits \in Nat /\ Cardinality(Reconfirms) < Permits

VARIABLES pc,      \* where each user's operation is
          timed    \* its wait for the gate has a timeout

gateVars == <<pc, timed>>

Places == {"away", "queued", "inside", "requeued", "twice"}

GateTypeOK == pc \in [User -> Places] /\ timed \in [User -> BOOLEAN]

GateInit == pc = [u \in User |-> "away"] /\ timed = [u \in User |-> FALSE]

\* Permits an operation holds.
Once == {u \in User : pc[u] \in {"inside", "requeued", "twice"}}
Twice == {u \in User : pc[u] = "twice"}
Free1 == Cardinality(Once) + Cardinality(Twice) < Permits

\* Candles, payouts, the account and the status wait a while; orders and
\* logins for as long as it takes.
Queue(u) ==
    /\ pc[u] = "away"
    /\ pc' = [pc EXCEPT ![u] = "queued"]
    /\ \E t \in BOOLEAN : timed' = [timed EXCEPT ![u] = t]

Enter(u) ==
    /\ pc[u] = "queued" /\ Free1
    /\ pc' = [pc EXCEPT ![u] = "inside"]
    /\ UNCHANGED timed

\* [CALL_GATE_TIMEOUT]
QueueTimesOut(u) ==
    /\ pc[u] = "queued" /\ timed[u]
    /\ pc' = [pc EXCEPT ![u] = "away"]
    /\ UNCHANGED timed

\* Mutant: any operation confirms the REAL mode inside the gate.
RequeueAnyone(u) ==
    /\ pc[u] = "inside"
    /\ pc' = [pc EXCEPT ![u] = "requeued"]
    /\ UNCHANGED timed

\* connect -> _populate_ready_state, inside the gate already.
Requeue(u) ==
    /\ u \in Reconfirms /\ pc[u] = "inside" /\ ~timed[u]
    /\ pc' = [pc EXCEPT ![u] = "requeued"]
    /\ UNCHANGED timed

EnterAgain(u) ==
    /\ pc[u] = "requeued" /\ Free1
    /\ pc' = [pc EXCEPT ![u] = "twice"]
    /\ UNCHANGED timed

\* Each context releases its own permit, however the operation ends.
Leave(u) ==
    /\ pc[u] \in {"inside", "twice"}
    /\ pc' = [pc EXCEPT ![u] = IF @ = "twice" THEN "inside" ELSE "away"]
    /\ UNCHANGED timed

GateNext == \E u \in User : \/ Queue(u) \/ Enter(u) \/ QueueTimesOut(u)
                            \/ Requeue(u) \/ EnterAgain(u) \/ Leave(u)

GateSpec == GateInit /\ [][GateNext]_gateVars

\* The gate is never exhausted by operations that wait at it: a permit is free
\* or some operation that holds one is at work and will give it back. It rests
\* on fewer users logging in anew at once than there are permits.
GateMoves == Free1 \/ \E u \in User : pc[u] \in {"inside", "twice"}

=============================================================================
