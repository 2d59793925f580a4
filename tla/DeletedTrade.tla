---------------------------- MODULE DeletedTrade -----------------------------
(* One finished order that the operator deletes (Shift+O) while the runtime *)
(* may still hold it as its last trade: in memory, in the row it restarts   *)
(* from and in writes that wait for the user's lock. A tombstone in Redis   *)
(* keeps them from bringing it back to robot_trades.                        *)
EXTENDS Naturals

CONSTANTS MaxJobs,      \* row writes of the runtime that wait at a time
          MaxRestart    \* restarts of the runtime

ASSUME JobAssumption == MaxJobs \in Nat /\ MaxRestart \in Nat

VARIABLES
    listed,     \* the order is in robot_trade_history
    mirrored,   \* the order is in robot_trades
    last,       \* the runtime's last_trade
    stateRow,   \* last_trade in robot_states
    tombstone,  \* robot:deleted_orders holds the order
    jobs,       \* writes of the runtime that wait for the user's lock
    writing,    \* the write that holds it: its copy of last_trade, its step
    deletion,   \* how far delete_marketing_robot_history_item is
    told,       \* apply_score is on its way to the runtime
    restarts,
    slipped     \* history: a write had passed before the tombstone was there

tradeVars == <<listed, mirrored, last, stateRow, tombstone, jobs, writing, deletion,
               told, restarts, slipped>>

Last == {"trade", "removed", "other"}
Idle == <<"other", "idle">>

TradeTypeOK ==
    /\ listed \in BOOLEAN /\ mirrored \in BOOLEAN
    /\ last \in Last /\ stateRow \in Last
    /\ tombstone \in BOOLEAN
    /\ jobs \in [Last -> 0..MaxJobs]
    /\ writing \in {Idle} \cup (Last \X {"state saved", "cleared"})
    /\ deletion \in {"none", "listing gone", "marked", "mirror gone", "done"}
    /\ told \in BOOLEAN /\ restarts \in 0..MaxRestart /\ slipped \in BOOLEAN

TradeInit ==
    /\ listed = TRUE /\ mirrored = FALSE /\ last = "trade" /\ stateRow = "other"
    /\ tombstone = FALSE /\ jobs = [l \in Last |-> 0] /\ writing = Idle
    /\ deletion = "none" /\ told = FALSE /\ restarts = 0 /\ slipped = FALSE

----------------------------------------------------------------------------
(* The runtime *)

\* persist_robot keeps the last trade as it is now; the write comes later.
JobQueued ==
    /\ jobs[last] < MaxJobs
    /\ jobs' = [jobs EXCEPT ![last] = @ + 1]
    /\ UNCHANGED <<listed, mirrored, last, stateRow, tombstone, writing, deletion,
              told, restarts, slipped>>

\* _write_to_supabase: the state first,
StateSaved(l) ==
    /\ writing = Idle /\ jobs[l] > 0
    /\ jobs' = [jobs EXCEPT ![l] = @ - 1]
    /\ stateRow' = l
    /\ writing' = <<l, "state saved">>
    /\ UNCHANGED <<listed, mirrored, last, tombstone, deletion, told, restarts, slipped>>

\* Mutant: only the mark on the runtime's own copy is looked at.
MirrorAllowsUnlessMarked(l) == l = "trade"

\* then the mirror is allowed the trade, or not.
MirrorAllows(l) == l = "trade" /\ ~tombstone

TradeForMirror ==
    /\ writing[2] = "state saved"
    /\ writing' = IF MirrorAllows(writing[1]) THEN <<writing[1], "cleared">> ELSE Idle
    /\ UNCHANGED <<listed, mirrored, last, stateRow, tombstone, jobs, deletion, told,
              restarts, slipped>>

TradeSaved ==
    /\ writing[2] = "cleared"
    /\ writing' = Idle
    /\ mirrored' = TRUE
    /\ UNCHANGED <<listed, last, stateRow, tombstone, jobs, deletion, told, restarts,
              slipped>>

NextTrade ==
    /\ last # "other"
    /\ last' = "other"
    /\ UNCHANGED <<listed, mirrored, stateRow, tombstone, jobs, writing, deletion,
              told, restarts, slipped>>

\* apply_score: the order leaves the memory, and the state is saved again.
RuntimeForgets ==
    /\ told
    /\ told' = FALSE
    /\ last' = IF last = "trade" THEN "removed" ELSE last
    /\ jobs[last'] < MaxJobs
    /\ jobs' = [jobs EXCEPT ![last'] = @ + 1]
    /\ UNCHANGED <<listed, mirrored, stateRow, tombstone, writing, deletion, restarts,
              slipped>>

\* What waited is gone; the last trade is what the row kept.
RuntimeRestartsFromRow ==
    /\ restarts < MaxRestart
    /\ restarts' = restarts + 1
    /\ last' = stateRow
    /\ jobs' = [l \in Last |-> 0] /\ writing' = Idle /\ told' = FALSE
    /\ UNCHANGED <<listed, mirrored, stateRow, tombstone, deletion, slipped>>

----------------------------------------------------------------------------
(* delete_marketing_robot_history_item, at the gateway *)

ListingDeleted ==
    /\ deletion = "none"
    /\ deletion' = "listing gone" /\ listed' = FALSE
    /\ UNCHANGED <<mirrored, last, stateRow, tombstone, jobs, writing, told, restarts,
              slipped>>

\* mark_deleted_orders: the tombstone is there before the mirror is cleaned.
OrderMarked ==
    /\ deletion = "listing gone"
    /\ deletion' = "marked" /\ tombstone' = TRUE
    /\ slipped' = (writing[2] = "cleared")
    /\ UNCHANGED <<listed, mirrored, last, stateRow, jobs, writing, told, restarts>>

MirrorDeleted ==
    /\ deletion = "marked"
    /\ deletion' = "mirror gone" /\ mirrored' = FALSE
    /\ UNCHANGED <<listed, last, stateRow, tombstone, jobs, writing, told, restarts,
              slipped>>

RemovalSent ==
    /\ deletion = "mirror gone"
    /\ deletion' = "done" /\ told' = TRUE
    /\ UNCHANGED <<listed, mirrored, last, stateRow, tombstone, jobs, writing, restarts,
              slipped>>

TradeNext ==
    \/ JobQueued \/ TradeForMirror \/ TradeSaved \/ NextTrade
    \/ \E l \in Last : StateSaved(l)
    \/ RuntimeForgets \/ RuntimeRestartsFromRow
    \/ ListingDeleted \/ OrderMarked \/ MirrorDeleted \/ RemovalSent

TradeSpec == TradeInit /\ [][TradeNext]_tradeVars

----------------------------------------------------------------------------
(* Properties *)

\* A deleted order does not come back to robot_trades, however many writes held
\* it, whether or not the runtime heard of the deletion, and after a restart
\* from a row that still names it: unless one write had asked for the tombstone
\* before it was there and saves after the mirror was cleaned.
DeletedStays == deletion \in {"mirror gone", "done"} /\ mirrored => slipped
=============================================================================
