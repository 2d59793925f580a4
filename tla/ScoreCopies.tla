----------------------------- MODULE ScoreCopies -----------------------------
(* The session's score lives in four copies: the gateway's memory, the       *)
(* runtime's memory, the snapshot in Redis and the robot_states row. The     *)
(* runtime counts; the gateway reads, takes deleted results off and resets.  *)
(* Every reading prefers the larger copy, so a decrease is protected by a    *)
(* mark in Redis, the score authority. A score is abstracted to its number   *)
(* of results. Redis answers and the bus loses nothing but what a restart    *)
(* drops.                                                                    *)
EXTENDS Integers, Sequences, FiniteSetsExt

CONSTANTS MaxScore,     \* results that may count at a time
          MaxSaves,     \* row writes that wait at a time
          MaxEvents     \* results, deletions, resets and restarts

ASSUME ScoreAssumption == {MaxScore, MaxSaves, MaxEvents} \subseteq Nat

Holder == {"gateway", "runtime"}
Score == 0..MaxScore
NoScore == -1
NothingPosted == <<NoScore, FALSE>>
Keep == -1          \* PRESERVAR_PLACAR_DO_BANCO

VARIABLES
    counted,    \* rows of the history that count (history variable)
    tally,      \* wins and losses in each process
    posted,     \* robot:snapshot: a score, published by the runtime or not
    scoreRow,   \* robot_states
    authority,  \* robot:score_authority
    missed,     \* the process holds its absence as confirmed (2 s)
    aligned,    \* _gateway_score_day
    saves,      \* row writes not yet made, in the order they were asked for
    commands,   \* apply_score and reset_score on their way to the runtime
    resetting,  \* POST /robot/reset-score waits for its write
    unsaved,    \* the runtime counted a result and did not publish it yet
    events,
    \* history: a result or a second decrease came while a decrease was under
    \* way; the row kept a score older than one already written
    mixed, late

scoreVars == <<counted, tally, posted, scoreRow, authority, missed, aligned, saves,
               commands, resetting, unsaved, events, mixed, late>>

Command == [kind : {"apply", "reset"}, score : Score]

ScoreTypeOK ==
    /\ counted \in Score /\ scoreRow \in Score
    /\ tally \in [Holder -> Score]
    /\ posted \in {NothingPosted} \cup (Score \X BOOLEAN)
    /\ authority \in {NoScore} \cup Score
    /\ missed \in [Holder -> BOOLEAN] /\ aligned \in BOOLEAN
    /\ saves \in Seq([score : {Keep} \cup Score, old : BOOLEAN])
    /\ commands \in Seq(Command)
    /\ resetting \in BOOLEAN /\ unsaved \in BOOLEAN
    /\ events \in 0..MaxEvents /\ mixed \in BOOLEAN /\ late \in BOOLEAN

ScoreInit ==
    /\ counted = 0 /\ tally = [p \in Holder |-> 0] /\ posted = NothingPosted /\ scoreRow = 0
    /\ authority = NoScore /\ missed = [p \in Holder |-> FALSE] /\ aligned = FALSE
    /\ saves = <<>> /\ commands = <<>> /\ resetting = FALSE /\ unsaved = FALSE
    /\ events = 0 /\ mixed = FALSE /\ late = FALSE

Event == events < MaxEvents /\ events' = events + 1

----------------------------------------------------------------------------
(* Readings *)

\* get_session_score_authority, and what it remembers of an absence.
Authority(p) == IF missed[p] THEN NoScore ELSE authority
AfterAsking(p) == [missed EXCEPT ![p] = @ \/ authority = NoScore]

Published == posted # NothingPosted
Stamped == Published /\ posted[2]
OfSnapshot == IF Published THEN {posted[1]} ELSE {}

\* adopt_new_day_score_on_gateway: the first stamped snapshot is taken as it is.
Adopts == ~aligned /\ Stamped

\* _pick_preferred_session_score
Preferred(scores) == Max(scores)

\* reconcile_session_score_on_gateway: the mark, or the largest copy; the row
\* counts only when no snapshot of the runtime's is there. It runs in the
\* runtime as well, which adopts nothing.
Reconciled(p) ==
    LET own == IF p = "gateway" /\ Adopts THEN posted[1] ELSE tally[p]
    IN IF Authority(p) # NoScore THEN Authority(p)
       ELSE Preferred({own} \cup OfSnapshot \cup (IF Stamped THEN {} ELSE {scoreRow}))

\* rehydrate_score_from_persistence_if_blank, when there is no snapshot.
Rehydrated ==
    IF tally["gateway"] # 0 THEN tally["gateway"]
    ELSE IF Authority("gateway") = NoScore THEN scoreRow ELSE Authority("gateway")

\* What GET /robot/state answers.
Served == IF Published THEN Reconciled("gateway") ELSE Rehydrated

GatewayLearns(score) ==
    /\ tally' = [tally EXCEPT !["gateway"] = score]
    /\ missed' = AfterAsking("gateway")
    /\ aligned' = (aligned \/ (Authority("gateway") = NoScore /\ Stamped))

Save(score) == Append(saves, [score |-> score, old |-> FALSE])

\* mark_session_score_authority
Mark(p, score) ==
    /\ authority' = score
    /\ missed' = [missed EXCEPT ![p] = FALSE]

----------------------------------------------------------------------------
(* The runtime *)

\* finish_monitored_trade: a result lets the score rise again.
ResultCounts ==
    /\ Event /\ ~unsaved /\ counted < MaxScore /\ tally["runtime"] < MaxScore
    /\ counted' = counted + 1
    /\ tally' = [tally EXCEPT !["runtime"] = @ + 1]
    /\ authority' = NoScore
    /\ missed' = [missed EXCEPT !["runtime"] = FALSE]
    /\ unsaved' = TRUE
    /\ mixed' = (mixed \/ commands # <<>> \/ resetting
                    \/ (authority # NoScore /\ saves # <<>>))
    /\ UNCHANGED <<posted, scoreRow, aligned, saves, commands, resetting, late>>

\* persist_robot in worker mode: the snapshot now, the row later.
RuntimePersists ==
    /\ unsaved /\ Len(saves) < MaxSaves
    /\ unsaved' = FALSE
    /\ posted' = <<tally["runtime"], TRUE>>
    /\ saves' = Save(tally["runtime"])
    /\ UNCHANGED <<counted, tally, scoreRow, authority, missed, aligned, commands,
              resetting, events, mixed, late>>

\* _snapshot_publisher, once a second while the robot runs.
SnapshotLoop ==
    /\ posted' = <<tally["runtime"], TRUE>>
    /\ UNCHANGED <<counted, tally, scoreRow, authority, missed, aligned, saves,
              commands, resetting, unsaved, events, mixed, late>>

\* publish_robot_control_snapshot in the handlers of stop, live_mode, ...
RuntimeControls ==
    /\ tally' = [tally EXCEPT !["runtime"] = Reconciled("runtime")]
    /\ missed' = AfterAsking("runtime")
    /\ posted' = <<tally'["runtime"], TRUE>>
    /\ UNCHANGED <<counted, scoreRow, authority, aligned, saves, commands, resetting,
              unsaved, events, mixed, late>>

\* The forced hydration of a start: the history's score, the live one if that
\* is larger, the mark above both.
RuntimeHydrates ==
    /\ tally' = [tally EXCEPT !["runtime"] =
                    IF Authority("runtime") # NoScore THEN Authority("runtime")
                    ELSE Preferred({@, counted})]
    /\ missed' = AfterAsking("runtime")
    /\ UNCHANGED <<counted, posted, scoreRow, authority, aligned, saves, commands,
              resetting, unsaved, events, mixed, late>>

HearsApply ==
    /\ commands # <<>> /\ Head(commands).kind = "apply" /\ Len(saves) < MaxSaves
    /\ commands' = Tail(commands)
    /\ tally' = [tally EXCEPT !["runtime"] = Head(commands).score]
    /\ Mark("runtime", Head(commands).score)
    /\ saves' = Save(Head(commands).score)
    /\ posted' = <<Head(commands).score, TRUE>>
    /\ UNCHANGED <<counted, scoreRow, aligned, resetting, unsaved, events, mixed, late>>

\* The gateway saved the zero: nothing is saved here.
HearsReset ==
    /\ commands # <<>> /\ Head(commands).kind = "reset"
    /\ commands' = Tail(commands)
    /\ tally' = [tally EXCEPT !["runtime"] = 0]
    /\ Mark("runtime", 0)
    /\ posted' = <<0, TRUE>>
    /\ UNCHANGED <<counted, scoreRow, aligned, saves, resetting, unsaved, events,
              mixed, late>>

\* Commands for a runtime that is down are lost; it starts from the history,
\* resumes the robot and publishes.
RuntimeRestarts ==
    /\ Event /\ ~unsaved
    /\ commands' = <<>>
    /\ tally' = [tally EXCEPT !["runtime"] =
                    IF authority # NoScore THEN authority ELSE counted]
    /\ missed' = [missed EXCEPT !["runtime"] = authority = NoScore]
    /\ posted' = <<tally'["runtime"], TRUE>>
    /\ UNCHANGED <<counted, scoreRow, authority, aligned, saves, resetting, unsaved,
              mixed, late>>

----------------------------------------------------------------------------
(* The gateway *)

StatePolled ==
    /\ GatewayLearns(Served)
    /\ UNCHANGED <<counted, posted, scoreRow, authority, saves, commands, resetting,
              unsaved, events, mixed, late>>

\* publish_robot_control_snapshot of start, stop, ...
GatewayControls ==
    /\ GatewayLearns(Reconciled("gateway"))
    /\ posted' = <<tally'["gateway"], FALSE>>
    /\ UNCHANGED <<counted, scoreRow, authority, saves, commands, resetting, unsaved,
              events, mixed, late>>

\* _protect_session_score_on_persist: only a marked decrease is saved as such.
Protected ==
    IF Authority("gateway") # NoScore THEN tally["gateway"]
    ELSE IF ~Published THEN Keep
    ELSE IF Adopts THEN posted[1]
    ELSE Preferred({tally["gateway"], posted[1]})

GatewaySavesState ==
    /\ Len(saves) < MaxSaves
    /\ saves' = Save(Protected)
    /\ GatewayLearns(IF Authority("gateway") = NoScore /\ Adopts THEN posted[1]
                     ELSE tally["gateway"])
    /\ UNCHANGED <<counted, posted, scoreRow, authority, commands, resetting, unsaved,
              events, mixed, late>>

\* Mutant: the score goes below zero.
LessUnbounded(known) == known - 1

\* A result less, and never below zero.
Less(known) == Max({0, known - 1})

\* Mutant: the removal does not mark the score it leaves.
ResultDeletedUnmarked ==
    LET known == Reconciled("gateway")
        score == Less(known)
    IN /\ Event /\ counted > 0 /\ ~resetting
       /\ Len(saves) < MaxSaves /\ Len(commands) < 2
       /\ counted' = counted - 1
       /\ GatewayLearns(score)
       /\ saves' = Save(score)
       /\ posted' = <<score, FALSE>>
       /\ commands' = Append(commands, [kind |-> "apply", score |-> score])
       /\ mixed' = (mixed \/ unsaved \/ commands # <<>> \/ known # counted)
       /\ UNCHANGED <<scoreRow, authority, resetting, unsaved, late>>

\* apply_marketing_score_removal, with what it persists, publishes and sends.
ResultDeleted ==
    LET known == Reconciled("gateway")
        score == Less(known)
    IN /\ Event /\ counted > 0 /\ ~resetting
       /\ Len(saves) < MaxSaves /\ Len(commands) < 2
       /\ counted' = counted - 1
       /\ tally' = [tally EXCEPT !["gateway"] = score]
       /\ aligned' = (aligned \/ (Authority("gateway") = NoScore /\ Stamped))
       /\ Mark("gateway", score)
       /\ saves' = Save(score)
       /\ posted' = <<score, FALSE>>
       /\ commands' = Append(commands, [kind |-> "apply", score |-> score])
       /\ mixed' = (mixed \/ unsaved \/ commands # <<>> \/ known # counted)
       /\ UNCHANGED <<scoreRow, resetting, unsaved, late>>

ResetBegins ==
    /\ Event /\ ~resetting /\ Len(saves) < MaxSaves
    /\ counted' = 0
    /\ tally' = [tally EXCEPT !["gateway"] = 0]
    /\ Mark("gateway", 0)
    /\ saves' = Save(0)
    /\ resetting' = TRUE
    /\ mixed' = (mixed \/ unsaved \/ commands # <<>>)
    /\ UNCHANGED <<posted, scoreRow, aligned, commands, unsaved, late>>

\* The route waits at most 3 s for the write.
ResetEnds ==
    /\ resetting /\ Len(commands) < 2
    /\ resetting' = FALSE
    /\ GatewayLearns(Reconciled("gateway"))
    /\ posted' = <<tally'["gateway"], FALSE>>
    /\ commands' = Append(commands, [kind |-> "reset", score |-> 0])
    /\ UNCHANGED <<counted, scoreRow, authority, saves, unsaved, events, mixed, late>>

GatewayBoots ==
    /\ Event /\ ~resetting
    /\ tally' = [tally EXCEPT !["gateway"] = counted]
    /\ missed' = [missed EXCEPT !["gateway"] = FALSE]
    /\ aligned' = FALSE
    /\ UNCHANGED <<counted, posted, scoreRow, authority, saves, commands, resetting,
              unsaved, mixed, late>>

----------------------------------------------------------------------------
(* The row, and what expires *)

\* The threads of both processes write in any order. Keep is decided here.
RowSaved ==
    \E i \in 1..Len(saves) :
        /\ scoreRow' = IF saves[i].score = Keep THEN scoreRow ELSE saves[i].score
        /\ saves' = [j \in 1..(Len(saves) - 1) |->
                        IF j < i THEN [saves[j] EXCEPT !.old = TRUE]
                        ELSE saves[j + 1]]
        /\ late' = (late \/ (saves[i].old /\ saves[i].score # Keep))
        /\ UNCHANGED <<counted, tally, posted, authority, missed, aligned,
                  commands, resetting, unsaved, events, mixed>>

Quiet == commands = <<>> /\ saves = <<>> /\ ~resetting /\ ~unsaved

AbsenceForgotten(p) ==
    /\ missed[p]
    /\ missed' = [missed EXCEPT ![p] = FALSE]
    /\ UNCHANGED <<counted, tally, posted, scoreRow, authority, aligned, saves,
              commands, resetting, unsaved, events, mixed, late>>

\* The mark outlasts (120 s) the decrease it is for, the snapshot (600 s) the
\* mark.
AuthorityExpires ==
    /\ Quiet /\ authority # NoScore
    /\ authority' = NoScore
    /\ UNCHANGED <<counted, tally, posted, scoreRow, missed, aligned, saves, commands,
              resetting, unsaved, events, mixed, late>>

PostedExpires ==
    /\ Quiet /\ authority = NoScore /\ Published
    /\ posted' = NothingPosted
    /\ UNCHANGED <<counted, tally, scoreRow, authority, missed, aligned, saves,
              commands, resetting, unsaved, events, mixed, late>>

ScoreNext ==
    \/ ResultCounts \/ RuntimePersists \/ SnapshotLoop \/ RuntimeControls
    \/ RuntimeHydrates \/ HearsApply \/ HearsReset \/ RuntimeRestarts
    \/ StatePolled \/ GatewayControls \/ GatewaySavesState
    \/ ResultDeleted \/ ResetBegins \/ ResetEnds \/ GatewayBoots
    \/ RowSaved \/ AuthorityExpires \/ PostedExpires
    \/ \E p \in Holder : AbsenceForgotten(p)

ScoreSpec == ScoreInit /\ [][ScoreNext]_scoreVars

----------------------------------------------------------------------------
(* Properties *)

\* Whichever copies are stale, the panel is never served a result that was
\* deleted or reset, and when nothing is under way what it is served beside a
\* live snapshot is what counts: unless something crossed a decrease, or a write
\* overtaken by a newer one was left in the row.
ScoreShown ==
    ~late /\ ~mixed =>
        /\ Served <= counted
        /\ Quiet /\ Published => Served = counted
=============================================================================
