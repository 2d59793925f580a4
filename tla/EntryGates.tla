----------------------------- MODULE EntryGates -----------------------------
(* What the robot is allowed to buy. Several strategies judge a candle, each *)
(* with a scale and a gate of its own; the verdict crosses two gates, one    *)
(* after the scan and one at the order, and between them lives in the        *)
(* robot's record, which is copied field by field. At the order the thesis   *)
(* is read again on the candle that closed meanwhile. M1: a tick stays       *)
(* within its candle, and ages are counted in candles.                       *)
EXTENDS Naturals, FiniteSets, Sequences

CONSTANTS MinConfidence,  \* min_confidence of the panel
          LevelCap,       \* SR_LEVEL_MAX_PER_HOUR
          Hour,           \* SR_LEVEL_HOUR_SECONDS, in candles
          Spacing,        \* LIVE_MIN_SECONDS_BETWEEN_ENTRIES, in candles
          DryLimit        \* FREQUENCY_RECOVERY_AFTER_CYCLES

ASSUME GatesAssumption ==
    /\ MinConfidence \in Nat /\ DryLimit \in Nat
    /\ LevelCap \in Nat \ {0} /\ Spacing \in Nat \ {0}
    /\ Hour \in Nat \ {0}

\* The scales: LIVE_CONFIDENCE, REVZ_CONFIDENCE_FLOOR, VERTEX_OTC_SCORE_FLOOR,
\* FREQUENCY_RECOVERY_MIN_SCORE, SR_LEVEL_CONFIDENCE_BASE.
LiveScore == 60
RevzFloor == 55
VertexFloor == 50
RecoveryFloor == 70
LevelScore == 85

Least(a, b) == IF a < b THEN a ELSE b

\* Who decided, as the record tells (mark) and as the scan told (of); revz is
\* the verdict of REV-Z, which stays in the record when a level takes over.
Marks == {"classic", "vertex", "revz", "level", "live"}
Verdict == [mark: Marks, of: Marks, revz: BOOLEAN, otc: BOOLEAN,
            conf: 0..100, score: 0..100]
NoVerdict == [mark |-> "classic", of |-> "classic", revz |-> FALSE,
              otc |-> TRUE, conf |-> 0, score |-> 0]

VARIABLES live,       \* live_demo
          lastEntry,  \* age of last_entry_at
          dry,        \* consecutive_no_opportunity_cycles
          runs,       \* operation_in_progress
          pending,    \* pending_signal
          scanned,    \* what live_demo was in the scan that gave candidates
          levelLog,   \* ages of _entradas_de_nivel
          saved,      \* pending_signal in the row
          place,      \* where the cycle is
          line,       \* candidates it has still to try
          filtered,   \* only filters have cancelled any of them
          onAir,      \* history: LIVE was on when the gate let it through
          reread,     \* history: what it read before its POST
          heard,      \* history: age of the last order it was told of
          levels,     \* history: ages of its orders at a level
          bootAge     \* history: age of the last restart

gatesVars == <<live, lastEntry, dry, runs, pending, scanned, levelLog, saved,
               place, line, filtered, onAir, reread, heard, levels, bootAge>>
kept == <<live, lastEntry, dry, runs, scanned, levelLog>>
orders == <<heard, levels, bootAge>>

\* What the candle just closed shows at the order: REV-Z's extreme is still there,
\* the price is at a level (with or without a wick against it), the zone lets
\* the direction through; "blind" is a chart that did not come.
Chart == [extreme: BOOLEAN, level: {"none", "near", "wick"},
          zone: {"clear", "against", "blind"}]
NoChart == [extreme |-> FALSE, level |-> "none", zone |-> "blind"]

Old == Spacing + 1
Recovering == dry >= DryLimit
Full == Cardinality(levelLog) >= LevelCap

\* live_espera_espacamento: seconds decide in the last candle of the spacing.
TooSoon == IF lastEntry = Spacing THEN BOOLEAN ELSE {lastEntry < Spacing}

GatesTypeOK ==
    /\ live \in BOOLEAN /\ runs \in BOOLEAN /\ scanned \in BOOLEAN
    /\ filtered \in BOOLEAN /\ onAir \in BOOLEAN
    /\ lastEntry \in 0..Old /\ heard \in 0..Old /\ bootAge \in 0..Hour
    /\ dry \in 0..DryLimit
    /\ pending \in Verdict /\ saved \in Verdict
    /\ line \in Seq(Verdict)
    /\ levelLog \subseteq 0..(Hour - 1) /\ levels \subseteq 0..(Hour - 1)
    /\ place \in {"idle", "found", "window", "confirm", "post"}
    /\ reread \in Chart

GatesInit ==
    /\ live \in BOOLEAN /\ scanned = FALSE
    /\ lastEntry = Old /\ dry = 0 /\ runs = FALSE
    /\ pending = NoVerdict /\ saved = NoVerdict
    /\ levelLog = {} /\ place = "idle" /\ line = <<>> /\ filtered = TRUE
    /\ onAir = FALSE /\ reread = NoChart /\ heard = Old /\ levels = {} /\ bootAge = Hour

-----------------------------------------------------------------------------
(* The scan. A reading is what the strategies make of one asset's candles:   *)
(* the classic engine's confidence, penalties and filters (soft ones are     *)
(* waived in a drought), the confidence of an extreme (0: none), and the     *)
(* level. A signal is what is left of it, strategy after strategy.           *)
Reading == [otc: BOOLEAN, conf: {75, 80}, penalty: {0, 10},
            filters: {"clear", "soft", "hard"}, extreme: {0, 60, 75},
            vertex: {0, 60, 75}, level: {"none", "near", "wick"}]

Silent(mark) == [mark |-> mark, conf |-> 0, aims |-> FALSE, released |-> FALSE]
Fires(mark, conf) == [mark |-> mark, conf |-> conf, aims |-> TRUE,
                      released |-> TRUE]

Waived(r, recovering) ==
    r.filters = "clear" \/ (r.filters = "soft" /\ recovering)

Classic(r, recovering) ==
    [Fires("classic", r.conf) EXCEPT !.released = Waived(r, recovering)]

\* The open market is REV-Z's alone: without its extreme, no entry.
ApplyRevz(s, r) ==
    IF r.otc THEN s
    ELSE IF r.extreme = 0 THEN Silent("revz") ELSE Fires("revz", r.extreme)

\* VERTEX_PARALLEL: without an extreme the classic engine keeps its word.
ApplyVertex(s, r) ==
    IF s.mark = "revz" \/ r.vertex = 0 THEN s ELSE Fires("vertex", r.vertex)

\* At a level the level decides, and a wick against it takes the candle away.
ApplyLevel(s, r) ==
    IF s.mark = "revz" \/ r.level = "none" THEN s
    ELSE IF r.level = "wick" THEN Silent("level") ELSE Fires("level", LevelScore)

\* LIVE frees what all the others have barred, in OTC, with a direction.
ApplyLive(s, r, on) ==
    IF on /\ ~s.released /\ r.otc /\ s.aims THEN Fires("live", LiveScore) ELSE s

Analysed(r, on, recovering) ==
    ApplyLive(ApplyLevel(ApplyVertex(ApplyRevz(Classic(r, recovering), r), r), r),
              r, on)

\* apply_strategy_guard penalises the classic engine's scale and VERTEX's. What
\* it refuses for the shape of the candle or a cooldown is not found at all.
Score(s, r) ==
    IF s.mark \in {"classic", "vertex"} THEN s.conf - r.penalty ELSE s.conf

Judge(s, r) ==
    [mark |-> s.mark, of |-> s.mark, revz |-> s.mark = "revz", otc |-> r.otc,
     conf |-> s.conf, score |-> Score(s, r)]

Judged(on, recovering) ==
    {Judge(Analysed(r, on, recovering), r) :
        r \in {q \in Reading : Analysed(q, on, recovering).released}}

VerdictsOf == [on \in BOOLEAN |-> [rec \in BOOLEAN |-> Judged(on, rec)]]

-----------------------------------------------------------------------------
(* The gate of the cycle, the same after the scan and at the order.          *)
Floor(v) ==
    CASE v.mark = "live"    -> Least(MinConfidence, LiveScore)
      [] v.mark = "level"   -> MinConfidence
      [] v.mark = "revz"    -> Least(MinConfidence, RevzFloor)
      [] v.mark = "vertex"  -> Least(MinConfidence, VertexFloor)
      [] v.mark = "classic" -> MinConfidence

MeetsFloor(v) ==
    CASE v.mark \in {"live", "revz"} -> v.score >= Floor(v)
      [] v.mark = "level" -> v.conf >= Floor(v) /\ ~Full
      [] OTHER -> /\ v.otc
                  /\ v.score >= IF Recovering
                                THEN Least(Floor(v), RecoveryFloor) ELSE Floor(v)

\* candidate_meets_cycle_threshold; soon is one of TooSoon.
Passes(v, soon) == ~(live /\ soon) /\ MeetsFloor(v)

\* Mutant: the fields of pending_signal before live_demo was one of them.
CopyFieldsNotLive(v) ==
    IF v.mark \in {"live", "vertex"} THEN [v EXCEPT !.mark = "classic"] ELSE v

\* set_pending_signal writes a fixed list of fields: live_demo, revz, sr_level
\* and strategy_key are in it, vertex is not.
CopyFields(v) == IF v.mark = "vertex" THEN [v EXCEPT !.mark = "classic"] ELSE v

-----------------------------------------------------------------------------
Drops == pending' = NoVerdict /\ line' = <<>> /\ place' = "idle"
Saves == saved' = pending'
GoesDry == dry' = Least(dry + 1, DryLimit)
\* Mutant: at the order, a level that is gone is no reason to stay out.
LevelAgreesGone(c, ch) ==
    \/ c.mark = "live"
    \/ /\ ch.zone # "blind"
       /\ IF ch.level = "none" THEN ch.zone = "clear"
          ELSE ch.level = "near" /\ ~Full

\* revalidate_level_before_entry: a candidate of LIVE is exempt; at a level,
\* the level decides, within its cap; away from it the zone must be clear and
\* an entry the level had given has lost its reason.
LevelAgrees(c, ch) ==
    \/ c.mark = "live"
    \/ /\ ch.zone # "blind"
       /\ IF ch.level = "none" THEN ch.zone = "clear" /\ c.mark # "level"
          ELSE ch.level = "near" /\ ~Full

\* It turns the candidate into the level's, and leaves its confidence.
Reread(c, ch) ==
    IF c.mark # "live" /\ ch.level = "near" THEN [c EXCEPT !.mark = "level"]
    ELSE c

\* confirm_revz_before_entry, of whatever REV-Z gave, then the level.
Agrees(c, ch) == (c.revz => ch.extreme) /\ LevelAgrees(c, ch)

-----------------------------------------------------------------------------
\* The scan finds nothing the gate lets through. What was no matter of the
\* market (no candles, a closed asset) is not counted as a drought.
FindsNothing ==
    /\ place = "idle" /\ ~runs
    /\ scanned' = live
    /\ (GoesDry \/ UNCHANGED dry)
    /\ UNCHANGED pending /\ Saves
    /\ UNCHANGED <<live, lastEntry, runs, levelLog, place, line,
                   filtered, onAir, reread, orders>>

Finds(v, soon) ==
    /\ place = "idle" /\ ~runs
    /\ soon \in TooSoon /\ Passes(v, soon)
    /\ pending' = CopyFields(v)
    /\ scanned' = live
    /\ place' = "found"
    /\ Saves
    /\ UNCHANGED <<live, lastEntry, dry, runs, levelLog, line, filtered,
                   onAir, reread, orders>>

\* The candle after opens; a signal that has had its window is dropped.
Older(s) == {a + 1 : a \in s} \ {Hour}
CandleOpens ==
    /\ place \in {"idle", "found", "window"}
    /\ lastEntry' = Least(lastEntry + 1, Old)
    /\ levelLog' = Older(levelLog)
    /\ heard' = Least(heard + 1, Old)
    /\ levels' = Older(levels)
    /\ bootAge' = Least(bootAge + 1, Hour)
    /\ IF place = "window" THEN Drops /\ Saves
       ELSE /\ place' = IF place = "found" THEN "window" ELSE place
            /\ UNCHANGED <<pending, line, saved>>
    /\ UNCHANGED <<live, dry, runs, scanned, filtered, onAir, reread>>

\* The signal is tried first, whatever the gate says of it now; another
\* candidate of its scan only if it passes now.
Dispatch ==
    /\ place = "window"
    /\ place' = "confirm" /\ filtered' = TRUE
    /\ \/ line' = <<pending>>
       \/ \E v \in VerdictsOf[scanned][Recovering], soon \in TooSoon :
              Passes(v, soon) /\ line' = <<pending, v>>
    /\ UNCHANGED <<kept, pending, saved, onAir, reread, orders>>

\* The candidate at the head of the line is out: a filter of the entry
\* cancels it, or else its cooldown, its closed channel or the gate.
Cancels(c, ch) ==
    /\ ~Agrees(c, ch)
    /\ line' = Tail(line)
    /\ UNCHANGED <<kept, pending, saved, place, filtered, onAir, reread, orders>>

TurnsAway ==
    /\ line' = Tail(line)
    /\ filtered' = FALSE
    /\ UNCHANGED <<kept, pending, saved, place, onAir, reread, orders>>

\* set_order_attempt makes it the signal, and the POST leaves.
Submits(c, ch, soon) ==
    /\ Agrees(c, ch) /\ Passes(Reread(c, ch), soon)
    /\ pending' = CopyFields(Reread(c, ch))
    /\ line' = Tail(line)
    /\ place' = "post" /\ onAir' = live /\ reread' = ch
    /\ UNCHANGED <<kept, saved, filtered, orders>>

Tries ==
    /\ place = "confirm" /\ line # <<>>
    /\ \/ TurnsAway
       \/ \E ch \in Chart : Cancels(Head(line), ch)
       \/ \E ch \in Chart, soon \in TooSoon : Submits(Head(line), ch, soon)

\* PAYOUT_TOO_LOW before the attempt, ENTRY_SEND_TOO_LATE after it, or an
\* answer that is no order or never comes: reject_order and its kin.
GivesUp ==
    /\ place \in {"confirm", "post"}
    /\ Drops /\ Saves /\ onAir' = FALSE /\ reread' = NoChart
    /\ UNCHANGED <<kept, filtered, orders>>

\* The asset is not for sale: on to the next candidate.
NotForSale ==
    /\ place = "post"
    /\ place' = "confirm" /\ filtered' = FALSE /\ onAir' = FALSE /\ reread' = NoChart
    /\ UNCHANGED <<kept, pending, saved, line, orders>>

LineEnds ==
    /\ place = "confirm" /\ line = <<>>
    /\ IF filtered THEN GoesDry ELSE UNCHANGED dry
    /\ Drops /\ Saves
    /\ UNCHANGED <<live, lastEntry, runs, scanned, levelLog, filtered, onAir, reread,
                   orders>>

\* Mutant: an entry at a level is not entered in the hour's log.
BuysUnlogged ==
    /\ place = "post"
    /\ lastEntry' = 0 /\ dry' = 0 /\ runs' = TRUE
    /\ Drops /\ Saves /\ onAir' = FALSE /\ reread' = NoChart
    /\ heard' = 0
    /\ levels' = IF pending.mark = "level" THEN levels \union {0} ELSE levels
    /\ UNCHANGED <<live, scanned, levelLog, filtered, bootAge>>

\* record_trade, and registrar_entrada_de_nivel.
Buys ==
    /\ place = "post"
    /\ lastEntry' = 0 /\ dry' = 0 /\ runs' = TRUE
    /\ levelLog' = IF pending.mark = "level" THEN levelLog \union {0} ELSE levelLog
    /\ Drops /\ Saves /\ onAir' = FALSE /\ reread' = NoChart
    /\ heard' = 0
    /\ levels' = IF pending.mark = "level" THEN levels \union {0} ELSE levels
    /\ UNCHANGED <<live, scanned, filtered, bootAge>>

\* A tick cut short keeps its signal, for the window of the next candle.
TickCut ==
    /\ place \in {"confirm", "post"}
    /\ place' = "found" /\ line' = <<>> /\ onAir' = FALSE /\ reread' = NoChart
    /\ UNCHANGED pending /\ Saves
    /\ UNCHANGED <<kept, filtered, orders>>

\* The order is worth one candle; its gale follows without gate or pace.
RunEnds ==
    /\ runs /\ lastEntry > 0
    /\ \/ runs' = FALSE /\ UNCHANGED <<lastEntry, heard>>
       \/ lastEntry' = 0 /\ heard' = 0 /\ UNCHANGED runs
    /\ UNCHANGED <<live, dry, pending, scanned, levelLog, saved, place, line,
                   filtered, onAir, reread, levels, bootAge>>

\* POST /robot/live-mode, at any moment; the runtime saves the robot.
Toggle ==
    /\ live' = ~live
    /\ UNCHANGED pending /\ Saves
    /\ UNCHANGED <<lastEntry, dry, runs, scanned, levelLog, place,
                   line, filtered, onAir, reread, orders>>

\* The runtime starts again from the row. At most one restart an hour.
Restart ==
    /\ bootAge = Hour
    /\ pending' = saved
    /\ place' = IF saved = NoVerdict THEN "idle" ELSE "found"
    /\ line' = <<>> /\ onAir' = FALSE /\ reread' = NoChart
    /\ levelLog' = {} /\ bootAge' = 0
    /\ UNCHANGED <<live, lastEntry, dry, runs, scanned, saved, filtered, heard,
                   levels>>

Scan == FindsNothing \/ \E v \in VerdictsOf[live][Recovering] :
                            \E soon \in TooSoon : Finds(v, soon)

GatesNext == \/ Scan \/ CandleOpens \/ Dispatch \/ Tries \/ GivesUp
             \/ NotForSale \/ LineEnds \/ Buys \/ TickCut \/ RunEnds
             \/ Toggle \/ Restart

GatesSpec == GatesInit /\ [][GatesNext]_gatesVars

-----------------------------------------------------------------------------
\* The record keeps what the verdict rests on: a signal that would pass the gate
\* under the strategy that gave it passes as the record tells it, through the
\* copies, a change of the chart, a tick cut short and a restart. Vertex's mark
\* is the one that is lost.
VerdictKept ==
    (pending.of # "vertex" /\ MeetsFloor([pending EXCEPT !.mark = pending.of]))
        => MeetsFloor(pending)

\* No order leaves on the thesis of the candle before: REV-Z's extreme held when
\* the candle closed, a level's entry still has its level, and any entry but
\* LIVE's is with the level or in a clear zone.
ThesisHolds ==
    place = "post" =>
        /\ pending.of = "revz" => reread.extreme
        /\ pending.of = "level" => reread.level = "near"
        /\ pending.of # "live" =>
              /\ reread.level # "wick"
              /\ reread.level = "near" \/ reread.zone = "clear"

\* With LIVE on, an order keeps its distance from the last one the robot was
\* told of, its gale and a restart included; and an hour has no more entries at
\* a level than the cap, or twice as many when a restart emptied the log.
PaceKept ==
    /\ place = "post" /\ onAir => heard >= Spacing
    /\ Cardinality(levels) <= IF bootAge < Hour THEN 2 * LevelCap ELSE LevelCap
=============================================================================
