---------------------------- MODULE EntryCycle -----------------------------
(* When the robot buys: the worker's tick, the scan of the market in the     *)
(* candle before, the window of the candle after, the confirmation of each   *)
(* candidate and the POST, each of which takes time while the candle goes    *)
(* on. A candle has three parts: the window in which an entry is authorised, *)
(* the seconds in which it may still be sent and analysis is due, the rest.  *)
EXTENDS Naturals

CONSTANTS MaxCandle,   \* last candle
          MaxAsset,    \* candidates of a signal
          MaxMishap    \* bad links, exceptions and refusals

ASSUME CycleAssumption ==
    MaxCandle \in Nat \ {0} /\ MaxAsset \in Nat \ {0} /\ MaxMishap \in Nat

\* MAX_ORDER_ATTEMPTS_PER_CYCLE
MaxTries == 3

VARIABLES clock,       \* the broker's time, three parts to a candle
          robotOn,     \* enabled
          signal,      \* pending_signal: none, an entry, a step of the gale
          target,      \* candle of target_entry_timestamp, 0 without one
          legWaits,    \* gale_pending
          orderOpen,   \* operation_in_progress
          nextScan,    \* next_cycle_at
          tries,       \* order_attempts
          stage,       \* what the tick waits for
          window,      \* server_timestamp of its entry_window
          began,       \* when it started
          queue,       \* candidates it has not tried
          posted,      \* it has sent an order
          sent,        \* the last order sent, until the next tick
          past,        \* history of the signal in hand
          mishaps

tick == <<window, began, posted>>
entryVars == <<clock, robotOn, signal, target, legWaits, orderOpen, nextScan,
               tries, stage, queue, sent, past, mishaps, tick>>

Candle(t) == t \div 3
InWindow(t) == t % 3 = 0
\* Past ENTRY_SEND_MAX_SECOND.
InRest(t) == t % 3 = 2
OpeningOf(c) == 3 * c
AnalysisOf(c) == 3 * c + 1
End == 3 * MaxCandle + 2

\* Where a signal came from and what became of it: the candle it was found
\* in; a tick saw it outside the window of a later candle; a tick that had sent
\* an order for it was cut short; the gale's flag outlived its own signal.
Past == [found: 0..MaxCandle, seen: BOOLEAN, cut: BOOLEAN, orphan: BOOLEAN]
Young == [found |-> 0, seen |-> FALSE, cut |-> FALSE, orphan |-> FALSE]

\* What the properties tell of an order: when it left and the window that
\* authorised it, sent as a step of the gale, for a leg's own signal, after
\* another order of the tick, and the signal's past.
SentOrder == [at: 0..End, window: 0..End, step: BOOLEAN, leg: BOOLEAN,
              again: BOOLEAN, past: Past]
NoOrder == [at |-> 0, window |-> 0, step |-> FALSE, leg |-> FALSE,
            again |-> FALSE, past |-> Young]

EntryTypeOK ==
    /\ clock \in 3..End /\ window \in 0..End /\ began \in 0..End
    /\ robotOn \in BOOLEAN /\ legWaits \in BOOLEAN /\ orderOpen \in BOOLEAN
    /\ signal \in {"none", "entry", "leg"}
    /\ target \in 0..(MaxCandle + 1)
    /\ nextScan \in 0..(End + 3)
    /\ tries \in 0..MaxTries /\ queue \in 0..MaxAsset
    /\ stage \in {"sleep", "link", "decide", "scan", "confirm", "post"}
    /\ posted \in BOOLEAN
    /\ sent \in SentOrder
    /\ past \in Past
    /\ mishaps \in 0..MaxMishap

EntryInit ==
    /\ clock = 3 /\ robotOn = TRUE /\ signal = "none" /\ target = 0
    /\ legWaits = FALSE /\ orderOpen = FALSE /\ nextScan = AnalysisOf(1)
    /\ tries = 0 /\ stage = "sleep" /\ window = 0 /\ began = 0 /\ queue = 0
    /\ posted = FALSE /\ sent = NoOrder /\ mishaps = 0
    /\ past = Young

Mishap == mishaps < MaxMishap /\ mishaps' = mishaps + 1

\* A tick is cancelled after 110 s (ROBOT_CYCLE_TIMEOUT_SECONDS). Before its
\* first POST the calls after the window was read (status, candles, payouts,
\* seconds each) do not fill the rest of a candle.
ClockAdvances ==
    /\ clock < End
    /\ stage # "decide" /\ (stage = "confirm" => ~legWaits)
    /\ stage # "sleep" => clock - began < 6
    /\ InRest(clock) /\ InWindow(window) /\ stage \in {"link", "confirm"}
            => posted
    /\ clock' = clock + 1
    /\ UNCHANGED <<robotOn, signal, target, legWaits, orderOpen, nextScan,
                   tries, stage, queue, sent, past, mishaps, tick>>

----------------------------------------------------------------------------
(* How a tick ends *)

Sleeps == stage' = "sleep" /\ queue' = 0 /\ UNCHANGED clock
          /\ window' = 0 /\ began' = 0 /\ posted' = FALSE

\* The signal goes and the gale's flag with it.
Forget ==
    /\ signal' = "none" /\ target' = 0 /\ legWaits' = FALSE /\ past' = Young

\* The signal goes alone: a flag that was up belongs to nothing from now on.
LegOutlives ==
    /\ signal' = "none" /\ target' = 0 /\ UNCHANGED legWaits
    /\ past' = [Young EXCEPT !.orphan = legWaits]

NextAnalysis == AnalysisOf(Candle(clock) + 1)

\* expire_pending_signal; wait_seconds comes from the tick's window.
ExpirePendingSignal ==
    /\ Sleeps /\ Forget
    /\ nextScan' = IF InWindow(window) THEN clock
                   ELSE OpeningOf(Candle(window) + 1)
    /\ UNCHANGED <<robotOn, orderOpen, tries, sent>>

\* Mutant: the refused step stays announced.
RejectOrderKeepsLeg ==
    /\ Sleeps /\ signal' = "none" /\ target' = 0 /\ past' = Young
    /\ nextScan' = NextAnalysis
    /\ UNCHANGED <<robotOn, legWaits, orderOpen, tries, sent>>

RejectOrder ==
    /\ Sleeps /\ Forget
    /\ nextScan' = NextAnalysis
    /\ UNCHANGED <<robotOn, orderOpen, tries, sent>>

\* No money for the entry (the balance before it, or the broker's answer), a
\* profit or loss limit, or the user's stop.
RobotStops ==
    /\ stage \in {"link", "confirm", "post"} /\ Mishap
    /\ Sleeps /\ Forget
    /\ robotOn' = FALSE
    /\ UNCHANGED <<orderOpen, nextScan, tries, sent>>

\* An exception outside the POST: the signal goes, the leg's flag does not.
RecoverAnalysisError ==
    /\ stage \in {"link", "scan", "confirm"} /\ Mishap
    /\ Sleeps /\ LegOutlives
    /\ nextScan' \in {NextAnalysis, NextAnalysis + 1}
    /\ UNCHANGED <<robotOn, orderOpen, tries, sent>>

\* execute_robot_worker_cycle: a locked signal outlives the tick, without its
\* target once an order was attempted; the POST may have been accepted. Only a
\* scan or a POST lasts that long.
CycleTimesOut ==
    /\ stage \in {"scan", "post"} \/ (stage = "confirm" /\ posted)
    /\ clock - began >= 3
    /\ Sleeps
    /\ IF signal # "none"
       THEN /\ past' = [past EXCEPT !.cut = @ \/ posted]
            /\ UNCHANGED <<signal, target, legWaits, nextScan, tries>>
       ELSE /\ nextScan' = NextAnalysis /\ tries' = 0
            /\ UNCHANGED <<signal, target, legWaits, past>>
    /\ UNCHANGED <<robotOn, orderOpen, sent, mishaps>>

----------------------------------------------------------------------------
(* The tick *)

TickBegins ==
    /\ stage = "sleep" /\ robotOn /\ ~orderOpen
    /\ signal = "none" => clock >= nextScan
    /\ stage' = "link" /\ window' = clock /\ began' = clock
    /\ tries' = IF signal = "none" THEN 0 ELSE tries
    /\ sent' = NoOrder
    /\ UNCHANGED <<clock, robotOn, signal, target, legWaits, orderOpen,
                   nextScan, queue, posted, past, mishaps>>

Moves(s) ==
    /\ stage' = s
    /\ UNCHANGED <<clock, robotOn, legWaits, orderOpen, nextScan, tries, sent,
                   mishaps, began, posted>>

LinkUp ==
    /\ stage = "link" /\ Moves(IF signal = "none" THEN "scan" ELSE "decide")
    /\ UNCHANGED <<signal, target, queue, window, past>>

\* WAITING_RECOVERY: the signal is kept.
LinkDown ==
    /\ stage = "link" /\ Mishap
    /\ Sleeps
    /\ nextScan' = clock + 3
    /\ UNCHANGED <<robotOn, signal, target, legWaits, orderOpen, tries, sent,
                   past>>

\* The broker's account is not in REAL mode: lock_real.
RealLocked ==
    /\ stage = "link" /\ Mishap
    /\ Sleeps /\ LegOutlives
    /\ UNCHANGED <<robotOn, orderOpen, nextScan, tries, sent>>

ScanFinds ==
    /\ stage = "scan" /\ Moves("decide")
    /\ signal' = "entry" /\ window' = clock
    /\ past' = [past EXCEPT !.found = Candle(clock)]
    /\ UNCHANGED <<target, queue>>

ScanFindsNothing ==
    /\ stage = "scan" /\ Sleeps
    /\ nextScan' \in {NextAnalysis, clock + 1}
    /\ UNCHANGED <<robotOn, signal, target, legWaits, orderOpen, tries, sent,
                   past, mishaps>>

WindowOpens ==
    /\ stage = "decide" /\ InWindow(window) /\ Moves("confirm")
    /\ queue' \in IF legWaits THEN {1} ELSE 1..MaxAsset
    /\ UNCHANGED <<signal, target, window, past>>

\* The tick ends with the signal still waiting.
Waits ==
    /\ Sleeps
    /\ past' = [past EXCEPT !.seen = @ \/ Candle(window) > past.found]
    /\ UNCHANGED <<robotOn, signal, legWaits, orderOpen, nextScan, tries, sent,
                   mishaps>>

EntryScheduled ==
    /\ stage = "decide" /\ ~InWindow(window) /\ target = 0
    /\ Waits
    /\ target' = Candle(window) + 1

EntryWaits ==
    /\ stage = "decide" /\ ~InWindow(window) /\ target > Candle(window)
    /\ Waits
    /\ UNCHANGED target

Missed == ~InWindow(window) /\ target \in 1..Candle(window)

\* Mutant: a missed signal waits for the next window.
EntryMissedWaits ==
    /\ stage = "decide" /\ Missed
    /\ Waits
    /\ UNCHANGED target

EntryMissed ==
    /\ stage = "decide" /\ Missed
    /\ ExpirePendingSignal
    /\ UNCHANGED mishaps

\* One candidate is not bought: cooldown, confirmation, level, channel.
CandidateVetoed ==
    /\ stage = "confirm" /\ ~legWaits /\ queue > 1
    /\ queue' = queue - 1 /\ Moves("confirm")
    /\ UNCHANGED <<signal, target, window, past>>

\* The last one: reject_order, or the candle (or the next) is analysed anew;
\* PAYOUT_TOO_LOW rejects the signal at once.
SignalVetoed ==
    /\ stage = "confirm" /\ ~legWaits
    /\ Sleeps /\ Forget
    /\ \/ queue = 1 /\ nextScan' \in {AnalysisOf(Candle(clock)), NextAnalysis}
       \/ UNCHANGED nextScan
    /\ UNCHANGED <<robotOn, orderOpen, tries, sent, mishaps>>

TriesExhausted ==
    /\ stage = "confirm" /\ tries = MaxTries
    /\ RejectOrder
    /\ UNCHANGED mishaps

\* The plan has no stake, or the amount is below the minimum:
\* reset_cycle_after_finish, which counts an abandoned leg.
OrderUnpayable ==
    /\ stage = "confirm" /\ tries < MaxTries
    /\ Sleeps /\ Forget
    /\ nextScan' = NextAnalysis /\ tries' = 0
    /\ UNCHANGED <<robotOn, orderOpen, sent, mishaps>>

SentTooLate ==
    /\ stage = "confirm" /\ tries < MaxTries /\ ~legWaits /\ InRest(clock)
    /\ ExpirePendingSignal
    /\ UNCHANGED mishaps

\* The guard of a step is the flag, not the signal.
Send ==
    /\ stage = "confirm" /\ tries < MaxTries
    /\ legWaits \/ ~InRest(clock)
    /\ stage' = "post" /\ tries' = tries + 1 /\ posted' = TRUE
    /\ target' = 0      \* set_order_attempt rebuilds the signal
    /\ sent' = [at |-> clock, window |-> window, step |-> legWaits,
                leg |-> signal = "leg", again |-> posted, past |-> past]
    /\ UNCHANGED <<clock, robotOn, signal, legWaits, orderOpen, nextScan,
                   window, began, queue, past, mishaps>>

----------------------------------------------------------------------------
(* The answer *)

\* record_trade
BrokerAccepts ==
    /\ stage = "post"
    /\ Sleeps /\ Forget
    /\ orderOpen' = TRUE
    /\ UNCHANGED <<robotOn, nextScan, tries, sent, mishaps>>

BrokerLacksAsset ==
    /\ stage = "post" /\ queue > 1 /\ Mishap
    /\ stage' = "confirm" /\ queue' = queue - 1
    /\ UNCHANGED <<clock, robotOn, signal, target, legWaits, orderOpen,
                   nextScan, tries, sent, past, tick>>

BrokerRefuses ==
    /\ stage = "post" /\ Mishap
    /\ RejectOrder

Answers == BrokerAccepts \/ BrokerLacksAsset \/ BrokerRefuses

\* The order closes in a candle after its own; the worker had rested. A lost
\* entry may be followed by a step of the gale (trigger_gale).
OrderWon ==
    /\ orderOpen /\ Candle(clock) > Candle(sent.at)
    /\ orderOpen' = FALSE /\ nextScan' = NextAnalysis
    /\ UNCHANGED <<clock, robotOn, signal, target, legWaits, tries, stage,
                   queue, sent, past, mishaps, tick>>

OrderLost ==
    /\ orderOpen /\ Candle(clock) > Candle(sent.at) /\ ~sent.step
    /\ orderOpen' = FALSE /\ signal' = "leg" /\ target' = 0
    /\ legWaits' = TRUE /\ tries' = 0
    /\ past' = [Young EXCEPT !.found = Candle(clock)]
    /\ UNCHANGED <<clock, robotOn, nextScan, stage, queue, sent, mishaps, tick>>

EntryNext ==
    \/ ClockAdvances \/ TickBegins \/ LinkUp \/ LinkDown \/ RealLocked
    \/ ScanFinds \/ ScanFindsNothing \/ WindowOpens \/ EntryScheduled
    \/ EntryWaits \/ EntryMissed \/ CandidateVetoed \/ SignalVetoed
    \/ TriesExhausted \/ OrderUnpayable \/ SentTooLate \/ Send \/ Answers
    \/ OrderWon \/ OrderLost \/ RecoverAnalysisError \/ CycleTimesOut
    \/ RobotStops

EntrySpec == EntryInit /\ [][EntryNext]_entryVars

----------------------------------------------------------------------------
(* Properties *)

\* An entry leaves in the candle whose window authorised it and before the
\* seventh second, though candles, level and channel are asked for in between;
\* and never for a signal a tick has already seen go by. Both with one
\* exception, an order of the signal sent before: the wait for its answer may
\* carry the next candidate into another candle, and a tick cut short in it
\* leaves a signal without its target.
EntryInTime ==
    sent # NoOrder /\ ~sent.step =>
        /\ InWindow(sent.window) /\ ~InRest(sent.at)
        /\ Candle(sent.at) = Candle(sent.window) \/ sent.again
        /\ ~sent.past.seen \/ sent.past.cut

\* What goes out with the doubled amount and without confirmation, as a step
\* of the gale, is the leg's own signal: no way for a waiting step to end, its
\* answer included, leaves the flag to the next entry, save the two that are
\* known to (an exception in the tick, an account out of REAL mode).
LegOwnSignal == sent.step => sent.leg \/ sent.past.orphan

=============================================================================
