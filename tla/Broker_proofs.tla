---------------------------- MODULE Broker_proofs ----------------------------
(* The entry and the broker side, for any value of the constants.           *)
(* An entry leaves in the candle that authorised it, a step of the gale is   *)
(* the leg's own, and what crosses the gates keeps its verdict, its thesis   *)
(* and its pace, for any number of candles, candidates and mishaps.          *)
(* Then what bullex-service keeps of a user's session, in memory, on disk    *)
(* and as open sockets; the gate its calls wait at; the purchases of a       *)
(* cycle; and all parts together.                                            *)
EXTENDS MCBroker, EntryCycle, EntryGates, FiniteSetTheorems, TLAPS

-----------------------------------------------------------------------------
(* EntryCycle: the entry is in time, for its own signal.                   *)

\* The flag without its signal is known of.
LegAccounted == legWaits => signal = "leg" \/ past.orphan

\* A tick that holds an open window has not left its candle, unless an order
\* was sent in between.
WindowFresh ==
    /\ stage \in {"decide", "confirm"} /\ posted => InWindow(window)
    /\ stage = "confirm" => InWindow(window)
    /\ stage = "post" => InWindow(window) /\ posted
    /\ posted => stage \in {"confirm", "post"}
    /\ stage \in {"scan", "decide", "link"} => ~posted
    /\ stage \in {"link", "decide", "confirm"} /\ InWindow(window) /\ ~posted
            => Candle(clock) = Candle(window)

\* A found signal has the next candle for a target, or none while the tick
\* that found it is still at work or once it was sent.
TargetNext ==
    signal = "entry" /\ ~past.cut =>
        /\ ~past.seen
        /\ target \in {0, past.found + 1}
        /\ target = 0 => \/ posted
                         \/ /\ stage \in {"decide", "confirm"}
                            /\ Candle(window) = past.found

\* The stages know whether there is a signal.
StageSignal ==
    /\ stage = "scan" => signal = "none" /\ ~past.seen /\ ~past.cut
    /\ stage \in {"decide", "confirm", "post"} => signal # "none"
    /\ signal = "none" => target = 0 /\ ~past.seen /\ ~past.cut
    /\ signal = "leg" => legWaits
    /\ orderOpen => stage = "sleep"

SentWell ==
    sent # NoOrder =>
        /\ sent.step => sent.leg \/ sent.past.orphan
        /\ ~sent.step =>
            /\ InWindow(sent.window) /\ ~InRest(sent.at)
            /\ Candle(sent.at) = Candle(sent.window) \/ sent.again
            /\ ~sent.past.seen \/ sent.past.cut

\* The type invariant in three parts.
EntryFlags == /\ robotOn \in BOOLEAN /\ legWaits \in BOOLEAN
         /\ orderOpen \in BOOLEAN /\ posted \in BOOLEAN
EntryNumbers == /\ clock \in 3..End /\ window \in 0..End /\ began \in 0..End
           /\ target \in 0..(MaxCandle + 1) /\ nextScan \in 0..(End + 3)
           /\ tries \in 0..MaxTries /\ queue \in 0..MaxAsset
           /\ mishaps \in 0..MaxMishap
EntryRecords == /\ signal \in {"none", "entry", "leg"}
           /\ stage \in {"sleep", "link", "decide", "scan", "confirm", "post"}
           /\ sent \in SentOrder /\ past \in Past

EntryInv == /\ EntryFlags /\ EntryNumbers /\ EntryRecords /\ LegAccounted /\ WindowFresh /\ TargetNext
            /\ StageSignal /\ SentWell

\* Time cut into candles: the facts about division that the proofs need.
LEMMA CandleFacts ==
    ASSUME NEW t \in Nat
    PROVE  /\ Candle(t) \in Nat
           /\ 3 * Candle(t) <= t /\ t <= 3 * Candle(t) + 2
           /\ ~InRest(t) => Candle(t + 1) = Candle(t)
           /\ InWindow(t) => ~InRest(t)
BY DEF Candle, InRest, InWindow

\* Within the bound of the model there are MaxCandle candles.
LEMMA CandleBound ==
    ASSUME NEW t \in 0..End
    PROVE  Candle(t) \in 0..MaxCandle
BY CandleFacts, CycleAssumption DEF End

\* The histories and orders the actions write have their types.
LEMMA RecordTypes ==
    /\ Young \in Past /\ NoOrder \in SentOrder
    /\ \A b \in BOOLEAN : [Young EXCEPT !.orphan = b] \in Past
    /\ \A p \in Past : \A b \in BOOLEAN : /\ [p EXCEPT !.cut = b] \in Past
                                       /\ [p EXCEPT !.seen = b] \in Past
    /\ \A p \in Past : \A c \in 0..MaxCandle : [p EXCEPT !.found = c] \in Past
    /\ \A p \in Past : p.seen \in BOOLEAN /\ p.cut \in BOOLEAN
                        /\ p.found \in Nat
<1>1. 0 \in 0..MaxCandle /\ 0 \in 0..End /\ 0..MaxCandle \subseteq Nat
  BY CycleAssumption DEF End
<1>2. Young \in Past
  BY <1>1 DEF Young, Past
<1>3. NoOrder \in SentOrder
  BY <1>1, <1>2 DEF NoOrder, SentOrder
<1>4. \A b \in BOOLEAN : [Young EXCEPT !.orphan = b] \in Past
  BY <1>1 DEF Young, Past
<1>5. \A p \in Past : \A b \in BOOLEAN : /\ [p EXCEPT !.cut = b] \in Past
                                      /\ [p EXCEPT !.seen = b] \in Past
  BY DEF Past
<1>6. \A p \in Past : \A c \in 0..MaxCandle : [p EXCEPT !.found = c] \in Past
  BY DEF Past
<1>7. \A p \in Past : p.seen \in BOOLEAN /\ p.cut \in BOOLEAN /\ p.found \in Nat
  BY <1>1 DEF Past
<1> QED  BY <1>2, <1>3, <1>4, <1>5, <1>6, <1>7

\* The parts are the type invariant: the provers take them one at a time.
LEMMA EntryTypeParts == EntryTypeOK <=> EntryFlags /\ EntryNumbers /\ EntryRecords
BY DEF EntryTypeOK, EntryFlags, EntryNumbers, EntryRecords

\* Every step of the worker, the broker and the clock keeps the invariant.
LEMMA EntryStep ==
    ASSUME EntryInv, [EntryNext]_entryVars
    PROVE  EntryInv'
<1> USE DEF EntryInv
<1>0. /\ clock \in Nat /\ window \in Nat
      /\ Candle(clock) \in 0..MaxCandle /\ Candle(window) \in 0..MaxCandle
      /\ 3 * Candle(clock) <= clock /\ clock <= 3 * Candle(clock) + 2
      /\ ~InRest(clock) => Candle(clock + 1) = Candle(clock)
      /\ InWindow(clock) => ~InRest(clock)
  <2>1. clock \in 0..End /\ window \in 0..End /\ clock \in Nat /\ window \in Nat
    BY CycleAssumption DEF EntryNumbers, End
  <2> QED  BY <2>1, CandleFacts, CandleBound
<1>2. /\ End \in Nat /\ MaxCandle \in Nat /\ MaxAsset \in Nat /\ MaxMishap \in Nat
      /\ 1 <= MaxAsset /\ MaxCandle <= End
      /\ NextAnalysis \in 0..(End + 2)
      /\ AnalysisOf(Candle(clock)) \in 0..(End + 2)
      /\ OpeningOf(Candle(window) + 1) \in 0..(End + 3)
  BY <1>0, CycleAssumption DEF NextAnalysis, AnalysisOf, OpeningOf, End
<1>1. CASE UNCHANGED entryVars
  BY <1>1 DEF entryVars, tick, EntryFlags, EntryNumbers, EntryRecords, LegAccounted, WindowFresh,
     TargetNext, StageSignal, SentWell, Past, NoOrder, Young
<1>3. CASE ClockAdvances
  <2>1. EntryFlags'
    BY <1>3, <1>0, <1>2 DEF ClockAdvances, tick, EntryFlags, EntryNumbers, EntryRecords
  <2>2. EntryNumbers'
    BY <1>3, <1>0, <1>2 DEF ClockAdvances, tick, EntryFlags, EntryNumbers, EntryRecords, MaxTries
  <2>3. EntryRecords'
    BY <1>3, <1>0, <1>2, RecordTypes DEF ClockAdvances, tick, EntryFlags, EntryNumbers, EntryRecords
  <2>4. LegAccounted'
    BY <1>3, <1>0, <1>2 DEF ClockAdvances, tick, EntryFlags, EntryNumbers, EntryRecords, LegAccounted, WindowFresh, TargetNext, StageSignal, SentWell, Young, Past
  <2>5. WindowFresh'
    BY <1>3, <1>0, <1>2 DEF ClockAdvances, tick, EntryFlags, EntryNumbers, EntryRecords, LegAccounted, WindowFresh, TargetNext, StageSignal, SentWell
  <2>6. TargetNext'
    BY <1>3, <1>0, <1>2 DEF ClockAdvances, tick, EntryFlags, EntryNumbers, EntryRecords, LegAccounted, WindowFresh, TargetNext, StageSignal, SentWell, Young, Past
  <2>7. StageSignal'
    BY <1>3, <1>0, <1>2 DEF ClockAdvances, tick, EntryFlags, EntryNumbers, EntryRecords, LegAccounted, WindowFresh, TargetNext, StageSignal, SentWell, Young, Past
  <2>8. SentWell'
    BY <1>3, <1>0, <1>2 DEF ClockAdvances, tick, EntryFlags, EntryNumbers, EntryRecords, LegAccounted, WindowFresh, TargetNext, StageSignal, SentWell, Young, Past, NoOrder
  <2> QED  BY <2>1, <2>2, <2>3, <2>4, <2>5, <2>6, <2>7, <2>8 DEF EntryInv
<1>4. CASE TickBegins
  <2>1. EntryFlags'
    BY <1>4, <1>0, <1>2 DEF TickBegins, tick, EntryFlags, EntryNumbers, EntryRecords
  <2>2. EntryNumbers'
    BY <1>4, <1>0, <1>2 DEF TickBegins, tick, EntryFlags, EntryNumbers, EntryRecords, MaxTries
  <2>3. EntryRecords'
    BY <1>4, <1>0, <1>2, RecordTypes DEF TickBegins, tick, EntryFlags, EntryNumbers, EntryRecords
  <2>4. LegAccounted'
    BY <1>4, <1>0, <1>2 DEF TickBegins, tick, EntryFlags, EntryNumbers, EntryRecords, LegAccounted, WindowFresh, TargetNext, StageSignal, SentWell, Young, Past
  <2>5. WindowFresh'
    BY <1>4, <1>0, <1>2 DEF TickBegins, tick, EntryFlags, EntryNumbers, EntryRecords, LegAccounted, WindowFresh, TargetNext, StageSignal, SentWell
  <2>6. TargetNext'
    BY <1>4, <1>0, <1>2 DEF TickBegins, tick, EntryFlags, EntryNumbers, EntryRecords, LegAccounted, WindowFresh, TargetNext, StageSignal, SentWell, Young, Past
  <2>7. StageSignal'
    BY <1>4, <1>0, <1>2 DEF TickBegins, tick, EntryFlags, EntryNumbers, EntryRecords, LegAccounted, WindowFresh, TargetNext, StageSignal, SentWell, Young, Past
  <2>8. SentWell'
    BY <1>4, <1>0, <1>2 DEF TickBegins, tick, EntryFlags, EntryNumbers, EntryRecords, LegAccounted, WindowFresh, TargetNext, StageSignal, SentWell, Young, Past, NoOrder
  <2> QED  BY <2>1, <2>2, <2>3, <2>4, <2>5, <2>6, <2>7, <2>8 DEF EntryInv
<1>5. CASE LinkUp
  <2>1. EntryFlags'
    BY <1>5, <1>0, <1>2 DEF LinkUp, Moves, tick, EntryFlags, EntryNumbers, EntryRecords
  <2>2. EntryNumbers'
    BY <1>5, <1>0, <1>2 DEF LinkUp, Moves, tick, EntryFlags, EntryNumbers, EntryRecords, MaxTries
  <2>3. EntryRecords'
    BY <1>5, <1>0, <1>2, RecordTypes DEF LinkUp, Moves, tick, EntryFlags, EntryNumbers, EntryRecords
  <2>4. LegAccounted'
    BY <1>5, <1>0, <1>2 DEF LinkUp, Moves, tick, EntryFlags, EntryNumbers, EntryRecords, LegAccounted, WindowFresh, TargetNext, StageSignal, SentWell, Young, Past
  <2>5. WindowFresh'
    BY <1>5, <1>0, <1>2 DEF LinkUp, Moves, tick, EntryFlags, EntryNumbers, EntryRecords, LegAccounted, WindowFresh, TargetNext, StageSignal, SentWell
  <2>6. TargetNext'
    BY <1>5, <1>0, <1>2 DEF LinkUp, Moves, tick, EntryFlags, EntryNumbers, EntryRecords, LegAccounted, WindowFresh, TargetNext, StageSignal, SentWell, Young, Past
  <2>7. StageSignal'
    BY <1>5, <1>0, <1>2 DEF LinkUp, Moves, tick, EntryFlags, EntryNumbers, EntryRecords, LegAccounted, WindowFresh, TargetNext, StageSignal, SentWell, Young, Past
  <2>8. SentWell'
    BY <1>5, <1>0, <1>2 DEF LinkUp, Moves, tick, EntryFlags, EntryNumbers, EntryRecords, LegAccounted, WindowFresh, TargetNext, StageSignal, SentWell, Young, Past, NoOrder
  <2> QED  BY <2>1, <2>2, <2>3, <2>4, <2>5, <2>6, <2>7, <2>8 DEF EntryInv
<1>6. CASE LinkDown
  <2>1. EntryFlags'
    BY <1>6, <1>0, <1>2 DEF LinkDown, Mishap, Sleeps, tick, EntryFlags, EntryNumbers, EntryRecords
  <2>2. EntryNumbers'
    BY <1>6, <1>0, <1>2 DEF LinkDown, Mishap, Sleeps, tick, EntryFlags, EntryNumbers, EntryRecords, MaxTries
  <2>3. EntryRecords'
    BY <1>6, <1>0, <1>2, RecordTypes DEF LinkDown, Mishap, Sleeps, tick, EntryFlags, EntryNumbers, EntryRecords
  <2>4. LegAccounted'
    BY <1>6, <1>0, <1>2 DEF LinkDown, Mishap, Sleeps, tick, EntryFlags, EntryNumbers, EntryRecords, LegAccounted, WindowFresh, TargetNext, StageSignal, SentWell, Young, Past
  <2>5. WindowFresh'
    BY <1>6, <1>0, <1>2 DEF LinkDown, Mishap, Sleeps, tick, EntryFlags, EntryNumbers, EntryRecords, LegAccounted, WindowFresh, TargetNext, StageSignal, SentWell
  <2>6. TargetNext'
    BY <1>6, <1>0, <1>2 DEF LinkDown, Mishap, Sleeps, tick, EntryFlags, EntryNumbers, EntryRecords, LegAccounted, WindowFresh, TargetNext, StageSignal, SentWell, Young, Past
  <2>7. StageSignal'
    BY <1>6, <1>0, <1>2 DEF LinkDown, Mishap, Sleeps, tick, EntryFlags, EntryNumbers, EntryRecords, LegAccounted, WindowFresh, TargetNext, StageSignal, SentWell, Young, Past
  <2>8. SentWell'
    BY <1>6, <1>0, <1>2 DEF LinkDown, Mishap, Sleeps, tick, EntryFlags, EntryNumbers, EntryRecords, LegAccounted, WindowFresh, TargetNext, StageSignal, SentWell, Young, Past, NoOrder
  <2> QED  BY <2>1, <2>2, <2>3, <2>4, <2>5, <2>6, <2>7, <2>8 DEF EntryInv
<1>7. CASE RealLocked
  <2>1. EntryFlags'
    BY <1>7, <1>0, <1>2 DEF RealLocked, Mishap, Sleeps, LegOutlives, tick, EntryFlags, EntryNumbers, EntryRecords
  <2>2. EntryNumbers'
    BY <1>7, <1>0, <1>2 DEF RealLocked, Mishap, Sleeps, LegOutlives, tick, EntryFlags, EntryNumbers, EntryRecords, MaxTries
  <2>3. EntryRecords'
    BY <1>7, <1>0, <1>2, RecordTypes DEF RealLocked, Mishap, Sleeps, LegOutlives, tick, EntryFlags, EntryNumbers, EntryRecords
  <2>4. LegAccounted'
    BY <1>7, <1>0, <1>2 DEF RealLocked, Mishap, Sleeps, LegOutlives, tick, EntryFlags, EntryNumbers, EntryRecords, LegAccounted, WindowFresh, TargetNext, StageSignal, SentWell, Young, Past
  <2>5. WindowFresh'
    BY <1>7, <1>0, <1>2 DEF RealLocked, Mishap, Sleeps, LegOutlives, tick, EntryFlags, EntryNumbers, EntryRecords, LegAccounted, WindowFresh, TargetNext, StageSignal, SentWell
  <2>6. TargetNext'
    BY <1>7, <1>0, <1>2 DEF RealLocked, Mishap, Sleeps, LegOutlives, tick, EntryFlags, EntryNumbers, EntryRecords, LegAccounted, WindowFresh, TargetNext, StageSignal, SentWell, Young, Past
  <2>7. StageSignal'
    BY <1>7, <1>0, <1>2 DEF RealLocked, Mishap, Sleeps, LegOutlives, tick, EntryFlags, EntryNumbers, EntryRecords, LegAccounted, WindowFresh, TargetNext, StageSignal, SentWell, Young, Past
  <2>8. SentWell'
    BY <1>7, <1>0, <1>2 DEF RealLocked, Mishap, Sleeps, LegOutlives, tick, EntryFlags, EntryNumbers, EntryRecords, LegAccounted, WindowFresh, TargetNext, StageSignal, SentWell, Young, Past, NoOrder
  <2> QED  BY <2>1, <2>2, <2>3, <2>4, <2>5, <2>6, <2>7, <2>8 DEF EntryInv
<1>8. CASE ScanFinds
  <2>1. EntryFlags'
    BY <1>8, <1>0, <1>2 DEF ScanFinds, Moves, tick, EntryFlags, EntryNumbers, EntryRecords
  <2>2. EntryNumbers'
    BY <1>8, <1>0, <1>2 DEF ScanFinds, Moves, tick, EntryFlags, EntryNumbers, EntryRecords, MaxTries
  <2>3. EntryRecords'
    BY <1>8, <1>0, <1>2, RecordTypes DEF ScanFinds, Moves, tick, EntryFlags, EntryNumbers, EntryRecords
  <2>4. LegAccounted'
    BY <1>8, <1>0, <1>2 DEF ScanFinds, Moves, tick, EntryFlags, EntryNumbers, EntryRecords, LegAccounted, WindowFresh, TargetNext, StageSignal, SentWell, Young, Past
  <2>5. WindowFresh'
    BY <1>8, <1>0, <1>2 DEF ScanFinds, Moves, tick, EntryFlags, EntryNumbers, EntryRecords, LegAccounted, WindowFresh, TargetNext, StageSignal, SentWell
  <2>6. TargetNext'
    BY <1>8, <1>0, <1>2 DEF ScanFinds, Moves, tick, EntryFlags, EntryNumbers, EntryRecords, LegAccounted, WindowFresh, TargetNext, StageSignal, SentWell, Young, Past
  <2>7. StageSignal'
    BY <1>8, <1>0, <1>2 DEF ScanFinds, Moves, tick, EntryFlags, EntryNumbers, EntryRecords, LegAccounted, WindowFresh, TargetNext, StageSignal, SentWell, Young, Past
  <2>8. SentWell'
    BY <1>8, <1>0, <1>2 DEF ScanFinds, Moves, tick, EntryFlags, EntryNumbers, EntryRecords, LegAccounted, WindowFresh, TargetNext, StageSignal, SentWell, Young, Past, NoOrder
  <2> QED  BY <2>1, <2>2, <2>3, <2>4, <2>5, <2>6, <2>7, <2>8 DEF EntryInv
<1>9. CASE ScanFindsNothing
  <2>1. EntryFlags'
    BY <1>9, <1>0, <1>2 DEF ScanFindsNothing, Sleeps, tick, EntryFlags, EntryNumbers, EntryRecords
  <2>2. EntryNumbers'
    BY <1>9, <1>0, <1>2 DEF ScanFindsNothing, Sleeps, tick, EntryFlags, EntryNumbers, EntryRecords, MaxTries
  <2>3. EntryRecords'
    BY <1>9, <1>0, <1>2, RecordTypes DEF ScanFindsNothing, Sleeps, tick, EntryFlags, EntryNumbers, EntryRecords
  <2>4. LegAccounted'
    BY <1>9, <1>0, <1>2 DEF ScanFindsNothing, Sleeps, tick, EntryFlags, EntryNumbers, EntryRecords, LegAccounted, WindowFresh, TargetNext, StageSignal, SentWell, Young, Past
  <2>5. WindowFresh'
    BY <1>9, <1>0, <1>2 DEF ScanFindsNothing, Sleeps, tick, EntryFlags, EntryNumbers, EntryRecords, LegAccounted, WindowFresh, TargetNext, StageSignal, SentWell
  <2>6. TargetNext'
    BY <1>9, <1>0, <1>2 DEF ScanFindsNothing, Sleeps, tick, EntryFlags, EntryNumbers, EntryRecords, LegAccounted, WindowFresh, TargetNext, StageSignal, SentWell, Young, Past
  <2>7. StageSignal'
    BY <1>9, <1>0, <1>2 DEF ScanFindsNothing, Sleeps, tick, EntryFlags, EntryNumbers, EntryRecords, LegAccounted, WindowFresh, TargetNext, StageSignal, SentWell, Young, Past
  <2>8. SentWell'
    BY <1>9, <1>0, <1>2 DEF ScanFindsNothing, Sleeps, tick, EntryFlags, EntryNumbers, EntryRecords, LegAccounted, WindowFresh, TargetNext, StageSignal, SentWell, Young, Past, NoOrder
  <2> QED  BY <2>1, <2>2, <2>3, <2>4, <2>5, <2>6, <2>7, <2>8 DEF EntryInv
<1>10. CASE WindowOpens
  <2>1. EntryFlags'
    BY <1>10, <1>0, <1>2 DEF WindowOpens, Moves, tick, EntryFlags, EntryNumbers, EntryRecords
  <2>2. EntryNumbers'
    BY <1>10, <1>0, <1>2 DEF WindowOpens, Moves, tick, EntryFlags, EntryNumbers, EntryRecords, MaxTries
  <2>3. EntryRecords'
    BY <1>10, <1>0, <1>2, RecordTypes DEF WindowOpens, Moves, tick, EntryFlags, EntryNumbers, EntryRecords
  <2>4. LegAccounted'
    BY <1>10, <1>0, <1>2 DEF WindowOpens, Moves, tick, EntryFlags, EntryNumbers, EntryRecords, LegAccounted, WindowFresh, TargetNext, StageSignal, SentWell, Young, Past
  <2>5. WindowFresh'
    BY <1>10, <1>0, <1>2 DEF WindowOpens, Moves, tick, EntryFlags, EntryNumbers, EntryRecords, LegAccounted, WindowFresh, TargetNext, StageSignal, SentWell
  <2>6. TargetNext'
    BY <1>10, <1>0, <1>2 DEF WindowOpens, Moves, tick, EntryFlags, EntryNumbers, EntryRecords, LegAccounted, WindowFresh, TargetNext, StageSignal, SentWell, Young, Past
  <2>7. StageSignal'
    BY <1>10, <1>0, <1>2 DEF WindowOpens, Moves, tick, EntryFlags, EntryNumbers, EntryRecords, LegAccounted, WindowFresh, TargetNext, StageSignal, SentWell, Young, Past
  <2>8. SentWell'
    BY <1>10, <1>0, <1>2 DEF WindowOpens, Moves, tick, EntryFlags, EntryNumbers, EntryRecords, LegAccounted, WindowFresh, TargetNext, StageSignal, SentWell, Young, Past, NoOrder
  <2> QED  BY <2>1, <2>2, <2>3, <2>4, <2>5, <2>6, <2>7, <2>8 DEF EntryInv
<1>11. CASE EntryScheduled
  <2>1. EntryFlags'
    BY <1>11, <1>0, <1>2 DEF EntryScheduled, Waits, Sleeps, tick, EntryFlags, EntryNumbers, EntryRecords
  <2>2. EntryNumbers'
    BY <1>11, <1>0, <1>2 DEF EntryScheduled, Waits, Sleeps, tick, EntryFlags, EntryNumbers, EntryRecords, MaxTries
  <2>3. EntryRecords'
    BY <1>11, <1>0, <1>2, RecordTypes DEF EntryScheduled, Waits, Sleeps, tick, EntryFlags, EntryNumbers, EntryRecords
  <2>4. LegAccounted'
    BY <1>11, <1>0, <1>2 DEF EntryScheduled, Waits, Sleeps, tick, EntryFlags, EntryNumbers, EntryRecords, LegAccounted, WindowFresh, TargetNext, StageSignal, SentWell, Young, Past
  <2>5. WindowFresh'
    BY <1>11, <1>0, <1>2 DEF EntryScheduled, Waits, Sleeps, tick, EntryFlags, EntryNumbers, EntryRecords, LegAccounted, WindowFresh, TargetNext, StageSignal, SentWell
  <2>6. TargetNext'
    BY <1>11, <1>0, <1>2 DEF EntryScheduled, Waits, Sleeps, tick, EntryFlags, EntryNumbers, EntryRecords, LegAccounted, WindowFresh, TargetNext, StageSignal, SentWell, Young, Past
  <2>7. StageSignal'
    BY <1>11, <1>0, <1>2 DEF EntryScheduled, Waits, Sleeps, tick, EntryFlags, EntryNumbers, EntryRecords, LegAccounted, WindowFresh, TargetNext, StageSignal, SentWell, Young, Past
  <2>8. SentWell'
    BY <1>11, <1>0, <1>2 DEF EntryScheduled, Waits, Sleeps, tick, EntryFlags, EntryNumbers, EntryRecords, LegAccounted, WindowFresh, TargetNext, StageSignal, SentWell, Young, Past, NoOrder
  <2> QED  BY <2>1, <2>2, <2>3, <2>4, <2>5, <2>6, <2>7, <2>8 DEF EntryInv
<1>12. CASE EntryWaits
  <2>1. EntryFlags'
    BY <1>12, <1>0, <1>2 DEF EntryWaits, Waits, Sleeps, tick, EntryFlags, EntryNumbers, EntryRecords
  <2>2. EntryNumbers'
    BY <1>12, <1>0, <1>2 DEF EntryWaits, Waits, Sleeps, tick, EntryFlags, EntryNumbers, EntryRecords, MaxTries
  <2>3. EntryRecords'
    BY <1>12, <1>0, <1>2, RecordTypes DEF EntryWaits, Waits, Sleeps, tick, EntryFlags, EntryNumbers, EntryRecords
  <2>4. LegAccounted'
    BY <1>12, <1>0, <1>2 DEF EntryWaits, Waits, Sleeps, tick, EntryFlags, EntryNumbers, EntryRecords, LegAccounted, WindowFresh, TargetNext, StageSignal, SentWell, Young, Past
  <2>5. WindowFresh'
    BY <1>12, <1>0, <1>2 DEF EntryWaits, Waits, Sleeps, tick, EntryFlags, EntryNumbers, EntryRecords, LegAccounted, WindowFresh, TargetNext, StageSignal, SentWell
  <2>6. TargetNext'
    BY <1>12, <1>0, <1>2 DEF EntryWaits, Waits, Sleeps, tick, EntryFlags, EntryNumbers, EntryRecords, LegAccounted, WindowFresh, TargetNext, StageSignal, SentWell, Young, Past
  <2>7. StageSignal'
    BY <1>12, <1>0, <1>2 DEF EntryWaits, Waits, Sleeps, tick, EntryFlags, EntryNumbers, EntryRecords, LegAccounted, WindowFresh, TargetNext, StageSignal, SentWell, Young, Past
  <2>8. SentWell'
    BY <1>12, <1>0, <1>2 DEF EntryWaits, Waits, Sleeps, tick, EntryFlags, EntryNumbers, EntryRecords, LegAccounted, WindowFresh, TargetNext, StageSignal, SentWell, Young, Past, NoOrder
  <2> QED  BY <2>1, <2>2, <2>3, <2>4, <2>5, <2>6, <2>7, <2>8 DEF EntryInv
<1>13. CASE EntryMissed
  <2>1. EntryFlags'
    BY <1>13, <1>0, <1>2 DEF EntryMissed, Missed, ExpirePendingSignal, Sleeps, Forget, tick, EntryFlags, EntryNumbers, EntryRecords
  <2>2. EntryNumbers'
    BY <1>13, <1>0, <1>2 DEF EntryMissed, Missed, ExpirePendingSignal, Sleeps, Forget, tick, EntryFlags, EntryNumbers, EntryRecords, MaxTries
  <2>3. EntryRecords'
    BY <1>13, <1>0, <1>2, RecordTypes DEF EntryMissed, Missed, ExpirePendingSignal, Sleeps, Forget, tick, EntryFlags, EntryNumbers, EntryRecords
  <2>4. LegAccounted'
    BY <1>13, <1>0, <1>2 DEF EntryMissed, Missed, ExpirePendingSignal, Sleeps, Forget, tick, EntryFlags, EntryNumbers, EntryRecords, LegAccounted, WindowFresh, TargetNext, StageSignal, SentWell, Young, Past
  <2>5. WindowFresh'
    BY <1>13, <1>0, <1>2 DEF EntryMissed, Missed, ExpirePendingSignal, Sleeps, Forget, tick, EntryFlags, EntryNumbers, EntryRecords, LegAccounted, WindowFresh, TargetNext, StageSignal, SentWell
  <2>6. TargetNext'
    BY <1>13, <1>0, <1>2 DEF EntryMissed, Missed, ExpirePendingSignal, Sleeps, Forget, tick, EntryFlags, EntryNumbers, EntryRecords, LegAccounted, WindowFresh, TargetNext, StageSignal, SentWell, Young, Past
  <2>7. StageSignal'
    BY <1>13, <1>0, <1>2 DEF EntryMissed, Missed, ExpirePendingSignal, Sleeps, Forget, tick, EntryFlags, EntryNumbers, EntryRecords, LegAccounted, WindowFresh, TargetNext, StageSignal, SentWell, Young, Past
  <2>8. SentWell'
    BY <1>13, <1>0, <1>2 DEF EntryMissed, Missed, ExpirePendingSignal, Sleeps, Forget, tick, EntryFlags, EntryNumbers, EntryRecords, LegAccounted, WindowFresh, TargetNext, StageSignal, SentWell, Young, Past, NoOrder
  <2> QED  BY <2>1, <2>2, <2>3, <2>4, <2>5, <2>6, <2>7, <2>8 DEF EntryInv
<1>14. CASE CandidateVetoed
  <2>1. EntryFlags'
    BY <1>14, <1>0, <1>2 DEF CandidateVetoed, Moves, tick, EntryFlags, EntryNumbers, EntryRecords
  <2>2. EntryNumbers'
    BY <1>14, <1>0, <1>2 DEF CandidateVetoed, Moves, tick, EntryFlags, EntryNumbers, EntryRecords, MaxTries
  <2>3. EntryRecords'
    BY <1>14, <1>0, <1>2, RecordTypes DEF CandidateVetoed, Moves, tick, EntryFlags, EntryNumbers, EntryRecords
  <2>4. LegAccounted'
    BY <1>14, <1>0, <1>2 DEF CandidateVetoed, Moves, tick, EntryFlags, EntryNumbers, EntryRecords, LegAccounted, WindowFresh, TargetNext, StageSignal, SentWell, Young, Past
  <2>5. WindowFresh'
    BY <1>14, <1>0, <1>2 DEF CandidateVetoed, Moves, tick, EntryFlags, EntryNumbers, EntryRecords, LegAccounted, WindowFresh, TargetNext, StageSignal, SentWell
  <2>6. TargetNext'
    BY <1>14, <1>0, <1>2 DEF CandidateVetoed, Moves, tick, EntryFlags, EntryNumbers, EntryRecords, LegAccounted, WindowFresh, TargetNext, StageSignal, SentWell, Young, Past
  <2>7. StageSignal'
    BY <1>14, <1>0, <1>2 DEF CandidateVetoed, Moves, tick, EntryFlags, EntryNumbers, EntryRecords, LegAccounted, WindowFresh, TargetNext, StageSignal, SentWell, Young, Past
  <2>8. SentWell'
    BY <1>14, <1>0, <1>2 DEF CandidateVetoed, Moves, tick, EntryFlags, EntryNumbers, EntryRecords, LegAccounted, WindowFresh, TargetNext, StageSignal, SentWell, Young, Past, NoOrder
  <2> QED  BY <2>1, <2>2, <2>3, <2>4, <2>5, <2>6, <2>7, <2>8 DEF EntryInv
<1>15. CASE SignalVetoed
  <2>1. EntryFlags'
    BY <1>15, <1>0, <1>2 DEF SignalVetoed, Sleeps, Forget, tick, EntryFlags, EntryNumbers, EntryRecords
  <2>2. EntryNumbers'
    BY <1>15, <1>0, <1>2 DEF SignalVetoed, Sleeps, Forget, tick, EntryFlags, EntryNumbers, EntryRecords, MaxTries
  <2>3. EntryRecords'
    BY <1>15, <1>0, <1>2, RecordTypes DEF SignalVetoed, Sleeps, Forget, tick, EntryFlags, EntryNumbers, EntryRecords
  <2>4. LegAccounted'
    BY <1>15, <1>0, <1>2 DEF SignalVetoed, Sleeps, Forget, tick, EntryFlags, EntryNumbers, EntryRecords, LegAccounted, WindowFresh, TargetNext, StageSignal, SentWell, Young, Past
  <2>5. WindowFresh'
    BY <1>15, <1>0, <1>2 DEF SignalVetoed, Sleeps, Forget, tick, EntryFlags, EntryNumbers, EntryRecords, LegAccounted, WindowFresh, TargetNext, StageSignal, SentWell
  <2>6. TargetNext'
    BY <1>15, <1>0, <1>2 DEF SignalVetoed, Sleeps, Forget, tick, EntryFlags, EntryNumbers, EntryRecords, LegAccounted, WindowFresh, TargetNext, StageSignal, SentWell, Young, Past
  <2>7. StageSignal'
    BY <1>15, <1>0, <1>2 DEF SignalVetoed, Sleeps, Forget, tick, EntryFlags, EntryNumbers, EntryRecords, LegAccounted, WindowFresh, TargetNext, StageSignal, SentWell, Young, Past
  <2>8. SentWell'
    BY <1>15, <1>0, <1>2 DEF SignalVetoed, Sleeps, Forget, tick, EntryFlags, EntryNumbers, EntryRecords, LegAccounted, WindowFresh, TargetNext, StageSignal, SentWell, Young, Past, NoOrder
  <2> QED  BY <2>1, <2>2, <2>3, <2>4, <2>5, <2>6, <2>7, <2>8 DEF EntryInv
<1>16. CASE TriesExhausted
  <2>1. EntryFlags'
    BY <1>16, <1>0, <1>2 DEF TriesExhausted, RejectOrder, Sleeps, Forget, tick, EntryFlags, EntryNumbers, EntryRecords
  <2>2. EntryNumbers'
    BY <1>16, <1>0, <1>2 DEF TriesExhausted, RejectOrder, Sleeps, Forget, tick, EntryFlags, EntryNumbers, EntryRecords, MaxTries
  <2>3. EntryRecords'
    BY <1>16, <1>0, <1>2, RecordTypes DEF TriesExhausted, RejectOrder, Sleeps, Forget, tick, EntryFlags, EntryNumbers, EntryRecords
  <2>4. LegAccounted'
    BY <1>16, <1>0, <1>2 DEF TriesExhausted, RejectOrder, Sleeps, Forget, tick, EntryFlags, EntryNumbers, EntryRecords, LegAccounted, WindowFresh, TargetNext, StageSignal, SentWell, Young, Past
  <2>5. WindowFresh'
    BY <1>16, <1>0, <1>2 DEF TriesExhausted, RejectOrder, Sleeps, Forget, tick, EntryFlags, EntryNumbers, EntryRecords, LegAccounted, WindowFresh, TargetNext, StageSignal, SentWell
  <2>6. TargetNext'
    BY <1>16, <1>0, <1>2 DEF TriesExhausted, RejectOrder, Sleeps, Forget, tick, EntryFlags, EntryNumbers, EntryRecords, LegAccounted, WindowFresh, TargetNext, StageSignal, SentWell, Young, Past
  <2>7. StageSignal'
    BY <1>16, <1>0, <1>2 DEF TriesExhausted, RejectOrder, Sleeps, Forget, tick, EntryFlags, EntryNumbers, EntryRecords, LegAccounted, WindowFresh, TargetNext, StageSignal, SentWell, Young, Past
  <2>8. SentWell'
    BY <1>16, <1>0, <1>2 DEF TriesExhausted, RejectOrder, Sleeps, Forget, tick, EntryFlags, EntryNumbers, EntryRecords, LegAccounted, WindowFresh, TargetNext, StageSignal, SentWell, Young, Past, NoOrder
  <2> QED  BY <2>1, <2>2, <2>3, <2>4, <2>5, <2>6, <2>7, <2>8 DEF EntryInv
<1>17. CASE OrderUnpayable
  <2>1. EntryFlags'
    BY <1>17, <1>0, <1>2 DEF OrderUnpayable, Sleeps, Forget, tick, EntryFlags, EntryNumbers, EntryRecords
  <2>2. EntryNumbers'
    BY <1>17, <1>0, <1>2 DEF OrderUnpayable, Sleeps, Forget, tick, EntryFlags, EntryNumbers, EntryRecords, MaxTries
  <2>3. EntryRecords'
    BY <1>17, <1>0, <1>2, RecordTypes DEF OrderUnpayable, Sleeps, Forget, tick, EntryFlags, EntryNumbers, EntryRecords
  <2>4. LegAccounted'
    BY <1>17, <1>0, <1>2 DEF OrderUnpayable, Sleeps, Forget, tick, EntryFlags, EntryNumbers, EntryRecords, LegAccounted, WindowFresh, TargetNext, StageSignal, SentWell, Young, Past
  <2>5. WindowFresh'
    BY <1>17, <1>0, <1>2 DEF OrderUnpayable, Sleeps, Forget, tick, EntryFlags, EntryNumbers, EntryRecords, LegAccounted, WindowFresh, TargetNext, StageSignal, SentWell
  <2>6. TargetNext'
    BY <1>17, <1>0, <1>2 DEF OrderUnpayable, Sleeps, Forget, tick, EntryFlags, EntryNumbers, EntryRecords, LegAccounted, WindowFresh, TargetNext, StageSignal, SentWell, Young, Past
  <2>7. StageSignal'
    BY <1>17, <1>0, <1>2 DEF OrderUnpayable, Sleeps, Forget, tick, EntryFlags, EntryNumbers, EntryRecords, LegAccounted, WindowFresh, TargetNext, StageSignal, SentWell, Young, Past
  <2>8. SentWell'
    BY <1>17, <1>0, <1>2 DEF OrderUnpayable, Sleeps, Forget, tick, EntryFlags, EntryNumbers, EntryRecords, LegAccounted, WindowFresh, TargetNext, StageSignal, SentWell, Young, Past, NoOrder
  <2> QED  BY <2>1, <2>2, <2>3, <2>4, <2>5, <2>6, <2>7, <2>8 DEF EntryInv
<1>18. CASE SentTooLate
  <2>1. EntryFlags'
    BY <1>18, <1>0, <1>2 DEF SentTooLate, ExpirePendingSignal, Sleeps, Forget, tick, EntryFlags, EntryNumbers, EntryRecords
  <2>2. EntryNumbers'
    BY <1>18, <1>0, <1>2 DEF SentTooLate, ExpirePendingSignal, Sleeps, Forget, tick, EntryFlags, EntryNumbers, EntryRecords, MaxTries
  <2>3. EntryRecords'
    BY <1>18, <1>0, <1>2, RecordTypes DEF SentTooLate, ExpirePendingSignal, Sleeps, Forget, tick, EntryFlags, EntryNumbers, EntryRecords
  <2>4. LegAccounted'
    BY <1>18, <1>0, <1>2 DEF SentTooLate, ExpirePendingSignal, Sleeps, Forget, tick, EntryFlags, EntryNumbers, EntryRecords, LegAccounted, WindowFresh, TargetNext, StageSignal, SentWell, Young, Past
  <2>5. WindowFresh'
    BY <1>18, <1>0, <1>2 DEF SentTooLate, ExpirePendingSignal, Sleeps, Forget, tick, EntryFlags, EntryNumbers, EntryRecords, LegAccounted, WindowFresh, TargetNext, StageSignal, SentWell
  <2>6. TargetNext'
    BY <1>18, <1>0, <1>2 DEF SentTooLate, ExpirePendingSignal, Sleeps, Forget, tick, EntryFlags, EntryNumbers, EntryRecords, LegAccounted, WindowFresh, TargetNext, StageSignal, SentWell, Young, Past
  <2>7. StageSignal'
    BY <1>18, <1>0, <1>2 DEF SentTooLate, ExpirePendingSignal, Sleeps, Forget, tick, EntryFlags, EntryNumbers, EntryRecords, LegAccounted, WindowFresh, TargetNext, StageSignal, SentWell, Young, Past
  <2>8. SentWell'
    BY <1>18, <1>0, <1>2 DEF SentTooLate, ExpirePendingSignal, Sleeps, Forget, tick, EntryFlags, EntryNumbers, EntryRecords, LegAccounted, WindowFresh, TargetNext, StageSignal, SentWell, Young, Past, NoOrder
  <2> QED  BY <2>1, <2>2, <2>3, <2>4, <2>5, <2>6, <2>7, <2>8 DEF EntryInv
<1>19. CASE Send
  <2>1. EntryFlags'
    BY <1>19, <1>0, <1>2 DEF Send, tick, EntryFlags, EntryNumbers, EntryRecords, SentOrder
  <2>2. EntryNumbers'
    BY <1>19, <1>0, <1>2 DEF Send, tick, EntryFlags, EntryNumbers, EntryRecords, MaxTries, SentOrder
  <2>3. EntryRecords'
    BY <1>19, <1>0, <1>2, RecordTypes DEF Send, tick, EntryFlags, EntryNumbers, EntryRecords, SentOrder
  <2>4. LegAccounted'
    BY <1>19, <1>0, <1>2 DEF Send, tick, EntryFlags, EntryNumbers, EntryRecords, LegAccounted, WindowFresh, TargetNext, StageSignal, SentWell, Young, Past
  <2>5. WindowFresh'
    BY <1>19, <1>0, <1>2 DEF Send, tick, EntryFlags, EntryNumbers, EntryRecords, LegAccounted, WindowFresh, TargetNext, StageSignal, SentWell
  <2>6. TargetNext'
    BY <1>19, <1>0, <1>2 DEF Send, tick, EntryFlags, EntryNumbers, EntryRecords, LegAccounted, WindowFresh, TargetNext, StageSignal, SentWell, Young, Past
  <2>7. StageSignal'
    BY <1>19, <1>0, <1>2 DEF Send, tick, EntryFlags, EntryNumbers, EntryRecords, LegAccounted, WindowFresh, TargetNext, StageSignal, SentWell, Young, Past
  <2>8. SentWell'
    BY <1>19, <1>0, <1>2 DEF Send, tick, EntryFlags, EntryNumbers, EntryRecords, LegAccounted, WindowFresh, TargetNext, StageSignal, SentWell, Young, Past, NoOrder
  <2> QED  BY <2>1, <2>2, <2>3, <2>4, <2>5, <2>6, <2>7, <2>8 DEF EntryInv
<1>20. CASE BrokerAccepts
  <2>1. EntryFlags'
    BY <1>20, <1>0, <1>2 DEF BrokerAccepts, Sleeps, Forget, tick, EntryFlags, EntryNumbers, EntryRecords
  <2>2. EntryNumbers'
    BY <1>20, <1>0, <1>2 DEF BrokerAccepts, Sleeps, Forget, tick, EntryFlags, EntryNumbers, EntryRecords, MaxTries
  <2>3. EntryRecords'
    BY <1>20, <1>0, <1>2, RecordTypes DEF BrokerAccepts, Sleeps, Forget, tick, EntryFlags, EntryNumbers, EntryRecords
  <2>4. LegAccounted'
    BY <1>20, <1>0, <1>2 DEF BrokerAccepts, Sleeps, Forget, tick, EntryFlags, EntryNumbers, EntryRecords, LegAccounted, WindowFresh, TargetNext, StageSignal, SentWell, Young, Past
  <2>5. WindowFresh'
    BY <1>20, <1>0, <1>2 DEF BrokerAccepts, Sleeps, Forget, tick, EntryFlags, EntryNumbers, EntryRecords, LegAccounted, WindowFresh, TargetNext, StageSignal, SentWell
  <2>6. TargetNext'
    BY <1>20, <1>0, <1>2 DEF BrokerAccepts, Sleeps, Forget, tick, EntryFlags, EntryNumbers, EntryRecords, LegAccounted, WindowFresh, TargetNext, StageSignal, SentWell, Young, Past
  <2>7. StageSignal'
    BY <1>20, <1>0, <1>2 DEF BrokerAccepts, Sleeps, Forget, tick, EntryFlags, EntryNumbers, EntryRecords, LegAccounted, WindowFresh, TargetNext, StageSignal, SentWell, Young, Past
  <2>8. SentWell'
    BY <1>20, <1>0, <1>2 DEF BrokerAccepts, Sleeps, Forget, tick, EntryFlags, EntryNumbers, EntryRecords, LegAccounted, WindowFresh, TargetNext, StageSignal, SentWell, Young, Past, NoOrder
  <2> QED  BY <2>1, <2>2, <2>3, <2>4, <2>5, <2>6, <2>7, <2>8 DEF EntryInv
<1>21. CASE BrokerLacksAsset
  <2>1. EntryFlags'
    BY <1>21, <1>0, <1>2 DEF BrokerLacksAsset, Mishap, tick, EntryFlags, EntryNumbers, EntryRecords
  <2>2. EntryNumbers'
    BY <1>21, <1>0, <1>2 DEF BrokerLacksAsset, Mishap, tick, EntryFlags, EntryNumbers, EntryRecords, MaxTries
  <2>3. EntryRecords'
    BY <1>21, <1>0, <1>2, RecordTypes DEF BrokerLacksAsset, Mishap, tick, EntryFlags, EntryNumbers, EntryRecords
  <2>4. LegAccounted'
    BY <1>21, <1>0, <1>2 DEF BrokerLacksAsset, Mishap, tick, EntryFlags, EntryNumbers, EntryRecords, LegAccounted, WindowFresh, TargetNext, StageSignal, SentWell, Young, Past
  <2>5. WindowFresh'
    BY <1>21, <1>0, <1>2 DEF BrokerLacksAsset, Mishap, tick, EntryFlags, EntryNumbers, EntryRecords, LegAccounted, WindowFresh, TargetNext, StageSignal, SentWell
  <2>6. TargetNext'
    BY <1>21, <1>0, <1>2 DEF BrokerLacksAsset, Mishap, tick, EntryFlags, EntryNumbers, EntryRecords, LegAccounted, WindowFresh, TargetNext, StageSignal, SentWell, Young, Past
  <2>7. StageSignal'
    BY <1>21, <1>0, <1>2 DEF BrokerLacksAsset, Mishap, tick, EntryFlags, EntryNumbers, EntryRecords, LegAccounted, WindowFresh, TargetNext, StageSignal, SentWell, Young, Past
  <2>8. SentWell'
    BY <1>21, <1>0, <1>2 DEF BrokerLacksAsset, Mishap, tick, EntryFlags, EntryNumbers, EntryRecords, LegAccounted, WindowFresh, TargetNext, StageSignal, SentWell, Young, Past, NoOrder
  <2> QED  BY <2>1, <2>2, <2>3, <2>4, <2>5, <2>6, <2>7, <2>8 DEF EntryInv
<1>22. CASE BrokerRefuses
  <2>1. EntryFlags'
    BY <1>22, <1>0, <1>2 DEF BrokerRefuses, Mishap, RejectOrder, Sleeps, Forget, tick, EntryFlags, EntryNumbers, EntryRecords
  <2>2. EntryNumbers'
    BY <1>22, <1>0, <1>2 DEF BrokerRefuses, Mishap, RejectOrder, Sleeps, Forget, tick, EntryFlags, EntryNumbers, EntryRecords, MaxTries
  <2>3. EntryRecords'
    BY <1>22, <1>0, <1>2, RecordTypes DEF BrokerRefuses, Mishap, RejectOrder, Sleeps, Forget, tick, EntryFlags, EntryNumbers, EntryRecords
  <2>4. LegAccounted'
    BY <1>22, <1>0, <1>2 DEF BrokerRefuses, Mishap, RejectOrder, Sleeps, Forget, tick, EntryFlags, EntryNumbers, EntryRecords, LegAccounted, WindowFresh, TargetNext, StageSignal, SentWell, Young, Past
  <2>5. WindowFresh'
    BY <1>22, <1>0, <1>2 DEF BrokerRefuses, Mishap, RejectOrder, Sleeps, Forget, tick, EntryFlags, EntryNumbers, EntryRecords, LegAccounted, WindowFresh, TargetNext, StageSignal, SentWell
  <2>6. TargetNext'
    BY <1>22, <1>0, <1>2 DEF BrokerRefuses, Mishap, RejectOrder, Sleeps, Forget, tick, EntryFlags, EntryNumbers, EntryRecords, LegAccounted, WindowFresh, TargetNext, StageSignal, SentWell, Young, Past
  <2>7. StageSignal'
    BY <1>22, <1>0, <1>2 DEF BrokerRefuses, Mishap, RejectOrder, Sleeps, Forget, tick, EntryFlags, EntryNumbers, EntryRecords, LegAccounted, WindowFresh, TargetNext, StageSignal, SentWell, Young, Past
  <2>8. SentWell'
    BY <1>22, <1>0, <1>2 DEF BrokerRefuses, Mishap, RejectOrder, Sleeps, Forget, tick, EntryFlags, EntryNumbers, EntryRecords, LegAccounted, WindowFresh, TargetNext, StageSignal, SentWell, Young, Past, NoOrder
  <2> QED  BY <2>1, <2>2, <2>3, <2>4, <2>5, <2>6, <2>7, <2>8 DEF EntryInv
<1>23. CASE OrderWon
  <2>1. EntryFlags'
    BY <1>23, <1>0, <1>2 DEF OrderWon, tick, EntryFlags, EntryNumbers, EntryRecords
  <2>2. EntryNumbers'
    BY <1>23, <1>0, <1>2 DEF OrderWon, tick, EntryFlags, EntryNumbers, EntryRecords, MaxTries
  <2>3. EntryRecords'
    BY <1>23, <1>0, <1>2, RecordTypes DEF OrderWon, tick, EntryFlags, EntryNumbers, EntryRecords
  <2>4. LegAccounted'
    BY <1>23, <1>0, <1>2 DEF OrderWon, tick, EntryFlags, EntryNumbers, EntryRecords, LegAccounted, WindowFresh, TargetNext, StageSignal, SentWell, Young, Past
  <2>5. WindowFresh'
    BY <1>23, <1>0, <1>2 DEF OrderWon, tick, EntryFlags, EntryNumbers, EntryRecords, LegAccounted, WindowFresh, TargetNext, StageSignal, SentWell
  <2>6. TargetNext'
    BY <1>23, <1>0, <1>2 DEF OrderWon, tick, EntryFlags, EntryNumbers, EntryRecords, LegAccounted, WindowFresh, TargetNext, StageSignal, SentWell, Young, Past
  <2>7. StageSignal'
    BY <1>23, <1>0, <1>2 DEF OrderWon, tick, EntryFlags, EntryNumbers, EntryRecords, LegAccounted, WindowFresh, TargetNext, StageSignal, SentWell, Young, Past
  <2>8. SentWell'
    BY <1>23, <1>0, <1>2 DEF OrderWon, tick, EntryFlags, EntryNumbers, EntryRecords, LegAccounted, WindowFresh, TargetNext, StageSignal, SentWell, Young, Past, NoOrder
  <2> QED  BY <2>1, <2>2, <2>3, <2>4, <2>5, <2>6, <2>7, <2>8 DEF EntryInv
<1>24. CASE OrderLost
  <2>1. EntryFlags'
    BY <1>24, <1>0, <1>2 DEF OrderLost, tick, EntryFlags, EntryNumbers, EntryRecords
  <2>2. EntryNumbers'
    BY <1>24, <1>0, <1>2 DEF OrderLost, tick, EntryFlags, EntryNumbers, EntryRecords, MaxTries
  <2>3. EntryRecords'
    BY <1>24, <1>0, <1>2, RecordTypes DEF OrderLost, tick, EntryFlags, EntryNumbers, EntryRecords
  <2>4. LegAccounted'
    BY <1>24, <1>0, <1>2 DEF OrderLost, tick, EntryFlags, EntryNumbers, EntryRecords, LegAccounted, WindowFresh, TargetNext, StageSignal, SentWell, Young, Past
  <2>5. WindowFresh'
    BY <1>24, <1>0, <1>2 DEF OrderLost, tick, EntryFlags, EntryNumbers, EntryRecords, LegAccounted, WindowFresh, TargetNext, StageSignal, SentWell
  <2>6. TargetNext'
    BY <1>24, <1>0, <1>2 DEF OrderLost, tick, EntryFlags, EntryNumbers, EntryRecords, LegAccounted, WindowFresh, TargetNext, StageSignal, SentWell, Young, Past
  <2>7. StageSignal'
    BY <1>24, <1>0, <1>2 DEF OrderLost, tick, EntryFlags, EntryNumbers, EntryRecords, LegAccounted, WindowFresh, TargetNext, StageSignal, SentWell, Young, Past
  <2>8. SentWell'
    BY <1>24, <1>0, <1>2 DEF OrderLost, tick, EntryFlags, EntryNumbers, EntryRecords, LegAccounted, WindowFresh, TargetNext, StageSignal, SentWell, Young, Past, NoOrder
  <2> QED  BY <2>1, <2>2, <2>3, <2>4, <2>5, <2>6, <2>7, <2>8 DEF EntryInv
<1>25. CASE RecoverAnalysisError
  <2>1. EntryFlags'
    BY <1>25, <1>0, <1>2 DEF RecoverAnalysisError, Mishap, Sleeps, LegOutlives, tick, EntryFlags, EntryNumbers, EntryRecords
  <2>2. EntryNumbers'
    BY <1>25, <1>0, <1>2 DEF RecoverAnalysisError, Mishap, Sleeps, LegOutlives, tick, EntryFlags, EntryNumbers, EntryRecords, MaxTries
  <2>3. EntryRecords'
    BY <1>25, <1>0, <1>2, RecordTypes DEF RecoverAnalysisError, Mishap, Sleeps, LegOutlives, tick, EntryFlags, EntryNumbers, EntryRecords
  <2>4. LegAccounted'
    BY <1>25, <1>0, <1>2 DEF RecoverAnalysisError, Mishap, Sleeps, LegOutlives, tick, EntryFlags, EntryNumbers, EntryRecords, LegAccounted, WindowFresh, TargetNext, StageSignal, SentWell, Young, Past
  <2>5. WindowFresh'
    BY <1>25, <1>0, <1>2 DEF RecoverAnalysisError, Mishap, Sleeps, LegOutlives, tick, EntryFlags, EntryNumbers, EntryRecords, LegAccounted, WindowFresh, TargetNext, StageSignal, SentWell
  <2>6. TargetNext'
    BY <1>25, <1>0, <1>2 DEF RecoverAnalysisError, Mishap, Sleeps, LegOutlives, tick, EntryFlags, EntryNumbers, EntryRecords, LegAccounted, WindowFresh, TargetNext, StageSignal, SentWell, Young, Past
  <2>7. StageSignal'
    BY <1>25, <1>0, <1>2 DEF RecoverAnalysisError, Mishap, Sleeps, LegOutlives, tick, EntryFlags, EntryNumbers, EntryRecords, LegAccounted, WindowFresh, TargetNext, StageSignal, SentWell, Young, Past
  <2>8. SentWell'
    BY <1>25, <1>0, <1>2 DEF RecoverAnalysisError, Mishap, Sleeps, LegOutlives, tick, EntryFlags, EntryNumbers, EntryRecords, LegAccounted, WindowFresh, TargetNext, StageSignal, SentWell, Young, Past, NoOrder
  <2> QED  BY <2>1, <2>2, <2>3, <2>4, <2>5, <2>6, <2>7, <2>8 DEF EntryInv
<1>26. CASE CycleTimesOut
  <2>1. EntryFlags'
    BY <1>26, <1>0, <1>2 DEF CycleTimesOut, Sleeps, tick, EntryFlags, EntryNumbers, EntryRecords
  <2>2. EntryNumbers'
    BY <1>26, <1>0, <1>2 DEF CycleTimesOut, Sleeps, tick, EntryFlags, EntryNumbers, EntryRecords, MaxTries
  <2>3. EntryRecords'
    BY <1>26, <1>0, <1>2, RecordTypes DEF CycleTimesOut, Sleeps, tick, EntryFlags, EntryNumbers, EntryRecords
  <2>4. LegAccounted'
    BY <1>26, <1>0, <1>2 DEF CycleTimesOut, Sleeps, tick, EntryFlags, EntryNumbers, EntryRecords, LegAccounted, WindowFresh, TargetNext, StageSignal, SentWell, Young, Past
  <2>5. WindowFresh'
    BY <1>26, <1>0, <1>2 DEF CycleTimesOut, Sleeps, tick, EntryFlags, EntryNumbers, EntryRecords, LegAccounted, WindowFresh, TargetNext, StageSignal, SentWell
  <2>6. TargetNext'
    BY <1>26, <1>0, <1>2 DEF CycleTimesOut, Sleeps, tick, EntryFlags, EntryNumbers, EntryRecords, LegAccounted, WindowFresh, TargetNext, StageSignal, SentWell, Young, Past
  <2>7. StageSignal'
    BY <1>26, <1>0, <1>2 DEF CycleTimesOut, Sleeps, tick, EntryFlags, EntryNumbers, EntryRecords, LegAccounted, WindowFresh, TargetNext, StageSignal, SentWell, Young, Past
  <2>8. SentWell'
    BY <1>26, <1>0, <1>2 DEF CycleTimesOut, Sleeps, tick, EntryFlags, EntryNumbers, EntryRecords, LegAccounted, WindowFresh, TargetNext, StageSignal, SentWell, Young, Past, NoOrder
  <2> QED  BY <2>1, <2>2, <2>3, <2>4, <2>5, <2>6, <2>7, <2>8 DEF EntryInv
<1>27. CASE RobotStops
  <2>1. EntryFlags'
    BY <1>27, <1>0, <1>2 DEF RobotStops, Mishap, Sleeps, Forget, tick, EntryFlags, EntryNumbers, EntryRecords
  <2>2. EntryNumbers'
    BY <1>27, <1>0, <1>2 DEF RobotStops, Mishap, Sleeps, Forget, tick, EntryFlags, EntryNumbers, EntryRecords, MaxTries
  <2>3. EntryRecords'
    BY <1>27, <1>0, <1>2, RecordTypes DEF RobotStops, Mishap, Sleeps, Forget, tick, EntryFlags, EntryNumbers, EntryRecords
  <2>4. LegAccounted'
    BY <1>27, <1>0, <1>2 DEF RobotStops, Mishap, Sleeps, Forget, tick, EntryFlags, EntryNumbers, EntryRecords, LegAccounted, WindowFresh, TargetNext, StageSignal, SentWell, Young, Past
  <2>5. WindowFresh'
    BY <1>27, <1>0, <1>2 DEF RobotStops, Mishap, Sleeps, Forget, tick, EntryFlags, EntryNumbers, EntryRecords, LegAccounted, WindowFresh, TargetNext, StageSignal, SentWell
  <2>6. TargetNext'
    BY <1>27, <1>0, <1>2 DEF RobotStops, Mishap, Sleeps, Forget, tick, EntryFlags, EntryNumbers, EntryRecords, LegAccounted, WindowFresh, TargetNext, StageSignal, SentWell, Young, Past
  <2>7. StageSignal'
    BY <1>27, <1>0, <1>2 DEF RobotStops, Mishap, Sleeps, Forget, tick, EntryFlags, EntryNumbers, EntryRecords, LegAccounted, WindowFresh, TargetNext, StageSignal, SentWell, Young, Past
  <2>8. SentWell'
    BY <1>27, <1>0, <1>2 DEF RobotStops, Mishap, Sleeps, Forget, tick, EntryFlags, EntryNumbers, EntryRecords, LegAccounted, WindowFresh, TargetNext, StageSignal, SentWell, Young, Past, NoOrder
  <2> QED  BY <2>1, <2>2, <2>3, <2>4, <2>5, <2>6, <2>7, <2>8 DEF EntryInv
<1> QED  BY <1>1, <1>3, <1>4, <1>5, <1>6, <1>7, <1>8, <1>9, <1>10, <1>11, <1>12, <1>13, <1>14, <1>15, <1>16, <1>17, <1>18, <1>19, <1>20, <1>21, <1>22, <1>23, <1>24, <1>25, <1>26, <1>27 DEF EntryNext, Answers

\* The invariant holds before the first tick.
LEMMA EntryStart == EntryInit => EntryInv
<1> SUFFICES ASSUME EntryInit PROVE EntryInv
  OBVIOUS
<1>1. /\ MaxCandle \in Nat /\ MaxCandle >= 1 /\ MaxMishap \in Nat
      /\ MaxAsset \in Nat /\ MaxAsset >= 1
  BY CycleAssumption
<1>3. EntryFlags /\ EntryRecords
  BY RecordTypes DEF EntryInit, EntryFlags, EntryRecords
<1>4. EntryNumbers
  BY <1>1 DEF EntryInit, EntryNumbers, End, AnalysisOf, MaxTries
<1>5. LegAccounted /\ WindowFresh /\ TargetNext /\ StageSignal /\ SentWell
  BY DEF EntryInit, LegAccounted, WindowFresh, TargetNext, StageSignal,
         SentWell, Young
<1> QED  BY <1>3, <1>4, <1>5 DEF EntryInv

\* The worker's state keeps its types and stays within its bounds: no more
\* attempts than MAX_ORDER_ATTEMPTS_PER_CYCLE, however ticks are cut short.
THEOREM EntryTypeCorrect == EntrySpec => []EntryTypeOK
<1>1. EntryInv => EntryTypeOK
  BY EntryTypeParts DEF EntryInv
<1> QED  BY EntryStart, EntryStep, <1>1, PTL DEF EntrySpec

\* Each entry leaves in the window's candle and before the rest of it, for any
\* number of candles, candidates and mishaps.
THEOREM EntriesInTime == EntrySpec => []EntryInTime
<1>1. EntryInv => EntryInTime
  BY DEF EntryInv, SentWell, EntryInTime
<1> QED  BY EntryStart, EntryStep, <1>1, PTL DEF EntrySpec

\* The flag of a waiting step goes with the signal it was raised for, on every
\* way a step can end but the two that are known not to.
THEOREM StepsAreTheLegs == EntrySpec => []LegOwnSignal
<1>1. EntryInv => LegOwnSignal
  BY DEF EntryInv, SentWell, LegOwnSignal, NoOrder
<1> QED  BY EntryStart, EntryStep, <1>1, PTL DEF EntrySpec

-----------------------------------------------------------------------------
(* EntryGates: the verdict, the thesis and the pace.                       *)

\* How a record may differ from its scan: the mark of VERTEX is lost, and a
\* level that passed its own floor takes over; the verdict of REV-Z stays.
Told(v) ==
    /\ \/ v.mark = v.of
       \/ v.of = "vertex" /\ v.mark \in {"classic", "level"}
       \/ v.mark = "level" /\ v.of # "live" /\ v.conf >= MinConfidence
    /\ v.revz <=> v.of = "revz"

AllTold ==
    /\ Told(pending) /\ Told(saved)
    /\ \A i \in DOMAIN line : Told(line[i])

\* While an order runs there is no signal; what the robot was told of is what
\* it measures its pace by.
PaceRight ==
    /\ heard = lastEntry
    /\ runs => place = "idle" /\ pending = NoVerdict /\ saved = NoVerdict
    /\ place = "post" /\ onAir => heard >= Spacing

\* The hour has room for an entry that a level has taken over or that leaves.
RoomLeft ==
    pending.mark = "level" /\ (place = "post" \/ pending.of \notin {"level", "vertex"})
        => ~Full

\* The entries of the hour a restart made it forget.
Forgotten == levels \ levelLog

\* They were within the cap, as the others are.
LogRight ==
    /\ Cardinality(levelLog) <= LevelCap
    /\ Cardinality(Forgotten) <= LevelCap
    /\ \A a \in Forgotten : a >= bootAge

\* The types of the gates, by kind.
GateFlags ==
    /\ live \in BOOLEAN /\ runs \in BOOLEAN /\ scanned \in BOOLEAN
    /\ filtered \in BOOLEAN /\ onAir \in BOOLEAN
    /\ place \in {"idle", "found", "window", "confirm", "post"}

\* Ages in candles, and the dry sessions.
GateAges ==
    /\ lastEntry \in 0..Old /\ heard \in 0..Old /\ bootAge \in 0..Hour
    /\ dry \in 0..DryLimit

\* The records of a signal and the chart read again.
GateRecords ==
    /\ pending \in Verdict /\ saved \in Verdict
    /\ line \in Seq(Verdict)
    /\ reread \in Chart

\* The ages of the entries at a level.
GateLogs ==
    levelLog \subseteq 0..(Hour - 1) /\ levels \subseteq 0..(Hour - 1)

\* The inductive invariant behind VerdictKept, ThesisHolds and PaceKept.
GatesInv == /\ GatesTypeOK /\ AllTold /\ PaceRight /\ RoomLeft /\ LogRight
            /\ ThesisHolds

-----------------------------------------------------------------------------
USE GatesAssumption

\* What the strategies leave of a reading: a known strategy and its scale.
LEMMA AnalysedRight ==
    ASSUME NEW r \in Reading, NEW on \in BOOLEAN, NEW rec \in BOOLEAN
    PROVE  LET s == Analysed(r, on, rec) IN
           /\ s.mark \in Marks
           /\ s.released => s.conf \in 60..85
<1> DEFINE c == Classic(r, rec)
<1> DEFINE z == ApplyRevz(c, r)
<1> DEFINE x == ApplyVertex(z, r)
<1> DEFINE n == ApplyLevel(x, r)
<1> DEFINE Good(s) == /\ s.mark \in Marks
                      /\ s.released => s.conf \in 60..85
<1>0. \A m \in Marks, k \in 60..85 : Good(Silent(m)) /\ Good(Fires(m, k))
  BY DEF Silent, Fires
<1>a. /\ "revz" \in Marks /\ "vertex" \in Marks /\ "level" \in Marks /\ "live" \in Marks
      /\ LevelScore \in 60..85 /\ LiveScore \in 60..85
  BY DEF Marks, LevelScore, LiveScore
<1>b. r.extreme # 0 => r.extreme \in 60..85
  BY DEF Reading
<1>c. r.vertex # 0 => r.vertex \in 60..85
  BY DEF Reading
<1>1. Good(c)
  BY DEF Classic, Fires, Marks, Reading
<1> HIDE DEF c, Good
<1>2. Good(z)
  BY <1>0, <1>1, <1>a, <1>b DEF ApplyRevz
<1> HIDE DEF z
<1>3. Good(x)
  BY <1>0, <1>2, <1>a, <1>c DEF ApplyVertex
<1> HIDE DEF x
<1>4. Good(n)
  BY <1>0, <1>3, <1>a DEF ApplyLevel
<1> HIDE DEF n
<1>5. Good(ApplyLive(n, r, on))
  BY <1>0, <1>4, <1>a DEF ApplyLive
<1>6. QED
  BY <1>5 DEF Analysed, c, z, x, n, Good

\* What the scan leaves is a verdict as its strategy told it.
LEMMA VerdictsRight ==
    ASSUME NEW on \in BOOLEAN, NEW rec \in BOOLEAN,
           NEW v \in VerdictsOf[on][rec]
    PROVE  v \in Verdict /\ Told(v) /\ v.mark = v.of
<1>1. v \in Judged(on, rec)
  BY DEF VerdictsOf
<1>2. PICK r \in Reading : /\ Analysed(r, on, rec).released
                           /\ v = Judge(Analysed(r, on, rec), r)
  BY <1>1 DEF Judged
<1> DEFINE s == Analysed(r, on, rec)
<1>3. s.mark \in Marks /\ s.conf \in 60..85
  BY <1>2, AnalysedRight
<1>4. r.otc \in BOOLEAN /\ r.penalty \in {0, 10}
  BY DEF Reading
<1> HIDE DEF s
<1>5. Score(s, r) \in 0..100
  BY <1>3, <1>4 DEF Score
<1>6. v = [mark |-> s.mark, of |-> s.mark, revz |-> s.mark = "revz",
           otc |-> r.otc, conf |-> s.conf, score |-> Score(s, r)]
  BY <1>2 DEF s, Judge
<1>7. v \in Verdict
  BY <1>3, <1>4, <1>5, <1>6 DEF Verdict
<1>8. Told(v)
  BY <1>6 DEF Told
<1>9. QED
  BY <1>6, <1>7, <1>8

\* The copy of a record is one that may be told so.
LEMMA CopyRight ==
    ASSUME NEW v \in Verdict, Told(v)
    PROVE  /\ CopyFields(v) \in Verdict
           /\ Told(CopyFields(v))
           /\ CopyFields(v).of = v.of
           /\ CopyFields(v).mark = "level" <=> v.mark = "level"
BY DEF CopyFields, Verdict, Told, Marks

\* So is what the second reading makes of it.
LEMMA RereadRight ==
    ASSUME NEW v \in Verdict, NEW ch \in Chart, NEW soon \in BOOLEAN,
           Told(v), Passes(Reread(v, ch), soon)
    PROVE  /\ Reread(v, ch) \in Verdict
           /\ Told(Reread(v, ch))
           /\ Reread(v, ch).of = v.of
           /\ Reread(v, ch).mark = "level" => ~Full
BY DEF Reread, Passes, MeetsFloor, Floor, Verdict, Told, Marks

\* The types in their four parts.
LEMMA GateParts ==
    GatesTypeOK <=> GateFlags /\ GateAges /\ GateRecords /\ GateLogs
BY DEF GatesTypeOK, GateFlags, GateAges, GateRecords, GateLogs

\* The gates answer yes or no.
LEMMA SoonBoolean ==
    ASSUME GateAges, NEW soon \in TooSoon
    PROVE  soon \in BOOLEAN
<1>1. (lastEntry < Spacing) \in BOOLEAN
  OBVIOUS
<1>2. QED
  BY <1>1 DEF TooSoon

\* No signal is a verdict nobody gave.
LEMMA NoVerdictRight == NoVerdict \in Verdict /\ Told(NoVerdict)
BY DEF NoVerdict, Verdict, Told, Marks

\* Ages stay within the hour.
LEMMA OlderRight ==
    ASSUME NEW s \in SUBSET (0..(Hour - 1))
    PROVE  Older(s) \subseteq 0..(Hour - 1)
BY DEF Older

\* The types hold at first.
LEMMA GatesTypeInit == GatesInit => GatesTypeOK
<1> SUFFICES ASSUME GatesInit PROVE GatesTypeOK
  OBVIOUS
<1>1. GateFlags
  BY DEF GatesInit, GateFlags
<1>2. GateAges
  BY DEF GatesInit, GateAges, Old
<1>3. GateRecords
  <2>1. NoChart \in Chart
    BY DEF NoChart, Chart
  <2>2. <<>> \in Seq(Verdict)
    OBVIOUS
  <2> HIDE DEF NoChart, Chart, NoVerdict, Verdict
  <2> QED
    BY <2>1, <2>2, NoVerdictRight DEF GatesInit, GateRecords
<1>4. GateLogs
  BY DEF GatesInit, GateLogs
<1> QED
  BY <1>1, <1>2, <1>3, <1>4, GateParts

\* Every step keeps the flags.
LEMMA GateFlagsStep == ASSUME GateFlags, [GatesNext]_gatesVars PROVE GateFlags'
<1> USE DEF kept, orders, Drops, GateFlags
<1>1. CASE FindsNothing
  BY <1>1 DEF FindsNothing
<1>2. ASSUME NEW v \in VerdictsOf[live][Recovering], NEW soon \in TooSoon,
             Finds(v, soon)
      PROVE  GateFlags'
  BY <1>2 DEF Finds
<1>3. CASE CandleOpens
  BY <1>3 DEF CandleOpens, Drops
<1>4. CASE Dispatch
  BY <1>4 DEF Dispatch
<1>5. CASE place = "confirm" /\ line # <<>> /\ TurnsAway
  BY <1>5 DEF TurnsAway
<1>6. ASSUME place = "confirm" /\ line # <<>>, NEW ch \in Chart,
             Cancels(Head(line), ch)
      PROVE  GateFlags'
  BY <1>6 DEF Cancels
<1>7. ASSUME place = "confirm" /\ line # <<>>, NEW ch \in Chart,
             NEW soon \in TooSoon, Submits(Head(line), ch, soon)
      PROVE  GateFlags'
  BY <1>7 DEF Submits
<1>8. CASE GivesUp
  BY <1>8 DEF GivesUp
<1>9. CASE NotForSale
  BY <1>9 DEF NotForSale
<1>10. CASE LineEnds
  BY <1>10 DEF LineEnds
<1>11. CASE Buys
  BY <1>11 DEF Buys
<1>12. CASE TickCut
  BY <1>12 DEF TickCut
<1>13. CASE RunEnds
  BY <1>13 DEF RunEnds
<1>14. CASE Toggle
  BY <1>14 DEF Toggle
<1>15. CASE Restart
  BY <1>15 DEF Restart
<1>16. CASE UNCHANGED gatesVars
  BY <1>16 DEF gatesVars
<1> QED
  BY <1>1, <1>2, <1>3, <1>4, <1>5, <1>6, <1>7, <1>8, <1>9,
     <1>10, <1>11, <1>12, <1>13, <1>14, <1>15, <1>16
  DEF GatesNext, Scan, Tries

\* Every step keeps the ages.
LEMMA GateAgesStep == ASSUME GateAges, [GatesNext]_gatesVars PROVE GateAges'
<1> USE DEF kept, orders, GateAges, Old, GoesDry, Least
<1>1. CASE FindsNothing
  BY <1>1 DEF FindsNothing
<1>2. ASSUME NEW v \in VerdictsOf[live][Recovering], NEW soon \in TooSoon,
             Finds(v, soon)
      PROVE  GateAges'
  BY <1>2 DEF Finds
<1>3. CASE CandleOpens
  BY <1>3 DEF CandleOpens
<1>4. CASE Dispatch
  BY <1>4 DEF Dispatch
<1>5. CASE place = "confirm" /\ line # <<>> /\ TurnsAway
  BY <1>5 DEF TurnsAway
<1>6. ASSUME place = "confirm" /\ line # <<>>, NEW ch \in Chart,
             Cancels(Head(line), ch)
      PROVE  GateAges'
  BY <1>6 DEF Cancels
<1>7. ASSUME place = "confirm" /\ line # <<>>, NEW ch \in Chart,
             NEW soon \in TooSoon, Submits(Head(line), ch, soon)
      PROVE  GateAges'
  BY <1>7 DEF Submits
<1>8. CASE GivesUp
  BY <1>8 DEF GivesUp
<1>9. CASE NotForSale
  BY <1>9 DEF NotForSale
<1>10. CASE LineEnds
  BY <1>10 DEF LineEnds
<1>11. CASE Buys
  BY <1>11 DEF Buys
<1>12. CASE TickCut
  BY <1>12 DEF TickCut
<1>13. CASE RunEnds
  <2>1. /\ UNCHANGED <<dry, bootAge>>
        /\ UNCHANGED <<lastEntry, heard>> \/ (lastEntry' = 0 /\ heard' = 0)
    BY <1>13 DEF RunEnds
  <2>2. QED
    BY <2>1
<1>14. CASE Toggle
  BY <1>14 DEF Toggle
<1>15. CASE Restart
  BY <1>15 DEF Restart
<1>16. CASE UNCHANGED gatesVars
  BY <1>16 DEF gatesVars
<1> QED
  BY <1>1, <1>2, <1>3, <1>4, <1>5, <1>6, <1>7, <1>8, <1>9,
     <1>10, <1>11, <1>12, <1>13, <1>14, <1>15, <1>16
  DEF GatesNext, Scan, Tries

\* Every step keeps the logs of levels.
LEMMA GateLogsStep == ASSUME GateLogs, [GatesNext]_gatesVars PROVE GateLogs'
<1> USE DEF kept, orders, GateLogs
<1>1. CASE FindsNothing
  BY <1>1 DEF FindsNothing
<1>2. ASSUME NEW v \in VerdictsOf[live][Recovering], NEW soon \in TooSoon,
             Finds(v, soon)
      PROVE  GateLogs'
  BY <1>2 DEF Finds
<1>3. CASE CandleOpens
  BY <1>3, OlderRight DEF CandleOpens
<1>4. CASE Dispatch
  BY <1>4 DEF Dispatch
<1>5. CASE place = "confirm" /\ line # <<>> /\ TurnsAway
  BY <1>5 DEF TurnsAway
<1>6. ASSUME place = "confirm" /\ line # <<>>, NEW ch \in Chart,
             Cancels(Head(line), ch)
      PROVE  GateLogs'
  BY <1>6 DEF Cancels
<1>7. ASSUME place = "confirm" /\ line # <<>>, NEW ch \in Chart,
             NEW soon \in TooSoon, Submits(Head(line), ch, soon)
      PROVE  GateLogs'
  BY <1>7 DEF Submits
<1>8. CASE GivesUp
  BY <1>8 DEF GivesUp
<1>9. CASE NotForSale
  BY <1>9 DEF NotForSale
<1>10. CASE LineEnds
  BY <1>10 DEF LineEnds
<1>11. CASE Buys
  BY <1>11 DEF Buys
<1>12. CASE TickCut
  BY <1>12 DEF TickCut
<1>13. CASE RunEnds
  BY <1>13 DEF RunEnds
<1>14. CASE Toggle
  BY <1>14 DEF Toggle
<1>15. CASE Restart
  BY <1>15 DEF Restart
<1>16. CASE UNCHANGED gatesVars
  BY <1>16 DEF gatesVars
<1> QED
  BY <1>1, <1>2, <1>3, <1>4, <1>5, <1>6, <1>7, <1>8, <1>9,
     <1>10, <1>11, <1>12, <1>13, <1>14, <1>15, <1>16
  DEF GatesNext, Scan, Tries

\* Every step keeps the types of the records.
LEMMA GateRecordsStep ==
    ASSUME GatesTypeOK, AllTold, [GatesNext]_gatesVars
    PROVE  GateRecords'
<1> USE DEF kept, Drops, Saves, GateRecords
<1>a. GateRecords /\ GateAges
  BY GateParts
<1>b. Recovering \in BOOLEAN /\ live \in BOOLEAN /\ scanned \in BOOLEAN
  BY DEF GatesTypeOK, Recovering
<1>c. NoChart \in Chart
  BY DEF NoChart, Chart
<1>d. NoVerdict \in Verdict /\ <<>> \in Seq(Verdict)
  BY NoVerdictRight
<1>e. ASSUME line # <<>> PROVE Head(line) \in Verdict /\ Tail(line) \in Seq(Verdict)
  BY <1>a, <1>e
<1>1. CASE FindsNothing
  BY <1>1, <1>a, <1>c, <1>d DEF FindsNothing
<1>2. ASSUME NEW v \in VerdictsOf[live][Recovering], NEW soon \in TooSoon,
             Finds(v, soon)
      PROVE  GateRecords'
  BY <1>2, <1>a, <1>b, VerdictsRight, CopyRight DEF Finds
<1>3. CASE CandleOpens
  BY <1>3, <1>a, <1>c, <1>d DEF CandleOpens
<1>4. CASE Dispatch
  <2>1. /\ UNCHANGED <<pending, saved, reread>>
        /\ \/ line' = <<pending>>
           \/ \E v \in VerdictsOf[scanned][Recovering] : line' = <<pending, v>>
    BY <1>4 DEF Dispatch
  <2>2. line' \in Seq(Verdict)
    <3>1. pending \in Verdict
      BY <1>a
    <3>2. <<pending>> \in Seq(Verdict)
      BY <3>1
    <3>3. ASSUME NEW v \in Verdict PROVE <<pending, v>> \in Seq(Verdict)
      BY <3>1
    <3>4. QED
      BY <2>1, <3>2, <3>3, <1>b, VerdictsRight
  <2>3. QED
    BY <2>1, <2>2, <1>a
<1>5. CASE place = "confirm" /\ line # <<>> /\ TurnsAway
  BY <1>5, <1>a, <1>e DEF TurnsAway
<1>6. ASSUME place = "confirm" /\ line # <<>>, NEW ch \in Chart,
             Cancels(Head(line), ch)
      PROVE  GateRecords'
  BY <1>6, <1>a, <1>e DEF Cancels
<1>7. ASSUME place = "confirm" /\ line # <<>>, NEW ch \in Chart,
             NEW soon \in TooSoon, Submits(Head(line), ch, soon)
      PROVE  GateRecords'
  BY <1>7, <1>a, <1>e, SoonBoolean, RereadRight, CopyRight DEF Submits, AllTold
<1>8. CASE GivesUp
  BY <1>8, <1>a, <1>c, <1>d DEF GivesUp
<1>9. CASE NotForSale
  BY <1>9, <1>a, <1>c, <1>d DEF NotForSale
<1>10. CASE LineEnds
  BY <1>10, <1>a, <1>c, <1>d DEF LineEnds
<1>11. CASE Buys
  BY <1>11, <1>a, <1>c, <1>d DEF Buys
<1>12. CASE TickCut
  BY <1>12, <1>a, <1>c, <1>d DEF TickCut
<1>13. CASE RunEnds
  BY <1>13, <1>a, <1>c, <1>d DEF RunEnds
<1>14. CASE Toggle
  BY <1>14, <1>a, <1>c, <1>d DEF Toggle
<1>15. CASE Restart
  BY <1>15, <1>a, <1>c, <1>d DEF Restart
<1>16. CASE UNCHANGED gatesVars
  BY <1>16, <1>a DEF gatesVars
<1> QED
  BY <1>1, <1>2, <1>3, <1>4, <1>5, <1>6, <1>7, <1>8, <1>9,
     <1>10, <1>11, <1>12, <1>13, <1>14, <1>15, <1>16
  DEF GatesNext, Scan, Tries

\* Every step leaves a record its strategy or a level told.
LEMMA ToldStep ==
    ASSUME GatesTypeOK, AllTold, [GatesNext]_gatesVars
    PROVE  AllTold'
<1> USE DEF kept, Drops, Saves
<1>a. GateRecords /\ GateAges
  BY GateParts
<1>b. Recovering \in BOOLEAN /\ live \in BOOLEAN /\ scanned \in BOOLEAN
  BY DEF GatesTypeOK, Recovering
<1>e. ASSUME line # <<>>
      PROVE  /\ Head(line) \in Verdict /\ Told(Head(line))
             /\ \A i \in DOMAIN Tail(line) : Told(Tail(line)[i])
  BY <1>a, <1>e DEF AllTold, GateRecords
<1> USE DEF AllTold
<1>1. CASE FindsNothing
  BY <1>1, NoVerdictRight DEF FindsNothing
<1>2. ASSUME NEW v \in VerdictsOf[live][Recovering], NEW soon \in TooSoon,
             Finds(v, soon)
      PROVE  AllTold'
  BY <1>2, <1>a, <1>b, VerdictsRight, CopyRight DEF Finds
<1>3. CASE CandleOpens
  BY <1>3, NoVerdictRight DEF CandleOpens
<1>4. CASE Dispatch
  BY <1>4, <1>a, <1>b, VerdictsRight DEF Dispatch
<1>5. CASE place = "confirm" /\ line # <<>> /\ TurnsAway
  BY <1>5, <1>e DEF TurnsAway
<1>6. ASSUME place = "confirm" /\ line # <<>>, NEW ch \in Chart,
             Cancels(Head(line), ch)
      PROVE  AllTold'
  BY <1>6, <1>e DEF Cancels
<1>7. ASSUME place = "confirm" /\ line # <<>>, NEW ch \in Chart,
             NEW soon \in TooSoon, Submits(Head(line), ch, soon)
      PROVE  AllTold'
  BY <1>7, <1>a, <1>e, SoonBoolean, RereadRight, CopyRight DEF Submits
<1>8. CASE GivesUp
  BY <1>8, NoVerdictRight DEF GivesUp
<1>9. CASE NotForSale
  BY <1>9, NoVerdictRight DEF NotForSale
<1>10. CASE LineEnds
  BY <1>10, NoVerdictRight DEF LineEnds
<1>11. CASE Buys
  BY <1>11, NoVerdictRight DEF Buys
<1>12. CASE TickCut
  BY <1>12, NoVerdictRight DEF TickCut
<1>13. CASE RunEnds
  BY <1>13, NoVerdictRight DEF RunEnds
<1>14. CASE Toggle
  BY <1>14, NoVerdictRight DEF Toggle
<1>15. CASE Restart
  BY <1>15, NoVerdictRight DEF Restart
<1>16. CASE UNCHANGED gatesVars
  BY <1>16 DEF gatesVars
<1> QED
  BY <1>1, <1>2, <1>3, <1>4, <1>5, <1>6, <1>7, <1>8, <1>9,
     <1>10, <1>11, <1>12, <1>13, <1>14, <1>15, <1>16
  DEF GatesNext, Scan, Tries

\* Every step leaves the pace measured by what the robot was told of.
LEMMA PaceStep ==
    ASSUME GateAges, PaceRight, [GatesNext]_gatesVars
    PROVE  PaceRight'
<1> USE DEF kept, orders, Drops, Saves, PaceRight
<1>a. lastEntry \in Nat /\ Spacing \in Nat
  BY DEF GateAges, Old
<1>1. CASE FindsNothing
  BY <1>1 DEF FindsNothing
<1>2. ASSUME NEW v \in VerdictsOf[live][Recovering], NEW soon \in TooSoon,
             Finds(v, soon)
      PROVE  PaceRight'
  BY <1>2 DEF Finds
<1>3. CASE CandleOpens
  BY <1>3 DEF CandleOpens
<1>4. CASE Dispatch
  BY <1>4 DEF Dispatch
<1>5. CASE place = "confirm" /\ line # <<>> /\ TurnsAway
  BY <1>5 DEF TurnsAway
<1>6. ASSUME place = "confirm" /\ line # <<>>, NEW ch \in Chart,
             Cancels(Head(line), ch)
      PROVE  PaceRight'
  BY <1>6 DEF Cancels
<1>7. ASSUME place = "confirm" /\ line # <<>>, NEW ch \in Chart,
             NEW soon \in TooSoon, Submits(Head(line), ch, soon)
      PROVE  PaceRight'
  <2>1. ~(live /\ soon) /\ onAir' = live /\ UNCHANGED <<lastEntry, heard, runs>>
    BY <1>7 DEF Submits, Passes
  <2>2. CASE lastEntry = Spacing
    BY <1>7, <1>a, <2>1, <2>2 DEF Submits
  <2>3. CASE lastEntry # Spacing
    <3>1. soon = (lastEntry < Spacing)
      BY <2>3 DEF TooSoon
    <3>2. live => ~(lastEntry < Spacing)
      BY <2>1, <3>1
    <3>3. live => heard >= Spacing
      BY <3>2, <1>a
    <3>4. QED
      BY <1>7, <2>1, <3>3 DEF Submits
  <2>4. QED
    BY <2>2, <2>3
<1>8. CASE GivesUp
  BY <1>8 DEF GivesUp
<1>9. CASE NotForSale
  BY <1>9 DEF NotForSale
<1>10. CASE LineEnds
  BY <1>10 DEF LineEnds
<1>11. CASE Buys
  BY <1>11 DEF Buys
<1>12. CASE TickCut
  BY <1>12 DEF TickCut
<1>13. CASE RunEnds
  BY <1>13 DEF RunEnds
<1>14. CASE Toggle
  BY <1>14 DEF Toggle
<1>15. CASE Restart
  BY <1>15 DEF Restart
<1>16. CASE UNCHANGED gatesVars
  BY <1>16 DEF gatesVars
<1> QED
  BY <1>1, <1>2, <1>3, <1>4, <1>5, <1>6, <1>7, <1>8, <1>9,
     <1>10, <1>11, <1>12, <1>13, <1>14, <1>15, <1>16
  DEF GatesNext, Scan, Tries

\* What leaves is read again: the thesis of the verdict holds on the chart.
LEMMA ThesisLemma ==
    ASSUME NEW c \in Verdict, Told(c), NEW ch \in Chart, Agrees(c, ch)
    PROVE  /\ c.of = "revz" => ch.extreme
           /\ c.of = "level" => ch.level = "near"
           /\ c.of # "live" =>
                 /\ ch.level # "wick"
                 /\ ch.level = "near" \/ ch.zone = "clear"
BY DEF Agrees, LevelAgrees, Told, Chart, Verdict

\* Only what was read again leaves.
LEMMA ThesisStep ==
    ASSUME GatesTypeOK, AllTold, ThesisHolds, [GatesNext]_gatesVars
    PROVE  ThesisHolds'
<1> USE DEF kept, orders, Drops, Saves
<1>a. GateRecords /\ GateAges
  BY GateParts
<1>e. ASSUME line # <<>> PROVE Head(line) \in Verdict /\ Told(Head(line))
  BY <1>a, <1>e DEF AllTold, GateRecords
<1> USE DEF ThesisHolds
<1>1. CASE FindsNothing
  BY <1>1 DEF FindsNothing
<1>2. ASSUME NEW v \in VerdictsOf[live][Recovering], NEW soon \in TooSoon,
             Finds(v, soon)
      PROVE  ThesisHolds'
  BY <1>2 DEF Finds
<1>3. CASE CandleOpens
  BY <1>3 DEF CandleOpens
<1>4. CASE Dispatch
  BY <1>4 DEF Dispatch
<1>5. CASE place = "confirm" /\ line # <<>> /\ TurnsAway
  BY <1>5 DEF TurnsAway
<1>6. ASSUME place = "confirm" /\ line # <<>>, NEW ch \in Chart,
             Cancels(Head(line), ch)
      PROVE  ThesisHolds'
  BY <1>6 DEF Cancels
<1>7. ASSUME place = "confirm" /\ line # <<>>, NEW ch \in Chart,
             NEW soon \in TooSoon, Submits(Head(line), ch, soon)
      PROVE  ThesisHolds'
  <2>1. Head(line) \in Verdict /\ Told(Head(line)) /\ Agrees(Head(line), ch)
    BY <1>7, <1>e DEF Submits
  <2>2. pending' = CopyFields(Reread(Head(line), ch)) /\ reread' = ch
    BY <1>7 DEF Submits
  <2>3. pending'.of = Head(line).of
    BY <1>7, <1>a, <2>1, <2>2, SoonBoolean, RereadRight, CopyRight DEF Submits
  <2>4. QED
    BY <2>1, <2>2, <2>3, ThesisLemma
<1>8. CASE GivesUp
  BY <1>8 DEF GivesUp
<1>9. CASE NotForSale
  BY <1>9 DEF NotForSale
<1>10. CASE LineEnds
  BY <1>10 DEF LineEnds
<1>11. CASE Buys
  BY <1>11 DEF Buys
<1>12. CASE TickCut
  BY <1>12 DEF TickCut
<1>13. CASE RunEnds
  BY <1>13 DEF RunEnds
<1>14. CASE Toggle
  BY <1>14 DEF Toggle
<1>15. CASE Restart
  BY <1>15 DEF Restart
<1>16. CASE UNCHANGED gatesVars
  BY <1>16 DEF gatesVars
<1> QED
  BY <1>1, <1>2, <1>3, <1>4, <1>5, <1>6, <1>7, <1>8, <1>9,
     <1>10, <1>11, <1>12, <1>13, <1>14, <1>15, <1>16
  DEF GatesNext, Scan, Tries

\* The logs of levels are finite.
LEMMA CapStays ==
    ASSUME NEW s \in SUBSET (0..(Hour - 1))
    PROVE  /\ IsFiniteSet(s)
           /\ Cardinality(s) \in Nat
           /\ Cardinality(Older(s)) <= Cardinality(s)
<1>1. IsFiniteSet(s)
  <2>1. IsFiniteSet(0..(Hour - 1))
    BY FS_Interval
  <2>2. QED
    BY <2>1, FS_Subset
<1> DEFINE raised == {a + 1 : a \in s}
<1> DEFINE inc == [a \in s |-> a + 1]
<1>2. inc \in Surjection(s, raised)
  BY DEF Surjection
<1>3. IsFiniteSet(raised) /\ Cardinality(raised) <= Cardinality(s)
  BY <1>1, <1>2, FS_Surjection
<1>4. Cardinality(Older(s)) <= Cardinality(raised)
  BY <1>3, FS_Subset DEF Older
<1>5. Cardinality(s) \in Nat /\ Cardinality(raised) \in Nat /\ Cardinality(Older(s)) \in Nat
  <2>1. IsFiniteSet(Older(s))
    BY <1>3, FS_Subset DEF Older
  <2>2. QED
    BY <1>1, <1>3, <2>1, FS_CardinalityType
<1> HIDE DEF raised
<1>6. QED
  BY <1>1, <1>3, <1>4, <1>5

\* Every step leaves room for the level that takes over or leaves.
LEMMA RoomStep ==
    ASSUME GatesTypeOK, AllTold, RoomLeft, [GatesNext]_gatesVars
    PROVE  RoomLeft'
<1> USE DEF kept, orders, Drops, Saves
<1>a. GateRecords /\ GateAges /\ GateLogs
  BY GateParts
<1>b. Recovering \in BOOLEAN /\ live \in BOOLEAN
  BY DEF GatesTypeOK, Recovering
<1>c. NoVerdict.mark # "level"
  BY DEF NoVerdict
<1>d. ASSUME levelLog' = levelLog, ~Full PROVE ~Full'
  BY <1>d DEF Full
<1>e. ASSUME line # <<>> PROVE Head(line) \in Verdict /\ Told(Head(line))
  BY <1>a, <1>e DEF AllTold, GateRecords
<1> USE DEF RoomLeft
<1>1. CASE FindsNothing
  BY <1>1, <1>c, <1>d DEF FindsNothing
<1>2. ASSUME NEW v \in VerdictsOf[live][Recovering], NEW soon \in TooSoon,
             Finds(v, soon)
      PROVE  RoomLeft'
  <2>1. v \in Verdict /\ Told(v) /\ v.mark = v.of
    BY <1>2, <1>b, VerdictsRight
  <2>2. pending'.mark = "level" => pending'.of = "level"
    BY <1>2, <2>1, CopyRight DEF Finds
  <2>3. QED
    BY <1>2, <2>2 DEF Finds
<1>3. CASE CandleOpens
  <2>1. Full' => Full
    <3>1. levelLog' = Older(levelLog)
      BY <1>3 DEF CandleOpens
    <3>2. levelLog \in SUBSET (0..(Hour - 1))
      BY <1>a DEF GateLogs
    <3>3. Older(levelLog) \in SUBSET (0..(Hour - 1))
      BY <3>2, OlderRight
    <3>4. /\ Cardinality(levelLog') <= Cardinality(levelLog)
          /\ Cardinality(levelLog') \in Nat /\ Cardinality(levelLog) \in Nat
      BY <3>1, <3>2, <3>3, CapStays
    <3>5. QED
      BY <3>4 DEF Full
  <2>2. QED
    BY <1>3, <2>1, <1>c DEF CandleOpens
<1>4. CASE Dispatch
  BY <1>4, <1>c, <1>d DEF Dispatch
<1>5. CASE place = "confirm" /\ line # <<>> /\ TurnsAway
  BY <1>5, <1>c, <1>d DEF TurnsAway
<1>6. ASSUME place = "confirm" /\ line # <<>>, NEW ch \in Chart,
             Cancels(Head(line), ch)
      PROVE  RoomLeft'
  BY <1>6, <1>c, <1>d DEF Cancels
<1>7. ASSUME place = "confirm" /\ line # <<>>, NEW ch \in Chart,
             NEW soon \in TooSoon, Submits(Head(line), ch, soon)
      PROVE  RoomLeft'
  <2>1. Head(line) \in Verdict /\ Told(Head(line)) /\ soon \in BOOLEAN
    BY <1>7, <1>a, <1>e, SoonBoolean
  <2>2. pending'.mark = "level" => ~Full
    BY <1>7, <2>1, RereadRight, CopyRight DEF Submits
  <2>3. QED
    BY <1>7, <2>2, <1>d DEF Submits
<1>8. CASE GivesUp
  BY <1>8, <1>c, <1>d DEF GivesUp
<1>9. CASE NotForSale
  BY <1>9, <1>c, <1>d DEF NotForSale
<1>10. CASE LineEnds
  BY <1>10, <1>c, <1>d DEF LineEnds
<1>11. CASE Buys
  BY <1>11, <1>c, <1>d DEF Buys
<1>12. CASE TickCut
  BY <1>12, <1>c, <1>d DEF TickCut
<1>13. CASE RunEnds
  BY <1>13, <1>c, <1>d DEF RunEnds
<1>14. CASE Toggle
  BY <1>14, <1>c, <1>d DEF Toggle
<1>15. CASE Restart
  <2>1. ~Full'
    BY <1>15, FS_EmptySet DEF Restart, Full
  <2>2. QED
    BY <2>1
<1>16. CASE UNCHANGED gatesVars
  BY <1>16, <1>d DEF gatesVars
<1> QED
  BY <1>1, <1>2, <1>3, <1>4, <1>5, <1>6, <1>7, <1>8, <1>9,
     <1>10, <1>11, <1>12, <1>13, <1>14, <1>15, <1>16
  DEF GatesNext, Scan, Tries

\* Every step keeps the log within the cap, and what was forgotten too.
LEMMA LevelLogStep ==
    ASSUME GatesTypeOK, RoomLeft, LogRight, [GatesNext]_gatesVars
    PROVE  LogRight'
<1> USE DEF kept, orders
<1>a. /\ levelLog \in SUBSET (0..(Hour - 1)) /\ levels \in SUBSET (0..(Hour - 1))
      /\ bootAge \in 0..Hour
  BY DEF GatesTypeOK
<1>b. Forgotten \in SUBSET (0..(Hour - 1))
  BY <1>a DEF Forgotten
<1>c. IsFiniteSet(levelLog) /\ IsFiniteSet(levels) /\ IsFiniteSet(Forgotten)
  BY <1>a, <1>b, CapStays
<1>d. ASSUME UNCHANGED <<levelLog, levels, bootAge>> PROVE LogRight'
  BY <1>d DEF LogRight, Forgotten
<1>1. CASE FindsNothing
  BY <1>1, <1>d DEF FindsNothing
<1>2. ASSUME NEW v \in VerdictsOf[live][Recovering], NEW soon \in TooSoon,
             Finds(v, soon)
      PROVE  LogRight'
  BY <1>2, <1>d DEF Finds
<1>3. CASE CandleOpens
  <2>1. /\ levelLog' = Older(levelLog) /\ levels' = Older(levels)
        /\ bootAge' = Least(bootAge + 1, Hour)
    BY <1>3 DEF CandleOpens
  <2>2. Forgotten' \subseteq Older(Forgotten)
    BY <2>1 DEF Forgotten, Older
  <2>3. /\ Cardinality(Older(levelLog)) <= Cardinality(levelLog)
        /\ Cardinality(Older(Forgotten)) <= Cardinality(Forgotten)
    BY <1>a, <1>b, CapStays
  <2>4. Older(levelLog) \in SUBSET (0..(Hour - 1)) /\ Older(Forgotten) \in SUBSET (0..(Hour - 1))
    BY <1>a, <1>b, OlderRight
  <2>5. /\ IsFiniteSet(Older(Forgotten)) /\ Cardinality(Older(Forgotten)) \in Nat
        /\ Cardinality(Older(levelLog)) \in Nat
        /\ Cardinality(levelLog) \in Nat /\ Cardinality(Forgotten) \in Nat
    BY <1>a, <1>b, <2>4, CapStays
  <2>6. Cardinality(Forgotten') <= Cardinality(Older(Forgotten)) /\ Cardinality(Forgotten') \in Nat
    BY <2>2, <2>5, FS_Subset, FS_CardinalityType
  <2>7. Cardinality(levelLog') <= LevelCap /\ Cardinality(Forgotten') <= LevelCap
    BY <2>1, <2>3, <2>5, <2>6 DEF LogRight
  <2>8. ASSUME NEW a \in Forgotten' PROVE a >= bootAge'
    <3>1. PICK b \in Forgotten : a = b + 1
      BY <2>2 DEF Older
    <3>2. b >= bootAge /\ b \in Nat
      BY <1>b DEF LogRight
    <3>3. QED
      BY <3>1, <3>2, <2>1, <1>a DEF Least
  <2>9. QED
    BY <2>7, <2>8 DEF LogRight
<1>4. CASE Dispatch
  BY <1>4, <1>d DEF Dispatch
<1>5. CASE place = "confirm" /\ line # <<>> /\ TurnsAway
  BY <1>5, <1>d DEF TurnsAway
<1>6. ASSUME place = "confirm" /\ line # <<>>, NEW ch \in Chart,
             Cancels(Head(line), ch)
      PROVE  LogRight'
  BY <1>6, <1>d DEF Cancels
<1>7. ASSUME place = "confirm" /\ line # <<>>, NEW ch \in Chart,
             NEW soon \in TooSoon, Submits(Head(line), ch, soon)
      PROVE  LogRight'
  BY <1>7, <1>d DEF Submits
<1>8. CASE GivesUp
  BY <1>8, <1>d DEF GivesUp
<1>9. CASE NotForSale
  BY <1>9, <1>d DEF NotForSale
<1>10. CASE LineEnds
  BY <1>10, <1>d DEF LineEnds
<1>11. CASE Buys
  <2>1. UNCHANGED bootAge
    BY <1>11 DEF Buys
  <2>2. CASE pending.mark # "level"
    BY <1>11, <2>2, <1>d DEF Buys
  <2>3. CASE pending.mark = "level"
    <3>1. levelLog' = levelLog \union {0} /\ levels' = levels \union {0}
      BY <1>11, <2>3 DEF Buys
    <3>2. ~(Cardinality(levelLog) >= LevelCap)
      BY <1>11, <2>3 DEF Buys, RoomLeft, Full
    <3>3. Cardinality(levelLog) \in Nat /\ Cardinality(Forgotten) \in Nat
      BY <1>a, <1>b, CapStays
    <3>4. Cardinality(levelLog \union {0}) <= Cardinality(levelLog) + 1
      <4>1. CASE 0 \in levelLog
        <5>1. levelLog \union {0} = levelLog
          BY <4>1
        <5>2. QED
          BY <5>1, <3>3
      <4>2. CASE 0 \notin levelLog
        <5>1. Cardinality(levelLog \union {0}) = Cardinality(levelLog) + 1
          BY <4>2, <1>c, FS_AddElement
        <5>2. QED
          BY <5>1, <3>3
      <4>3. QED
        BY <4>1, <4>2
    <3>5. Cardinality(levelLog \union {0}) \in Nat
      BY <1>c, FS_AddElement, FS_CardinalityType
    <3>6. Cardinality(levelLog') <= LevelCap
      BY <3>1, <3>2, <3>3, <3>4, <3>5
    <3>7. Forgotten' \subseteq Forgotten
      BY <3>1 DEF Forgotten
    <3>8. Cardinality(Forgotten') <= Cardinality(Forgotten) /\ Cardinality(Forgotten') \in Nat
      BY <3>7, <1>c, FS_Subset, FS_CardinalityType
    <3>9. QED
      BY <3>3, <3>6, <3>7, <3>8, <2>1 DEF LogRight
  <2>4. QED
    BY <2>2, <2>3
<1>12. CASE TickCut
  BY <1>12, <1>d DEF TickCut
<1>13. CASE RunEnds
  BY <1>13, <1>d DEF RunEnds
<1>14. CASE Toggle
  BY <1>14, <1>d DEF Toggle
<1>15. CASE Restart
  <2>1. bootAge = Hour /\ levelLog' = {} /\ levels' = levels /\ bootAge' = 0
    BY <1>15 DEF Restart
  <2>2. Forgotten = {}
    BY <2>1, <1>b DEF LogRight
  <2>3. levels \subseteq levelLog
    BY <2>2 DEF Forgotten
  <2>4. Cardinality(levels) <= Cardinality(levelLog)
    BY <2>3, <1>c, FS_Subset
  <2>5. Cardinality(levels) \in Nat /\ Cardinality(levelLog) \in Nat
    BY <1>a, CapStays
  <2>6. Forgotten' = levels
    BY <2>1 DEF Forgotten
  <2>7. Cardinality(levelLog') = 0
    BY <2>1, FS_EmptySet
  <2>8. \A a \in levels : a >= 0
    BY <1>a
  <2>9. QED
    BY <2>1, <2>4, <2>5, <2>6, <2>7, <2>8 DEF LogRight
<1>16. CASE UNCHANGED gatesVars
  BY <1>16, <1>d DEF gatesVars
<1> QED
  BY <1>1, <1>2, <1>3, <1>4, <1>5, <1>6, <1>7, <1>8, <1>9,
     <1>10, <1>11, <1>12, <1>13, <1>14, <1>15, <1>16
  DEF GatesNext, Scan, Tries

\* The invariant holds at first.
LEMMA GatesStart == GatesInit => GatesInv
<1> SUFFICES ASSUME GatesInit PROVE GatesInv
  OBVIOUS
<1>1. GatesTypeOK
  BY GatesTypeInit
<1>2. AllTold
  BY NoVerdictRight DEF GatesInit, AllTold
<1>3. PaceRight /\ RoomLeft /\ ThesisHolds
  BY DEF GatesInit, PaceRight, RoomLeft, ThesisHolds, NoVerdict
<1>4. LogRight
  <2>1. levelLog = {} /\ Forgotten = {}
    BY DEF GatesInit, Forgotten
  <2>2. QED
    BY <2>1, FS_EmptySet DEF LogRight
<1>5. QED
  BY <1>1, <1>2, <1>3, <1>4 DEF GatesInv

\* Every step keeps it.
LEMMA GatesStep == GatesInv /\ [GatesNext]_gatesVars => GatesInv'
<1> SUFFICES ASSUME GatesInv, [GatesNext]_gatesVars PROVE GatesInv'
  OBVIOUS
<1>1. GatesTypeOK'
  <2>1. GateFlags' /\ GateAges' /\ GateRecords' /\ GateLogs'
    BY GateParts, GateFlagsStep, GateAgesStep, GateRecordsStep, GateLogsStep DEF GatesInv
  <2>2. QED
    BY <2>1 DEF GatesTypeOK, GateFlags, GateAges, GateRecords, GateLogs
<1>2. AllTold' /\ PaceRight' /\ RoomLeft'
  BY GateParts, ToldStep, PaceStep, RoomStep DEF GatesInv
<1>3. ThesisHolds' /\ LogRight'
  BY ThesisStep, LevelLogStep DEF GatesInv
<1>4. QED
  BY <1>1, <1>2, <1>3 DEF GatesInv

\* The log and what a restart forgot bound the hour.
LEMMA InvPace == GatesInv => PaceKept
<1> SUFFICES ASSUME GatesInv PROVE PaceKept
  OBVIOUS
<1>1. place = "post" /\ onAir => heard >= Spacing
  BY DEF GatesInv, PaceRight
<1>2. /\ levelLog \in SUBSET (0..(Hour - 1)) /\ levels \in SUBSET (0..(Hour - 1))
      /\ bootAge \in 0..Hour
  BY DEF GatesInv, GatesTypeOK
<1>3. Forgotten \in SUBSET (0..(Hour - 1))
  BY <1>2 DEF Forgotten
<1>4. /\ IsFiniteSet(levelLog) /\ IsFiniteSet(Forgotten)
      /\ Cardinality(levelLog) \in Nat /\ Cardinality(Forgotten) \in Nat
      /\ Cardinality(levels) \in Nat
  BY <1>2, <1>3, CapStays
<1>5. Cardinality(levelLog) <= LevelCap /\ Cardinality(Forgotten) <= LevelCap
  BY DEF GatesInv, LogRight
<1>6. CASE bootAge < Hour
  <2>1. levels \subseteq levelLog \union Forgotten
    BY DEF Forgotten
  <2>2. IsFiniteSet(levelLog \union Forgotten) /\ IsFiniteSet(levelLog \cap Forgotten)
    BY <1>4, FS_Union, FS_Subset
  <2>3. Cardinality(levelLog \union Forgotten) =
            Cardinality(levelLog) + Cardinality(Forgotten) - Cardinality(levelLog \cap Forgotten)
    BY <1>4, FS_Union
  <2>4. Cardinality(levels) <= Cardinality(levelLog \union Forgotten)
    BY <2>1, <2>2, FS_Subset
  <2>5. Cardinality(levelLog \cap Forgotten) \in Nat
    BY <2>2, FS_CardinalityType
  <2>6. Cardinality(levels) <= 2 * LevelCap
    BY <1>4, <1>5, <2>3, <2>4, <2>5
  <2>7. QED
    BY <1>1, <1>6, <2>6 DEF PaceKept
<1>7. CASE ~(bootAge < Hour)
  <2>1. bootAge = Hour
    BY <1>2, <1>7
  <2>2. Forgotten = {}
    BY <2>1, <1>3 DEF GatesInv, LogRight
  <2>3. levels \subseteq levelLog
    BY <2>2 DEF Forgotten
  <2>4. Cardinality(levels) <= Cardinality(levelLog)
    BY <2>3, <1>4, FS_Subset
  <2>5. QED
    BY <1>1, <1>4, <1>5, <1>7, <2>4 DEF PaceKept
<1>8. QED
  BY <1>6, <1>7

\* The mark a level gave in passing has passed the level's own floor.
LEMMA InvVerdict == GatesInv => VerdictKept
<1> SUFFICES ASSUME GatesInv, pending.of # "vertex",
                    MeetsFloor([pending EXCEPT !.mark = pending.of])
             PROVE  MeetsFloor(pending)
  BY DEF VerdictKept
<1>1. pending \in Verdict /\ Told(pending)
  BY DEF GatesInv, GatesTypeOK, AllTold
<1>2. CASE pending.mark = pending.of
  <2>1. [pending EXCEPT !.mark = pending.of] = pending
    BY <1>1, <1>2 DEF Verdict
  <2>2. QED
    BY <2>1
<1>3. CASE /\ pending.mark = "level" /\ pending.of # "level"
           /\ pending.conf >= MinConfidence
  <2>1. ~Full
    BY <1>3 DEF GatesInv, RoomLeft
  <2>2. QED
    BY <1>3, <2>1 DEF MeetsFloor, Floor
<1>4. QED
  BY <1>1, <1>2, <1>3 DEF Told

\* So it holds at every moment.
LEMMA GatesAlways == GatesSpec => []GatesInv
BY GatesStart, GatesStep, PTL DEF GatesSpec

\* For any minimum, cap, hour and spacing: the records of the gates keep their
\* types, whatever the strategies find and the panel switches.
THEOREM VerdictTypesAreKept == GatesSpec => []GatesTypeOK
<1>1. GatesInv => GatesTypeOK
  BY DEF GatesInv
<1>2. QED
  BY GatesAlways, <1>1, PTL

\* For any minimum and cap: what the scan's gate let in still passes when the
\* record is read at the order, unless it was VERTEX that decided, whose mark
\* the robot's record does not keep.
THEOREM VerdictsAreKept == GatesSpec => []VerdictKept
<1>1. GatesInv => VerdictKept
  BY InvVerdict
<1>2. QED
  BY GatesAlways, <1>1, PTL

\* For any minimum and cap: what leaves has its thesis on the candle that closed
\* meanwhile, REV-Z's extreme and the level's rejection alike.
THEOREM ThesesHold == GatesSpec => []ThesisHolds
<1>1. GatesInv => ThesisHolds
  BY DEF GatesInv
<1>2. QED
  BY GatesAlways, <1>1, PTL

\* For any cap, hour and spacing: LIVE keeps its spacing, and within an hour the
\* levels entered stay within the cap, twice it when a restart emptied the log.
THEOREM PacesAreKept == GatesSpec => []PaceKept
<1>1. GatesInv => PaceKept
  BY InvPace
<1>2. QED
  BY GatesAlways, <1>1, PTL

-----------------------------------------------------------------------------
(* BrokerSession: the copies of a session agree.                           *)

\* The type invariant in three parts.
SessFlags ==
    /\ offline \in BOOLEAN /\ backoff \in BOOLEAN /\ status \in BOOLEAN
    /\ cooldown \in BOOLEAN /\ late \in BOOLEAN /\ refused \in BOOLEAN
    /\ asksCode \in BOOLEAN /\ left \in BOOLEAN
SessRecords ==
    /\ mem \in [client: Client \cup {None}, email: Email \cup {None},
                twofa: BOOLEAN, real: BOOLEAN]
    /\ call \in [op: {"idle", "login", "code", "reconnect", "restore"},
                 client: Client \cup {None}, email: Email \cup {None}]
SessOthers ==
    /\ token \in Email \cup {None} /\ account \in Email \cup {None}
    /\ fetched \in Email \cup {None} /\ wanted \in Email \cup {None}
    /\ open \subseteq Client /\ leaked \subseteq Client
    /\ faults \in 0..MaxFault

\* What the login under way has made of the session, and how it was found.
CallShape ==
    /\ call.op = "idle" => call = Idle
    /\ call.op # "idle" => call.client \in Client /\ call.email \in Email
    /\ call.op \in {"login", "code"} =>
            mem.client = call.client /\ mem.email = call.email
    /\ call.op = "login" => ~mem.twofa /\ ~mem.real /\ token = None
    /\ call.op = "code" => asksCode
    /\ call.op = "reconnect" =>
            /\ Present /\ mem.client \notin open /\ call.client \notin open
            /\ call.email = mem.email
    /\ call.op = "restore" => mem = Absent /\ token = call.email
    /\ mem.client = None => mem = Absent
    /\ Present => mem.email \in Email

\* The token on disk is of the session in memory, and of the last login on an
\* account without codes.
TokenFits ==
    /\ Present => token \in {None, mem.email}
    /\ mem.real => token = mem.email
    /\ ~asksCode /\ token # None => wanted = token
    /\ ~asksCode /\ Present /\ call.op # "login" => token = mem.email

\* The snapshot is of the session and of the one its token would restore.
AccountFits ==
    account # None /\ ~late =>
        /\ Present => account = mem.email
        /\ token # None => account = token

SessInv ==
    /\ SessFlags /\ SessRecords /\ SessOthers /\ CallShape /\ TokenFits /\ AccountFits
    /\ StaysOut /\ TokenSurvives /\ SocketsAccounted

\* The parts are the type invariant: the provers take them one at a time.
LEMMA SessTypeParts == SessTypeOK <=> SessFlags /\ SessRecords /\ SessOthers
BY DEF SessTypeOK, SessFlags, SessRecords, SessOthers

\* The records written when there is no session and no login.
LEMMA EmptyRecords ==
    /\ Absent.client = None /\ Absent.email = None
    /\ Absent.twofa = FALSE /\ Absent.real = FALSE
    /\ Idle.op = "idle" /\ Idle.client = None /\ Idle.email = None
    /\ None \notin Client /\ None \notin Email
BY SessAssumption DEF Absent, Idle

\* What only moves marks, or drops the account snapshot, keeps the invariant: it
\* reads no mark.
LEMMA MarksMove ==
    ASSUME SessInv, SessFlags',
           account' = None \/ UNCHANGED <<account, late>>,
           UNCHANGED <<mem, token, open, call, fetched, faults, asksCode,
                       wanted, left, leaked, refused>>
    PROVE  SessInv'
<1>1. SessRecords' /\ SessOthers'
  BY DEF SessInv, SessRecords, SessOthers
<1>2. CallShape'
  BY DEF SessInv, CallShape, Present
<1>3. TokenFits'
  BY DEF SessInv, TokenFits, Present
<1>4. AccountFits'
  BY DEF SessInv, AccountFits, Present
<1>5. StaysOut' /\ TokenSurvives' /\ SocketsAccounted'
  BY DEF SessInv, StaysOut, TokenSurvives, SocketsAccounted
<1> QED  BY <1>1, <1>2, <1>3, <1>4, <1>5 DEF SessInv

\* Every operation on the session, of the service, the broker or the clock,
\* keeps the invariant.
LEMMA SessStep ==
    ASSUME SessInv, [SessNext]_sessVars
    PROVE  SessInv'
<1> USE DEF SessInv
<1>0. MaxFault \in Nat /\ None \notin Client /\ None \notin Email
  BY SessAssumption
<1>1. CASE UNCHANGED sessVars
  BY <1>1 DEF sessVars, SessFlags, SessRecords, SessOthers, CallShape, TokenFits,
     AccountFits, StaysOut, TokenSurvives, SocketsAccounted, Present
<1>2. ASSUME NEW e \in Email, ConnectReuse(e)
      PROVE  SessInv'
  <2>1. SessFlags' /\ SessOthers'
    BY <1>2, <1>0, EmptyRecords DEF ConnectReuse, SameLive, Free, Present,
       Alive, Quiet, SameMarks, SameLogin, SameSnapshot, SessFlags,
       SessRecords, SessOthers, CallShape
  <2>2. SessRecords' /\ CallShape'
    BY <1>2, <1>0, EmptyRecords DEF ConnectReuse, SameLive, Free, Present,
       Alive, Quiet, SameMarks, SameLogin, SameSnapshot, SessFlags,
       SessRecords, SessOthers, CallShape, Absent, Idle
  <2>3. TokenFits' /\ AccountFits'
    BY <1>2, <1>0, EmptyRecords DEF ConnectReuse, SameLive, Free, Present,
       Alive, Quiet, SameMarks, SameLogin, SameSnapshot, SessFlags,
       SessRecords, SessOthers, CallShape, Absent, TokenFits, AccountFits
  <2>4. StaysOut' /\ TokenSurvives' /\ SocketsAccounted'
    BY <1>2, <1>0, EmptyRecords DEF ConnectReuse, SameLive, Free, Present,
       Alive, Quiet, SameMarks, SameLogin, SameSnapshot, SessRecords,
       SessOthers, CallShape, Absent, Idle, TokenFits, StaysOut,
       TokenSurvives, SocketsAccounted
  <2> QED  BY <2>1, <2>2, <2>3, <2>4
<1>3. ASSUME NEW e \in Email, NEW c \in Client, ConnectBegin(e, c)
      PROVE  SessInv'
  <2>1. SessFlags'
    BY <1>3, <1>0, EmptyRecords DEF ConnectBegin, SameLive, Fresh, Unheld,
       Fault, ClearRuntimeCache, Free, Present, Alive, Quiet, SameMarks,
       SameLogin, SameSnapshot, SessFlags, SessRecords, SessOthers
  <2>2. SessOthers'
    BY <1>3, <1>0, EmptyRecords DEF ConnectBegin, SameLive, Fresh, Unheld,
       Fault, ClearRuntimeCache, Free, Present, Alive, Quiet, SameMarks,
       SameLogin, SameSnapshot, SessOthers, SessFlags, SessRecords, CallShape
  <2>3. SessRecords' /\ CallShape'
    BY <1>3, <1>0, EmptyRecords DEF ConnectBegin, SameLive, Fresh, Unheld,
       Fault, ClearRuntimeCache, Free, Present, Alive, Quiet, SameMarks,
       SameLogin, SameSnapshot, SessRecords, SessFlags, SessOthers, CallShape, Absent,
       Idle
  <2>4. TokenFits' /\ AccountFits'
    BY <1>3, <1>0, EmptyRecords DEF ConnectBegin, SameLive, Fresh, Unheld,
       Fault, ClearRuntimeCache, Free, Present, Alive, Quiet, SameMarks,
       SameLogin, SameSnapshot, TokenFits, SessFlags, SessRecords, SessOthers, CallShape,
       Absent, AccountFits
  <2>5. StaysOut' /\ TokenSurvives' /\ SocketsAccounted'
    BY <1>3, <1>0, EmptyRecords DEF ConnectBegin, SameLive, Fresh, Unheld,
       Fault, ClearRuntimeCache, Free, Present, Alive, Quiet, SameMarks,
       SameLogin, SameSnapshot, StaysOut, SessRecords, CallShape, Absent, Idle,
       TokenSurvives, SessOthers, TokenFits, SocketsAccounted
  <2> QED  BY <2>1, <2>2, <2>3, <2>4, <2>5
<1>4. ASSUME NEW c \in Client, LoginRetries(c)
      PROVE  SessInv'
  <2>1. SessFlags' /\ SessOthers'
    BY <1>4, <1>0, EmptyRecords DEF LoginRetries, Fresh, Unheld, Fault, Free,
       Present, Alive, Quiet, SameMarks, SameLogin, SameSnapshot, SessFlags,
       SessRecords, SessOthers, CallShape
  <2>2. SessRecords' /\ CallShape'
    BY <1>4, <1>0, EmptyRecords DEF LoginRetries, Fresh, Unheld, Fault, Free,
       Present, Alive, Quiet, SameMarks, SameLogin, SameSnapshot, SessFlags,
       SessRecords, SessOthers, CallShape, Absent, Idle
  <2>3. TokenFits' /\ AccountFits'
    BY <1>4, <1>0, EmptyRecords DEF LoginRetries, Fresh, Unheld, Fault, Free,
       Present, Alive, Quiet, SameMarks, SameLogin, SameSnapshot, SessFlags,
       SessRecords, SessOthers, CallShape, Absent, TokenFits, AccountFits
  <2>4. StaysOut' /\ TokenSurvives' /\ SocketsAccounted'
    BY <1>4, <1>0, EmptyRecords DEF LoginRetries, Fresh, Unheld, Fault, Free,
       Present, Alive, Quiet, SameMarks, SameLogin, SameSnapshot, SessRecords,
       SessOthers, CallShape, Absent, Idle, TokenFits, StaysOut,
       TokenSurvives, SocketsAccounted
  <2> QED  BY <2>1, <2>2, <2>3, <2>4
<1>5. CASE LoginOk
  <2>1. SessFlags' /\ SessOthers'
    BY <1>5, <1>0, EmptyRecords DEF LoginOk, Persisted, ProbeSucceeds, Free,
       Present, Alive, Quiet, SameMarks, SameLogin, SameSnapshot, SessFlags,
       SessRecords, SessOthers, CallShape
  <2>2. SessRecords' /\ CallShape'
    BY <1>5, <1>0, EmptyRecords DEF LoginOk, Persisted, ProbeSucceeds, Free,
       Present, Alive, Quiet, SameMarks, SameLogin, SameSnapshot, SessFlags,
       SessRecords, SessOthers, CallShape, Absent, Idle
  <2>3. TokenFits' /\ AccountFits'
    BY <1>5, <1>0, EmptyRecords DEF LoginOk, Persisted, ProbeSucceeds, Free,
       Present, Alive, Quiet, SameMarks, SameLogin, SameSnapshot, SessFlags,
       SessRecords, SessOthers, CallShape, Absent, TokenFits, AccountFits
  <2>4. StaysOut' /\ TokenSurvives' /\ SocketsAccounted'
    BY <1>5, <1>0, EmptyRecords DEF LoginOk, Persisted, ProbeSucceeds, Free,
       Present, Alive, Quiet, SameMarks, SameLogin, SameSnapshot, SessRecords,
       SessOthers, CallShape, Absent, Idle, TokenFits, StaysOut,
       TokenSurvives, SocketsAccounted
  <2> QED  BY <2>1, <2>2, <2>3, <2>4
<1>6. CASE LoginAsksCode
  <2>1. SessFlags' /\ SessOthers'
    BY <1>6, <1>0, EmptyRecords DEF LoginAsksCode, ProbeSucceeds, Free,
       Present, Alive, Quiet, SameMarks, SameLogin, SameSnapshot, SessFlags,
       SessRecords, SessOthers, CallShape
  <2>2. SessRecords' /\ CallShape'
    BY <1>6, <1>0, EmptyRecords DEF LoginAsksCode, ProbeSucceeds, Free,
       Present, Alive, Quiet, SameMarks, SameLogin, SameSnapshot, SessFlags,
       SessRecords, SessOthers, CallShape, Absent, Idle
  <2>3. TokenFits' /\ AccountFits'
    BY <1>6, <1>0, EmptyRecords DEF LoginAsksCode, ProbeSucceeds, Free,
       Present, Alive, Quiet, SameMarks, SameLogin, SameSnapshot, SessFlags,
       SessRecords, SessOthers, CallShape, Absent, TokenFits, AccountFits
  <2>4. StaysOut' /\ TokenSurvives' /\ SocketsAccounted'
    BY <1>6, <1>0, EmptyRecords DEF LoginAsksCode, ProbeSucceeds, Free,
       Present, Alive, Quiet, SameMarks, SameLogin, SameSnapshot, SessRecords,
       SessOthers, CallShape, Absent, Idle, TokenFits, StaysOut,
       TokenSurvives, SocketsAccounted
  <2> QED  BY <2>1, <2>2, <2>3, <2>4
<1>7. CASE LoginFails
  <2>1. SessFlags' /\ SessOthers'
    BY <1>7, <1>0, EmptyRecords DEF LoginFails, Fault, Free, Present, Alive,
       Quiet, SameMarks, SameLogin, SameSnapshot, SessFlags, SessRecords,
       SessOthers, CallShape
  <2>2. SessRecords' /\ CallShape'
    BY <1>7, <1>0, EmptyRecords DEF LoginFails, Fault, Free, Present, Alive,
       Quiet, SameMarks, SameLogin, SameSnapshot, SessFlags, SessRecords,
       SessOthers, CallShape, Absent, Idle
  <2>3. TokenFits' /\ AccountFits'
    BY <1>7, <1>0, EmptyRecords DEF LoginFails, Fault, Free, Present, Alive,
       Quiet, SameMarks, SameLogin, SameSnapshot, SessFlags, SessRecords,
       SessOthers, CallShape, Absent, TokenFits, AccountFits
  <2>4. StaysOut' /\ TokenSurvives' /\ SocketsAccounted'
    BY <1>7, <1>0, EmptyRecords DEF LoginFails, Fault, Free, Present, Alive,
       Quiet, SameMarks, SameLogin, SameSnapshot, SessRecords, SessOthers,
       CallShape, Absent, Idle, TokenFits, StaysOut, TokenSurvives,
       SocketsAccounted
  <2> QED  BY <2>1, <2>2, <2>3, <2>4
<1>8. CASE CodeOk
  <2>1. SessFlags' /\ SessOthers'
    BY <1>8, <1>0, EmptyRecords DEF CodeOk, Persisted, ProbeSucceeds, Free,
       Present, Alive, Quiet, SameMarks, SameLogin, SameSnapshot, SessFlags,
       SessRecords, SessOthers, CallShape
  <2>2. SessRecords' /\ CallShape'
    BY <1>8, <1>0, EmptyRecords DEF CodeOk, Persisted, ProbeSucceeds, Free,
       Present, Alive, Quiet, SameMarks, SameLogin, SameSnapshot, SessFlags,
       SessRecords, SessOthers, CallShape, Absent, Idle
  <2>3. TokenFits' /\ AccountFits'
    BY <1>8, <1>0, EmptyRecords DEF CodeOk, Persisted, ProbeSucceeds, Free,
       Present, Alive, Quiet, SameMarks, SameLogin, SameSnapshot, SessFlags,
       SessRecords, SessOthers, CallShape, Absent, TokenFits, AccountFits
  <2>4. StaysOut' /\ TokenSurvives' /\ SocketsAccounted'
    BY <1>8, <1>0, EmptyRecords DEF CodeOk, Persisted, ProbeSucceeds, Free,
       Present, Alive, Quiet, SameMarks, SameLogin, SameSnapshot, SessRecords,
       SessOthers, CallShape, Absent, Idle, TokenFits, StaysOut,
       TokenSurvives, SocketsAccounted
  <2> QED  BY <2>1, <2>2, <2>3, <2>4
<1>9. CASE CodeFails
  <2>1. SessFlags' /\ SessOthers'
    BY <1>9, <1>0, EmptyRecords DEF CodeFails, Fault, Free, Present, Alive,
       Quiet, SameMarks, SameLogin, SameSnapshot, SessFlags, SessRecords, SessOthers,
       CallShape
  <2>2. SessRecords' /\ CallShape'
    <3>1. call' = Idle /\ token' = token /\ asksCode' = asksCode
      BY <1>9 DEF CodeFails, Quiet
    <3>2. /\ mem.client # None /\ mem.email \in Email
          /\ mem'.client = mem.client /\ mem'.email = mem.email
      <4>1. call.op = "code"
        BY <1>9 DEF CodeFails
      <4>2. mem.client # None /\ mem.email \in Email
        BY <1>0, <4>1 DEF CallShape
      <4>3. mem' = [mem EXCEPT !.twofa = FALSE]
            \/ mem' = [mem EXCEPT !.twofa = FALSE, !.real = FALSE]
        BY <1>9 DEF CodeFails
      <4>4. mem'.client = mem.client /\ mem'.email = mem.email
        BY <4>3 DEF SessRecords
      <4> QED
        BY <4>2, <4>4
    <3>3. SessRecords'
      <4>1. call' \in [op: {"idle", "login", "code", "reconnect", "restore"},
                       client: Client \cup {None}, email: Email \cup {None}]
        BY <3>1 DEF Idle
      <4>2. mem' = [mem EXCEPT !.twofa = FALSE]
            \/ mem' = [mem EXCEPT !.twofa = FALSE, !.real = FALSE]
        BY <1>9 DEF CodeFails
      <4>3. mem' \in [client: Client \cup {None}, email: Email \cup {None},
                      twofa: BOOLEAN, real: BOOLEAN]
        BY <4>2 DEF SessRecords
      <4> QED
        BY <4>1, <4>3 DEF SessRecords
    <3> QED
      BY <3>1, <3>2, <3>3, EmptyRecords DEF CallShape, Present
  <2>3. TokenFits' /\ AccountFits'
    BY <1>9, <1>0, EmptyRecords DEF CodeFails, Fault, Free, Present, Alive,
       Quiet, SameMarks, SameLogin, SameSnapshot, TokenFits, SessFlags, SessRecords,
       SessOthers, CallShape, Absent, AccountFits
  <2>4. StaysOut' /\ TokenSurvives' /\ SocketsAccounted'
    BY <1>9, <1>0, EmptyRecords DEF CodeFails, Fault, Free, Present, Alive,
       Quiet, SameMarks, SameLogin, SameSnapshot, StaysOut, SessRecords,
       CallShape, Absent, Idle, TokenSurvives, SessOthers, TokenFits,
       SocketsAccounted
  <2> QED  BY <2>1, <2>2, <2>3, <2>4
<1>10. CASE ReconnectOk
  <2>1. SessFlags' /\ SessOthers'
    BY <1>10, <1>0, EmptyRecords DEF ReconnectOk, Persisted, Free, Present,
       Alive, Quiet, SameMarks, SameLogin, SameSnapshot, SessFlags,
       SessRecords, SessOthers, CallShape
  <2>2. SessRecords' /\ CallShape'
    BY <1>10, <1>0, EmptyRecords DEF ReconnectOk, Persisted, Free, Present,
       Alive, Quiet, SameMarks, SameLogin, SameSnapshot, SessFlags,
       SessRecords, SessOthers, CallShape, Absent, Idle
  <2>3. TokenFits' /\ AccountFits'
    BY <1>10, <1>0, EmptyRecords DEF ReconnectOk, Persisted, Free, Present,
       Alive, Quiet, SameMarks, SameLogin, SameSnapshot, SessFlags,
       SessRecords, SessOthers, CallShape, Absent, TokenFits, AccountFits
  <2>4. StaysOut' /\ TokenSurvives' /\ SocketsAccounted'
    BY <1>10, <1>0, EmptyRecords DEF ReconnectOk, Persisted, Free, Present,
       Alive, Quiet, SameMarks, SameLogin, SameSnapshot, SessRecords,
       SessOthers, CallShape, Absent, Idle, TokenFits, StaysOut,
       TokenSurvives, SocketsAccounted
  <2> QED  BY <2>1, <2>2, <2>3, <2>4
<1>11. CASE ReconnectAsksCode
  <2>1. SessFlags' /\ SessOthers'
    BY <1>11, <1>0, EmptyRecords DEF ReconnectAsksCode, Free, Present, Alive,
       Quiet, SameMarks, SameLogin, SameSnapshot, SessFlags, SessRecords,
       SessOthers, CallShape
  <2>2. SessRecords' /\ CallShape'
    BY <1>11, <1>0, EmptyRecords DEF ReconnectAsksCode, Free, Present, Alive,
       Quiet, SameMarks, SameLogin, SameSnapshot, SessFlags, SessRecords,
       SessOthers, CallShape, Absent, Idle
  <2>3. TokenFits' /\ AccountFits'
    BY <1>11, <1>0, EmptyRecords DEF ReconnectAsksCode, Free, Present, Alive,
       Quiet, SameMarks, SameLogin, SameSnapshot, SessFlags, SessRecords,
       SessOthers, CallShape, Absent, TokenFits, AccountFits
  <2>4. StaysOut' /\ TokenSurvives' /\ SocketsAccounted'
    BY <1>11, <1>0, EmptyRecords DEF ReconnectAsksCode, Free, Present, Alive,
       Quiet, SameMarks, SameLogin, SameSnapshot, SessRecords, SessOthers,
       CallShape, Absent, Idle, TokenFits, StaysOut, TokenSurvives,
       SocketsAccounted
  <2> QED  BY <2>1, <2>2, <2>3, <2>4
<1>12. CASE ReconnectFails
  <2>1. SessFlags' /\ SessOthers'
    BY <1>12, <1>0, EmptyRecords DEF ReconnectFails, Fault, Free, Present,
       Alive, Quiet, SameMarks, SameLogin, SameSnapshot, SessFlags,
       SessRecords, SessOthers, CallShape
  <2>2. SessRecords' /\ CallShape'
    BY <1>12, <1>0, EmptyRecords DEF ReconnectFails, Fault, Free, Present,
       Alive, Quiet, SameMarks, SameLogin, SameSnapshot, SessFlags,
       SessRecords, SessOthers, CallShape, Absent, Idle
  <2>3. TokenFits' /\ AccountFits'
    BY <1>12, <1>0, EmptyRecords DEF ReconnectFails, Fault, Free, Present,
       Alive, Quiet, SameMarks, SameLogin, SameSnapshot, SessFlags,
       SessRecords, SessOthers, CallShape, Absent, TokenFits, AccountFits
  <2>4. StaysOut' /\ TokenSurvives' /\ SocketsAccounted'
    BY <1>12, <1>0, EmptyRecords DEF ReconnectFails, Fault, Free, Present,
       Alive, Quiet, SameMarks, SameLogin, SameSnapshot, SessRecords,
       SessOthers, CallShape, Absent, Idle, TokenFits, StaysOut,
       TokenSurvives, SocketsAccounted
  <2> QED  BY <2>1, <2>2, <2>3, <2>4
<1>13. CASE RestoreOk
  <2>1. SessFlags' /\ SessOthers'
    BY <1>13, <1>0, EmptyRecords DEF RestoreOk, Persisted, Free, Present,
       Alive, Quiet, SameMarks, SameLogin, SameSnapshot, SessFlags,
       SessRecords, SessOthers, CallShape
  <2>2. SessRecords' /\ CallShape'
    BY <1>13, <1>0, EmptyRecords DEF RestoreOk, Persisted, Free, Present,
       Alive, Quiet, SameMarks, SameLogin, SameSnapshot, SessFlags,
       SessRecords, SessOthers, CallShape, Absent, Idle
  <2>3. TokenFits' /\ AccountFits'
    BY <1>13, <1>0, EmptyRecords DEF RestoreOk, Persisted, Free, Present,
       Alive, Quiet, SameMarks, SameLogin, SameSnapshot, SessFlags,
       SessRecords, SessOthers, CallShape, Absent, TokenFits, AccountFits
  <2>4. StaysOut' /\ TokenSurvives' /\ SocketsAccounted'
    BY <1>13, <1>0, EmptyRecords DEF RestoreOk, Persisted, Free, Present,
       Alive, Quiet, SameMarks, SameLogin, SameSnapshot, SessRecords,
       SessOthers, CallShape, Absent, Idle, TokenFits, StaysOut,
       TokenSurvives, SocketsAccounted
  <2> QED  BY <2>1, <2>2, <2>3, <2>4
<1>14. ASSUME NEW rejected \in BOOLEAN, RestoreFails(rejected)
      PROVE  SessInv'
  <2>1. SessFlags'
    BY <1>14, <1>0, EmptyRecords DEF RestoreFails, Fault, ClearRuntimeCache,
       Free, Present, Alive, Quiet, SameMarks, SameLogin, SameSnapshot, SessFlags,
       SessRecords, SessOthers
  <2>2. SessOthers'
    BY <1>14, <1>0, EmptyRecords DEF RestoreFails, Fault, ClearRuntimeCache,
       Free, Present, Alive, Quiet, SameMarks, SameLogin, SameSnapshot,
       SessOthers, SessFlags, SessRecords, CallShape
  <2>3. SessRecords' /\ CallShape'
    BY <1>14, <1>0, EmptyRecords DEF RestoreFails, Fault, ClearRuntimeCache,
       Free, Present, Alive, Quiet, SameMarks, SameLogin, SameSnapshot,
       SessRecords, SessFlags, SessOthers, CallShape, Absent, Idle
  <2>4. TokenFits' /\ AccountFits'
    BY <1>14, <1>0, EmptyRecords DEF RestoreFails, Fault, ClearRuntimeCache,
       Free, Present, Alive, Quiet, SameMarks, SameLogin, SameSnapshot,
       TokenFits, SessFlags, SessRecords, SessOthers, CallShape, Absent, AccountFits
  <2>5. StaysOut' /\ TokenSurvives' /\ SocketsAccounted'
    BY <1>14, <1>0, EmptyRecords DEF RestoreFails, Fault, ClearRuntimeCache,
       Free, Present, Alive, Quiet, SameMarks, SameLogin, SameSnapshot,
       StaysOut, SessRecords, CallShape, Absent, Idle, TokenSurvives, SessOthers,
       TokenFits, SocketsAccounted
  <2> QED  BY <2>1, <2>2, <2>3, <2>4, <2>5
<1>15. CASE LoginOpensSocket
  <2>1. SessFlags' /\ SessOthers'
    BY <1>15, <1>0, EmptyRecords DEF LoginOpensSocket, Free, Present, Alive,
       Quiet, SameMarks, SameLogin, SameSnapshot, SessFlags, SessRecords,
       SessOthers, CallShape
  <2>2. SessRecords' /\ CallShape'
    BY <1>15, <1>0, EmptyRecords DEF LoginOpensSocket, Free, Present, Alive,
       Quiet, SameMarks, SameLogin, SameSnapshot, SessFlags, SessRecords,
       SessOthers, CallShape, Absent, Idle
  <2>3. TokenFits' /\ AccountFits'
    BY <1>15, <1>0, EmptyRecords DEF LoginOpensSocket, Free, Present, Alive,
       Quiet, SameMarks, SameLogin, SameSnapshot, SessFlags, SessRecords,
       SessOthers, CallShape, Absent, TokenFits, AccountFits
  <2>4. StaysOut' /\ TokenSurvives' /\ SocketsAccounted'
    BY <1>15, <1>0, EmptyRecords DEF LoginOpensSocket, Free, Present, Alive,
       Quiet, SameMarks, SameLogin, SameSnapshot, SessRecords, SessOthers,
       CallShape, Absent, Idle, TokenFits, StaysOut, TokenSurvives,
       SocketsAccounted
  <2> QED  BY <2>1, <2>2, <2>3, <2>4
<1>16. CASE CodeBegin
  <2>1. SessFlags' /\ SessOthers'
    BY <1>16, <1>0, EmptyRecords DEF CodeBegin, ClearRuntimeCache, Free,
       Present, Alive, Quiet, SameMarks, SameLogin, SameSnapshot, SessFlags,
       SessRecords, SessOthers, CallShape
  <2>2. SessRecords' /\ CallShape'
    BY <1>16, <1>0, EmptyRecords DEF CodeBegin, ClearRuntimeCache, Free,
       Present, Alive, Quiet, SameMarks, SameLogin, SameSnapshot, SessFlags,
       SessRecords, SessOthers, CallShape, Absent, Idle
  <2>3. TokenFits' /\ AccountFits'
    BY <1>16, <1>0, EmptyRecords DEF CodeBegin, ClearRuntimeCache, Free,
       Present, Alive, Quiet, SameMarks, SameLogin, SameSnapshot, SessFlags,
       SessRecords, SessOthers, CallShape, Absent, TokenFits, AccountFits
  <2>4. StaysOut' /\ TokenSurvives' /\ SocketsAccounted'
    BY <1>16, <1>0, EmptyRecords DEF CodeBegin, ClearRuntimeCache, Free,
       Present, Alive, Quiet, SameMarks, SameLogin, SameSnapshot, SessRecords,
       SessOthers, CallShape, Absent, Idle, TokenFits, StaysOut,
       TokenSurvives, SocketsAccounted
  <2> QED  BY <2>1, <2>2, <2>3, <2>4
<1>17. CASE Disconnect
  <2>1. SessFlags' /\ SessOthers'
    BY <1>17, <1>0, EmptyRecords DEF Disconnect, Free, Present, Alive, Quiet,
       SameMarks, SameLogin, SameSnapshot, SessFlags, SessRecords, SessOthers,
       CallShape
  <2>2. SessRecords' /\ CallShape'
    BY <1>17, <1>0, EmptyRecords DEF Disconnect, Free, Present, Alive, Quiet,
       SameMarks, SameLogin, SameSnapshot, SessFlags, SessRecords, SessOthers,
       CallShape, Absent, Idle
  <2>3. TokenFits' /\ AccountFits'
    BY <1>17, <1>0, EmptyRecords DEF Disconnect, Free, Present, Alive, Quiet,
       SameMarks, SameLogin, SameSnapshot, SessFlags, SessRecords, SessOthers,
       CallShape, Absent, TokenFits, AccountFits
  <2>4. StaysOut' /\ TokenSurvives' /\ SocketsAccounted'
    BY <1>17, <1>0, EmptyRecords DEF Disconnect, Free, Present, Alive, Quiet,
       SameMarks, SameLogin, SameSnapshot, SessRecords, SessOthers, CallShape,
       Absent, Idle, TokenFits, StaysOut, TokenSurvives, SocketsAccounted
  <2> QED  BY <2>1, <2>2, <2>3, <2>4
<1>18. ASSUME NEW c \in Client, ReconnectBegin(c) /\ backoff' \in BOOLEAN
      PROVE  SessInv'
  <2>1. SessFlags' /\ SessOthers'
    BY <1>18, <1>0, EmptyRecords DEF ReconnectBegin, Fresh, Unheld, Free,
       Present, Alive, Quiet, SameMarks, SameLogin, SameSnapshot, SessFlags,
       SessRecords, SessOthers, CallShape
  <2>2. SessRecords' /\ CallShape'
    BY <1>18, <1>0, EmptyRecords DEF ReconnectBegin, Fresh, Unheld, Free,
       Present, Alive, Quiet, SameMarks, SameLogin, SameSnapshot, SessFlags,
       SessRecords, SessOthers, CallShape, Absent, Idle
  <2>3. TokenFits' /\ AccountFits'
    BY <1>18, <1>0, EmptyRecords DEF ReconnectBegin, Fresh, Unheld, Free,
       Present, Alive, Quiet, SameMarks, SameLogin, SameSnapshot, SessFlags,
       SessRecords, SessOthers, CallShape, Absent, TokenFits, AccountFits
  <2>4. StaysOut' /\ TokenSurvives' /\ SocketsAccounted'
    BY <1>18, <1>0, EmptyRecords DEF ReconnectBegin, Fresh, Unheld, Free,
       Present, Alive, Quiet, SameMarks, SameLogin, SameSnapshot, SessRecords,
       SessOthers, CallShape, Absent, Idle, TokenFits, StaysOut,
       TokenSurvives, SocketsAccounted
  <2> QED  BY <2>1, <2>2, <2>3, <2>4
<1>19. ASSUME NEW c \in Client, RestoreBegin(c)
      PROVE  SessInv'
  <2>1. SessFlags' /\ SessOthers'
    BY <1>19, <1>0, EmptyRecords DEF RestoreBegin, Fresh, Unheld, Free,
       Present, Alive, Quiet, SameMarks, SameLogin, SameSnapshot, SessFlags,
       SessRecords, SessOthers, CallShape
  <2>2. SessRecords' /\ CallShape'
    BY <1>19, <1>0, EmptyRecords DEF RestoreBegin, Fresh, Unheld, Free,
       Present, Alive, Quiet, SameMarks, SameLogin, SameSnapshot, SessFlags,
       SessRecords, SessOthers, CallShape, Absent, Idle
  <2>3. TokenFits' /\ AccountFits'
    BY <1>19, <1>0, EmptyRecords DEF RestoreBegin, Fresh, Unheld, Free,
       Present, Alive, Quiet, SameMarks, SameLogin, SameSnapshot, SessFlags,
       SessRecords, SessOthers, CallShape, Absent, TokenFits, AccountFits
  <2>4. StaysOut' /\ TokenSurvives' /\ SocketsAccounted'
    BY <1>19, <1>0, EmptyRecords DEF RestoreBegin, Fresh, Unheld, Free,
       Present, Alive, Quiet, SameMarks, SameLogin, SameSnapshot, SessRecords,
       SessOthers, CallShape, Absent, Idle, TokenFits, StaysOut,
       TokenSurvives, SocketsAccounted
  <2> QED  BY <2>1, <2>2, <2>3, <2>4
<1>20. CASE RestoreDenied
  <2>1. SessFlags'
    BY <1>20 DEF RestoreDenied, ClearRuntimeCache, SessFlags, SameMarks, SameLogin, SameSnapshot, Quiet
  <2> QED
    BY <1>20, <2>1, MarksMove DEF RestoreDenied, ClearRuntimeCache, SameLogin, SameSnapshot, Quiet
<1>21. CASE RunOk
  <2>1. SessFlags'
    BY <1>21 DEF RunOk, ProbeSucceeds, SessFlags, SameMarks, SameLogin, SameSnapshot, Quiet
  <2> QED
    BY <1>21, <2>1, MarksMove DEF RunOk, ProbeSucceeds, SameLogin, SameSnapshot, Quiet
<1>22. CASE RunLosesReal
  <2>1. SessFlags' /\ SessOthers'
    BY <1>22, <1>0, EmptyRecords DEF RunLosesReal, Fault, Free, Present,
       Alive, Quiet, SameMarks, SameLogin, SameSnapshot, SessFlags, SessRecords,
       SessOthers, CallShape
  <2>2. SessRecords' /\ CallShape'
    BY <1>22, <1>0, EmptyRecords DEF RunLosesReal, Fault, Free, Present,
       Alive, Quiet, SameMarks, SameLogin, SameSnapshot, SessRecords, SessFlags,
       SessOthers, CallShape, Absent, Idle
  <2>3. TokenFits' /\ AccountFits'
    BY <1>22, <1>0, EmptyRecords DEF RunLosesReal, Fault, Free, Present,
       Alive, Quiet, SameMarks, SameLogin, SameSnapshot, TokenFits, SessFlags,
       SessRecords, SessOthers, CallShape, Absent, AccountFits
  <2>4. StaysOut' /\ TokenSurvives' /\ SocketsAccounted'
    BY <1>22, <1>0, EmptyRecords DEF RunLosesReal, Fault, Free, Present,
       Alive, Quiet, SameMarks, SameLogin, SameSnapshot, StaysOut, SessRecords,
       CallShape, Absent, Idle, TokenSurvives, SessOthers, TokenFits,
       SocketsAccounted
  <2> QED  BY <2>1, <2>2, <2>3, <2>4
<1>23. ASSUME NEW forget \in BOOLEAN, RunTimesOut(forget)
      PROVE  SessInv'
  <2>1. SessFlags' /\ SessOthers'
    BY <1>23, <1>0, EmptyRecords DEF RunTimesOut, Fault, Free, Present, Alive,
       Quiet, SameMarks, SameLogin, SameSnapshot, SessFlags, SessRecords,
       SessOthers, CallShape
  <2>2. SessRecords' /\ CallShape'
    BY <1>23, <1>0, EmptyRecords DEF RunTimesOut, Fault, Free, Present, Alive,
       Quiet, SameMarks, SameLogin, SameSnapshot, SessFlags, SessRecords,
       SessOthers, CallShape, Absent, Idle
  <2>3. TokenFits' /\ AccountFits'
    BY <1>23, <1>0, EmptyRecords DEF RunTimesOut, Fault, Free, Present, Alive,
       Quiet, SameMarks, SameLogin, SameSnapshot, SessFlags, SessRecords,
       SessOthers, CallShape, Absent, TokenFits, AccountFits
  <2>4. StaysOut' /\ TokenSurvives' /\ SocketsAccounted'
    BY <1>23, <1>0, EmptyRecords DEF RunTimesOut, Fault, Free, Present, Alive,
       Quiet, SameMarks, SameLogin, SameSnapshot, SessRecords, SessOthers,
       CallShape, Absent, Idle, TokenFits, StaysOut, TokenSurvives,
       SocketsAccounted
  <2> QED  BY <2>1, <2>2, <2>3, <2>4
<1>24. CASE RunBreaks
  <2>1. SessFlags' /\ SessOthers'
    BY <1>24, <1>0, EmptyRecords DEF RunBreaks, Fault, Free, Present, Alive,
       Quiet, SameMarks, SameLogin, SameSnapshot, SessFlags, SessRecords,
       SessOthers, CallShape
  <2>2. SessRecords' /\ CallShape'
    BY <1>24, <1>0, EmptyRecords DEF RunBreaks, Fault, Free, Present, Alive,
       Quiet, SameMarks, SameLogin, SameSnapshot, SessFlags, SessRecords,
       SessOthers, CallShape, Absent, Idle
  <2>3. TokenFits' /\ AccountFits'
    BY <1>24, <1>0, EmptyRecords DEF RunBreaks, Fault, Free, Present, Alive,
       Quiet, SameMarks, SameLogin, SameSnapshot, SessFlags, SessRecords,
       SessOthers, CallShape, Absent, TokenFits, AccountFits
  <2>4. StaysOut' /\ TokenSurvives' /\ SocketsAccounted'
    BY <1>24, <1>0, EmptyRecords DEF RunBreaks, Fault, Free, Present, Alive,
       Quiet, SameMarks, SameLogin, SameSnapshot, SessRecords, SessOthers,
       CallShape, Absent, Idle, TokenFits, StaysOut, TokenSurvives,
       SocketsAccounted
  <2> QED  BY <2>1, <2>2, <2>3, <2>4
<1>25. CASE StatusNotFound
  <2>1. SessFlags'
    BY <1>25 DEF StatusNotFound, SessFlags, SameMarks, SameLogin, SameSnapshot, Quiet
  <2> QED
    BY <1>25, <2>1, MarksMove DEF StatusNotFound, SameLogin, SameSnapshot, Quiet
<1>26. CASE AccountReads
  <2>1. SessFlags' /\ SessOthers'
    BY <1>26, <1>0, EmptyRecords DEF AccountReads, Free, Present, Alive,
       Quiet, SameMarks, SameLogin, SameSnapshot, SessFlags, SessRecords,
       SessOthers, CallShape
  <2>2. SessRecords' /\ CallShape'
    BY <1>26, <1>0, EmptyRecords DEF AccountReads, Free, Present, Alive,
       Quiet, SameMarks, SameLogin, SameSnapshot, SessFlags, SessRecords,
       SessOthers, CallShape, Absent, Idle
  <2>3. TokenFits' /\ AccountFits'
    BY <1>26, <1>0, EmptyRecords DEF AccountReads, Free, Present, Alive,
       Quiet, SameMarks, SameLogin, SameSnapshot, SessFlags, SessRecords,
       SessOthers, CallShape, Absent, TokenFits, AccountFits
  <2>4. StaysOut' /\ TokenSurvives' /\ SocketsAccounted'
    BY <1>26, <1>0, EmptyRecords DEF AccountReads, Free, Present, Alive,
       Quiet, SameMarks, SameLogin, SameSnapshot, SessRecords, SessOthers,
       CallShape, Absent, Idle, TokenFits, StaysOut, TokenSurvives,
       SocketsAccounted
  <2> QED  BY <2>1, <2>2, <2>3, <2>4
<1>27. CASE AccountStores
  <2>1. SessFlags' /\ SessOthers'
    BY <1>27, <1>0, EmptyRecords DEF AccountStores, Free, Present, Alive,
       Quiet, SameMarks, SameLogin, SameSnapshot, SessFlags, SessRecords, SessOthers,
       CallShape
  <2>2. SessRecords' /\ CallShape'
    BY <1>27, <1>0, EmptyRecords DEF AccountStores, Free, Present, Alive,
       Quiet, SameMarks, SameLogin, SameSnapshot, SessRecords, SessFlags, SessOthers,
       CallShape, Absent, Idle
  <2>3. TokenFits' /\ AccountFits'
    BY <1>27, <1>0, EmptyRecords DEF AccountStores, Free, Present, Alive,
       Quiet, SameMarks, SameLogin, SameSnapshot, TokenFits, SessFlags, SessRecords,
       SessOthers, CallShape, Absent, AccountFits
  <2>4. StaysOut' /\ TokenSurvives' /\ SocketsAccounted'
    BY <1>27, <1>0, EmptyRecords DEF AccountStores, Free, Present, Alive,
       Quiet, SameMarks, SameLogin, SameSnapshot, StaysOut, SessRecords,
       CallShape, Absent, Idle, TokenSurvives, SessOthers, TokenFits,
       SocketsAccounted
  <2> QED  BY <2>1, <2>2, <2>3, <2>4
<1>28. CASE ProbeDropsMark
  <2>1. SessFlags'
    BY <1>28 DEF ProbeDropsMark, SessFlags, SameMarks, SameLogin, SameSnapshot, Quiet
  <2> QED
    BY <1>28, <2>1, MarksMove DEF ProbeDropsMark, SameLogin, SameSnapshot, Quiet
<1>29. CASE SocketFalls
  <2>1. SessFlags' /\ SessOthers'
    BY <1>29, <1>0, EmptyRecords DEF SocketFalls, Fault, Free, Present, Alive,
       Quiet, SameMarks, SameLogin, SameSnapshot, SessFlags, SessRecords,
       SessOthers, CallShape
  <2>2. SessRecords' /\ CallShape'
    BY <1>29, <1>0, EmptyRecords DEF SocketFalls, Fault, Free, Present, Alive,
       Quiet, SameMarks, SameLogin, SameSnapshot, SessFlags, SessRecords,
       SessOthers, CallShape, Absent, Idle
  <2>3. TokenFits' /\ AccountFits'
    BY <1>29, <1>0, EmptyRecords DEF SocketFalls, Fault, Free, Present, Alive,
       Quiet, SameMarks, SameLogin, SameSnapshot, SessFlags, SessRecords,
       SessOthers, CallShape, Absent, TokenFits, AccountFits
  <2>4. StaysOut' /\ TokenSurvives' /\ SocketsAccounted'
    BY <1>29, <1>0, EmptyRecords DEF SocketFalls, Fault, Free, Present, Alive,
       Quiet, SameMarks, SameLogin, SameSnapshot, SessRecords, SessOthers,
       CallShape, Absent, Idle, TokenFits, StaysOut, TokenSurvives,
       SocketsAccounted
  <2> QED  BY <2>1, <2>2, <2>3, <2>4
<1>30. CASE ServiceRestarts
  <2>1. SessFlags'
    BY <1>30, <1>0, EmptyRecords DEF ServiceRestarts, Fault, Free, Present,
       Alive, Quiet, SameMarks, SameLogin, SameSnapshot, SessFlags, SessRecords,
       SessOthers
  <2>2. SessOthers'
    BY <1>30, <1>0, EmptyRecords DEF ServiceRestarts, Fault, Free, Present,
       Alive, Quiet, SameMarks, SameLogin, SameSnapshot, SessOthers, SessFlags,
       SessRecords, CallShape
  <2>3. SessRecords' /\ CallShape'
    BY <1>30, <1>0, EmptyRecords DEF ServiceRestarts, Fault, Free, Present,
       Alive, Quiet, SameMarks, SameLogin, SameSnapshot, SessRecords, SessFlags,
       SessOthers, CallShape, Absent, Idle
  <2>4. TokenFits' /\ AccountFits'
    BY <1>30, <1>0, EmptyRecords DEF ServiceRestarts, Fault, Free, Present,
       Alive, Quiet, SameMarks, SameLogin, SameSnapshot, TokenFits, SessFlags,
       SessRecords, SessOthers, CallShape, Absent, AccountFits
  <2>5. StaysOut' /\ TokenSurvives' /\ SocketsAccounted'
    BY <1>30, <1>0, EmptyRecords DEF ServiceRestarts, Fault, Free, Present,
       Alive, Quiet, SameMarks, SameLogin, SameSnapshot, StaysOut, SessRecords,
       CallShape, Absent, Idle, TokenSurvives, SessOthers, TokenFits,
       SocketsAccounted
  <2> QED  BY <2>1, <2>2, <2>3, <2>4, <2>5
<1>31. CASE TimePasses(OfflineExpires)
  <2>1. SessFlags'
    BY <1>31 DEF TimePasses, OfflineExpires, SessFlags, SameMarks, SameLogin, SameSnapshot, Quiet
  <2> QED
    BY <1>31, <2>1, MarksMove DEF TimePasses, OfflineExpires, SameLogin, SameSnapshot, Quiet
<1>32. CASE TimePasses(BackoffExpires)
  <2>1. SessFlags'
    BY <1>32 DEF TimePasses, BackoffExpires, SessFlags, SameMarks, SameLogin, SameSnapshot, Quiet
  <2> QED
    BY <1>32, <2>1, MarksMove DEF TimePasses, BackoffExpires, SameLogin, SameSnapshot, Quiet
<1>33. CASE TimePasses(StatusExpires)
  <2>1. SessFlags'
    BY <1>33 DEF TimePasses, StatusExpires, SessFlags, SameMarks, SameLogin, SameSnapshot, Quiet
  <2> QED
    BY <1>33, <2>1, MarksMove DEF TimePasses, StatusExpires, SameLogin, SameSnapshot, Quiet
<1>34. CASE TimePasses(CooldownExpires)
  <2>1. SessFlags'
    BY <1>34 DEF TimePasses, CooldownExpires, SessFlags, SameMarks, SameLogin, SameSnapshot, Quiet
  <2> QED
    BY <1>34, <2>1, MarksMove DEF TimePasses, CooldownExpires, SameLogin, SameSnapshot, Quiet
<1>35. ASSUME NEW c \in Client, ReconnectByUser(c) PROVE SessInv'
  BY <1>35, <1>18 DEF ReconnectByUser, SessFlags
<1>36. ASSUME NEW c \in Client, ReconnectDead(c) PROVE SessInv'
  BY <1>36, <1>18 DEF ReconnectDead
<1>37. ASSUME NEW c \in Client, RestoreByPoll(c) \/ RestoreByUser(c)
      PROVE  SessInv'
  BY <1>37, <1>19 DEF RestoreByPoll, RestoreByUser
<1> QED  BY <1>1, <1>2, <1>3, <1>4, <1>5, <1>6, <1>7, <1>8, <1>9, <1>10,
   <1>11, <1>12, <1>13, <1>14, <1>15, <1>16, <1>17, <1>20, <1>21, <1>22,
   <1>23, <1>24, <1>25, <1>26, <1>27, <1>28, <1>29, <1>30, <1>31, <1>32,
   <1>33, <1>34, <1>35, <1>36, <1>37 DEF SessNext, CallEnds

\* The invariant holds when the service has just started for the first time.
LEMMA SessStart == SessInit => SessInv
<1> SUFFICES ASSUME SessInit PROVE SessInv
  OBVIOUS
<1>1. MaxFault \in Nat
  BY SessAssumption
<1>2. SessFlags /\ SessRecords
  BY DEF SessInit, SessFlags, SessRecords, Absent, Idle
<1>5. SessOthers
  BY <1>1 DEF SessInit, SessOthers
<1>3. CallShape /\ TokenFits /\ AccountFits
  BY EmptyRecords DEF SessInit, CallShape, TokenFits, AccountFits, Present
<1>4. StaysOut /\ TokenSurvives /\ SocketsAccounted
  BY DEF SessInit, StaysOut, TokenSurvives, SocketsAccounted
<1> QED  BY <1>2, <1>3, <1>4, <1>5 DEF SessInv

\* SessInv holds in every reachable state.
LEMMA SessAlways == SessSpec => []SessInv
BY SessStart, SessStep, PTL DEF SessSpec

\* The session, its token, sockets, marks and logins keep their types.
THEOREM SessionTypeCorrect == SessSpec => []SessTypeOK
<1>1. SessInv => SessTypeOK
  BY SessTypeParts DEF SessInv
<1> QED  BY SessAlways, <1>1, PTL

\* After POST /sessions/disconnect nothing is left that could bring the session
\* back, whatever ends, expires or restarts later.
THEOREM UserStaysOut == SessSpec => []StaysOut
<1>1. SessInv => StaysOut
  BY DEF SessInv
<1> QED  BY SessAlways, <1>1, PTL

\* No transient failure takes the token of a completed login off the disk.
THEOREM TokensSurvive == SessSpec => []TokenSurvives
<1>1. SessInv => TokenSurvives
  BY DEF SessInv
<1> QED  BY SessAlways, <1>1, PTL

\* Without codes, a session in memory between operations is a completed and
\* persisted login: no failure leaves half of one.
THEOREM SessionsAreWhole == SessSpec => []NoHalfSession
<1>1. SessInv => NoHalfSession
  BY EmptyRecords
     DEF SessInv, SessRecords, SessOthers, CallShape, TokenFits, NoHalfSession, Free,
         Present
<1> QED  BY SessAlways, <1>1, PTL

\* Every socket that is open is somebody's, but for those a failed
\* reconnection leaves.
THEOREM SocketsAreAccountedFor == SessSpec => []SocketsAccounted
<1>1. SessInv => SocketsAccounted
  BY DEF SessInv
<1> QED  BY SessAlways, <1>1, PTL

\* The snapshot beside a session is of its account unless it was stored late.
THEOREM SnapshotsFit == SessSpec => []AccountOfThisLogin
<1>1. SessInv => AccountOfThisLogin
  BY DEF SessInv, SessFlags, AccountFits, AccountOfThisLogin
<1> QED  BY SessAlways, <1>1, PTL

-----------------------------------------------------------------------------
(* CallGate: the gate always moves.                                        *)

\* Only a login that reuses a session passes the gate a second time.
OnlyReconfirming ==
    \A u \in User : pc[u] \in {"requeued", "twice"} => u \in Reconfirms

GateInv == GateTypeOK /\ OnlyReconfirming

\* If nobody is at work behind the gate, the permits are with logins that wait
\* to pass again, one each, and there are more permits than those.
LEMMA WaitersLeavePermit == GateInv => GateMoves
<1> SUFFICES ASSUME GateInv, \A u \in User : pc[u] \notin {"inside", "twice"}
             PROVE  Free1
  BY DEF GateMoves
<1>1. Once \subseteq Reconfirms /\ Twice = {}
  BY DEF GateInv, OnlyReconfirming, Once, Twice
<1>2. IsFiniteSet(Reconfirms)
  BY GateAssumption, FS_Subset
<1>3. /\ Cardinality(Once) \in Nat /\ Cardinality(Reconfirms) \in Nat
      /\ Cardinality(Once) <= Cardinality(Reconfirms)
  BY <1>1, <1>2, FS_Subset, FS_CardinalityType
<1>4. Cardinality(Twice) = 0
  BY <1>1, FS_EmptySet
<1> QED  BY <1>3, <1>4, GateAssumption DEF Free1

\* Whoever is at the gate for the second time, Requeue let in.
LEMMA GateStep ==
    ASSUME GateInv, [GateNext]_gateVars
    PROVE  GateInv'
<1> USE DEF GateInv, GateTypeOK, OnlyReconfirming, Places
<1>1. CASE UNCHANGED gateVars
  BY <1>1 DEF gateVars
<1>2. ASSUME NEW u \in User, Queue(u) PROVE GateInv'
  BY <1>2 DEF Queue
<1>3. ASSUME NEW u \in User, Enter(u) PROVE GateInv'
  BY <1>3 DEF Enter
<1>4. ASSUME NEW u \in User, QueueTimesOut(u) PROVE GateInv'
  BY <1>4 DEF QueueTimesOut
<1>5. ASSUME NEW u \in User, Requeue(u) PROVE GateInv'
  BY <1>5 DEF Requeue
<1>6. ASSUME NEW u \in User, EnterAgain(u) PROVE GateInv'
  BY <1>6 DEF EnterAgain
<1>7. ASSUME NEW u \in User, Leave(u) PROVE GateInv'
  BY <1>7 DEF Leave
<1> QED  BY <1>1, <1>2, <1>3, <1>4, <1>5, <1>6, <1>7 DEF GateNext

\* Nobody is at the gate at first.
LEMMA GateStart == GateInit => GateInv
BY DEF GateInit, GateInv, GateTypeOK, OnlyReconfirming, Places

\* With fewer users logging in anew than BULLEX_MAX_CONCURRENT_API_CALLS, the
\* semaphore of bullex-service never fills with operations that wait for it.
THEOREM GateAlwaysMoves == GateSpec => []GateMoves
BY GateStart, GateStep, WaitersLeavePermit, PTL DEF GateSpec

-----------------------------------------------------------------------------
(* BuyOrder: one purchase of a cycle, and the order followed is it.        *)

\* The types, but for the queue of calls.
BuyTypes ==
    /\ cycle \in 0..MaxCycle
    /\ step \in {"idle", "turbo", "again", "digital"}
    /\ cand \in Cand \cup {0}
    /\ attempts \in 0..MaxAttempts
    /\ followed \in Nat
    /\ phase \in {"start", "sent", "waiting"}
    /\ flight \in Message /\ slot \in Message
    /\ results \in Nat /\ answered \in BOOLEAN
    /\ opened \subseteq BrokerOrder /\ IsFiniteSet(opened)
    /\ silences \in 0..MaxSilence

\* The calls of a queue nobody waits for.
Abandoned(q) ==
    /\ q \in Seq(Call)
    /\ \A i \in 1..Len(q) : ~q[i].heard /\ q[i].cycle <= cycle

\* Only the last call is waited for, and it is of the cycle and the candidate
\* at hand; the others were given up.
QueueRight ==
    /\ calls \in Seq(Call)
    /\ \A i \in 1..Len(calls) : calls[i].cycle <= cycle
    /\ \A i \in 1..Len(calls) : calls[i].heard =>
            /\ i = Len(calls) /\ step # "idle"
            /\ calls[i].cycle = cycle /\ calls[i].cand = cand
            /\ calls[i].op = IF step = "digital" THEN "digital" ELSE "turbo"
    /\ step # "idle" => /\ calls # <<>> /\ calls[Len(calls)].heard
                        /\ followed = 0

\* What the broker has said of the head's request, on its way or in its slot.
Says(m) ==
    /\ m.why = "accepted" =>
            \E o \in opened : /\ o.id = m.id /\ o.cycle = calls[1].cycle
                              /\ o.cand = calls[1].cand
    /\ m.why \in Refusals /\ calls[1].op = "turbo" =>
            \A o \in opened : o.op = "turbo" => o.cycle # calls[1].cycle

HeadRight ==
    /\ phase = "start" => flight = Nothing /\ slot = Nothing
    /\ flight = Nothing \/ slot = Nothing
    /\ calls = <<>> => phase = "start"
    /\ calls # <<>> => Says(flight) /\ Says(slot)

\* No purchase on the turbo channel in this cycle, and none to come.
NoTurbo(q) ==
    /\ \A i \in 1..Len(q) : q[i].op = "turbo" => q[i].cycle # cycle
    /\ \A o \in opened : o.op = "turbo" => o.cycle # cycle

\* At most one purchase of a cycle in a queue.
Single(q) ==
    \A i, j \in 1..Len(q) :
        q[i].op = "turbo" /\ q[j].op = "turbo" /\ q[i].cycle = q[j].cycle
            => i = j

\* One purchase of a cycle on the turbo channel, called or opened.
OneEach ==
    /\ Single(calls)
    /\ \A o, p \in opened :
            o.op = "turbo" /\ p.op = "turbo" /\ o.cycle = p.cycle => o = p
    /\ \A i \in 1..Len(calls), o \in opened :
            calls[i].op = "turbo" /\ o.op = "turbo" /\ calls[i].cycle = o.cycle
                => i = 1 /\ phase # "start"
    /\ \A o \in opened : o.cycle <= cycle
    /\ step = "digital" => NoTurbo(calls)

\* The inductive invariant behind FollowedIsMine and OneTurboOrder.
BuyInv == BuyTypes /\ QueueRight /\ HeadRight /\ OneEach /\ FollowedIsMine

-----------------------------------------------------------------------------
USE BuyAssumption

\* The types and the order of the queue are all the types.
LEMMA BuyTypeParts == BuyTypes /\ QueueRight => BuyTypeOK
BY DEF BuyTypes, QueueRight, BuyTypeOK

\* The call the gateway waits for.
LEMMA Waiting ==
    ASSUME BuyTypes, QueueRight, step # "idle"
    PROVE  /\ cand \in Cand /\ cycle \in 1..MaxCycle
           /\ followed = 0
           /\ Len(calls) \in Nat \ {0}
           /\ calls[Len(calls)].heard
           /\ calls[Len(calls)].cycle = cycle /\ calls[Len(calls)].cand = cand
           /\ calls[Len(calls)].op = IF step = "digital" THEN "digital" ELSE "turbo"
<1>1. calls \in Seq(Call) /\ calls # <<>> /\ calls[Len(calls)].heard /\ followed = 0
  BY DEF QueueRight
<1>2. Len(calls) \in Nat \ {0} /\ Len(calls) \in 1..Len(calls)
  BY <1>1
<1>3. calls[Len(calls)] \in Call
  BY <1>1, <1>2
<1>4. /\ calls[Len(calls)].cycle = cycle /\ calls[Len(calls)].cand = cand
      /\ calls[Len(calls)].op = IF step = "digital" THEN "digital" ELSE "turbo"
  BY <1>1, <1>2 DEF QueueRight
<1>5. calls[Len(calls)].cycle \in 1..MaxCycle /\ calls[Len(calls)].cand \in Cand
  BY <1>3 DEF Call
<1>6. QED
  BY <1>1, <1>2, <1>4, <1>5

\* A call's answer: the order is followed, the entry is given up, the next
\* candidate or the same one is sent, or the digital channel is tried.
Follows(answer, q) ==
    /\ answer.why = "accepted" /\ followed' = answer.id
    /\ step' = "idle" /\ calls' = q /\ UNCHANGED <<cand, attempts>>
\* The entry ends with this call.
EndsHere(q) ==
    step' = "idle" /\ calls' = q /\ UNCHANGED <<cand, attempts, followed>>
\* Another purchase is sent on the turbo channel.
SendsTurbo(answer, q) ==
    /\ cand' \in Cand /\ attempts' \in 0..MaxAttempts
    /\ step' \in {"turbo", "again"} /\ UNCHANGED followed
    /\ calls' = Append(q, Post("turbo", cand'))
    /\ step = "digital" \/ answer.why \in Refusals
\* The same candidate is sent on the digital channel.
SendsDigital(answer, q) ==
    /\ step # "digital" /\ step' = "digital"
    /\ calls' = Append(q, Post("digital", cand))
    /\ answer.why \in Refusals
    /\ UNCHANGED <<cand, attempts, followed>>

\* What trying the next candidate comes to.
LEMMA NextCases ==
    ASSUME NEW answer, NEW q, BuyTypes, NextCandidate(q),
           step = "digital" \/ answer.why \in Refusals
    PROVE  EndsHere(q) \/ SendsTurbo(answer, q)
<1>1. CASE attempts = MaxAttempts \/ Later = {}
  BY <1>1 DEF NextCandidate, GiveUp, EndsHere
<1>2. CASE ~(attempts = MaxAttempts \/ Later = {})
  <2>1. PICK c \in Later : /\ cand' = c /\ attempts' = attempts + 1
                           /\ step' = "turbo"
                           /\ calls' = Append(q, Post("turbo", c))
                           /\ UNCHANGED followed
    BY <1>2 DEF NextCandidate
  <2>2. c \in Cand
    BY DEF Later
  <2>3. attempts' \in 0..MaxAttempts
    BY <1>2, <2>1 DEF BuyTypes, MaxAttempts
  <2>4. QED
    BY <2>1, <2>2, <2>3 DEF SendsTurbo
<1>3. QED
  BY <1>1, <1>2

\* What an answer comes to.
LEMMA ReactCases ==
    ASSUME NEW answer, NEW q, BuyTypes, cand \in Cand, React(answer, q)
    PROVE  \/ Follows(answer, q) \/ EndsHere(q)
           \/ SendsTurbo(answer, q) \/ SendsDigital(answer, q)
<1>1. CASE answer.why = "accepted"
  BY <1>1 DEF React, Follow, Follows
<1>2. CASE answer.why = "over" /\ step = "turbo"
  <2>1. Resend("again", "turbo", q)
    BY <1>2 DEF React
  <2>2. attempts' \in 0..MaxAttempts
    BY <2>1 DEF Resend, BuyTypes
  <2>3. QED
    BY <1>2, <2>1, <2>2 DEF Resend, SendsTurbo, Refusals
<1>3. CASE answer.why = "unavailable" /\ step # "digital" /\ cand \notin Otc
  BY <1>3 DEF React, Resend, SendsDigital, Refusals
<1>4. CASE \/ answer.why = "unavailable" /\ step # "digital" /\ cand \in Otc
           \/ answer.why # "accepted" /\ step = "digital"
  <2>1. NextCandidate(q)
    BY <1>4 DEF React
  <2>2. step = "digital" \/ answer.why \in Refusals
    BY <1>4 DEF Refusals
  <2>3. QED
    BY <2>1, <2>2, NextCases
<1>5. CASE /\ answer.why # "accepted" /\ answer.why # "unavailable"
           /\ ~(answer.why = "over" /\ step = "turbo") /\ step # "digital"
  BY <1>5 DEF React, GiveUp, EndsHere
<1>6. QED
  BY <1>1, <1>2, <1>3, <1>4, <1>5

\* A POST takes its place behind the abandoned ones.
LEMMA Posted ==
    ASSUME NEW q, Abandoned(q), cycle \in 1..MaxCycle, NEW c \in Cand,
           NEW op \in {"turbo", "digital"}
    PROVE  LET r == Append(q, Post(op, c)) IN
           /\ r \in Seq(Call) /\ r # <<>> /\ Len(r) = Len(q) + 1
           /\ Len(q) \in Nat
           /\ r[Len(r)] = Post(op, c)
           /\ \A i \in 1..Len(q) : r[i] = q[i]
<1>1. Post(op, c) \in Call
  BY DEF Post, Call
<1>2. q \in Seq(Call)
  BY DEF Abandoned
<1> HIDE DEF Post
<1>3. QED
  BY <1>1, <1>2

\* What an answer makes of the queue.
LEMMA ReactQueue ==
    ASSUME BuyTypes, QueueRight, step # "idle", NEW q, Abandoned(q),
           NEW answer, answer.why = "accepted" => answer.id \in Nat,
           React(answer, q), UNCHANGED cycle
    PROVE  /\ QueueRight'
           /\ followed' \in Nat
           /\ step' \in {"idle", "turbo", "again", "digital"}
           /\ cand' \in Cand \cup {0}
           /\ attempts' \in 0..MaxAttempts
<1>1. cand \in Cand /\ cycle \in 1..MaxCycle /\ followed = 0
  BY Waiting
<1>2. /\ step \in {"idle", "turbo", "again", "digital"}
      /\ attempts \in 0..MaxAttempts
  BY DEF BuyTypes
<1>3. CASE Follows(answer, q)
  BY <1>1, <1>2, <1>3 DEF Follows, QueueRight, Abandoned
<1>4. CASE EndsHere(q)
  BY <1>1, <1>2, <1>4 DEF EndsHere, QueueRight, Abandoned
<1>5. ASSUME NEW op \in {"turbo", "digital"}, NEW c \in Cand, cand' = c,
             step' # "idle", step' = "digital" <=> op = "digital",
             UNCHANGED followed, calls' = Append(q, Post(op, c))
      PROVE  QueueRight'
  <2>1. /\ calls' \in Seq(Call) /\ calls' # <<>> /\ Len(calls') = Len(q) + 1
        /\ calls'[Len(calls')] = Post(op, c) /\ Len(q) \in Nat
        /\ \A i \in 1..Len(q) : calls'[i] = q[i]
    BY <1>1, <1>5, Posted
  <2>2. /\ Post(op, c).heard /\ Post(op, c).cycle = cycle
        /\ Post(op, c).cand = c /\ Post(op, c).op = op
    BY DEF Post
  <2>3. ASSUME NEW i \in 1..Len(calls')
        PROVE  i = Len(calls') \/ (~calls'[i].heard /\ calls'[i].cycle <= cycle)
    BY <2>1 DEF Abandoned
  <2>4. \A i \in 1..Len(calls') : calls'[i].cycle <= cycle'
    BY <2>1, <2>2, <2>3, <1>1
  <2>5. \A i \in 1..Len(calls') : calls'[i].heard =>
            /\ i = Len(calls') /\ step' # "idle"
            /\ calls'[i].cycle = cycle' /\ calls'[i].cand = cand'
            /\ calls'[i].op = IF step' = "digital" THEN "digital" ELSE "turbo"
    BY <2>1, <2>2, <2>3, <1>5
  <2>6. QED
    BY <2>1, <2>2, <2>4, <2>5, <1>1, <1>5 DEF QueueRight
<1>6. CASE SendsTurbo(answer, q)
  BY <1>1, <1>2, <1>6, <1>5 DEF SendsTurbo
<1>7. CASE SendsDigital(answer, q)
  BY <1>1, <1>2, <1>7, <1>5 DEF SendsDigital
<1>8. QED
  BY <1>1, <1>3, <1>4, <1>6, <1>7, ReactCases

\* What it makes of the purchases: one is sent again only when none is open and
\* none is to come.
LEMMA ReactOnce ==
    ASSUME BuyTypes, QueueRight, OneEach, step # "idle",
           NEW q, Abandoned(q), Single(q), NEW answer, React(answer, q),
           step = "digital" \/ answer.why \in Refusals => NoTurbo(q),
           \A i \in 1..Len(q), o \in opened :
               q[i].op = "turbo" /\ o.op = "turbo" /\ q[i].cycle = o.cycle
                   => i = 1 /\ phase' # "start",
           UNCHANGED <<cycle, opened>>
    PROVE  OneEach'
<1>1. cand \in Cand /\ cycle \in 1..MaxCycle
  BY Waiting
<1>2. /\ \A o, p \in opened' :
            o.op = "turbo" /\ p.op = "turbo" /\ o.cycle = p.cycle => o = p
      /\ \A o \in opened' : o.cycle <= cycle'
  BY DEF OneEach
<1>3. ASSUME calls' = q, step' = "idle" PROVE OneEach'
  BY <1>2, <1>3 DEF OneEach, Single
<1>4. ASSUME NEW op \in {"turbo", "digital"}, NEW c \in Cand,
             NoTurbo(q), calls' = Append(q, Post(op, c)),
             step' = "digital" => op = "digital"
      PROVE  OneEach'
  <2>1. /\ Len(calls') = Len(q) + 1 /\ calls'[Len(calls')] = Post(op, c)
        /\ Len(q) \in Nat
        /\ \A i \in 1..Len(q) : calls'[i] = q[i]
    BY <1>1, <1>4, Posted
  <2>2. Post(op, c).cycle = cycle /\ Post(op, c).op = op
    BY DEF Post
  <2>3. ASSUME NEW i \in 1..Len(calls')
        PROVE  \/ i = Len(calls')
               \/ /\ i \in 1..Len(q) /\ calls'[i] = q[i]
                  /\ q[i].op = "turbo" => q[i].cycle # cycle
    BY <2>1, <1>4 DEF NoTurbo
  <2>4. Single(calls')
    <3> SUFFICES ASSUME NEW i \in 1..Len(calls'), NEW j \in 1..Len(calls'),
                        calls'[i].op = "turbo", calls'[j].op = "turbo",
                        calls'[i].cycle = calls'[j].cycle
                 PROVE  i = j
      BY DEF Single
    <3>1. CASE i = Len(calls') \/ j = Len(calls')
      BY <3>1, <2>1, <2>2, <2>3
    <3>2. CASE i # Len(calls') /\ j # Len(calls')
      BY <3>2, <2>3 DEF Single
    <3>3. QED
      BY <3>1, <3>2
  <2>5. ASSUME NEW i \in 1..Len(calls'), NEW o \in opened',
               calls'[i].op = "turbo", o.op = "turbo", calls'[i].cycle = o.cycle
        PROVE  i = 1 /\ phase' # "start"
    <3>1. i \in 1..Len(q) /\ calls'[i] = q[i]
      BY <2>1, <2>2, <2>3, <2>5, <1>4 DEF NoTurbo
    <3>2. QED
      BY <3>1, <2>5
  <2>6. ASSUME step' = "digital" PROVE NoTurbo(calls)'
    <3>1. op = "digital"
      BY <1>4, <2>6
    <3>2. \A i \in 1..Len(calls') : calls'[i].op = "turbo" => calls'[i].cycle # cycle
      BY <2>1, <2>2, <2>3, <3>1
    <3>3. QED
      BY <3>2, <1>4 DEF NoTurbo
  <2>7. QED
    BY <1>2, <2>4, <2>5, <2>6 DEF OneEach
<1>5. CASE Follows(answer, q)
  BY <1>3, <1>5 DEF Follows
<1>6. CASE EndsHere(q)
  BY <1>3, <1>6 DEF EndsHere
<1>7. CASE SendsTurbo(answer, q)
  BY <1>4, <1>7 DEF SendsTurbo
<1>8. CASE SendsDigital(answer, q)
  BY <1>1, <1>4, <1>8 DEF SendsDigital
<1>9. QED
  BY <1>1, <1>5, <1>6, <1>7, <1>8, ReactCases

\* An answer to the head: it is the only call when it is waited for.
LEMMA AnswerStep ==
    ASSUME BuyInv, Busy, NEW answer \in Message, Says(answer), Answer(answer),
           silences' \in 0..MaxSilence
    PROVE  BuyInv'
<1>1. /\ BuyTypes /\ QueueRight /\ HeadRight /\ OneEach /\ FollowedIsMine
      /\ calls # <<>> /\ calls \in Seq(Call)
  BY DEF BuyInv, Busy, QueueRight
<1>2. /\ Len(calls) \in Nat \ {0} /\ Len(Tail(calls)) = Len(calls) - 1
      /\ Tail(calls) \in Seq(Call)
      /\ \A i \in 1..Len(Tail(calls)) : /\ i + 1 \in 1..Len(calls)
                                        /\ Tail(calls)[i] = calls[i + 1]
      /\ Request = calls[1] /\ 1 \in 1..Len(calls)
  BY <1>1 DEF Request
<1>3. /\ phase' = "start" /\ flight' = Nothing /\ slot' = Nothing
      /\ answered' = FALSE /\ UNCHANGED <<cycle, opened, results>>
  BY DEF Answer
<1>4. Nothing \in Message
  BY DEF Message
<1>5. HeadRight'
  <2>1. Says(Nothing)'
    BY DEF Says, Nothing, Refusal, Refusals
  <2>2. QED
    BY <1>3, <2>1 DEF HeadRight
<1>6. CASE Request.heard
  <2>1. React(answer, Tail(calls))
    BY <1>6 DEF Answer
  <2>2. /\ step # "idle" /\ Len(calls) = 1
        /\ Request.cycle = cycle /\ Request.cand = cand
        /\ Request.op = IF step = "digital" THEN "digital" ELSE "turbo"
    <3>1. \A i \in 1..Len(calls) : calls[i].heard =>
            /\ i = Len(calls) /\ step # "idle"
            /\ calls[i].cycle = cycle /\ calls[i].cand = cand
            /\ calls[i].op = IF step = "digital" THEN "digital" ELSE "turbo"
      BY <1>1 DEF QueueRight
    <3>2. Request = calls[1] /\ 1 \in 1..Len(calls) /\ calls[1].heard
      BY <1>2, <1>6
    <3>3. /\ 1 = Len(calls) /\ step # "idle"
          /\ calls[1].cycle = cycle /\ calls[1].cand = cand
          /\ calls[1].op = IF step = "digital" THEN "digital" ELSE "turbo"
      BY <3>1, <3>2
    <3> QED
      BY <3>2, <3>3
  <2>3. Len(Tail(calls)) = 0 /\ 1..Len(Tail(calls)) = {}
    BY <1>2, <2>2
  <2>4. Abandoned(Tail(calls)) /\ Single(Tail(calls))
    BY <1>2, <2>3, Zenon DEF Abandoned, Single
  <2>5. answer.why = "accepted" => answer.id \in Nat
    BY DEF Message, Nothing, Refusal, Refusals
  <2>6. ASSUME step = "digital" \/ answer.why \in Refusals PROVE NoTurbo(Tail(calls))
    <3>1. CASE step = "digital"
      BY <1>1, <3>1, <2>3 DEF OneEach, NoTurbo
    <3>2. CASE step # "digital"
      BY <1>2, <2>2, <2>3, <2>6, <3>2 DEF Says, NoTurbo
    <3>3. QED
      BY <3>1, <3>2
  <2>7. /\ QueueRight' /\ followed' \in Nat
        /\ step' \in {"idle", "turbo", "again", "digital"}
        /\ cand' \in Cand \cup {0} /\ attempts' \in 0..MaxAttempts
    BY <1>1, <1>3, <2>1, <2>2, <2>4, <2>5, ReactQueue
  <2>8. OneEach'
    <3> DEFINE q == Tail(calls)
    <3>1. \A i \in 1..Len(q), o \in opened :
               q[i].op = "turbo" /\ o.op = "turbo" /\ q[i].cycle = o.cycle
                   => i = 1 /\ phase' # "start"
      BY <2>3
    <3>2. React(answer, q) /\ Abandoned(q) /\ Single(q)
      BY <2>1, <2>4
    <3>3. step = "digital" \/ answer.why \in Refusals => NoTurbo(q)
      BY <2>6
    <3> HIDE DEF q
    <3>4. QED
      BY <1>1, <1>3, <2>2, <3>1, <3>2, <3>3, ReactOnce
  <2>9. FollowedIsMine'
    <3>1. cand \in Cand /\ followed = 0
      BY <1>1, <2>2, Waiting
    <3>2. CASE Follows(answer, Tail(calls))
      <4>1. \E o \in opened : o.id = answer.id /\ o.cycle = cycle /\ o.cand = cand
        BY <1>2, <2>2, <3>2 DEF Says, Follows
      <4>2. QED
        BY <4>1, <1>3, <3>2 DEF Follows, FollowedIsMine, OrdersOf
    <3>3. CASE EndsHere(Tail(calls))
      BY <3>1, <3>3 DEF EndsHere, FollowedIsMine
    <3>4. CASE SendsTurbo(answer, Tail(calls))
      BY <3>4 DEF SendsTurbo, FollowedIsMine
    <3>5. CASE SendsDigital(answer, Tail(calls))
      BY <3>5 DEF SendsDigital, FollowedIsMine
    <3>6. QED
      BY <1>1, <2>1, <3>1, <3>2, <3>3, <3>4, <3>5, ReactCases
  <2>10. BuyTypes'
    BY <1>1, <1>3, <1>4, <2>7 DEF BuyTypes
  <2>11. QED
    BY <1>5, <2>7, <2>8, <2>9, <2>10 DEF BuyInv
<1>7. CASE ~Request.heard
  <2>1. calls' = Tail(calls) /\ UNCHANGED <<step, cand, attempts, followed>>
    BY <1>7 DEF Answer
  <2>2. BuyTypes'
    BY <1>1, <1>3, <1>4, <2>1 DEF BuyTypes
  <2>3. QueueRight'
    <3>1. ASSUME step # "idle"
          PROVE  Len(calls) > 1 /\ calls[Len(calls)].heard /\ followed = 0
      <4>1. calls[Len(calls)].heard /\ followed = 0
        BY <1>1, <3>1, Waiting
      <4>2. Len(calls) # 1
        BY <1>2, <1>7, <4>1
      <4>3. QED
        BY <1>2, <4>1, <4>2
    <3>2. \A i \in 1..Len(calls') : calls'[i].cycle <= cycle'
      <4>1. \A i \in 1..Len(calls) : calls[i].cycle <= cycle
        BY <1>1 DEF QueueRight
      <4> QED
        BY <1>2, <1>3, <2>1, <4>1
    <3>3. \A i \in 1..Len(calls') : calls'[i].heard =>
            /\ i = Len(calls') /\ step' # "idle"
            /\ calls'[i].cycle = cycle' /\ calls'[i].cand = cand'
            /\ calls'[i].op = IF step' = "digital" THEN "digital" ELSE "turbo"
      <4> SUFFICES ASSUME NEW i \in 1..Len(calls'), calls'[i].heard
                   PROVE  /\ i = Len(calls') /\ step' # "idle"
                          /\ calls'[i].cycle = cycle' /\ calls'[i].cand = cand'
                          /\ calls'[i].op = IF step' = "digital" THEN "digital" ELSE "turbo"
        OBVIOUS
      <4>1. calls'[i] = calls[i + 1] /\ i + 1 \in 1..Len(calls) /\ i \in Nat
        BY <1>2, <2>1
      <4>2. /\ i + 1 = Len(calls) /\ step # "idle"
            /\ calls[i + 1].cycle = cycle /\ calls[i + 1].cand = cand
            /\ calls[i + 1].op = IF step = "digital" THEN "digital" ELSE "turbo"
        BY <1>1, <4>1 DEF QueueRight
      <4>3. i = Len(calls')
        BY <1>2, <2>1, <4>1, <4>2
      <4>4. QED
        BY <1>3, <2>1, <4>1, <4>2, <4>3
    <3>4. ASSUME step' # "idle"
          PROVE  calls' # <<>> /\ calls'[Len(calls')].heard /\ followed' = 0
      <4>1. Len(calls) > 1 /\ calls[Len(calls)].heard /\ followed = 0
        BY <2>1, <3>1, <3>4
      <4>2. Len(calls') = Len(calls) - 1 /\ Len(calls') \in 1..Len(calls')
        BY <1>2, <2>1, <4>1
      <4>3. calls'[Len(calls')] = calls[Len(calls)]
        BY <1>2, <2>1, <4>2
      <4>4. QED
        BY <2>1, <4>1, <4>2, <4>3
    <3>5. calls' \in Seq(Call)
      BY <1>2, <2>1
    <3>6. QED
      BY <3>2, <3>3, <3>4, <3>5 DEF QueueRight
  <2>4. OneEach'
    <3>1. Single(calls')
      BY <1>1, <1>2, <2>1 DEF OneEach, Single
    <3>2. ASSUME NEW i \in 1..Len(calls'), NEW o \in opened',
                 calls'[i].op = "turbo", o.op = "turbo", calls'[i].cycle = o.cycle
          PROVE  FALSE
      BY <1>1, <1>2, <1>3, <2>1, <3>2 DEF OneEach
    <3>3. step = "digital" => NoTurbo(calls)'
      BY <1>1, <1>2, <1>3, <2>1 DEF OneEach, NoTurbo
    <3>4. QED
      BY <1>1, <1>3, <2>1, <3>1, <3>2, <3>3 DEF OneEach
  <2>5. FollowedIsMine'
    BY <1>1, <1>3, <2>1 DEF FollowedIsMine, OrdersOf
  <2>6. QED
    BY <1>5, <2>2, <2>3, <2>4, <2>5 DEF BuyInv
<1>8. QED
  BY <1>6, <1>7

\* What the broker says of the head stays said of it.
LEMMA SaysStays ==
    ASSUME NEW m, Says(m), calls'[1].cycle = calls[1].cycle,
           calls'[1].cand = calls[1].cand, calls'[1].op = calls[1].op,
           UNCHANGED opened
    PROVE  Says(m)'
BY DEF Says

\* Silence says nothing of any request.
LEMMA SaysNothing == Says(Nothing) /\ Says(Nothing)' /\ Nothing \in Message
BY DEF Says, Nothing, Refusal, Refusals, Message

\* A cycle begins with a purchase of its own.
LEMMA BeginStep == ASSUME BuyInv, BeginEntry PROVE BuyInv'
<1>1. /\ BuyTypes /\ QueueRight /\ HeadRight /\ OneEach /\ FollowedIsMine
      /\ step = "idle" /\ cycle < MaxCycle /\ calls \in Seq(Call)
  BY DEF BuyInv, BeginEntry, QueueRight
<1>2. PICK c \in Cand :
        /\ cand' = c
        /\ calls' = Append(calls, [Post("turbo", c) EXCEPT !.cycle = cycle + 1])
  BY DEF BeginEntry
<1>3. /\ cycle' = cycle + 1 /\ step' = "turbo" /\ attempts' = 1 /\ followed' = 0
      /\ UNCHANGED <<phase, opened, silences, flight, results, slot, answered>>
  BY DEF BeginEntry, Library
<1> DEFINE e == [Post("turbo", c) EXCEPT !.cycle = cycle + 1]
<1>4. /\ e \in Call /\ e.op = "turbo" /\ e.cycle = cycle + 1 /\ e.cand = c
      /\ e.heard
  <2>1. cycle + 1 \in 1..MaxCycle
    BY <1>1 DEF BuyTypes
  <2> DEFINE p == Post("turbo", c)
  <2>2. /\ p \in [op: {"turbo", "digital"}, cycle: 0..MaxCycle, cand: Cand,
                  heard: BOOLEAN, again: BOOLEAN]
        /\ p.op = "turbo" /\ p.cand = c /\ p.heard
    BY <1>1 DEF Post, BuyTypes
  <2>3. e = [p EXCEPT !.cycle = cycle + 1]
    OBVIOUS
  <2> HIDE DEF e, p
  <2>4. QED
    BY <2>1, <2>2, <2>3 DEF Call
<1>5. calls' = Append(calls, e)
  BY <1>2
<1> HIDE DEF e
<1>6. /\ calls' \in Seq(Call) /\ calls' # <<>> /\ Len(calls') = Len(calls) + 1
      /\ Len(calls) \in Nat /\ calls'[Len(calls')] = e
      /\ \A i \in 1..Len(calls) : calls'[i] = calls[i]
  BY <1>1, <1>4, <1>5
<1>7. cycle \in Nat
  BY <1>1 DEF BuyTypes
<1>8. ASSUME NEW i \in 1..Len(calls')
      PROVE  \/ i = Len(calls')
             \/ /\ i \in 1..Len(calls) /\ calls'[i] = calls[i]
                /\ calls[i].cycle <= cycle /\ ~calls[i].heard
                /\ calls[i].cycle \in Nat
  <2>1. CASE i # Len(calls')
    <3>1. i \in 1..Len(calls) /\ calls'[i] = calls[i]
      BY <2>1, <1>6
    <3>2. calls[i] \in Call
      BY <3>1, <1>1
    <3>3. calls[i].cycle \in Nat
      BY <3>2 DEF Call
    <3>4. QED
      BY <3>1, <3>3, <1>1 DEF QueueRight
  <2>2. QED
    BY <2>1
<1>9. BuyTypes'
  BY <1>1, <1>2, <1>3 DEF BuyTypes, MaxAttempts
<1>10. QueueRight'
  <2>1. \A i \in 1..Len(calls') : calls'[i].cycle <= cycle'
    BY <1>3, <1>4, <1>6, <1>7, <1>8
  <2>2. \A i \in 1..Len(calls') : calls'[i].heard =>
            /\ i = Len(calls') /\ step' # "idle"
            /\ calls'[i].cycle = cycle' /\ calls'[i].cand = cand'
            /\ calls'[i].op = IF step' = "digital" THEN "digital" ELSE "turbo"
    <3> SUFFICES ASSUME NEW i \in 1..Len(calls'), calls'[i].heard
                 PROVE  /\ i = Len(calls') /\ step' # "idle"
                        /\ calls'[i].cycle = cycle' /\ calls'[i].cand = cand'
                        /\ calls'[i].op = IF step' = "digital" THEN "digital" ELSE "turbo"
      OBVIOUS
    <3>1. i = Len(calls')
      BY <1>8
    <3>2. calls'[i] = e
      BY <1>6, <3>1
    <3>3. QED
      BY <1>2, <1>3, <1>4, <3>1, <3>2
  <2>3. QED
    BY <1>3, <1>4, <1>6, <2>1, <2>2 DEF QueueRight
<1>11. HeadRight'
  <2>1. CASE calls = <<>>
    BY <1>1, <1>3, <1>6, <2>1, SaysNothing DEF HeadRight
  <2>2. CASE calls # <<>>
    <3>1. 1 \in 1..Len(calls)
      BY <1>1, <2>2
    <3>2. calls'[1] = calls[1]
      BY <1>6, <3>1
    <3>3. Says(flight)' /\ Says(slot)'
      BY <1>1, <1>3, <2>2, <3>2, SaysStays DEF HeadRight, Says
    <3>4. QED
      BY <1>1, <1>3, <1>6, <2>2, <3>3 DEF HeadRight
  <2>3. QED
    BY <2>1, <2>2
<1>12. OneEach'
  <2>1. Single(calls')
    <3> SUFFICES ASSUME NEW i \in 1..Len(calls'), NEW j \in 1..Len(calls'),
                        calls'[i].op = "turbo", calls'[j].op = "turbo",
                        calls'[i].cycle = calls'[j].cycle
                 PROVE  i = j
      BY DEF Single
    <3>1. CASE i = Len(calls') \/ j = Len(calls')
      BY <3>1, <1>4, <1>6, <1>7, <1>8
    <3>2. CASE i # Len(calls') /\ j # Len(calls')
      BY <3>2, <1>1, <1>8 DEF OneEach, Single
    <3>3. QED
      BY <3>1, <3>2
  <2>2. \A o \in opened : o.cycle \in Nat /\ o.cycle <= cycle
    BY <1>1 DEF OneEach, BuyTypes, BrokerOrder
  <2>3. ASSUME NEW i \in 1..Len(calls'), NEW o \in opened',
               calls'[i].op = "turbo", o.op = "turbo", calls'[i].cycle = o.cycle
        PROVE  i = 1 /\ phase' # "start"
    <3>1. i # Len(calls')
      BY <1>3, <1>4, <1>6, <1>7, <2>2, <2>3
    <3>2. QED
      BY <1>1, <1>3, <1>8, <2>3, <3>1 DEF OneEach
  <2>4. \A o \in opened' : o.cycle <= cycle'
    BY <1>3, <1>7, <2>2
  <2>5. QED
    BY <1>1, <1>3, <2>1, <2>3, <2>4 DEF OneEach
<1>13. FollowedIsMine'
  BY <1>3 DEF FollowedIsMine
<1>14. QED
  BY <1>9, <1>10, <1>11, <1>12, <1>13 DEF BuyInv

\* A POST given up stays in the queue, and nobody waits for its answer.
LEMMA TimeoutStep == ASSUME BuyInv, HttpTimesOut PROVE BuyInv'
<1>1. /\ BuyTypes /\ QueueRight /\ HeadRight /\ OneEach /\ FollowedIsMine
      /\ calls \in Seq(Call)
  BY DEF BuyInv, QueueRight
<1>2. /\ silences < MaxSilence /\ silences' = silences + 1
      /\ UNCHANGED <<cycle, phase, opened, flight, results, slot, answered>>
  BY DEF HttpTimesOut, Library
<1>3. PICK k \in Awaited : React(Nothing, [calls EXCEPT ![k].heard = FALSE])
  BY DEF HttpTimesOut
<1> DEFINE q == [calls EXCEPT ![k].heard = FALSE]
<1>4. /\ k \in 1..Len(calls) /\ calls[k].heard /\ k = Len(calls)
      /\ step # "idle" /\ Len(calls) \in Nat
  BY <1>1 DEF Awaited, QueueRight
<1>5. [calls[k] EXCEPT !.heard = FALSE] \in Call
  <2>1. calls[k] \in Call
    BY <1>1, <1>4
  <2>2. QED
    BY <2>1 DEF Call
<1>6. q \in Seq(Call) /\ Len(q) = Len(calls)
  BY <1>1, <1>4, <1>5
<1>7. \A i \in 1..Len(calls) :
         /\ q[i].op = calls[i].op /\ q[i].cycle = calls[i].cycle
         /\ q[i].cand = calls[i].cand
         /\ q[i].heard = IF i = k THEN FALSE ELSE calls[i].heard
  <2> SUFFICES ASSUME NEW i \in 1..Len(calls)
               PROVE  /\ q[i].op = calls[i].op /\ q[i].cycle = calls[i].cycle
                      /\ q[i].cand = calls[i].cand
                      /\ q[i].heard = IF i = k THEN FALSE ELSE calls[i].heard
    OBVIOUS
  <2>1. calls[i] \in Call
    BY <1>1
  <2>2. q[i] = IF i = k THEN [calls[i] EXCEPT !.heard = FALSE] ELSE calls[i]
    <3> DEFINE e == [calls[k] EXCEPT !.heard = FALSE]
    <3>1. q = [calls EXCEPT ![k] = e]
      OBVIOUS
    <3>2. DOMAIN calls = 1..Len(calls)
      BY <1>1
    <3> HIDE DEF q, e
    <3>3. q[i] = IF i = k THEN e ELSE calls[i]
      BY <1>4, <3>1, <3>2
    <3>4. QED
      BY <3>3 DEF e
  <2> HIDE DEF q
  <2>3. QED
    BY <2>1, <2>2 DEF Call
<1>8. React(Nothing, q)
  BY <1>3
<1> HIDE DEF q
<1>9. Abandoned(q)
  BY <1>1, <1>4, <1>6, <1>7 DEF Abandoned, QueueRight
<1>10. Single(q)
  BY <1>1, <1>6, <1>7 DEF OneEach, Single
<1>11. ASSUME step = "digital" PROVE NoTurbo(q)
  BY <1>1, <1>6, <1>7, <1>11 DEF OneEach, NoTurbo
<1>12. Nothing.why = "nothing" /\ Nothing.why \notin Refusals
  BY DEF Nothing, Refusal, Refusals
<1>13. /\ QueueRight' /\ followed' \in Nat
       /\ step' \in {"idle", "turbo", "again", "digital"}
       /\ cand' \in Cand \cup {0} /\ attempts' \in 0..MaxAttempts
  BY <1>1, <1>2, <1>4, <1>8, <1>9, <1>12, ReactQueue
<1>14. BuyTypes'
  BY <1>1, <1>2, <1>13 DEF BuyTypes
<1>15. OneEach'
  <2>1. \A i \in 1..Len(q), o \in opened :
            q[i].op = "turbo" /\ o.op = "turbo" /\ q[i].cycle = o.cycle
                => i = 1 /\ phase' # "start"
    <3>1. \A i \in 1..Len(calls), o \in opened :
            calls[i].op = "turbo" /\ o.op = "turbo" /\ calls[i].cycle = o.cycle
                => i = 1 /\ phase # "start"
      BY <1>1 DEF OneEach
    <3> QED
      BY <1>2, <1>6, <1>7, <3>1
  <2>2. step = "digital" \/ Nothing.why \in Refusals => NoTurbo(q)
    BY <1>11, <1>12
  <2>3. QED
    BY <1>1, <1>2, <1>4, <1>8, <1>9, <1>10, <2>1, <2>2, ReactOnce
<1>16. calls' = q \/ \E op \in {"turbo", "digital"}, c \in Cand :
                        calls' = Append(q, Post(op, c))
  <2>1. cand \in Cand
    BY <1>1, <1>4, Waiting
  <2>2. \/ Follows(Nothing, q) \/ EndsHere(q)
        \/ SendsTurbo(Nothing, q) \/ SendsDigital(Nothing, q)
    BY <1>1, <1>8, <2>1, ReactCases
  <2>3. QED
    BY <2>1, <2>2 DEF Follows, EndsHere, SendsTurbo, SendsDigital
<1>17. calls' # <<>> /\ calls'[1] = q[1]
  <2>1. CASE calls' = q
    BY <1>4, <1>6, <2>1
  <2>2. ASSUME NEW op \in {"turbo", "digital"}, NEW c \in Cand,
               calls' = Append(q, Post(op, c))
        PROVE  calls' # <<>> /\ calls'[1] = q[1]
    <3>1. cycle \in 1..MaxCycle
      BY <1>1, <1>4, Waiting
    <3>2. QED
      BY <1>4, <1>6, <1>9, <2>2, <3>1, Posted
  <2>3. QED
    BY <1>16, <2>1, <2>2
<1>18. HeadRight'
  <2>1. calls # <<>> /\ 1 \in 1..Len(calls)
    BY <1>1, <1>4
  <2>2. /\ calls'[1].cycle = calls[1].cycle /\ calls'[1].cand = calls[1].cand
        /\ calls'[1].op = calls[1].op
    BY <1>7, <1>17, <2>1
  <2>3. Says(flight) /\ Says(slot)
    BY <1>1, <2>1 DEF HeadRight
  <2>4. Says(flight)' /\ Says(slot)'
    BY <1>2, <2>2, <2>3 DEF Says
  <2>5. QED
    BY <1>1, <1>2, <1>17, <2>4 DEF HeadRight
<1>19. FollowedIsMine'
  <2>1. followed = 0 /\ cand \in Cand
    BY <1>1, <1>4, Waiting
  <2>2. \/ Follows(Nothing, q) \/ EndsHere(q)
        \/ SendsTurbo(Nothing, q) \/ SendsDigital(Nothing, q)
    BY <1>1, <1>8, <2>1, ReactCases
  <2>3. followed' = 0
    BY <1>12, <2>1, <2>2 DEF Follows, EndsHere, SendsTurbo, SendsDigital
  <2>4. QED
    BY <2>3 DEF FollowedIsMine
<1>20. QED
  BY <1>13, <1>14, <1>15, <1>18, <1>19 DEF BuyInv

\* The same queue and purchases, with more said of the head or less.
LEMMA QuietStep ==
    ASSUME BuyInv, calls' \in Seq(Call), Len(calls') = Len(calls),
           \A i \in 1..Len(calls) :
               /\ calls'[i].op = calls[i].op /\ calls'[i].cycle = calls[i].cycle
               /\ calls'[i].cand = calls[i].cand
               /\ calls'[i].heard = calls[i].heard,
           UNCHANGED <<cycle, step, cand, attempts, followed, opened>>,
           phase' \in {"start", "sent", "waiting"},
           phase' = "start" => flight' = Nothing /\ slot' = Nothing,
           flight' = Nothing \/ slot' = Nothing,
           flight' \in {flight, slot, Nothing}, slot' \in {flight, slot, Nothing},
           calls = <<>> => phase' = "start",
           \/ UNCHANGED phase \/ phase' # "start"
           \/ (calls # <<>> /\ calls[1].op = "turbo"
                 /\ \A o \in opened : o.op = "turbo" => o.cycle # calls[1].cycle),
           results' \in Nat, answered' \in BOOLEAN, silences' \in 0..MaxSilence
    PROVE  BuyInv'
<1>1. /\ BuyTypes /\ QueueRight /\ HeadRight /\ OneEach /\ FollowedIsMine
      /\ calls \in Seq(Call)
  BY DEF BuyInv, QueueRight
<1>2. BuyTypes'
  BY <1>1, SaysNothing DEF BuyTypes
<1>3. QueueRight'
  <2>1. \A i \in 1..Len(calls') :
           /\ calls'[i].cycle <= cycle'
           /\ calls'[i].heard =>
                /\ i = Len(calls') /\ step' # "idle"
                /\ calls'[i].cycle = cycle' /\ calls'[i].cand = cand'
                /\ calls'[i].op = IF step' = "digital" THEN "digital" ELSE "turbo"
    BY <1>1 DEF QueueRight
  <2>2. ASSUME step' # "idle"
        PROVE  calls' # <<>> /\ calls'[Len(calls')].heard /\ followed' = 0
    <3>1. /\ Len(calls) \in Nat \ {0} /\ calls[Len(calls)].heard /\ followed = 0
      BY <1>1, <2>2, Waiting
    <3>2. Len(calls) \in 1..Len(calls)
      BY <3>1
    <3>3. QED
      BY <3>1, <3>2
  <2>3. QED
    BY <2>1, <2>2 DEF QueueRight
<1>4. HeadRight'
  <2>1. CASE calls = <<>>
    <3>1. calls' = <<>>
      BY <1>1, <2>1
    <3>2. QED
      BY <2>1, <3>1 DEF HeadRight
  <2>2. CASE calls # <<>>
    <3>1. 1 \in 1..Len(calls) /\ calls' # <<>>
      BY <1>1, <2>2
    <3>2. /\ calls'[1].cycle = calls[1].cycle /\ calls'[1].cand = calls[1].cand
          /\ calls'[1].op = calls[1].op
      BY <3>1
    <3>3. \A m \in {flight, slot, Nothing} : Says(m)
      BY <1>1, <2>2, SaysNothing DEF HeadRight
    <3>4. \A m \in {flight, slot, Nothing} :
             /\ m.why = "accepted" =>
                   \E o \in opened' : /\ o.id = m.id /\ o.cycle = calls'[1].cycle
                                      /\ o.cand = calls'[1].cand
             /\ m.why \in Refusals /\ calls'[1].op = "turbo" =>
                   \A o \in opened' : o.op = "turbo" => o.cycle # calls'[1].cycle
      BY <3>2, <3>3 DEF Says
    <3>5. Says(flight)' /\ Says(slot)'
      BY <3>4 DEF Says
    <3>6. QED
      BY <3>1, <3>5 DEF HeadRight
  <2>3. QED
    BY <2>1, <2>2
<1>5. OneEach'
  <2>1. Single(calls')
    BY <1>1 DEF OneEach, Single
  <2>2. ASSUME NEW i \in 1..Len(calls'), NEW o \in opened',
               calls'[i].op = "turbo", o.op = "turbo", calls'[i].cycle = o.cycle
        PROVE  i = 1 /\ phase' # "start"
    <3>1. i = 1 /\ phase # "start" /\ calls[1].op = "turbo" /\ calls[1].cycle = o.cycle
      BY <1>1, <2>2 DEF OneEach
    <3>2. QED
      BY <2>2, <3>1
  <2>3. step' = "digital" => NoTurbo(calls)'
    BY <1>1 DEF OneEach, NoTurbo
  <2>4. QED
    BY <1>1, <2>1, <2>2, <2>3 DEF OneEach
<1>6. FollowedIsMine'
  BY <1>1 DEF FollowedIsMine, OrdersOf
<1>7. QED
  BY <1>2, <1>3, <1>4, <1>5, <1>6 DEF BuyInv

\* The broker decides of the head alone.
LEMMA DecidesStep == ASSUME BuyInv, BrokerDecides PROVE BuyInv'
<1>1. /\ BuyTypes /\ QueueRight /\ HeadRight /\ OneEach /\ FollowedIsMine
      /\ calls \in Seq(Call) /\ calls # <<>> /\ phase = "start"
      /\ flight = Nothing /\ slot = Nothing
  BY DEF BuyInv, QueueRight, BrokerDecides, Busy, HeadRight
<1>2. /\ phase' = "sent" /\ results' \in Nat
      /\ UNCHANGED <<cycle, step, cand, attempts, followed, calls, slot,
                     answered, silences>>
  BY <1>1 DEF BrokerDecides, BuyTypes
<1>3. Request = calls[1] /\ calls[1] \in Call /\ 1 \in 1..Len(calls)
  BY <1>1 DEF Request
<1>4. \A o \in opened : o.op = "turbo" /\ calls[1].op = "turbo" => o.cycle # calls[1].cycle
  BY <1>1, <1>3 DEF OneEach
<1>5. CASE flight' \in {Refusal(r) : r \in Refusals} /\ UNCHANGED opened
  <2>1. flight' \in Message
    BY <1>5 DEF Message
  <2>2. Says(flight)'
    BY <1>2, <1>4, <1>5 DEF Says, Refusal, Refusals
  <2>3. HeadRight'
    BY <1>1, <1>2, <2>2, SaysNothing DEF HeadRight
  <2>4. BuyTypes'
    BY <1>1, <1>2, <1>5, <2>1 DEF BuyTypes
  <2>5. QueueRight'
    BY <1>1, <1>2 DEF QueueRight
  <2>6. OneEach'
    BY <1>1, <1>2, <1>5 DEF OneEach, Single, NoTurbo
  <2>7. FollowedIsMine'
    BY <1>1, <1>2, <1>5 DEF FollowedIsMine, OrdersOf
  <2>8. QED
    BY <2>3, <2>4, <2>5, <2>6, <2>7 DEF BuyInv
<1>6. CASE ~(flight' \in {Refusal(r) : r \in Refusals} /\ UNCHANGED opened)
  <2> DEFINE id == Cardinality(opened) + 1
             new == [id |-> id, cycle |-> calls[1].cycle, cand |-> calls[1].cand,
                     op |-> calls[1].op]
  <2>1. opened' = opened \cup {new} /\ flight' = Accepted(id)
    BY <1>3, <1>6 DEF BrokerDecides
  <2>2. id \in Nat
    BY <1>1, FS_CardinalityType DEF BuyTypes
  <2> HIDE DEF id
  <2>3. /\ new \in BrokerOrder /\ new.id = id /\ new.cycle = calls[1].cycle
        /\ new.cand = calls[1].cand /\ new.op = calls[1].op
    BY <1>3, <2>2 DEF BrokerOrder, Call
  <2> HIDE DEF new
  <2>4. flight' \in Message /\ flight'.why = "accepted" /\ flight'.id = id
    BY <2>1, <2>2 DEF Accepted, Message
  <2>5. IsFiniteSet(opened')
    BY <1>1, <2>1, FS_AddElement DEF BuyTypes
  <2>6. BuyTypes'
    BY <1>1, <1>2, <2>1, <2>3, <2>4, <2>5 DEF BuyTypes
  <2>7. QueueRight'
    BY <1>1, <1>2 DEF QueueRight
  <2>8. Says(flight)'
    BY <1>2, <2>1, <2>3, <2>4 DEF Says, Refusals
  <2>9. HeadRight'
    BY <1>1, <1>2, <2>8, SaysNothing DEF HeadRight
  <2>10. OneEach'
    <3>1. \A o, p \in opened' :
            o.op = "turbo" /\ p.op = "turbo" /\ o.cycle = p.cycle => o = p
      BY <1>1, <1>4, <2>1, <2>3 DEF OneEach
    <3>2. \A i \in 1..Len(calls') : calls'[i].op = "turbo" /\ calls[1].op = "turbo"
                /\ calls'[i].cycle = calls[1].cycle => i = 1
      BY <1>1, <1>2, <1>3 DEF OneEach, Single
    <3>3. ASSUME NEW i \in 1..Len(calls'), NEW o \in opened',
                 calls'[i].op = "turbo", o.op = "turbo", calls'[i].cycle = o.cycle
          PROVE  i = 1 /\ phase' # "start"
      <4>1. CASE o \in opened
        BY <1>1, <1>2, <3>3, <4>1 DEF OneEach
      <4>2. CASE o = new
        BY <1>2, <2>3, <3>2, <3>3, <4>2
      <4>3. QED
        BY <2>1, <4>1, <4>2
    <3>4. \A o \in opened' : o.cycle <= cycle'
      BY <1>1, <1>2, <1>3, <2>1, <2>3 DEF OneEach, QueueRight
    <3>5. ASSUME step' = "digital" PROVE NoTurbo(calls)'
      <4>1. NoTurbo(calls)
        BY <1>1, <1>2, <3>5 DEF OneEach
      <4>2. new.op = "turbo" => new.cycle # cycle
        BY <1>3, <2>3, <4>1 DEF NoTurbo
      <4>3. QED
        BY <1>2, <2>1, <4>1, <4>2 DEF NoTurbo
    <3>6. QED
      BY <1>1, <1>2, <3>1, <3>3, <3>4, <3>5 DEF OneEach
  <2>11. FollowedIsMine'
    BY <1>1, <1>2, <2>1 DEF FollowedIsMine, OrdersOf
  <2>12. QED
    BY <2>6, <2>7, <2>9, <2>10, <2>11 DEF BuyInv
<1>7. QED
  BY <1>5, <1>6

\* Every step of the service and the library.
LEMMA ServiceStep == ASSUME BuyInv, ServiceSteps PROVE BuyInv'
<1>1. /\ BuyTypes /\ QueueRight /\ HeadRight /\ OneEach /\ FollowedIsMine
      /\ calls \in Seq(Call)
  BY DEF BuyInv, QueueRight
<1>2. calls # <<>> => /\ Request = calls[1] /\ 1 \in 1..Len(calls)
                      /\ calls[1] \in Call
  BY <1>1 DEF Request
<1>3. CASE ChannelClosed
  <2> DEFINE m == Refusal("unavailable")
  <2>1. Busy /\ Request.op = "turbo" /\ Answer(m) /\ phase = "start"
        /\ UNCHANGED silences
    BY <1>3 DEF ChannelClosed
  <2>2. m \in Message /\ m.why = "unavailable"
    BY DEF Message, Refusal, Refusals
  <2>3. \A o \in opened : o.op = "turbo" => o.cycle # calls[1].cycle
    BY <1>1, <1>2, <2>1 DEF OneEach, Busy
  <2> HIDE DEF m
  <2>4. Says(m)
    BY <2>2, <2>3 DEF Says
  <2>5. silences' \in 0..MaxSilence
    BY <1>1, <2>1 DEF BuyTypes
  <2>6. QED
    BY <2>1, <2>2, <2>4, <2>5, AnswerStep
<1>4. CASE BrokerDecides
  BY <1>4, DecidesStep
<1>5. CASE MessageArrives
  <2>1. phase # "start" /\ slot = Nothing
    BY <1>1, <1>5 DEF HeadRight, MessageArrives
  <2>2. results \in Nat /\ answered \in BOOLEAN /\ silences \in 0..MaxSilence
        /\ phase \in {"start", "sent", "waiting"}
    BY <1>1 DEF BuyTypes
  <2>3. calls # <<>>
    BY <1>1, <2>1 DEF HeadRight
  <2>4. QED
    BY <1>1, <1>5, <2>1, <2>2, <2>3, QuietStep DEF MessageArrives
<1>6. CASE ResultArrives
  <2>1. results' \in Nat /\ answered' \in BOOLEAN
    BY <1>1, <1>6 DEF ResultArrives, BuyTypes, Busy
  <2>2. /\ silences \in 0..MaxSilence /\ phase \in {"start", "sent", "waiting"}
        /\ phase = "start" => flight = Nothing /\ slot = Nothing
        /\ flight = Nothing \/ slot = Nothing
        /\ calls = <<>> => phase = "start"
    BY <1>1 DEF BuyTypes, HeadRight
  <2>3. QED
    BY <1>1, <1>6, <2>1, <2>2, QuietStep DEF ResultArrives
<1>7. CASE LibraryWaits
  <2>1. /\ results \in Nat /\ silences \in 0..MaxSilence
        /\ flight = Nothing \/ slot = Nothing
        /\ calls # <<>>
    BY <1>1, <1>7 DEF BuyTypes, HeadRight, LibraryWaits
  <2>2. QED
    BY <1>1, <1>7, <2>1, QuietStep DEF LibraryWaits
<1>8. CASE OrderAccepted \/ OrderRefused
  <2>1. Answer(slot) /\ UNCHANGED silences /\ phase = "waiting"
    BY <1>8 DEF OrderAccepted, OrderRefused, Refused
  <2>2. calls # <<>> /\ slot \in Message /\ silences' \in 0..MaxSilence
    BY <1>1, <2>1 DEF HeadRight, BuyTypes
  <2>3. Says(slot)
    BY <1>1, <2>2 DEF HeadRight
  <2>4. QED
    BY <2>1, <2>2, <2>3, AnswerStep DEF Busy
<1>9. CASE RetriesBalance
  <2>1. /\ phase = "waiting" /\ slot.why \in Refusals /\ Request.op = "turbo"
        /\ calls' = [calls EXCEPT ![1].again = TRUE]
        /\ phase' = "start" /\ slot' = Nothing
        /\ UNCHANGED <<cycle, step, cand, attempts, followed, flight, results,
                       answered, opened, silences>>
    BY <1>9 DEF RetriesBalance, Refused
  <2>2. calls # <<>> /\ flight = Nothing
    <3>1. slot # Nothing
      BY <2>1 DEF Nothing, Refusal, Refusals
    <3>2. QED
      BY <1>1, <2>1, <3>1 DEF HeadRight
  <2>3. /\ calls[1].op = "turbo"
        /\ \A o \in opened : o.op = "turbo" => o.cycle # calls[1].cycle
    BY <1>1, <1>2, <2>1, <2>2 DEF HeadRight, Says
  <2> DEFINE e == [calls[1] EXCEPT !.again = TRUE]
  <2>4. /\ e \in Call /\ e.op = calls[1].op /\ e.cycle = calls[1].cycle
        /\ e.cand = calls[1].cand /\ e.heard = calls[1].heard
    BY <1>2, <2>2 DEF Call
  <2>5. calls' = [calls EXCEPT ![1] = e]
    BY <2>1
  <2> HIDE DEF e
  <2>6. /\ calls' \in Seq(Call) /\ Len(calls') = Len(calls)
        /\ \A i \in 1..Len(calls) : calls'[i] = IF i = 1 THEN e ELSE calls[i]
    BY <1>1, <1>2, <2>2, <2>4, <2>5
  <2>7. \A i \in 1..Len(calls) :
               /\ calls'[i].op = calls[i].op /\ calls'[i].cycle = calls[i].cycle
               /\ calls'[i].cand = calls[i].cand
               /\ calls'[i].heard = calls[i].heard
    BY <2>4, <2>6
  <2>8. results \in Nat /\ answered \in BOOLEAN /\ silences \in 0..MaxSilence
    BY <1>1 DEF BuyTypes
  <2>9. QED
    BY <2>1, <2>2, <2>3, <2>6, <2>7, <2>8, QuietStep
<1>10. CASE LibraryGivesUp
  <2>1. Answer(Nothing) /\ phase = "waiting"
    BY <1>10 DEF LibraryGivesUp
  <2>2. silences' \in 0..MaxSilence
    BY <1>1, <1>10 DEF LibraryGivesUp, BuyTypes
  <2>3. calls # <<>>
    BY <1>1, <2>1 DEF HeadRight
  <2>4. QED
    BY <2>1, <2>2, <2>3, SaysNothing, AnswerStep DEF Busy
<1>11. QED
  BY <1>3, <1>4, <1>5, <1>6, <1>7, <1>8, <1>9, <1>10 DEF ServiceSteps

\* The invariant holds at first.
LEMMA BuyStart == BuyInit => BuyInv
<1> SUFFICES ASSUME BuyInit PROVE BuyInv
  OBVIOUS
<1>1. /\ cycle = 0 /\ step = "idle" /\ cand = 0 /\ attempts = 0
      /\ followed = 0 /\ calls = <<>> /\ phase = "start"
      /\ flight = Nothing /\ results = 0 /\ slot = Nothing /\ answered = FALSE
      /\ opened = {} /\ silences = 0
  BY DEF BuyInit
<1>2. Len(calls) = 0 /\ calls \in Seq(Call) /\ 1..Len(calls) = {}
  BY <1>1
<1>3. IsFiniteSet(opened)
  BY <1>1, FS_EmptySet
<1>4. BuyTypes
  <2>1. /\ cycle \in 0..MaxCycle /\ attempts \in 0..MaxAttempts /\ followed \in Nat
        /\ results \in Nat /\ silences \in 0..MaxSilence
    BY <1>1 DEF MaxAttempts
  <2>2. flight \in Message /\ slot \in Message
    BY <1>1, SaysNothing
  <2>3. /\ step \in {"idle", "turbo", "again", "digital"}
        /\ cand \in Cand \cup {0} /\ phase \in {"start", "sent", "waiting"}
        /\ answered \in BOOLEAN /\ opened \subseteq BrokerOrder
    BY <1>1
  <2>4. QED
    BY <1>3, <2>1, <2>2, <2>3 DEF BuyTypes
<1>5. QueueRight
  BY <1>1, <1>2 DEF QueueRight
<1>6. HeadRight
  BY <1>1 DEF HeadRight
<1>7. OneEach
  BY <1>1, <1>2 DEF OneEach, Single
<1>8. FollowedIsMine
  BY <1>1 DEF FollowedIsMine
<1>9. QED
  BY <1>4, <1>5, <1>6, <1>7, <1>8 DEF BuyInv

\* Every step keeps it.
LEMMA BuyStep == BuyInv /\ [BuyNext]_buyVars => BuyInv'
<1> SUFFICES ASSUME BuyInv, [BuyNext]_buyVars PROVE BuyInv'
  OBVIOUS
<1>1. CASE UNCHANGED buyVars
  BY <1>1 DEF buyVars, BuyInv, BuyTypes, QueueRight, HeadRight, Says, OneEach,
              Single, NoTurbo, FollowedIsMine, OrdersOf
<1>2. QED
  BY <1>1, BeginStep, TimeoutStep, ServiceStep DEF BuyNext

\* Two purchases that are the same are one.
LEMMA InvOneTurbo == BuyInv => OneTurboOrder
<1> SUFFICES ASSUME BuyInv, NEW n \in 1..MaxCycle
             PROVE  Cardinality({o \in OrdersOf(n) : o.op = "turbo"}) <= 1
  BY DEF OneTurboOrder
<1> DEFINE s == {o \in OrdersOf(n) : o.op = "turbo"}
<1>1. \A o, p \in s : o = p
  BY DEF BuyInv, OneEach, OrdersOf
<1>2. s = {} \/ \E o \in s : s = {o}
  BY <1>1
<1> HIDE DEF s
<1>3. Cardinality(s) <= 1
  <2>1. CASE s = {}
    BY <2>1, FS_EmptySet
  <2>2. ASSUME NEW o, s = {o} PROVE Cardinality(s) <= 1
    <3>1. Cardinality({o}) = 1
      BY FS_Singleton
    <3>2. QED
      BY <2>2, <3>1
  <2>3. QED
    BY <1>2, <2>1, <2>2
<1>4. QED
  BY <1>3 DEF s

\* So it holds at every moment.
LEMMA BuyAlways == BuySpec => []BuyInv
BY BuyStart, BuyStep, PTL DEF BuySpec

\* For any number of candidates, cycles and silences: the gateway's loop, the
\* queue of calls and the library's slot keep their types.
THEOREM PurchaseTypesAreKept == BuySpec => []BuyTypeOK
<1>1. BuyInv => BuyTypeOK
  BY BuyTypeParts DEF BuyInv
<1>2. QED
  BY BuyAlways, <1>1, PTL

\* For any number of candidates, cycles and silences: the order the robot
\* follows was opened for the cycle and the candidate it asked for, though the
\* library's slot names no request.
THEOREM FollowedOrdersAreMine == BuySpec => []FollowedIsMine
<1>1. BuyInv => FollowedIsMine
  BY DEF BuyInv
<1>2. QED
  BY BuyAlways, <1>1, PTL

\* For any number of candidates, cycles and silences: a cycle opens at most one
\* order on the turbo channel, whatever is retried and given up.
THEOREM OneTurboOrderEach == BuySpec => []OneTurboOrder
<1>1. BuyInv => OneTurboOrder
  BY InvOneTurbo
<1>2. QED
  BY BuyAlways, <1>1, PTL

-----------------------------------------------------------------------------
(* MCBroker: the parts together.                                           *)

\* Nothing is closed at first.
LEMMA ResultStart == ResultInit => ResultTypeOK
BY OutageAssumption DEF ResultInit, ResultTypeOK

\* The closings, however they are told, are of the user's orders.
LEMMA ResultStep ==
    ASSUME ResultTypeOK, [ResultNext]_resultVars
    PROVE  ResultTypeOK'
<1>0. Outage => outages' \in 0..MaxOutage
  BY OutageAssumption DEF ResultTypeOK, Outage
<1> USE DEF ResultTypeOK
<1>1. CASE UNCHANGED resultVars
  BY <1>1 DEF resultVars
<1>2. ASSUME NEW o \in Order, OrderCloses(o) PROVE ResultTypeOK'
  BY <1>2 DEF OrderCloses
<1>3. ASSUME NEW o \in Order, LookupFallsDue(o) PROVE ResultTypeOK'
  BY <1>3 DEF LookupFallsDue
<1>4. ASSUME NEW o \in Order, ReadHeld(o) PROVE ResultTypeOK'
  BY <1>4 DEF ReadHeld
<1>5. ASSUME NEW o \in Order, LookUp(o) PROVE ResultTypeOK'
  BY <1>0, <1>5 DEF LookUp
<1>6. CASE SocketDrops
  BY <1>0, <1>6 DEF SocketDrops
<1>7. CASE ServiceForgets
  BY <1>0, <1>7 DEF ServiceForgets
<1>8. ASSUME NEW inherits \in BOOLEAN, SessionReturns(inherits) PROVE ResultTypeOK'
  BY <1>8 DEF SessionReturns
<1> QED  BY <1>1, <1>2, <1>3, <1>4, <1>5, <1>6, <1>7, <1>8 DEF ResultNext

\* The parts of the broker side at once, each with its invariant.
BrokerInv == /\ SessInv /\ BuyInv /\ ResultTypeOK /\ GateInv /\ EntryInv
             /\ GatesInv

\* A step of the composition is a step of one part, and the others rest.
LEMMA BrokerStep == ASSUME BrokerInv, [Next]_vars PROVE BrokerInv'
<1>1. /\ [SessNext]_sessVars /\ [BuyNext]_buyVars /\ [ResultNext]_resultVars
      /\ [GateNext]_gateVars /\ [EntryNext]_entryVars /\ [GatesNext]_gatesVars
  BY DEF Next, Session, Buy, Results, Gate, Entry, Verdicts, vars
<1>2. SessInv' /\ BuyInv' /\ ResultTypeOK'
  BY <1>1, SessStep, BuyStep, ResultStep DEF BrokerInv
<1>3. GateInv' /\ EntryInv' /\ GatesInv'
  BY <1>1, GateStep, EntryStep, GatesStep DEF BrokerInv
<1> QED  BY <1>2, <1>3 DEF BrokerInv

\* Each part begins as it would alone.
LEMMA BrokerStart == Init => BrokerInv
BY SessStart, BuyStart, ResultStart, GateStart, EntryStart, GatesStart
DEF Init, BrokerInv

\* All six parts of the composition that the broker run checks keep their
\* types, whatever the constants.
THEOREM BrokerTypesAreKept == Spec => []BrokerTypeOK
<1>1. BrokerInv => BrokerTypeOK
  BY SessTypeParts, BuyTypeParts, EntryTypeParts
  DEF BrokerInv, SessInv, BuyInv, GateInv, EntryInv, GatesInv, BrokerTypeOK
<1> QED  BY BrokerStart, BrokerStep, <1>1, PTL DEF Spec
==============================================================================
