---------------------------- MODULE ScoreCounter ----------------------------
(***************************************************************************)
(* The score ("placar") as a counter in the database, in its shadow phase: *)
(* backend/placar_contador.py (a bounded queue and one writer thread in    *)
(* each process, with retries), the functions of                           *)
(* migration_placar_contador.sql (each one a transaction) and the places   *)
(* that feed it: results from the process that owns the score, reset and   *)
(* deletion from the process that serves the panel.                        *)
(*                                                                         *)
(* Money, the stop columns, draws and the synthetic "vitrine" entries are  *)
(* left out.  A restart is taken to restore the live score exactly.        *)
(***************************************************************************)
EXTENDS Integers, FiniteSets, SequencesExt

CONSTANTS
    Order,      \* broker orders
    NoOrder,
    Process,    \* the processes with a ContadorDoPlacar
    Owner,      \* the one that counts results: the runtime, or the only one
    Panel,      \* the one that serves the panel: the gateway, or the only one
    Attempts,   \* TENTATIVAS
    QueueMax,   \* FILA_MAXIMA
    MaxReset,   \* bound: resets of the score
    Unsure,     \* writes whose answer may be lost after the database did them
    Deletable   \* which trades a run deletes

ASSUME OrderAssumption == NoOrder \notin Order /\ IsFiniteSet(Order)
ASSUME ProcessAssumption == {Owner, Panel} \subseteq Process
ASSUME BoundAssumption == Attempts \in Nat \ {0} /\ QueueMax \in Nat /\ MaxReset \in Nat

VARIABLES
    live,       \* the robot's score: wins and losses
    orders,     \* what became of each order
    openLeg,    \* the lost leg that waits for its next step
    resets,     \* stop_reset_at: the last reset of the score
    queue,      \* _fila of each process
    busy,       \* the write each writer thread is at
    tries,      \* its failed attempts
    off,        \* _sem_tabela: the functions are not in the database
    db,         \* the tables placar and placar_lancamentos
    dropped     \* history variable: kinds of writes given up

vars == <<live, orders, openLeg, resets, queue, busy, tries, off, db, dropped>>
writers == <<busy, tries, off, db>>

Kind == {"lancar", "apagar", "reiniciar", "semear"}

ASSUME KindAssumption == Unsure \subseteq Kind /\ Deletable \subseteq {"counted", "leg", "seeded"}

\* A write; part 1 is the key "<order>#ciclo" of an abandoned cycle.
Write(kind, o, part, wins, losses, since) ==
    [kind |-> kind, key |-> <<o, part>>, wins |-> wins, losses |-> losses, since |-> since]
NoWrite == Write("none", NoOrder, 0, 0, 0, 0)

Launch(o, part, wins, losses) == Write("lancar", o, part, wins, losses, 0)
Erase(o) == Write("apagar", o, 0, 0, 0, 0)
Restart(since) == Write("reiniciar", NoOrder, 0, 0, 0, since)
Seed(score) == Write("semear", NoOrder, 0, score.wins, score.losses, 0)

-----------------------------------------------------------------------------
(* The database functions.                                                 *)

Row(exists, since, wins, losses) ==
    [exists |-> exists, since |-> since, wins |-> wins, losses |-> losses]
Zero == [wins |-> 0, losses |-> 0]

\* base is an auxiliary: what the current period started from.
InitDB == [row |-> Row(FALSE, 0, 0, 0), entries |-> {}, base |-> Zero]

Current(d) == {e \in d.entries : e.since = d.row.since}

\* _placar_aplicar over a set of entries.
Wins(es) == MapThenSumSet(LAMBDA e : e.wins, es)
Losses(es) == MapThenSumSet(LAMBDA e : e.losses, es)

Entry(d, w) == [since |-> d.row.since, key |-> w.key, wins |-> w.wins, losses |-> w.losses]

\* Mutant of PlacarLancar: the key is not unique.
BugNoUniqueKey(d, w) ==
    [d EXCEPT !.entries = @ \cup {Entry(d, w)},
              !.row = Row(TRUE, @.since, @.wins + w.wins, @.losses + w.losses)]

PlacarLancar(d, w) ==
    IF \E e \in Current(d) : e.key = w.key
    THEN d
    ELSE [d EXCEPT !.entries = @ \cup {Entry(d, w)},
                   !.row = Row(TRUE, @.since, @.wins + w.wins, @.losses + w.losses)]

PlacarApagar(d, w) ==
    LET gone == {e \in Current(d) : e.key[1] = w.key[1]}
    IN  [d EXCEPT !.entries = @ \ gone,
                  !.row.wins = @ - Wins(gone), !.row.losses = @ - Losses(gone)]

PlacarReiniciar(d, w) ==
    [d EXCEPT !.row = Row(TRUE, w.since, 0, 0), !.base = Zero]

\* Mutant of PlacarSemear: it adds to a row that is already there.
BugSeedsAgain(d, w) ==
    [d EXCEPT !.row = Row(TRUE, @.since, @.wins + w.wins, @.losses + w.losses),
              !.base = [wins |-> @.wins + w.wins, losses |-> @.losses + w.losses]]

PlacarSemear(d, w) ==
    IF d.row.exists THEN d
    ELSE [d EXCEPT !.row = Row(TRUE, @.since, w.wins, w.losses),
                   !.base = [wins |-> w.wins, losses |-> w.losses]]

Apply(d, w) ==
    CASE w.kind = "lancar" -> PlacarLancar(d, w)
      [] w.kind = "apagar" -> PlacarApagar(d, w)
      [] w.kind = "reiniciar" -> PlacarReiniciar(d, w)
      [] w.kind = "semear" -> PlacarSemear(d, w)

-----------------------------------------------------------------------------
(* Before the counter was switched on some orders may have been counted;    *)
(* the boot of the owner seeds the counter with the score.                  *)

Init ==
    /\ \E before \in SUBSET Order :
          /\ orders = [o \in Order |-> IF o \in before THEN "win" ELSE "new"]
          /\ live = [wins |-> Cardinality(before), losses |-> 0]
    /\ openLeg = NoOrder
    /\ resets = 0
    /\ queue = [p \in Process |-> IF p = Owner THEN <<Seed(live)>> ELSE <<>>]
    /\ busy = [p \in Process |-> NoWrite]
    /\ tries = [p \in Process |-> 0]
    /\ off = [p \in Process |-> FALSE]
    /\ db = InitDB
    /\ dropped = {}

\* _enfileirar: never waits; a full queue or a missing table drops the write.
Enqueue(p, w) ==
    IF off[p] \/ Len(queue[p]) = QueueMax
    THEN dropped' = dropped \cup {w.kind} /\ UNCHANGED queue
    ELSE queue' = [queue EXCEPT ![p] = Append(@, w)] /\ UNCHANGED dropped

-----------------------------------------------------------------------------
(* The robot: finish_trade, count_late_result, trigger_gale and             *)
(* close_abandoned_gale, each of which also launches its effect.            *)

CountWin(o) ==
    /\ orders[o] = "new"
    /\ orders' = [orders EXCEPT ![o] = "win"]
    /\ live' = [live EXCEPT !.wins = @ + 1]
    /\ openLeg' \in {openLeg, NoOrder}
    /\ Enqueue(Owner, Launch(o, 0, 1, 0))
    /\ UNCHANGED <<resets, writers>>

CountLoss(o) ==
    /\ orders[o] = "new"
    /\ orders' = [orders EXCEPT ![o] = "loss"]
    /\ live' = [live EXCEPT !.losses = @ + 1]
    /\ openLeg' \in {openLeg, NoOrder}
    /\ Enqueue(Owner, Launch(o, 0, 0, 1))
    /\ UNCHANGED <<resets, writers>>

\* A lost leg: only its money goes to the counter.
LoseLeg(o) ==
    /\ orders[o] = "new"
    /\ orders' = [orders EXCEPT ![o] = "leg"]
    /\ openLeg' = o
    /\ Enqueue(Owner, Launch(o, 0, 0, 0))
    /\ UNCHANGED <<live, resets, writers>>

CloseLeg ==
    /\ openLeg # NoOrder
    /\ orders' = [orders EXCEPT ![openLeg] = IF @ = "leg" THEN "cycle" ELSE @]
    /\ live' = [live EXCEPT !.losses = @ + 1]
    /\ openLeg' = NoOrder
    /\ Enqueue(Owner, Launch(openLeg, 1, 0, 1))
    /\ UNCHANGED <<resets, writers>>

-----------------------------------------------------------------------------
(* The panel.                                                              *)

\* The orders of an earlier period are no longer in the score.
Forget == [o \in Order |-> IF orders[o] = "new" THEN "new" ELSE "old"]

\* POST /robot/reset-score keeps an open leg, POST /robot/reset-cycle drops it.
\* In two processes the owner zeroes its score when the reset_score command
\* arrives; here at once, and no property compares the two scores then.
ResetScore ==
    /\ resets < MaxReset
    /\ resets' = resets + 1
    /\ live' = Zero /\ orders' = Forget
    /\ openLeg' \in {openLeg, NoOrder}
    /\ Enqueue(Panel, Restart(resets'))
    /\ UNCHANGED writers

Pending == (IF busy[Owner] = NoWrite THEN <<>> ELSE <<busy[Owner]>>) \o queue[Owner]

\* The order has a write of its own, in the table or on its way.
Launched(o) ==
    \/ \E e \in Current(db) : e.key[1] = o
    \/ \E i \in DOMAIN Pending : Pending[i].kind = "lancar" /\ Pending[i].key[1] = o

DeletionKind(o) ==
    IF orders[o] = "leg" THEN "leg" ELSE IF Launched(o) THEN "counted" ELSE "seeded"

\* apply_marketing_score_removal of a real trade of the current period, in
\* one process: a row that reads LOSS takes a loss off, a lost leg's too.
DeleteTrade(o) ==
    /\ Panel = Owner
    /\ orders[o] \in {"win", "loss", "leg", "cycle"} /\ DeletionKind(o) \in Deletable
    /\ orders' = [orders EXCEPT ![o] = "deleted"]
    /\ live' = IF orders[o] = "win"
               THEN [live EXCEPT !.wins = IF @ > 0 THEN @ - 1 ELSE 0]
               ELSE [live EXCEPT !.losses = IF @ > 0 THEN @ - 1 ELSE 0]
    /\ Enqueue(Panel, Erase(o))
    /\ UNCHANGED <<openLeg, resets, writers>>

-----------------------------------------------------------------------------
(* The writer thread of a process: _laco and _gravar.                      *)

Robot == <<live, orders, openLeg, resets>>

Take(p) ==
    /\ busy[p] = NoWrite /\ queue[p] # <<>>
    /\ busy' = [busy EXCEPT ![p] = Head(queue[p])]
    /\ queue' = [queue EXCEPT ![p] = Tail(@)]
    /\ UNCHANGED <<Robot, tries, off, db, dropped>>

Written(p) ==
    /\ busy[p] # NoWrite /\ ~off[p]
    /\ db' = Apply(db, busy[p])
    /\ busy' = [busy EXCEPT ![p] = NoWrite]
    /\ tries' = [tries EXCEPT ![p] = 0]
    /\ UNCHANGED <<Robot, queue, off, dropped>>

GiveUp(p) ==
    /\ busy' = [busy EXCEPT ![p] = NoWrite]
    /\ tries' = [tries EXCEPT ![p] = 0]
    /\ dropped' = dropped \cup {busy[p].kind}

\* The attempt fails: the database did not do it, or its answer was lost.
Attempted(p) ==
    /\ busy[p] # NoWrite /\ ~off[p]
    /\ \/ UNCHANGED db
       \/ busy[p].kind \in Unsure /\ db' = Apply(db, busy[p])

\* Mutant of WriteFails: no attempt is the last.
BugRetriesForever(p) ==
    /\ Attempted(p)
    /\ tries' = [tries EXCEPT ![p] = (@ + 1) % Attempts]
    /\ UNCHANGED <<busy, dropped, Robot, queue, off>>

WriteFails(p) ==
    /\ Attempted(p)
    /\ IF tries[p] + 1 >= Attempts
       THEN GiveUp(p)
       ELSE /\ tries' = [tries EXCEPT ![p] = @ + 1]
            /\ UNCHANGED <<busy, dropped>>
    /\ UNCHANGED <<Robot, queue, off>>

\* The functions are missing: the counter of this process switches off, and
\* what is queued is thrown away.
NoTable(p) ==
    /\ busy[p] # NoWrite
    /\ off' = [off EXCEPT ![p] = TRUE]
    /\ GiveUp(p)
    /\ UNCHANGED <<Robot, queue, db>>

\* The process restarts: its queue is gone; the owner seeds again.
ProcessRestart(p) ==
    /\ queue' = [queue EXCEPT ![p] = IF p = Owner THEN <<Seed(live)>> ELSE <<>>]
    /\ dropped' = dropped \cup ({busy[p].kind} \ {"none"})
                          \cup {queue[p][i].kind : i \in DOMAIN queue[p]}
    /\ busy' = [busy EXCEPT ![p] = NoWrite]
    /\ tries' = [tries EXCEPT ![p] = 0]
    /\ off' = [off EXCEPT ![p] = FALSE]
    /\ UNCHANGED <<Robot, db>>

-----------------------------------------------------------------------------
WriterStep(p) == Take(p) \/ Written(p) \/ WriteFails(p) \/ NoTable(p)

Next ==
    \/ \E o \in Order : CountWin(o) \/ CountLoss(o) \/ LoseLeg(o) \/ DeleteTrade(o)
    \/ CloseLeg \/ ResetScore
    \/ \E p \in Process : WriterStep(p) \/ ProcessRestart(p)

Spec == Init /\ [][Next]_vars

\* Each writer is a thread of its own, and a request has a time limit.
FairSpec == Spec /\ \A p \in Process : WF_vars(WriterStep(p))

-----------------------------------------------------------------------------
(* Properties.                                                             *)

WriteType == [kind : Kind \cup {"none"}, key : (Order \cup {NoOrder}) \X {0, 1},
              wins : Nat, losses : Nat, since : 0..MaxReset]

\* The types of the state.
TypeOK ==
    /\ live \in [wins : Nat, losses : Nat]
    /\ orders \in [Order -> {"new", "win", "loss", "leg", "cycle", "old", "deleted"}]
    /\ openLeg \in Order \cup {NoOrder}
    /\ resets \in 0..MaxReset
    /\ \A p \in Process : queue[p] \in Seq(WriteType) /\ Len(queue[p]) <= QueueMax
    /\ busy \in [Process -> WriteType]
    /\ tries \in [Process -> 0..(Attempts - 1)]
    /\ off \in [Process -> BOOLEAN]
    /\ db.row \in [exists : BOOLEAN, since : 0..MaxReset, wins : Nat, losses : Nat]
    /\ dropped \subseteq Kind

\* What the table will be when the writer has caught up.
Settled == FoldLeft(Apply, db, Pending).row

\* In one process, while no write was given up, the counter is going to be
\* the robot's score: retries of writes the database had already done, resets,
\* deletions and abandoned cycles in any order neither add nor lose a result.
\* Losing launches, in a restart or after the last attempt, leaves the counter
\* short but never ahead of the score, and the seed of the next boot does not
\* count again what the counter already has.
CounterFounded ==
    Panel = Owner =>
        /\ dropped = {} => Settled.wins = live.wins /\ Settled.losses = live.losses
        /\ dropped \subseteq {"lancar", "semear"} =>
              Settled.wins <= live.wins /\ Settled.losses <= live.losses

\* Whatever fails, the writer works its queue off: a bounded number of attempts
\* per write, and the next write after that.
QueueDrains == \A p \in Process : queue[p] # <<>> ~> queue[p] = <<>>
=============================================================================
