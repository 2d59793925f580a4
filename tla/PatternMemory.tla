---------------------------- MODULE PatternMemory ----------------------------
(* What the robots learn from their results: a page for each pattern (asset,*)
(* hour, setup, direction, timeframe), one in the book of each client and   *)
(* one in the book of all of them, which vetoes entries. Rows hold the      *)
(* pages as absolute counts; each process sums the clients' rows into the   *)
(* common page when it starts. One pattern, and its losses: wins are        *)
(* counted alongside and in the same way.                                   *)
EXTENDS Naturals, Sequences, FiniteSetsExt

CONSTANTS Trader,
          MinSamples,   \* results below which nothing is vetoed
          MaxLosses, MaxStart, MaxFailure

All == "__global__"

ASSUME TraderAssumption ==
    /\ IsFiniteSet(Trader) /\ All \notin Trader
    /\ {MinSamples, MaxLosses, MaxStart, MaxFailure} \subseteq Nat

VARIABLES
    lost,       \* losses that record_outcome was told of, of each client
    deleted,    \* those deleted since, that forget_outcome was told of
    page,       \* rows of robot_pattern_memory
    book,       \* each process: its page of each client, and the common one
    up,         \* how far each process is: summing, clearing, posting, running
    sends,      \* upserts the runtime has still to send
    starts, failures,
    stuck      \* history: deletions that the client's page did not undo

memoryVars == <<lost, deleted, page, book, up, sends, starts, failures, stuck>>

Owner == Trader \cup {All}
Where == {"gateway", "runtime"}
Blank == [o \in Owner |-> 0]

MemoryTypeOK ==
    /\ lost \in [Trader -> 0..MaxLosses] /\ deleted \in [Trader -> 0..MaxLosses]
    /\ page \in [Owner -> Nat] /\ book \in [Where -> [Owner -> Nat]]
    /\ up \in [Where -> {"summing", "clearing", "posting", "running"}]
    /\ Len(sends) <= 2
    /\ \A i \in 1..Len(sends) : sends[i] \in [owner : Owner, count : Nat, undoes : BOOLEAN]
    /\ starts \in 0..MaxStart /\ failures \in 0..MaxFailure
    /\ stuck \in Nat

Total(counts) == MapThenSumSet(LAMBDA t : counts[t], Trader)

MemoryInit ==
    /\ lost = [t \in Trader |-> 0] /\ deleted = [t \in Trader |-> 0]
    /\ page = Blank /\ book = [w \in Where |-> Blank]
    /\ up = [w \in Where |-> "running"] /\ sends = <<>>
    /\ starts = 0 /\ failures = 0 /\ stuck = 0

Fails == failures < MaxFailure /\ failures' = failures + 1

----------------------------------------------------------------------------
(* The runtime, while it runs *)

\* It blocks on the requests of a result before it takes the next.
Ready == up["runtime"] = "running" /\ sends = <<>>
Upsert(o, n, undoes) == [owner |-> o, count |-> n, undoes |-> undoes]
\* Upserts that would have undone a client's loss.
Undoing(s) == {i \in DOMAIN s : s[i].owner # All /\ s[i].undoes}

\* A result is counted for its client and for all, and then both are written.
Records(t) ==
    LET mine == book["runtime"][t] + 1
        ours == book["runtime"][All] + 1
    IN /\ Ready /\ Total(lost) < MaxLosses
       /\ lost' = [lost EXCEPT ![t] = @ + 1]
       /\ book' = [book EXCEPT !["runtime"][t] = mine, !["runtime"][All] = ours]
       /\ sends' = <<Upsert(t, mine, FALSE), Upsert(All, ours, FALSE)>>
       /\ UNCHANGED <<deleted, page, up, starts, failures, stuck>>

\* A deleted result is taken back from the pages that have something to take.
TakesBack(o) == book["runtime"][o] > 0
Forgets(t) ==
    LET left(o) == book["runtime"][o] - 1
        undo(o) == IF TakesBack(o) THEN <<Upsert(o, left(o), TRUE)>> ELSE <<>>
    IN /\ Ready /\ deleted[t] < lost[t]
       /\ deleted' = [deleted EXCEPT ![t] = @ + 1]
       /\ book' = [book EXCEPT !["runtime"] =
                      [o \in Owner |-> IF o \in {t, All} /\ TakesBack(o) THEN left(o)
                                       ELSE @[o]]]
       /\ sends' = undo(t) \o undo(All)
       /\ stuck' = IF TakesBack(t) THEN stuck ELSE stuck + 1
       /\ UNCHANGED <<lost, page, up, starts, failures>>

Sends ==
    /\ up["runtime"] = "running" /\ sends # <<>>
    /\ sends' = Tail(sends)
    /\ page' = [page EXCEPT ![Head(sends).owner] = Head(sends).count]
    /\ UNCHANGED <<lost, deleted, book, up, starts, failures, stuck>>

\* The row keeps what it had; nobody tries again.
SendFails ==
    /\ up["runtime"] = "running" /\ sends # <<>>
    /\ Fails
    /\ sends' = Tail(sends)
    /\ stuck' = IF 1 \in Undoing(sends) THEN stuck + 1 ELSE stuck
    /\ UNCHANGED <<lost, deleted, page, book, up, starts>>

----------------------------------------------------------------------------
(* A process starts: unify_all_into_global *)

Starts(w) ==
    /\ starts < MaxStart
    /\ starts' = starts + 1
    /\ up' = [up EXCEPT ![w] = "summing"]
    /\ book' = [book EXCEPT ![w] = Blank]
    /\ sends' = IF w = "runtime" THEN <<>> ELSE sends
    /\ stuck' = IF w = "runtime" /\ Undoing(sends) # {} THEN stuck + 1 ELSE stuck
    /\ UNCHANGED <<lost, deleted, page, failures>>

\* Mutant: the row of the common page is summed with the others.
SumWithTotal(rows) == Total(rows) + rows[All]

\* unify_pattern_rows, on the rows of every client.
Sum(rows) == Total(rows)

Unifies(w) ==
    /\ up[w] = "summing"
    /\ book' = [book EXCEPT ![w][All] = Sum(page)]
    /\ up' = [up EXCEPT ![w] = "clearing"]
    /\ UNCHANGED <<lost, deleted, page, sends, starts, failures, stuck>>

\* Rows that cannot be read are no rows.
UnifiesNothing(w) ==
    /\ up[w] = "summing"
    /\ Fails
    /\ up' = [up EXCEPT ![w] = "clearing"]
    /\ UNCHANGED <<lost, deleted, page, book, sends, starts, stuck>>

\* replace_global_patterns: a request that deletes, one that inserts if there is
\* something; the other process writes in between.
Clears(w) ==
    /\ up[w] = "clearing"
    /\ page' = [page EXCEPT ![All] = 0]
    /\ up' = [up EXCEPT ![w] = IF book[w][All] = 0 THEN "running" ELSE "posting"]
    /\ UNCHANGED <<lost, deleted, book, sends, starts, failures, stuck>>

Posts(w) ==
    /\ up[w] = "posting"
    /\ page' = [page EXCEPT ![All] = book[w][All]]
    /\ up' = [up EXCEPT ![w] = "running"]
    /\ UNCHANGED <<lost, deleted, book, sends, starts, failures, stuck>>

ReplaceFails(w) ==
    /\ up[w] \in {"clearing", "posting"}
    /\ Fails
    /\ up' = [up EXCEPT ![w] = "running"]
    /\ UNCHANGED <<lost, deleted, page, book, sends, starts, stuck>>

MemoryNext ==
    \/ \E t \in Trader : Records(t) \/ Forgets(t)
    \/ Sends \/ SendFails
    \/ \E w \in Where : Starts(w) \/ Unifies(w) \/ UnifiesNothing(w) \/ Clears(w)
                        \/ Posts(w) \/ ReplaceFails(w)

MemorySpec == MemoryInit /\ [][MemoryNext]_memoryVars

----------------------------------------------------------------------------
(* Properties *)

\* evaluate: a pattern with MinSamples results, nearly all lost, is not entered.
Vetoes == book["runtime"][All] >= MinSamples

\* A pattern is vetoed on results that happened and are still there, each counted
\* once, through any restarts of the two processes and failures between them:
\* but for those deleted when the client's page could not undo them (the process
\* had restarted since, or the write was lost), which the next sum brings back.
VetoFounded == Vetoes => Total(lost) - Total(deleted) + stuck >= MinSamples
=============================================================================
