---------------------------- MODULE ClientAccess -----------------------------
(* What an operator does to a client's access, and the three copies of it   *)
(* that the gateway answers from: the authenticated user of a token (45 s), *)
(* a page of the list (20 s), the dashboard (75 s, which a task refills).   *)
(* A behaviour follows one of the copies (key): each is filled from the row *)
(* in several requests while operators, payments and trials write it, and   *)
(* is emptied by the operator's route when it ends.                         *)
EXTENDS Naturals

CONSTANTS Desk,         \* operators' requests at a time (and registrations)
          AuthTTL, PageTTL, BoardTTL,
          MaxOps,       \* requests of operators
          MaxOther      \* writes of payments and trials, and failed requests

ASSUME TTLAssumption == AuthTTL \in Nat /\ PageTTL \in Nat /\ BoardTTL \in Nat
ASSUME OpsAssumption == MaxOps \in Nat /\ MaxOther \in Nat

VARIABLES
    row,        \* the client's row of user_access_profiles
    user,       \* the client's user in Auth: none, known, banned
    desk,       \* each operator's request: its step, what it is, its record
    key,        \* the copy that is followed
    entry,      \* that copy
    fill,       \* the requests that may fill it
    ops, others,
    \* history: the copy's view changed and no route that should has cleared it
    \* since; the ticks since the client last lost access
    owed, lostFor

accessVars == <<row, user, desk, key, entry, fill, ops, others, owed, lostFor>>

Filler == {"request", "second"}     \* of "board", the second is the warmer
Segment == {"pending", "active", "trial", "inactive"}
Key == {"auth", "board"} \cup Segment
AccountKind == {"client", "trial"}
Pay == {"paid", "pending", "revoked", "free"}
Record(more) ==
    [there : BOOLEAN, kind : AccountKind \cup more, pay : Pay \cup more,
     ends : {"none", "ahead", "past"}, granted : BOOLEAN,
     approval : {"pending", "approved"}, deleted : BOOLEAN]
NoRow == [there |-> FALSE, kind |-> "client", pay |-> "pending", ends |-> "none",
          granted |-> FALSE, approval |-> "approved", deleted |-> FALSE]
Same == "same"                      \* a field the payload leaves out
NoAsk == [kind |-> Same, pay |-> Same, days |-> FALSE]
Ask == {[NoAsk EXCEPT !.pay = "paid"], [NoAsk EXCEPT !.pay = "revoked"],
        [NoAsk EXCEPT !.kind = "client", !.pay = "paid"],
        [kind |-> "trial", pay |-> "free", days |-> TRUE],
        NoAsk}                      \* no payload of access: a name, a password
AtDesk == [step : {"idle", "account", "read", "save", "ban", "saved"},
           op : {"create", "register", "update", "approve", "delete"},
           route : {"clients", "users", "public"}, rec : Record({Same}),
           ask : [kind : AccountKind \cup {Same}, pay : Pay \cup {Same}, days : BOOLEAN]]
IdleDesk == [step |-> "idle", op |-> "update", route |-> "clients", ask |-> NoAsk,
             rec |-> NoRow]

\* What a copy shows of the client: whether the token lets it in, whether it is
\* on the page of a segment, whether the dashboard counts it as active.
LetsIn(r) == r.there /\ r.granted /\ ~r.deleted
OnPage(segment, r) ==
    CASE segment = "pending" -> ~r.deleted /\ ~r.granted /\ r.approval = "pending"
      [] segment = "active" -> LetsIn(r) /\ r.kind = "client"
      [] segment = "trial" -> ~r.deleted /\ r.kind = "trial"
      [] segment = "inactive" -> ~r.granted /\ r.approval # "pending"
View(k, r) ==
    CASE k = "auth" -> LetsIn(r)
      [] k \in Segment -> r.there /\ OnPage(k, r)
      [] k = "board" -> LetsIn(r) /\ r.kind = "client"
IdleFill == [step |-> "idle", age |-> 0, saw |-> FALSE, late |-> FALSE]
NoEntry == [left |-> 0, saw |-> FALSE, late |-> FALSE]

TTL == [k \in Key |-> IF k \in Segment THEN PageTTL
                      ELSE IF k = "auth" THEN AuthTTL ELSE BoardTTL]

AccessTypeOK ==
    /\ row \in Record({}) /\ user \in {"none", "known", "banned"}
    /\ desk \in [Desk -> AtDesk]
    /\ key \in Key
    /\ entry \in [left : 0..TTL[key], saw : BOOLEAN, late : BOOLEAN]
    /\ fill \in [Filler -> [step : {"idle", "asked", "loaded"}, age : 0..AuthTTL,
                            saw : BOOLEAN, late : BOOLEAN]]
    /\ ops \in 0..MaxOps /\ others \in 0..MaxOther
    /\ owed \in BOOLEAN /\ lostFor \in 0..AuthTTL

\* The client is new, or was paid for, or is on trial.
AtFirst ==
    {[NoRow EXCEPT !.there = TRUE, !.pay = "paid", !.granted = TRUE],
     [NoRow EXCEPT !.there = TRUE, !.kind = "trial", !.pay = "free", !.ends = "ahead",
                   !.granted = TRUE]}

AccessInit ==
    /\ \/ row = NoRow /\ user = "none"
       \/ row \in AtFirst /\ user = "known"
    /\ desk = [d \in Desk |-> IdleDesk]
    /\ key \in Key
    /\ entry = NoEntry /\ fill = [f \in Filler |-> IdleFill]
    /\ ops = 0 /\ others = 0 /\ owed = FALSE /\ lostFor = AuthTTL

copies == <<key, entry, fill>>

\* A write of the row: the copy followed may now show what is no longer so.
Writes(r) ==
    /\ row' = r
    /\ owed' = (owed \/ View(key, r) # View(key, row))
    /\ lostFor' = IF LetsIn(row) /\ ~LetsIn(r) THEN 0 ELSE lostFor

----------------------------------------------------------------------------
(* The operators' requests *)

\* What a kind of account asks of payment and days; days is a new trial's term.
Valid(kind, pay, days, ends) ==
    IF kind = "trial" THEN (days \/ ends # "none") /\ pay = "free" ELSE pay # "free"

\* The record with the access that its kind and payment give.
Configured(r, kind, pay, days) ==
    LET ends == CASE kind = "client" -> "none"
                  [] kind = "trial" /\ days -> "ahead"
                  [] OTHER -> r.ends
    IN [r EXCEPT !.kind = kind, !.pay = pay, !.ends = ends,
                 !.granted = IF kind = "trial" THEN ends = "ahead" ELSE pay = "paid"]

Begins(d, op, route, step, ask, rec) ==
    /\ desk[d].step = "idle" /\ ops < MaxOps
    /\ ops' = ops + 1
    /\ desk' = [desk EXCEPT ![d] = [step |-> step, op |-> op, route |-> route,
                                    ask |-> ask, rec |-> rec]]

\* A client is created by an operator, or registers: first the user in Auth,
\* which must not exist, then the row, then the access that is computed.
CreatesUser(d) ==
    /\ user = "none"
    /\ user' = "known"
    /\ \/ \E k \in AccountKind, p \in Pay, route \in {"clients", "users"} :
            /\ Valid(k, p, k = "trial", "none") /\ p # "revoked"
            /\ Begins(d, "create", route, "account", [NoAsk EXCEPT !.days = (k = "trial")],
                      [NoRow EXCEPT !.there = TRUE, !.kind = k, !.pay = p,
                                    !.granted = (p # "pending")])
       \/ Begins(d, "register", "public", "account", NoAsk,
                 [NoRow EXCEPT !.there = TRUE])
    /\ UNCHANGED <<row, copies, others, owed, lostFor>>

InsertsRow(d) ==
    LET at == desk[d]
    IN /\ at.step = "account"
       /\ Writes(at.rec)
       /\ desk' = [desk EXCEPT
              ![d].step = "save", ![d].ask = NoAsk,
              ![d].rec = IF at.op = "register"
                         THEN [at.rec EXCEPT !.approval = "pending"]
                         ELSE Configured(at.rec, at.rec.kind, at.rec.pay, at.ask.days)]
       /\ UNCHANGED <<user, copies, ops, others>>

\* An edit reads the row, writes the fields it was given, and then the access
\* computed from them and, for the others, from what it read first.
UpdateReads(d) ==
    /\ row.there
    /\ \E ask \in Ask, route \in {"clients", "users"} :
         LET kind == IF ask.kind = Same THEN row.kind ELSE ask.kind
             pay == IF ask.pay = Same THEN row.pay ELSE ask.pay
         IN /\ Valid(kind, pay, ask.days, row.ends)
            /\ Begins(d, "update", route, "read",
                      [kind |-> kind, pay |-> pay, days |-> ask.days],
                      [row EXCEPT !.kind = ask.kind, !.pay = ask.pay])
    /\ UNCHANGED <<row, user, copies, others, owed, lostFor>>

UpdatePatches(d) ==
    LET at == desk[d]
        given(field, now) == IF field = Same THEN now ELSE field
        patched == [row EXCEPT !.kind = given(at.rec.kind, @),
                               !.pay = given(at.rec.pay, @)]
    IN /\ at.step = "read"
       /\ Writes(patched)
       /\ desk' = [desk EXCEPT
              ![d].step = "save", ![d].ask = NoAsk,
              ![d].rec = Configured(patched, at.ask.kind, at.ask.pay, at.ask.days)]
       /\ UNCHANGED <<user, copies, ops, others>>

\* A lead is approved for a trial, a client is taken off the platform: the row
\* is read, and written back as a whole.
Approves(d) ==
    /\ row.there /\ ~row.deleted
    /\ Begins(d, "approve", "clients", "save", NoAsk,
              [row EXCEPT !.approval = "approved", !.kind = "trial", !.pay = "free",
                          !.ends = "ahead", !.granted = TRUE])
    /\ UNCHANGED <<row, user, copies, others, owed, lostFor>>

Deletes(d) ==
    /\ row.there
    /\ \E route \in {"clients", "users"} :
         Begins(d, "delete", route, "save", NoAsk,
                [row EXCEPT !.deleted = TRUE, !.granted = FALSE])
    /\ UNCHANGED <<row, user, copies, others, owed, lostFor>>

\* save_client: the columns of access as the record has them; a deleted
\* client's user is banned by a request of its own.
SavesClient(d) ==
    /\ desk[d].step = "save"
    /\ Writes(desk[d].rec)
    /\ desk' = [desk EXCEPT ![d].step = IF desk[d].rec.deleted THEN "ban" ELSE "saved",
                            ![d].rec = NoRow]
    /\ UNCHANGED <<user, copies, ops, others>>

Bans(d) ==
    /\ desk[d].step = "ban"
    /\ user' = "banned" /\ desk' = [desk EXCEPT ![d].step = "saved"]
    /\ UNCHANGED <<row, copies, ops, others, owed, lostFor>>

\* The copies a route empties when it ends.
Cleared(op, route) ==
    CASE route = "public" -> {}
      [] route = "clients" -> Key
      [] route = "users" -> IF op = "create" THEN {} ELSE {"auth"}

\* The copy, and its fills, once a route emptied it.
Emptied(e) == NoEntry

RouteEnds(d) ==
    LET clears == key \in Cleared(desk[d].op, desk[d].route)
    IN /\ desk[d].step = "saved"
       /\ desk' = [desk EXCEPT ![d] = IdleDesk]
       /\ entry' = IF clears THEN Emptied(entry) ELSE entry
       /\ fill' = [f \in Filler |->
                      [fill[f] EXCEPT !.late = @ \/ (clears /\ fill[f].step = "loaded")]]
       /\ owed' = (owed /\ ~clears)
       /\ UNCHANGED <<row, user, key, ops, others, lostFor>>

\* A request to the database fails: the route answers with an error and empties
\* nothing, whatever was written. After its save a route still writes the audit,
\* but for those of an approval (later, in the background) and a registration.
RouteBreaks(d) ==
    /\ desk[d].step # "idle" /\ others < MaxOther
    /\ ~(desk[d].op \in {"approve", "register"} /\ desk[d].step = "saved")
    /\ others' = others + 1
    /\ desk' = [desk EXCEPT ![d] = IdleDesk]
    /\ UNCHANGED <<row, user, copies, ops, owed, lostFor>>

----------------------------------------------------------------------------
(* Payments and trials write the row too, and know nothing of the copies *)

PaymentApplied ==
    /\ row.there /\ others < MaxOther
    /\ others' = others + 1
    /\ \/ Writes([row EXCEPT !.pay = "paid", !.granted = TRUE, !.approval = "approved",
                             !.kind = "client"])
       \/ /\ row.pay # "free"
          /\ Writes([row EXCEPT !.pay = "revoked", !.granted = FALSE])
    /\ UNCHANGED <<user, desk, copies, ops>>

TrialEnds ==
    /\ row.there /\ row.kind = "trial" /\ row.ends = "ahead" /\ ~row.deleted
    /\ others < MaxOther
    /\ others' = others + 1
    /\ Writes([row EXCEPT !.ends = "past", !.granted = FALSE])
    /\ UNCHANGED <<user, desk, copies, ops>>

----------------------------------------------------------------------------
(* The copy that is followed *)

Fresh == entry.left > 0
Filling(f, rec) == fill' = [fill EXCEPT ![f] = rec]

\* A request that finds no fresh copy asks (a banned user's token is refused);
\* the warmer does not look.
Asks(f) ==
    /\ fill[f].step = "idle"
    /\ ~Fresh \/ (key = "board" /\ f = "second")
    /\ key = "auth" => user = "known"
    /\ Filling(f, [IdleFill EXCEPT !.step = "asked"])
    /\ UNCHANGED <<row, user, desk, key, entry, ops, others, owed, lostFor>>

\* The row is read. A client without a row, or deleted, is not let in at all:
\* nothing is stored.
Loads(f) ==
    /\ fill[f].step = "asked"
    /\ IF key = "auth" /\ (~row.there \/ row.deleted)
       THEN Filling(f, IdleFill)
       ELSE Filling(f, [fill[f] EXCEPT !.step = "loaded", !.saw = View(key, row)])
    /\ UNCHANGED <<row, user, desk, key, entry, ops, others, owed, lostFor>>

\* How long an entry has left: authenticate counts from when it was called, the
\* pages from when they are written.
\* Mutant: a token is good for 45 s from when its requests ended.
LeftFromNow(k, age) == TTL[k]
Left(k, age) == IF k = "auth" THEN AuthTTL - age ELSE TTL[k]

\* After the row come the role and its permissions, or the history: requests too.
Stores(f) ==
    /\ fill[f].step = "loaded"
    /\ entry' = IF Left(key, fill[f].age) = 0 THEN NoEntry
                ELSE [left |-> Left(key, fill[f].age), saw |-> fill[f].saw,
                      late |-> fill[f].late]
    /\ Filling(f, IdleFill)
    /\ UNCHANGED <<row, user, desk, key, ops, others, owed, lostFor>>

\* A log-out takes the token's entry; a full cache the one that expires first.
Dropped ==
    /\ key = "auth" /\ Fresh
    /\ entry' = NoEntry
    /\ UNCHANGED <<row, user, desk, key, fill, ops, others, owed, lostFor>>

\* A tick; nobody asks how old a thing is once it is older than AuthTTL.
Older(n) == IF n < AuthTTL THEN n + 1 ELSE n
TimePasses ==
    /\ entry' = IF entry.left > 1 THEN [entry EXCEPT !.left = @ - 1] ELSE NoEntry
    /\ fill' = [f \in Filler |-> IF key = "auth" /\ fill[f].step # "idle"
                                 THEN [fill[f] EXCEPT !.age = Older(@)] ELSE fill[f]]
    /\ lostFor' = Older(lostFor)
    /\ UNCHANGED <<row, user, desk, key, ops, others, owed>>

DeskSteps(d) ==
    \/ CreatesUser(d) \/ InsertsRow(d) \/ UpdateReads(d) \/ UpdatePatches(d)
    \/ Approves(d) \/ Deletes(d) \/ SavesClient(d) \/ Bans(d)
    \/ RouteEnds(d) \/ RouteBreaks(d)

AccessNext ==
    \/ \E d \in Desk : DeskSteps(d)
    \/ \E f \in Filler : Asks(f) \/ Loads(f) \/ Stores(f)
    \/ PaymentApplied \/ TrialEnds \/ Dropped \/ TimePasses

AccessSpec == AccessInit /\ [][AccessNext]_accessVars

----------------------------------------------------------------------------
(* Properties *)

\* Whoever lost access is let in by no copy for longer than the 45 s of
\* authenticate, counted from the loss, however long its requests took and
\* whether or not anybody emptied the cache; and a change that an operator's
\* route announced is what every copy shows, but for one filled by a request
\* that had read the row before and was still under way.
ChangesArrive ==
    /\ (key = "auth" /\ Fresh /\ entry.saw /\ ~LetsIn(row))
          => lostFor + entry.left <= AuthTTL
    /\ (Fresh /\ entry.saw # View(key, row)) => owed \/ entry.late
=============================================================================
