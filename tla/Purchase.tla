------------------------------ MODULE Purchase -------------------------------
(* What a buyer's payments do to the access to the platform: the provider's *)
(* events ("pix" made out, "bought", "refunded"), each handled in several   *)
(* requests to the database and as often as it is delivered; the operator   *)
(* who approves a lead for a trial, and the end of that trial. No two of    *)
(* these writers hold a common lock.                                        *)
EXTENDS Naturals, FiniteSets

CONSTANTS Handler,      \* events handled at a time
          MaxSlip       \* deliveries of an event that was already answered, and
                        \* handlers that fail or die half-way, together

ASSUME SlipAssumption == MaxSlip \in Nat

VARIABLES
    profile,    \* the row of user_access_profiles
    happened,   \* events of the provider
    unanswered, \* those the provider will deliver again
    handling,   \* each handler: its step, its event and what it knows
    ledger,     \* billing_events, with the buyer's id or without
    revenue,    \* subscription_revenue_events
    outbox,     \* the purchase's message: none, with the first access, or without
    seen,       \* the operator sees the lead among the pending ones
    trial,      \* the end of the trial: not set, scheduled, its row was read
    resends, fails,
    \* history: the buyer had no profile at first; a write decided on an older
    \* row took a payer's row back; the purchase gave access when its refund
    \* was there; a handler that had written failed, two shared the purchase
    newcomer, downgraded, regranted, broken, crowded

buyVars == <<profile, happened, unanswered, handling, ledger, revenue, outbox,
             seen, trial, resends, fails, newcomer, downgraded, regranted, broken,
             crowded>>

CaktoEvent == {"pix", "bought", "refunded"}
NoProfile == [pay |-> "none", kind |-> "none", grant |-> FALSE]
Profile == [pay : {"none", "pending", "paid", "refunded", "free"},
            kind : {"none", "client", "trial"}, grant : BOOLEAN]
NewClient == [pay |-> "pending", kind |-> "client", grant |-> FALSE]
Steps == {"idle", "account", "look again", "profile", "early access", "ledger",
          "access", "revenue", "message"}
Resting == [step |-> "idle", event |-> "pix", known |-> NoProfile, link |-> FALSE,
            fresh |-> FALSE]

BuyTypeOK ==
    /\ profile \in Profile
    /\ happened \subseteq CaktoEvent /\ unanswered \subseteq happened
    /\ handling \in [Handler -> [step : Steps, event : CaktoEvent, known : Profile,
                                 link : BOOLEAN, fresh : BOOLEAN]]
    /\ ledger \in [CaktoEvent -> {"none", "anonymous", "of the buyer"}]
    /\ revenue \subseteq CaktoEvent
    /\ outbox \in {"none", "first access", "existing account"}
    /\ seen \in BOOLEAN /\ trial \in {"none", "scheduled", "read"}
    /\ {resends, fails} \subseteq 0..MaxSlip
    /\ {newcomer, downgraded, regranted, broken, crowded} \subseteq BOOLEAN

\* The buyer is unknown, or registered and waits for an approval.
BuyInit ==
    /\ profile \in {NoProfile, NewClient}
    /\ happened = {} /\ unanswered = {}
    /\ handling = [h \in Handler |-> Resting]
    /\ ledger = [e \in CaktoEvent |-> "none"] /\ revenue = {} /\ outbox = "none"
    /\ seen = FALSE /\ trial = "none" /\ resends = 0 /\ fails = 0
    /\ newcomer = (profile = NoProfile) /\ downgraded = FALSE /\ regranted = FALSE
    /\ broken = FALSE /\ crowded = FALSE

operator == <<seen, trial>>
books == <<ledger, revenue, outbox>>
counts == <<resends, fails, newcomer>>
undone == <<downgraded, regranted>>

----------------------------------------------------------------------------
(* The provider *)

\* The pix, then the purchase, then its refund; the pix may be left out.
EventHappens(e) ==
    /\ e \notin happened
    /\ e = "pix" => happened = {}
    /\ e = "refunded" => "bought" \in happened
    /\ happened' = happened \cup {e}
    /\ unanswered' = unanswered \cup {e}
    /\ UNCHANGED <<profile, handling, books, operator, counts, undone, broken,
                   crowded>>

At(h, step) == handling[h].step = step
Goes(h, step) == handling' = [handling EXCEPT ![h].step = step]
Handled(e) == \E h \in Handler : handling[h].step # "idle" /\ handling[h].event = e

----------------------------------------------------------------------------
(* FinanceService.process_cakto_event *)

\* An event comes, for the first time, after an attempt that failed or once
\* more (the provider's repetition, or the operator's reconciliation); the
\* buyer is looked up by e-mail.  A pix or a refund that finds nobody is looked
\* up once more, by the references of the rows of billing_events that name a
\* user (find_customer_by_billing_reference).  Of one buyer with one e-mail that
\* finds a profile only if it was made since the first look; nothing was done
\* in between, so it is this step, taken later.
EventArrives(h, e) ==
    /\ At(h, "idle") /\ e \in happened
    /\ IF e \in unanswered /\ ~Handled(e)
       THEN UNCHANGED resends
       ELSE resends + fails < MaxSlip /\ resends' = resends + 1
    /\ handling' = [handling EXCEPT ![h] =
                     [step |-> IF profile = NoProfile /\ e = "bought" THEN "account"
                               ELSE "ledger",
                      event |-> e, known |-> profile, link |-> FALSE, fresh |-> FALSE]]
    /\ crowded' = (crowded \/ (e = "bought" /\ Handled(e)))
    /\ UNCHANGED <<profile, happened, unanswered, books, operator, fails, newcomer,
                   undone, broken>>

\* create_purchase_account: an account and a link; of an account that exists,
\* a link as well.
AccountCreated(h) ==
    /\ At(h, "account")
    /\ handling' = [handling EXCEPT ![h].step = "look again", ![h].link = TRUE]
    /\ UNCHANGED <<profile, happened, unanswered, books, operator, counts, undone,
                   broken, crowded>>

\* ensure_purchase_customer looks the buyer up again,
LooksAgain(h) ==
    /\ At(h, "look again")
    /\ handling' = [handling EXCEPT
                     ![h].step = IF profile = NoProfile THEN "profile" ELSE "early access",
                     ![h].known = profile]
    /\ UNCHANGED <<profile, happened, unanswered, books, operator, counts, undone,
                   broken, crowded>>

\* and writes a profile that has no access yet, over one that came meanwhile.
ProfileCreated(h) ==
    /\ At(h, "profile")
    /\ profile' = NewClient
    /\ handling' = [handling EXCEPT ![h].step = "early access", ![h].known = NewClient]
    /\ downgraded' = (downgraded \/ profile.grant)
    /\ UNCHANGED <<happened, unanswered, books, operator, counts, regranted, broken,
                   crowded>>

\* _access_rule
Pays(e) ==
    CASE e = "pix" -> "pending" [] e = "bought" -> "paid" [] e = "refunded" -> "refunded"

Grants(e) == e = "bought"

\* Mutant: a pix that was made out takes a payer back to pending.
MayChangeToPending(known, e) == known # NoProfile /\ (Grants(e) \/ known.pay # "free")

\* _customer_can_be_changed and _is_regressive_pending_transition, on the row
\* as the handler knows it.
MayChange(known, e) ==
    /\ known # NoProfile
    /\ Grants(e) \/ known.pay # "free"
    /\ ~(e = "pix" /\ known.pay = "paid")

\* apply_customer_access
Applied(row, e) ==
    [pay |-> Pays(e), grant |-> Grants(e),
     kind |-> IF Grants(e) THEN "client" ELSE row.kind]

RefundSeen == Handled("refunded") \/ "refunded" \in happened \ unanswered

\* _ensure_customer_access_from_event
EnsureAccess(h) ==
    LET e == handling[h].event
        known == handling[h].known
    IN  IF MayChange(known, e)
        THEN /\ profile' = Applied(profile, e)
             /\ downgraded' = (downgraded \/ (/\ e = "pix" /\ profile.pay = "paid"
                                              /\ known.pay # "paid"))
             /\ regranted' = (regranted \/ (Grants(e) /\ RefundSeen))
        ELSE UNCHANGED <<profile, undone>>

Learns(h) ==
    LET e == handling[h].event
        known == handling[h].known
    IN  IF MayChange(known, e)
        THEN [known EXCEPT !.pay = Pays(e), !.grant = Grants(e)]
        ELSE known

\* The access of a new account, before the ledger.
AccessGivenEarly(h) ==
    /\ At(h, "early access")
    /\ EnsureAccess(h)
    /\ handling' = [handling EXCEPT ![h].step = "ledger", ![h].known = Learns(h)]
    /\ UNCHANGED <<happened, unanswered, books, operator, counts, broken, crowded>>

\* append_event ignores a row that is there.
LedgerWritten(h) ==
    /\ At(h, "ledger")
    /\ LET e == handling[h].event IN
        /\ ledger' = IF ledger[e] # "none" THEN ledger
                     ELSE [ledger EXCEPT ![e] = IF handling[h].known = NoProfile
                                                THEN "anonymous" ELSE "of the buyer"]
        /\ handling' = [handling EXCEPT ![h].step = "access",
                                        ![h].fresh = ledger[e] = "none"]
    /\ UNCHANGED <<profile, happened, unanswered, revenue, outbox, operator, counts,
                   undone, broken, crowded>>

AccessApplied(h) ==
    /\ At(h, "access")
    /\ EnsureAccess(h)
    /\ handling' = [handling EXCEPT
                     ![h].step = IF handling[h].fresh /\ Grants(handling[h].event)
                                 THEN "revenue" ELSE "message",
                     ![h].known = Learns(h)]
    /\ UNCHANGED <<happened, unanswered, books, operator, counts, broken, crowded>>

RevenueWritten(h) ==
    /\ At(h, "revenue")
    /\ revenue' = IF handling[h].known = NoProfile THEN revenue
                  ELSE revenue \cup {handling[h].event}
    /\ Goes(h, "message")
    /\ UNCHANGED <<profile, happened, unanswered, ledger, outbox, operator, counts,
                   undone, broken, crowded>>

\* Mutant: the kind of the message follows the profile that was known.
MessageByProfile(h) ==
    IF handling[h].known = NoProfile THEN "first access" ELSE "existing account"

\* resolve_outgoing_event_type: with a link, the first access.
Message(h) == IF handling[h].link THEN "first access" ELSE "existing account"

\* _emit_outgoing_event: one message for an event; the provider has its answer.
MessageQueued(h) ==
    /\ At(h, "message")
    /\ outbox' = IF handling[h].event = "bought" /\ outbox = "none" THEN Message(h)
                 ELSE outbox
    /\ handling' = [handling EXCEPT ![h] = Resting]
    /\ unanswered' = unanswered \ {handling[h].event}
    /\ UNCHANGED <<profile, happened, ledger, revenue, operator, counts, undone,
                   broken, crowded>>

\* A request fails, or the process dies: the provider delivers the event again.
HandlerFails(h) ==
    /\ ~At(h, "idle") /\ resends + fails < MaxSlip
    /\ fails' = fails + 1
    /\ handling' = [handling EXCEPT ![h] = Resting]
    /\ unanswered' = unanswered \cup {handling[h].event}
    /\ broken' = (broken \/ (/\ handling[h].event = "bought"
                             /\ \/ handling[h].link /\ profile # NoProfile
                                \/ handling[h].fresh))
    /\ UNCHANGED <<profile, happened, books, operator, resends, newcomer, undone,
                   crowded>>

----------------------------------------------------------------------------
(* The operator, and the end of a trial *)

LeadListed ==
    /\ ~seen /\ profile.pay = "pending" /\ ~profile.grant
    /\ seen' = TRUE
    /\ UNCHANGED <<profile, happened, unanswered, handling, books, trial, counts,
                   undone, broken, crowded>>

\* approve_lead saves the whole row, whatever it has become since it was listed.
LeadApproved ==
    /\ seen /\ trial = "none"
    /\ seen' = FALSE /\ trial' = "scheduled"
    /\ profile' = [pay |-> "free", kind |-> "trial", grant |-> TRUE]
    /\ downgraded' = (downgraded \/ profile.pay = "paid")
    /\ UNCHANGED <<happened, unanswered, handling, books, counts, regranted, broken,
                   crowded>>

\* trials.end: the row is read,
TrialRead ==
    /\ trial = "scheduled"
    /\ trial' = IF profile.kind = "trial" THEN "read" ELSE "none"
    /\ UNCHANGED <<profile, happened, unanswered, handling, books, seen, counts,
                   undone, broken, crowded>>

\* The filter of the write that ends the trial.
StillTrial == profile.kind = "trial"

\* and written, if it is still a trial's.
TrialEnded ==
    /\ trial = "read"
    /\ trial' = "none"
    /\ profile' = IF StillTrial THEN [profile EXCEPT !.grant = FALSE] ELSE profile
    /\ UNCHANGED <<happened, unanswered, handling, books, seen, counts, undone,
                   broken, crowded>>

BuyNext ==
    \/ \E e \in CaktoEvent : EventHappens(e)
    \/ \E h \in Handler :
         \/ \E e \in CaktoEvent : EventArrives(h, e)
         \/ AccountCreated(h) \/ LooksAgain(h) \/ ProfileCreated(h)
         \/ AccessGivenEarly(h) \/ LedgerWritten(h) \/ AccessApplied(h)
         \/ RevenueWritten(h) \/ MessageQueued(h) \/ HandlerFails(h)
    \/ LeadListed \/ LeadApproved \/ TrialRead \/ TrialEnded

BuySpec == BuyInit /\ [][BuyNext]_buyVars

----------------------------------------------------------------------------
(* Properties *)

Answered == unanswered = {} /\ \A h \in Handler : At(h, "idle")

\* Once the provider has its answers, who paid has access as a client, however
\* the pix and the purchase crossed, whichever handlers failed, and though a
\* trial of the same person ends at any moment; who was refunded is no payer.
\* Unless a write decided on an older row took the payer's access back, or the
\* purchase was handled after its refund.
AccessFollowsPayment ==
    Answered /\ "bought" \in happened =>
        IF "refunded" \in happened THEN profile.pay # "paid" \/ regranted
        ELSE profile = [pay |-> "paid", kind |-> "client", grant |-> TRUE] \/ downgraded

\* The purchase reaches the revenue, and a new buyer is sent the first access:
\* if neither two handlers shared it nor one failed after it had written.
PurchaseIsWhole ==
    Answered /\ "bought" \in happened /\ ~broken /\ ~crowded =>
        /\ "bought" \in revenue
        /\ outbox = IF newcomer THEN "first access" ELSE "existing account"
=============================================================================
