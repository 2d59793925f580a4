--------------------------- MODULE MasanielloPlan ---------------------------
(* What the money plan promises (the "Gerenciamento Consistente"): there is *)
(* one plan at a time; it stakes one order at a time, each on a capital in  *)
(* which every earlier order of the plan is settled; a result enters it     *)
(* once; it ends with W wins, with more than N - W losses, without money or *)
(* when its owner gives it up. Who holds copies of it does not show here.   *)
EXTENDS Naturals, FiniteSets

CONSTANTS Order, N, W,
          Terms     \* settings of a plan: capital, N, W and payout

VARIABLES plan,
          waived    \* it was given up with its order in flight

planOf == <<plan, waived>>

PlanTypeOK ==
    /\ plan \in [id : Nat, terms : Terms, status : {"active", "ended"},
                 pending : {0} \union Order, booked : SUBSET Order,
                 won : 0..N, lost : 0..N]
    /\ waived \in BOOLEAN

NewPlan(id, terms) ==
    [id |-> id, terms |-> terms, status |-> "active", pending |-> 0,
     booked |-> {}, won |-> 0, lost |-> 0]

PlanInit ==
    /\ \E t \in Terms : plan = [NewPlan(0, t) EXCEPT !.status = "ended"]
    /\ waived = FALSE

\* A plan in use is replaced only when its order is overdue or its owner
\* changed the settings.
Open(t) ==
    /\ \/ plan.status = "ended"
       \/ plan.pending # 0
       \/ plan.booked = {}
       \/ t # plan.terms
    /\ plan' = NewPlan(plan.id + 1, t) /\ waived' = FALSE

Stake(o) ==
    /\ plan.status = "active" /\ plan.pending = 0 /\ o \notin plan.booked
    /\ plan' = [plan EXCEPT !.pending = o] /\ waived' = FALSE

Over(won, lost) == won >= W \/ lost > N - W

\* The result of the order in flight. A plan given up with it may come back.
Book(o) ==
    /\ plan.pending = o /\ o \notin plan.booked
    /\ \E won \in {plan.won, plan.won + 1}, lost \in {plan.lost, plan.lost + 1},
          status \in {"active", "ended"} :
        /\ won + lost <= plan.won + plan.lost + 1
        /\ Over(won, lost) => status = "ended"
        /\ status # plan.status => Over(won, lost) \/ waived
        /\ plan' = [plan EXCEPT !.pending = 0, !.booked = @ \union {o},
                                !.won = won, !.lost = lost, !.status = status]
    /\ UNCHANGED waived

\* Or it comes back after the result.
Return ==
    /\ plan.status = "ended" /\ waived /\ plan.pending = 0
    /\ ~Over(plan.won, plan.lost)
    /\ plan' = [plan EXCEPT !.status = "active"] /\ UNCHANGED waived

\* No money for the smallest order, or the owner gives it up.
End ==
    /\ plan.status = "active"
    /\ plan' = [plan EXCEPT !.status = "ended"]
    /\ waived' = (waived \/ plan.pending # 0)

\* Every step changes the plan; said first, it spares TLC the rest.
PlanNext ==
    /\ planOf' # planOf
    /\ \/ End \/ Return \/ \E t \in Terms : Open(t)
       \/ \E o \in Order : Stake(o) \/ Book(o)

PlanSpec == PlanInit /\ [][PlanNext]_planOf
=============================================================================
