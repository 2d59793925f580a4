------------------------------ MODULE Plan_proofs ------------------------------
(* The copies of the money plan, taken by the freshest, behave as one plan  *)
(* (MasanielloPlan); and what the gateway decides with other processes keeps *)
(* its types: revisions, wins, attempts and calls within their bounds.      *)
EXTENDS Gateway_proofs, FiniteSetTheorems

-----------------------------------------------------------------------------
(* The order of the copies.                                                *)

\* pick_freshest_cycle prefers c.
Newer(c, d) ==
    \/ c.id > d.id
    \/ c.id = d.id /\ c.rev > d.rev
    \/ c.id = d.id /\ c.rev = d.rev /\ (Active(c) => Active(d))

\* No copy is preferred to c.
Leads(c, all) == c \in all /\ \A d \in all : Newer(c, d)

-----------------------------------------------------------------------------
(* What a copy knows of its orders.                                        *)

\* Every result of the plan's orders, and the open one.
Full(c, O, H) == Told(H, c.id) = c.booked /\ Told(O, c.id) = {c.pending} \ {0}

\* All but the result of the order it waits for, which has come.
Half(c, O, H) ==
    /\ Told(O, c.id) = {}
    /\ c.pending \in Told(H, c.id)
    /\ c.booked = Told(H, c.id) \ {c.pending}

\* An ended copy of the runtime's plan.
Ended(c, mine) == ~Active(c) /\ c.id = mine.id

\* Its wins and losses against the runtime's.
Counts(c, mine, O, H) ==
    /\ Full(c, O, H) => mine.won = c.won /\ mine.lost = c.lost
    /\ Half(c, O, H) =>
        \A h \in H : h.id = c.id /\ h.order = c.pending =>
            /\ mine.won = IF h.result = "WIN" THEN c.won + 1 ELSE c.won
            /\ mine.lost = IF h.result = "LOSS" THEN c.lost + 1 ELSE c.lost

\* An ended copy lacks at most the result of the order it was ended with; the
\* runtime's revision tells how far it is behind.
EndedWell(c, mine, O, H, top, gone) ==
    /\ Full(c, O, H) \/ Half(c, O, H)
    /\ Counts(c, mine, O, H)
    /\ c.pending # 0 /\ mine.id = top => gone
    /\ Half(c, O, H) => c.rev <= mine.rev
    /\ Full(c, O, H) /\ c.pending # 0 =>
        /\ c.rev <= mine.rev + 1
        /\ Active(mine) => mine.rev <= c.rev /\ (~mine.unknown => mine.rev < c.rev)

\* A copy outside the runtime.
Placed(c, mine, O, H, top, gone) ==
    /\ c.id = 0 => c = Nothing
    /\ c.id = mine.id => c.terms = mine.terms
    /\ c.id > mine.id => c.won = 0 /\ c.lost = 0
    /\ Ended(c, mine) => EndedWell(c, mine, O, H, top, gone)

\* Two of them.
Paired(c, d, mine, O, H) ==
    /\ c.id = d.id => c.terms = d.terms
    /\ Ended(c, mine) /\ Ended(d, mine) =>
        /\ Half(c, O, H) /\ Half(d, O, H) => c.pending = d.pending
        /\ Active(mine) /\ Full(d, O, H) =>
            /\ Half(c, O, H) => c.rev < d.rev
            /\ Full(c, O, H) /\ c.pending # 0 /\ d.pending # 0 => c.rev = d.rev

\* All of them.
CopiesWell(all, mine, O, H, top, gone) ==
    /\ \A c \in all : Placed(c, mine, O, H, top, gone)
    /\ \A c \in all, d \in all : Paired(c, d, mine, O, H)

\* The runtime's own.
MineWell(mine, O, H) ==
    /\ Full(mine, O, H)
    /\ Active(mine) => mine.won < W /\ mine.lost <= N - W
    /\ mine.id = 0 => mine = Nothing
    /\ \A t \in O \union H : t.id >= 1

-----------------------------------------------------------------------------
(* Where the copies are.                                                   *)

\* A copy that the runtime would lose its own to.
Ahead(c, mine) == c.id > mine.id \/ (Ended(c, mine) /\ Active(mine))

\* c is preferred to d, or both are ended.
Meets(c, d) == Newer(c, d) \/ (c.id = d.id /\ ~Active(c) /\ ~Active(d))

\* The gateway, with the snapshot, is not behind the row.
GatewayWell(g, s, w, Q, mine, idle) ==
    /\ Meets(PickFreshest(g, w), s)
    /\ \A h \in Q : Newer(g, h)
    /\ \A c \in {s, w} : Ahead(c, mine) => Newer(g, c)
    /\ ~idle => Newer(w, mine)

\* A copy that is lost with its process lives on in the row or on its way.
Safe(c, s, Q, mine, idle) ==
    \/ Newer(s, c)
    \/ \E h \in Q : Newer(h, c)
    \/ ~idle /\ Newer(mine, c)

\* A plan given up, which the gateway completed when it restarted.
Completed(c, mine, O, H, top, gone) ==
    /\ Ended(c, mine) /\ Full(c, O, H) /\ c.pending = 0
    /\ mine.id = top => gone

\* The snapshot and the gateway's memory may be lost.
LossWell(g, s, w, Q, mine, idle, O, H, top, gone) ==
    /\ Safe(w, s, Q, mine, idle)
    /\ Safe(g, s, Q, mine, idle) \/ Completed(g, mine, O, H, top, gone)

\* The ended row is not behind a copy that waits for a result.
RowWell(all, s, mine, idle) ==
    \A c \in all : Ended(c, mine) /\ c.pending # 0 =>
        /\ idle /\ Ended(s, mine) => c.rev <= s.rev
        /\ ~idle /\ ~Active(mine) /\ s.id <= mine.id =>
              c.rev <= mine.rev \/ (Ended(s, mine) /\ c.rev <= s.rev)

\* A robot that runs or starts was given no plan that has ended.
StartWell(g, s, w, Q, mine, on, starts) ==
    /\ on \/ starts =>
        /\ \A c \in {g, w} \union Q : Ahead(c, mine) => Active(c)
        /\ Ahead(s, mine) /\ ~Active(s) => \E h \in Q : Newer(h, s)
    /\ on /\ Active(mine) => ~Ended(s, mine)

\* The last plan opened is somewhere that is not lost; the runtime has it if it
\* was given up with an order in flight.
LastWell(s, Q, mine, top, gone) ==
    /\ \/ top = mine.id \/ top = s.id
       \/ \E h \in Q : top = h.id
    /\ top > mine.id => ~gone

\* The copy of the gateway, those on their way from it, and the queue of the runtime.
AtGateway == memory["gateway"]
Waiting == Elems(queue["gateway"])
Idle == queue["runtime"] = <<>>

\* What StakeInv says of the copies.
Sound(g, s, w, Q, mine, idle, O, H, top) ==
    /\ g \in PlanCopy /\ s \in PlanCopy /\ w \in PlanCopy /\ mine \in PlanCopy
    /\ Q \in SUBSET PlanCopy /\ O \in SUBSET Orders /\ H \in SUBSET Trades /\ top \in Nat
    /\ CopiesFollow({g, s, w} \union Q, mine, s, top)
    /\ OrdersOnce(O, H, mine)
    /\ idle => RowSettled(mine, s)
    /\ ~idle => RowLags(mine, s, H)

\* What the copies know of their orders.
KnownWell(g, s, w, Q, mine, idle, O, H, top, gone) ==
    /\ MineWell(mine, O, H)
    /\ CopiesWell({g, s, w} \union Q, mine, O, H, top, gone)
    /\ RowWell({g, s, w} \union Q, s, mine, idle)

\* Where they are.
PlacesWell(g, s, w, Q, mine, idle, O, H, top, gone, on, starts) ==
    /\ GatewayWell(g, s, w, Q, mine, idle)
    /\ LossWell(g, s, w, Q, mine, idle, O, H, top, gone)
    /\ StartWell(g, s, w, Q, mine, on, starts)
    /\ LastWell(s, Q, mine, top, gone)

\* What the refinement needs beside it.
Arranged(g, s, w, Q, mine, idle, O, H, top, gone, on, starts) ==
    /\ KnownWell(g, s, w, Q, mine, idle, O, H, top, gone)
    /\ PlacesWell(g, s, w, Q, mine, idle, O, H, top, gone, on, starts)

\* The inductive invariant behind KeepsPlan.
PlanInv ==
    /\ StakeInv /\ waived \in BOOLEAN
    /\ Arranged(AtGateway, stored, shown, Waiting, Mine, Idle, open, history, ids, waived,
                running, asked)

-----------------------------------------------------------------------------
(* Lemmas on the order of the copies.                                      *)

\* It is a total preorder.
LEMMA NewerOrder ==
    ASSUME NEW c \in PlanCopy, NEW d \in PlanCopy, NEW e \in PlanCopy
    PROVE  /\ Newer(c, c)
           /\ Newer(c, d) \/ Newer(d, c)
           /\ Newer(c, d) /\ Newer(d, e) => Newer(c, e)
<1>1. /\ c.id \in Nat /\ d.id \in Nat /\ e.id \in Nat
      /\ c.rev \in Nat /\ d.rev \in Nat /\ e.rev \in Nat
  BY FieldsOf
<1> QED  BY <1>1 DEF Newer

\* pick_freshest_cycle gives the newer of two.
LEMMA PickIs ==
    ASSUME NEW c \in PlanCopy, NEW d \in PlanCopy
    PROVE  LET p == PickFreshest(c, d) IN
           /\ p \in {c, d} /\ p \in PlanCopy
           /\ Newer(p, c) /\ Newer(p, d)
           /\ Newer(c, d) => p = c
           /\ ~Newer(c, d) => p = d
<1>1. /\ c.id \in Nat /\ d.id \in Nat /\ c.rev \in Nat /\ d.rev \in Nat
  BY FieldsOf
<1> QED  BY <1>1 DEF Newer, PickFreshest

\* One more copy leaves a leader.
LEMMA OneMore ==
    ASSUME NEW all \in SUBSET PlanCopy, NEW d \in PlanCopy,
           \E c \in all : Leads(c, all)
    PROVE  \E c \in all \union {d} : Leads(c, all \union {d})
<1>1. PICK c \in all : Leads(c, all)
  OBVIOUS
<1>2. CASE Newer(c, d)
  BY <1>1, <1>2 DEF Leads
<1>3. CASE ~Newer(c, d)
  <2>1. Newer(d, c) /\ Newer(d, d)
    BY <1>3, NewerOrder
  <2>2. \A e \in all : Newer(d, e)
    BY <1>1, <2>1, NewerOrder DEF Leads
  <2> QED  BY <2>1, <2>2 DEF Leads
<1> QED  BY <1>2, <1>3

\* Freshest, of any copies.
FreshOver(mem, kept, snap, q) ==
    LET copies == {mem["gateway"], mem["runtime"], kept, snap}
                  \union {Head(q[m]) : m \in {n \in Member : q[n] # <<>>}}
        first(c) == \A d \in copies : PickFreshest(c, d) = c
    IN IF first(mem["runtime"]) THEN mem["runtime"]
       ELSE CHOOSE c \in copies : first(c)

\* The queues hold nothing but what StakeInv lets them.
QueuesShort(mem, q) ==
    /\ q \in [Member -> Seq(PlanCopy)]
    /\ Len(q["gateway"]) <= 1
    /\ q["runtime"] = <<>> \/ q["runtime"] = <<mem["runtime"]>>

\* Every copy, the runtime's among them.
Copies(mem, kept, snap, q) == Others(mem, kept, snap, q) \union {mem["runtime"]}

\* What waits at the gateway is nothing or one copy.
LEMMA WaitingIs ==
    ASSUME NEW q \in Seq(PlanCopy), Len(q) <= 1
    PROVE  \/ q = <<>> /\ Elems(q) = {}
           \/ q # <<>> /\ Head(q) \in PlanCopy /\ Elems(q) = {Head(q)}
<1>1. CASE q = <<>>
  BY <1>1 DEF Elems
<1>2. CASE q # <<>>
  <2>1. Head(q) \in PlanCopy /\ q = <<Head(q)>>
    BY <1>2, ShortQueue
  <2> DEFINE h == Head(q)
  <2>2. h \in PlanCopy /\ q = <<h>>
    BY <2>1
  <2> HIDE DEF h
  <2>3. Elems(q) = {h}
    BY <2>2, OneWrite
  <2> QED  BY <1>2, <2>2, <2>3 DEF h
<1> QED  BY <1>1, <1>2

\* Freshest leads, and is the runtime's copy where that one leads.
LEMMA FreshLeads ==
    ASSUME NEW mem \in [Member -> PlanCopy], NEW kept \in PlanCopy, NEW snap \in PlanCopy,
           NEW q, QueuesShort(mem, q)
    PROVE  LET all == Copies(mem, kept, snap, q)
               f == FreshOver(mem, kept, snap, q)
           IN /\ all \subseteq PlanCopy
              /\ Leads(f, all)
              /\ Leads(mem["runtime"], all) => f = mem["runtime"]
<1> DEFINE all == Copies(mem, kept, snap, q)
           heads == {Head(q[m]) : m \in {n \in Member : q[n] # <<>>}}
           copies == {mem["gateway"], mem["runtime"], kept, snap} \union heads
           first(c) == \A d \in copies : PickFreshest(c, d) = c
           f == FreshOver(mem, kept, snap, q)
<1>1. q["gateway"] \in Seq(PlanCopy) /\ Len(q["gateway"]) <= 1
  BY DEF QueuesShort, Member
<1>2. mem["gateway"] \in PlanCopy /\ mem["runtime"] \in PlanCopy
  BY DEF Member
<1>3. q["runtime"] # <<>> => Head(q["runtime"]) = mem["runtime"]
  <2>1. Head(<<mem["runtime"]>>) = mem["runtime"]
    OBVIOUS
  <2> QED  BY <2>1 DEF QueuesShort
<1>4. heads = {h \in {Head(q["gateway"])} : q["gateway"] # <<>>} \union {h \in {Head(q["runtime"])} : q["runtime"] # <<>>}
  BY DEF Member
<1>5. copies = all
  <2>1. \/ q["gateway"] = <<>> /\ Elems(q["gateway"]) = {}
        \/ q["gateway"] # <<>> /\ Elems(q["gateway"]) = {Head(q["gateway"])}
    BY <1>1, WaitingIs
  <2> HIDE DEF heads
  <2> QED  BY <2>1, <1>3, <1>4 DEF Copies, Others
<1>6. all \subseteq PlanCopy
  BY <1>1, <1>2, WaitingIs DEF Copies, Others
<1>7. \E c \in all : Leads(c, all)
  <2> DEFINE a1 == {mem["gateway"]}
             a2 == a1 \union {kept}
             a3 == a2 \union {snap}
             a4 == a3 \union {mem["runtime"]}
  <2>1. \E c \in a1 : Leads(c, a1)
    BY <1>2, NewerOrder DEF Leads
  <2>2. \E c \in a2 : Leads(c, a2)
    BY <1>2, <2>1, OneMore
  <2>3. \E c \in a3 : Leads(c, a3)
    <3> a2 \in SUBSET PlanCopy
      BY <1>2
    <3> HIDE DEF a2
    <3> QED  BY <1>2, <2>2, OneMore
  <2>4. \E c \in a4 : Leads(c, a4)
    <3> a3 \in SUBSET PlanCopy
      BY <1>2
    <3> HIDE DEF a3
    <3> QED  BY <1>2, <2>3, OneMore
  <2>5. CASE Elems(q["gateway"]) = {}
    <3>1. all = a4
      BY <2>5 DEF Copies, Others
    <3> QED  BY <2>4, <3>1
  <2>6. CASE Elems(q["gateway"]) = {Head(q["gateway"])} /\ Head(q["gateway"]) \in PlanCopy
    <3>1. all = a4 \union {Head(q["gateway"])}
      BY <2>6 DEF Copies, Others
    <3> a4 \in SUBSET PlanCopy
      BY <1>2
    <3> HIDE DEF a4, all
    <3> QED  BY <2>4, <2>6, <3>1, OneMore
  <2> QED  BY <1>1, <2>5, <2>6, WaitingIs
<1>8. f = IF first(mem["runtime"]) THEN mem["runtime"] ELSE CHOOSE c \in copies : first(c)
  BY DEF FreshOver
<1> HIDE DEF f, copies, all
<1>9. mem["runtime"] \in all
  BY DEF all, Copies
<1>10. \A c \in all : first(c) <=> Leads(c, all)
  <2> TAKE c \in all
  <2>1. \A d \in all : PickFreshest(c, d) = c <=> Newer(c, d)
    <3> TAKE d \in all
    <3> c \in PlanCopy /\ d \in PlanCopy
      BY <1>6
    <3> QED  BY PickIs
  <2> QED  BY <1>5, <2>1 DEF Leads
<1>11. ASSUME first(mem["runtime"])
       PROVE  Leads(f, all) /\ (Leads(mem["runtime"], all) => f = mem["runtime"])
  BY <1>8, <1>9, <1>10, <1>11
<1>12. ASSUME ~first(mem["runtime"])
       PROVE  Leads(f, all) /\ (Leads(mem["runtime"], all) => f = mem["runtime"])
  <2>1. \E c \in copies : first(c)
    BY <1>5, <1>7, <1>10
  <2>2. f \in copies /\ first(f)
    BY <1>8, <1>12, <2>1
  <2>3. ~Leads(mem["runtime"], all)
    BY <1>9, <1>10, <1>12
  <2> HIDE DEF first
  <2> QED  BY <1>5, <1>10, <2>2, <2>3
<1> QED  BY <1>6, <1>11, <1>12 DEF f, all

\* So it is in every state the invariant allows.
LEMMA FreshIs ==
    ASSUME StakeInv
    PROVE  LET all == Copies(memory, stored, shown, queue) IN
           /\ all \subseteq PlanCopy
           /\ Leads(Freshest, all)
           /\ Leads(Mine, all) => Freshest = Mine
<1>1. /\ memory \in [Member -> PlanCopy] /\ stored \in PlanCopy /\ shown \in PlanCopy
      /\ QueuesShort(memory, queue)
  BY DEF StakeInv, PlanTypes, QueuesShort, Mine
<1>2. Freshest = FreshOver(memory, stored, shown, queue)
  BY DEF Freshest, FreshOver, Mine
<1> QED  BY <1>1, <1>2, FreshLeads DEF Mine

\* And in the next.
LEMMA FreshNext ==
    ASSUME StakeInv'
    PROVE  LET all == Copies(memory', stored', shown', queue') IN
           /\ all \subseteq PlanCopy
           /\ Leads(Freshest', all)
           /\ Leads(Mine', all) => Freshest' = Mine'
<1>1. /\ memory' \in [Member -> PlanCopy] /\ stored' \in PlanCopy /\ shown' \in PlanCopy
      /\ QueuesShort(memory', queue')
  BY DEF StakeInv, PlanTypes, QueuesShort, Mine
<1>2. Freshest' = FreshOver(memory', stored', shown', queue')
  BY DEF Freshest, FreshOver
<1> QED  BY <1>1, <1>2, FreshLeads DEF Mine

-----------------------------------------------------------------------------
(* Copies that lead together tell the same of the plan.                    *)

\* Two that lead have the same rank.
LEMMA LeadTogether ==
    ASSUME NEW c \in PlanCopy, NEW d \in PlanCopy, Newer(c, d), Newer(d, c)
    PROVE  c.id = d.id /\ c.rev = d.rev /\ (Active(c) <=> Active(d))
<1>1. c.id \in Nat /\ d.id \in Nat /\ c.rev \in Nat /\ d.rev \in Nat
  BY FieldsOf
<1> QED  BY <1>1 DEF Newer

\* A leader of the runtime's plan, with the runtime behind, is ended.
LEMMA LeaderEnded ==
    ASSUME NEW all \in SUBSET PlanCopy, NEW mine \in PlanCopy, NEW kept, NEW top,
           CopiesFollow(all, mine, kept, top),
           NEW c \in all, Newer(c, mine), c # mine, c.id = mine.id
    PROVE  Ended(c, mine)
<1>1. c.rev \in Nat /\ mine.rev \in Nat /\ c.id \in Nat
  BY FieldsOf
<1>2. Follows(c, mine, kept)
  BY DEF CopiesFollow
<1> QED  BY <1>1, <1>2 DEF Newer, Follows, Yields, Ended

\* The plan of two copies is the same where its parts are.
LEMMA SameParts ==
    ASSUME NEW c, NEW d, c.id = d.id, c.terms = d.terms, Active(c) <=> Active(d),
           c.pending = d.pending, c.booked = d.booked, c.won = d.won, c.lost = d.lost
    PROVE  AsPlan(c) = AsPlan(d)
BY DEF AsPlan

\* Two copies with every result have the same orders.
LEMMA FullAgree ==
    ASSUME NEW c \in PlanCopy, NEW d \in PlanCopy, NEW O, NEW H, c.id = d.id,
           Full(c, O, H), Full(d, O, H)
    PROVE  c.booked = d.booked /\ c.pending = d.pending
<1>1. c.booked = d.booked /\ {c.pending} \ {0} = {d.pending} \ {0}
  BY DEF Full
<1> QED  BY <1>1

\* Leaders that are not the runtime's tell the same.
LEMMA SameTop ==
    ASSUME NEW all \in SUBSET PlanCopy, NEW mine \in PlanCopy, NEW kept, NEW top, NEW gone,
           NEW O \in SUBSET Orders, NEW H \in SUBSET Trades,
           CopiesFollow(all, mine, kept, top), CopiesWell(all, mine, O, H, top, gone),
           NEW c \in all, NEW d \in all,
           Leads(c, all \union {mine}), Leads(d, all \union {mine}),
           ~Leads(mine, all \union {mine})
    PROVE  AsPlan(c) = AsPlan(d)
<1>1. /\ c \in PlanCopy /\ d \in PlanCopy
      /\ Newer(c, d) /\ Newer(d, c) /\ Newer(c, mine) /\ Newer(d, mine) /\ c # mine /\ d # mine
  BY DEF Leads
<1>2. c.id = d.id /\ c.rev = d.rev /\ (Active(c) <=> Active(d))
  BY <1>1, LeadTogether
<1>3. /\ c.id \in Nat /\ mine.id \in Nat /\ c.rev \in Nat /\ mine.rev \in Nat
      /\ c.won \in Nat /\ d.won \in Nat /\ c.lost \in Nat /\ d.lost \in Nat
  BY <1>1, FieldsOf
<1>4. /\ Placed(c, mine, O, H, top, gone) /\ Placed(d, mine, O, H, top, gone)
      /\ Paired(c, d, mine, O, H) /\ Paired(d, c, mine, O, H)
  BY DEF CopiesWell
<1>5. c.terms = d.terms
  BY <1>2, <1>4 DEF Paired
<1>6. CASE c.id > mine.id
  <2>1. Fresh(c, mine) /\ Fresh(d, mine)
    BY DEF CopiesFollow
  <2>2. c.won = 0 /\ c.lost = 0 /\ d.won = 0 /\ d.lost = 0
    BY <1>2, <1>4, <1>6 DEF Placed
  <2> QED  BY <1>2, <1>5, <1>6, <2>1, <2>2, SameParts DEF Fresh
<1>7. CASE c.id = mine.id
  <2>1. Ended(c, mine) /\ Ended(d, mine)
    BY <1>1, <1>2, <1>7, LeaderEnded
  <2>2. EndedWell(c, mine, O, H, top, gone) /\ EndedWell(d, mine, O, H, top, gone)
    BY <1>4, <2>1 DEF Placed
  <2>3. CASE Full(c, O, H) /\ Full(d, O, H)
    <3>1. c.booked = d.booked /\ c.pending = d.pending
      BY <1>1, <1>2, <2>3, FullAgree
    <3>2. mine.won = c.won /\ mine.won = d.won /\ mine.lost = c.lost /\ mine.lost = d.lost
      BY <2>2, <2>3 DEF EndedWell, Counts
    <3> QED  BY <1>2, <1>5, <3>1, <3>2, SameParts
  <2>4. CASE Half(c, O, H) /\ Half(d, O, H)
    <3>1. c.pending = d.pending
      BY <1>4, <2>1, <2>4 DEF Paired
    <3>2. c.booked = d.booked
      BY <1>2, <2>4, <3>1 DEF Half
    <3>3. PICK h \in H : h.id = c.id /\ h.order = c.pending
      BY <2>4 DEF Half, Told
    <3>4. /\ mine.won = IF h.result = "WIN" THEN c.won + 1 ELSE c.won
          /\ mine.won = IF h.result = "WIN" THEN d.won + 1 ELSE d.won
          /\ mine.lost = IF h.result = "LOSS" THEN c.lost + 1 ELSE c.lost
          /\ mine.lost = IF h.result = "LOSS" THEN d.lost + 1 ELSE d.lost
      BY <1>2, <2>2, <2>4, <3>1, <3>3 DEF EndedWell, Counts
    <3>5. c.won = d.won /\ c.lost = d.lost
      BY <1>3, <3>4
    <3> QED  BY <1>2, <1>5, <3>1, <3>2, <3>5, SameParts
  <2>5. ASSUME NEW e \in {c, d}, NEW f \in {c, d}, Half(e, O, H), Full(f, O, H) PROVE FALSE
    <3>1. CASE Active(mine)
      BY <1>2, <1>3, <1>4, <2>1, <2>5, <3>1 DEF CopiesWell, Paired
    <3>2. CASE ~Active(mine)
      <4>1. c.rev <= mine.rev
        BY <1>2, <2>2, <2>5 DEF EndedWell
      <4>2. Newer(mine, c)
        BY <1>3, <1>7, <3>2, <4>1, <2>1 DEF Newer, Ended
      <4>3. Leads(mine, all \union {mine})
        BY <1>1, <4>2, NewerOrder DEF Leads
      <4> QED  BY <4>3
    <3> QED  BY <3>1, <3>2
  <2> QED  BY <2>2, <2>3, <2>4, <2>5 DEF EndedWell
<1> QED  BY <1>1, <1>3, <1>6, <1>7 DEF Newer

\* Copies are lost or take another's place: the plan stays while one that led is left.
LEMMA Shuffle ==
    ASSUME NEW all \in SUBSET PlanCopy, NEW mine \in PlanCopy, NEW kept, NEW top, NEW gone,
           NEW O \in SUBSET Orders, NEW H \in SUBSET Trades,
           CopiesFollow(all, mine, kept, top), CopiesWell(all, mine, O, H, top, gone),
           NEW A, A = all \union {mine}, NEW B, B \subseteq A,
           NEW f, Leads(f, A), Leads(mine, A) => f = mine,
           NEW g, NEW other, Leads(g, B), Leads(other, B) => g = other,
           \E c \in B : Leads(c, A),
           other \in B, Leads(mine, A) => other = mine
    PROVE  AsPlan(f) = AsPlan(g)
<1>1. PICK c \in B : Leads(c, A)
  OBVIOUS
<1>2. A \subseteq PlanCopy
  OBVIOUS
<1>3. Leads(g, A)
  <2>1. g \in A /\ Newer(g, c)
    BY <1>1 DEF Leads
  <2>2. \A d \in A : Newer(g, d)
    BY <1>1, <1>2, <2>1, NewerOrder DEF Leads
  <2> QED  BY <2>1, <2>2 DEF Leads
<1>4. CASE Leads(mine, A)
  <2>1. other = mine /\ f = mine
    BY <1>4
  <2>2. Leads(other, B)
    BY <1>4, <2>1 DEF Leads
  <2> QED  BY <2>1, <2>2
<1>5. CASE ~Leads(mine, A)
  <2>1. f \in all /\ g \in all
    BY <1>3, <1>5 DEF Leads
  <2> QED  BY <1>3, <1>5, <2>1, SameTop
<1> QED  BY <1>4, <1>5

-----------------------------------------------------------------------------
(* The steps of MasanielloPlan.                                            *)

\* A step of the plan, or none.
PlanMoves == [Plan!PlanNext]_(Plan!planOf)

\* A step that changes nothing of the plan.
LEMMA PlanStays ==
    ASSUME AsPlan(Freshest') = AsPlan(Freshest), waived' = waived
    PROVE  PlanMoves
BY DEF PlanMoves, Plan!planOf

\* Another plan is opened.
LEMMA PlanOpens ==
    ASSUME NEW p \in PlanCopy, NEW n \in PlanCopy, Freshest = p, Freshest' = n,
           n.id = p.id + 1, Active(n), n.pending = 0, n.booked = {}, n.won = 0, n.lost = 0,
           ~waived',
           ~Active(p) \/ p.pending # 0 \/ p.booked = {} \/ n.terms # p.terms,
           waived' \in BOOLEAN
    PROVE  PlanMoves
<1>1. AsPlan(n) = Plan!NewPlan(AsPlan(p).id + 1, n.terms)
  BY DEF AsPlan, Plan!NewPlan
<1>2. n.terms \in Terms
  BY FieldsOf
<1>3. \/ AsPlan(p).status = "ended" \/ AsPlan(p).pending # 0 \/ AsPlan(p).booked = {}
      \/ n.terms # AsPlan(p).terms
  BY DEF AsPlan
<1>4. Plan!Open(n.terms)
  BY <1>1, <1>3 DEF Plan!Open
<1> QED  BY <1>2, <1>4 DEF PlanMoves, Plan!PlanNext

\* An order is staked.
LEMMA PlanStakes ==
    ASSUME NEW p \in PlanCopy, NEW n \in PlanCopy, NEW o \in Order, Freshest = p, Freshest' = n,
           Active(p), p.pending = 0, o \notin p.booked,
           n.id = p.id, n.terms = p.terms, n.status = p.status, n.pending = o,
           n.booked = p.booked, n.won = p.won, n.lost = p.lost,
           waived' = FALSE
    PROVE  PlanMoves
<1>1. AsPlan(n) = [AsPlan(p) EXCEPT !.pending = o]
  BY DEF AsPlan, Active
<1>2. AsPlan(p).status = "active" /\ AsPlan(p).pending = 0 /\ o \notin AsPlan(p).booked
  BY DEF AsPlan
<1>3. Plan!Stake(o)
  BY <1>1, <1>2 DEF Plan!Stake
<1> QED  BY <1>3 DEF PlanMoves, Plan!PlanNext

\* The parts of a plan.
PlanParts(i, t, st, p, b, w, l) ==
    [id |-> i, terms |-> t, status |-> st, pending |-> p, booked |-> b, won |-> w, lost |-> l]

\* A plan with a result.
Booked(a, o, w, l, st) ==
    [a EXCEPT !.pending = 0, !.booked = @ \union {o}, !.won = w, !.lost = l, !.status = st]

\* Its parts.
LEMMA BookedParts ==
    ASSUME NEW i, NEW t, NEW st, NEW p, NEW b, NEW w, NEW l, NEW o,
           NEW st2, NEW b2, NEW w2, NEW l2, b2 = b \union {o}
    PROVE  Booked(PlanParts(i, t, st, p, b, w, l), o, w2, l2, st2) = PlanParts(i, t, st2, 0, b2, w2, l2)
<1> DEFINE e1(a) == [a EXCEPT !.pending = 0]
           e2(a) == [a EXCEPT !.booked = @ \union {o}]
           e3(a) == [a EXCEPT !.won = w2]
           e4(a) == [a EXCEPT !.lost = l2]
           e5(a) == [a EXCEPT !.status = st2]
<1>1. e1(PlanParts(i, t, st, p, b, w, l)) = PlanParts(i, t, st, 0, b, w, l)
  BY DEF PlanParts
<1>2. e2(PlanParts(i, t, st, 0, b, w, l)) = PlanParts(i, t, st, 0, b2, w, l)
  BY DEF PlanParts
<1>3. e3(PlanParts(i, t, st, 0, b2, w, l)) = PlanParts(i, t, st, 0, b2, w2, l)
  BY DEF PlanParts
<1>4. e4(PlanParts(i, t, st, 0, b2, w2, l)) = PlanParts(i, t, st, 0, b2, w2, l2)
  BY DEF PlanParts
<1>5. e5(PlanParts(i, t, st, 0, b2, w2, l2)) = PlanParts(i, t, st2, 0, b2, w2, l2)
  BY DEF PlanParts
<1>6. Booked(PlanParts(i, t, st, p, b, w, l), o, w2, l2, st2) = e5(e4(e3(e2(e1(PlanParts(i, t, st, p, b, w, l))))))
  BY DEF Booked
<1> HIDE DEF e1, e2, e3, e4, e5
<1> QED  BY <1>1, <1>2, <1>3, <1>4, <1>5, <1>6

\* The result of the order in flight is booked.
LEMMA PlanBooks ==
    ASSUME NEW p \in PlanCopy, NEW n \in PlanCopy, NEW o \in Order, Freshest = p, Freshest' = n,
           p.pending = o, o \notin p.booked,
           n.id = p.id, n.terms = p.terms, n.pending = 0, n.booked = p.booked \union {o},
           NEW r \in Results,
           n.won = (IF r = "WIN" THEN p.won + 1 ELSE p.won),
           n.lost = (IF r = "LOSS" THEN p.lost + 1 ELSE p.lost),
           Active(n) => n.won < W /\ n.lost <= N - W,
           Active(p) /\ ~Active(n) => ~(n.won < W /\ n.lost <= N - W),
           ~Active(p) /\ Active(n) => waived,
           waived' = waived
    PROVE  PlanMoves
<1>1. /\ p.won \in Nat /\ p.lost \in Nat /\ n.won \in Nat /\ n.lost \in Nat /\ N \in Nat /\ W \in Nat
  BY FieldsOf, PlanAssumption
<1> DEFINE now(c) == IF Active(c) THEN "active" ELSE "ended"
           status == now(n)
           a == AsPlan(p)
           b == AsPlan(n)
           wins == n.won
           losses == n.lost
<1>2. b = PlanParts(p.id, p.terms, now(n), 0, p.booked \union {o}, n.won, n.lost)
  BY DEF AsPlan, PlanParts
<1>3. a = PlanParts(p.id, p.terms, now(p), p.pending, p.booked, p.won, p.lost)
  BY DEF AsPlan, PlanParts
<1>4. a.pending = o /\ o \notin a.booked /\ a.won = p.won /\ a.lost = p.lost /\ a.status = now(p)
  BY DEF AsPlan
<1>5. wins \in {p.won, p.won + 1} /\ losses \in {p.lost, p.lost + 1} /\ wins + losses <= p.won + p.lost + 1
  BY <1>1
<1>6. Plan!Over(wins, losses) <=> ~(n.won < W /\ n.lost <= N - W)
  BY <1>1 DEF Plan!Over
<1>7. Plan!Over(wins, losses) => status = "ended"
  BY <1>6
<1>8. status # a.status => Plan!Over(wins, losses) \/ waived
  BY <1>4, <1>6
<1>9. status \in {"active", "ended"}
  OBVIOUS
<1>10. AsPlan(Freshest) = a /\ AsPlan(Freshest)' = b /\ UNCHANGED waived
  OBVIOUS
<1> HIDE DEF status, a, b, wins, losses, now
<1>11. b = Booked(a, o, wins, losses, status)
  BY <1>2, <1>3, BookedParts DEF status, wins, losses
<1>12. /\ AsPlan(Freshest).pending = o /\ o \notin AsPlan(Freshest).booked
       /\ wins \in {AsPlan(Freshest).won, AsPlan(Freshest).won + 1}
       /\ losses \in {AsPlan(Freshest).lost, AsPlan(Freshest).lost + 1}
       /\ wins + losses <= AsPlan(Freshest).won + AsPlan(Freshest).lost + 1
       /\ status # AsPlan(Freshest).status => Plan!Over(wins, losses) \/ waived
       /\ AsPlan(Freshest)' = Booked(AsPlan(Freshest), o, wins, losses, status)
  BY <1>4, <1>5, <1>8, <1>10, <1>11
<1>13. \E won \in {AsPlan(Freshest).won, AsPlan(Freshest).won + 1},
          lost \in {AsPlan(Freshest).lost, AsPlan(Freshest).lost + 1}, st \in {"active", "ended"} :
           /\ won + lost <= AsPlan(Freshest).won + AsPlan(Freshest).lost + 1
           /\ Plan!Over(won, lost) => st = "ended"
           /\ st # AsPlan(Freshest).status => Plan!Over(won, lost) \/ waived
           /\ AsPlan(Freshest)' = Booked(AsPlan(Freshest), o, won, lost, st)
  BY <1>7, <1>9, <1>12
<1>14. UNCHANGED waived
  OBVIOUS
<1>15. Plan!Book(o)
  BY <1>12, <1>13, <1>14, Zenon DEF Plan!Book, Booked
<1> QED  BY <1>15 DEF PlanMoves, Plan!PlanNext

\* A plan ends.
LEMMA PlanEnds ==
    ASSUME NEW p \in PlanCopy, NEW n \in PlanCopy, Freshest = p, Freshest' = n,
           Active(p), ~Active(n),
           n.id = p.id, n.terms = p.terms, n.pending = p.pending,
           n.booked = p.booked, n.won = p.won, n.lost = p.lost,
           waived' = (waived \/ p.pending # 0)
    PROVE  PlanMoves
<1>1. AsPlan(n) = [AsPlan(p) EXCEPT !.status = "ended"]
  BY DEF AsPlan
<1>2. AsPlan(p).status = "active" /\ AsPlan(p).pending = p.pending
  BY DEF AsPlan
<1>3. Plan!End
  BY <1>1, <1>2 DEF Plan!End
<1> QED  BY <1>3 DEF PlanMoves, Plan!PlanNext

\* A plan given up comes back.
LEMMA PlanReturns ==
    ASSUME NEW p \in PlanCopy, NEW n \in PlanCopy, Freshest = p, Freshest' = n,
           ~Active(p), Active(n), waived, p.pending = 0,
           n.id = p.id, n.terms = p.terms, n.pending = 0,
           n.booked = p.booked, n.won = p.won, n.lost = p.lost,
           n.won < W /\ n.lost <= N - W,
           waived' = waived
    PROVE  PlanMoves
<1>1. AsPlan(n) = [AsPlan(p) EXCEPT !.status = "active"]
  BY DEF AsPlan
<1>2. /\ AsPlan(p).status = "ended" /\ AsPlan(p).pending = 0
      /\ AsPlan(p).won = n.won /\ AsPlan(p).lost = n.lost
  BY DEF AsPlan
<1>3. n.won \in Nat /\ n.lost \in Nat /\ N \in Nat /\ W \in Nat
  BY FieldsOf, PlanAssumption
<1>4. ~Plan!Over(n.won, n.lost)
  BY <1>3 DEF Plan!Over
<1>5. Plan!Return
  BY <1>1, <1>2, <1>4 DEF Plan!Return
<1> QED  BY <1>5 DEF PlanMoves, Plan!PlanNext

-----------------------------------------------------------------------------
(* Where the copies are: the gateway's steps.                              *)

\* A poll.
LEMMA SyncPlaces ==
    ASSUME NEW g \in PlanCopy, NEW s \in PlanCopy, NEW w \in PlanCopy, NEW mine \in PlanCopy,
           NEW Q \in SUBSET PlanCopy, NEW idle, NEW O, NEW H, NEW top, NEW gone, NEW on, NEW starts,
           GatewayWell(g, s, w, Q, mine, idle), LossWell(g, s, w, Q, mine, idle, O, H, top, gone),
           StartWell(g, s, w, Q, mine, on, starts),
           NEW n, n = PickFreshest(g, w) \/ n = PickFreshest(g, s)
    PROVE  /\ n \in {g, s, w} /\ n \in PlanCopy /\ Newer(n, g)
           /\ GatewayWell(n, s, w, Q, mine, idle)
           /\ LossWell(n, s, w, Q, mine, idle, O, H, top, gone)
           /\ StartWell(n, s, w, Q, mine, on, starts)
<1>1. n \in {g, s, w} /\ n \in PlanCopy /\ Newer(n, g)
  BY PickIs
<1>2. Meets(PickFreshest(n, w), s)
  <2>1. CASE n = PickFreshest(g, w)
    <3>1. PickFreshest(n, w) = n
      BY <1>1, <2>1, PickIs
    <3> QED  BY <2>1, <3>1 DEF GatewayWell
  <2>2. CASE n = PickFreshest(g, s)
    <3>1. Newer(n, s) /\ Newer(PickFreshest(n, w), n) /\ PickFreshest(n, w) \in PlanCopy
      BY <1>1, <2>2, PickIs
    <3> QED  BY <1>1, <3>1, NewerOrder DEF Meets
  <2> QED  BY <2>1, <2>2
<1>3. GatewayWell(n, s, w, Q, mine, idle)
  <2>1. \A h \in Q : Newer(n, h)
    BY <1>1, NewerOrder DEF GatewayWell
  <2>2. \A c \in {s, w} : Ahead(c, mine) => Newer(n, c)
    BY <1>1, NewerOrder DEF GatewayWell
  <2> QED  BY <1>2, <2>1, <2>2 DEF GatewayWell
<1>4. LossWell(n, s, w, Q, mine, idle, O, H, top, gone)
  BY <1>1, NewerOrder DEF LossWell, Safe
<1>5. StartWell(n, s, w, Q, mine, on, starts)
  <2>1. CASE n \in {g, w}
    BY <2>1 DEF StartWell
  <2>2. CASE n = s /\ ~Newer(g, s)
    <3>1. ~Ahead(s, mine)
      BY <2>2 DEF GatewayWell
    <3> QED  BY <2>2, <3>1 DEF StartWell
  <2> QED  BY <2>1, <2>2, PickIs
<1> QED  BY <1>1, <1>3, <1>4, <1>5

\* A save: the snapshot as it was, or the same copy again.
LEMMA SavePlaces ==
    ASSUME NEW g \in PlanCopy, NEW s \in PlanCopy, NEW w \in PlanCopy, NEW mine \in PlanCopy,
           NEW idle, NEW O, NEW H, NEW top, NEW gone, NEW on, NEW starts,
           GatewayWell(g, s, w, {}, mine, idle), LossWell(g, s, w, {}, mine, idle, O, H, top, gone),
           StartWell(g, s, w, {}, mine, on, starts), LastWell(s, {}, mine, top, gone),
           NEW n, n = PickFreshest(g, w), NEW v \in {n, w}
    PROVE  /\ n \in {g, w} /\ n \in PlanCopy
           /\ GatewayWell(n, s, v, {n}, mine, idle)
           /\ LossWell(n, s, v, {n}, mine, idle, O, H, top, gone)
           /\ StartWell(n, s, v, {n}, mine, on, starts)
           /\ LastWell(s, {n}, mine, top, gone)
<1>1. n \in {g, w} /\ n \in PlanCopy /\ Newer(n, g) /\ Newer(n, w) /\ Newer(n, n)
  BY PickIs, NewerOrder
<1>2. Meets(PickFreshest(n, v), s)
  <2>1. PickFreshest(n, v) = n
    BY <1>1, PickIs
  <2> QED  BY <2>1 DEF GatewayWell
<1>3. GatewayWell(n, s, v, {n}, mine, idle)
  <2>1. \A c \in {s, v} : Ahead(c, mine) => Newer(n, c)
    BY <1>1, NewerOrder DEF GatewayWell
  <2>2. ~idle => Newer(v, mine)
    BY <1>1, NewerOrder DEF GatewayWell
  <2> QED  BY <1>1, <1>2, <2>1, <2>2 DEF GatewayWell
<1>4. LossWell(n, s, v, {n}, mine, idle, O, H, top, gone)
  BY <1>1 DEF LossWell, Safe
<1>5. StartWell(n, s, v, {n}, mine, on, starts)
  BY <1>1 DEF StartWell
<1>6. LastWell(s, {n}, mine, top, gone)
  BY DEF LastWell
<1> QED  BY <1>1, <1>3, <1>4, <1>5, <1>6

\* A write of the gateway's reaches the row.
LEMMA StorePlaces ==
    ASSUME NEW g \in PlanCopy, NEW s \in PlanCopy, NEW w \in PlanCopy, NEW mine \in PlanCopy, NEW h \in PlanCopy,
           NEW idle, NEW O, NEW H, NEW top, NEW gone, NEW on, NEW starts,
           PlacesWell(g, s, w, {h}, mine, idle, O, H, top, gone, on, starts),
           h.id <= top, s.id <= top, top \in Nat,
           NEW n, n = PickFreshest(h, s)
    PROVE  PlacesWell(g, n, w, {}, mine, idle, O, H, top, gone, on, starts)
<1> /\ GatewayWell(g, s, w, {h}, mine, idle) /\ LossWell(g, s, w, {h}, mine, idle, O, H, top, gone)
    /\ StartWell(g, s, w, {h}, mine, on, starts) /\ LastWell(s, {h}, mine, top, gone)
  BY DEF PlacesWell
<1>1. n \in {h, s} /\ n \in PlanCopy /\ Newer(n, h) /\ Newer(n, s)
  BY PickIs
<1>2. GatewayWell(g, n, w, {}, mine, idle)
  <2>1. Newer(g, h)
    BY DEF GatewayWell
  <2>2. Newer(PickFreshest(g, w), g) /\ PickFreshest(g, w) \in PlanCopy
    BY PickIs
  <2>3. Meets(PickFreshest(g, w), n)
    BY <1>1, <2>1, <2>2, NewerOrder DEF GatewayWell, Meets
  <2> QED  BY <1>1, <2>1, <2>3 DEF GatewayWell
<1>3. LossWell(g, n, w, {}, mine, idle, O, H, top, gone)
  BY <1>1, NewerOrder DEF LossWell, Safe
<1>4. StartWell(g, n, w, {}, mine, on, starts)
  <2>1. CASE n = h
    <3>1. on \/ starts => ~(Ahead(h, mine) /\ ~Active(h))
      BY DEF StartWell
    <3>2. on /\ Active(mine) => ~Ended(h, mine)
      BY <3>1 DEF Ahead, Ended
    <3>3. on \/ starts => \A c \in {g, w} \union {} : Ahead(c, mine) => Active(c)
      BY DEF StartWell
    <3> QED  BY <2>1, <3>1, <3>2, <3>3 DEF StartWell
  <2>2. CASE n = s /\ ~Newer(h, s)
    BY <2>2 DEF StartWell
  <2> QED  BY <2>1, <2>2, PickIs
<1>5. LastWell(n, {}, mine, top, gone)
  <2>1. n.id \in Nat /\ h.id \in Nat /\ s.id \in Nat
    BY <1>1, FieldsOf
  <2> QED  BY <1>1, <2>1 DEF LastWell, Newer
<1> QED  BY <1>2, <1>3, <1>4, <1>5 DEF PlacesWell

\* No plan is behind every copy.
LEMMA NothingPlaced ==
    ASSUME NEW mine \in PlanCopy, mine.id = 0 => mine = Nothing
    PROVE  /\ Nothing \in PlanCopy /\ ~Ahead(Nothing, mine)
           /\ \A c \in PlanCopy : (c.id = 0 => c = Nothing) => Newer(c, Nothing)
<1>1. Nothing \in PlanCopy /\ Nothing.id = 0 /\ ~Active(Nothing) /\ mine.id \in Nat
  BY NothingIs, FieldsOf
<1>2. \A c \in PlanCopy : c.id \in Nat /\ c.rev \in Nat
  BY FieldsOf
<1> QED  BY <1>1, <1>2 DEF Ahead, Ended, Newer

\* The snapshot expires.
LEMMA ExpiryPlaces ==
    ASSUME NEW g \in PlanCopy, NEW s \in PlanCopy, NEW w \in PlanCopy, NEW mine \in PlanCopy, NEW idle, idle,
           NEW O, NEW H, NEW top, NEW gone, NEW on, NEW starts,
           GatewayWell(g, s, w, {}, mine, idle), LossWell(g, s, w, {}, mine, idle, O, H, top, gone),
           StartWell(g, s, w, {}, mine, on, starts),
           PickFreshest(g, w) = g, mine.id = 0 => mine = Nothing,
           \A c \in {g, s} : c.id = 0 => c = Nothing
    PROVE  /\ GatewayWell(g, s, Nothing, {}, mine, idle)
           /\ LossWell(g, s, Nothing, {}, mine, idle, O, H, top, gone)
           /\ StartWell(g, s, Nothing, {}, mine, on, starts)
<1>1. /\ Nothing \in PlanCopy /\ ~Ahead(Nothing, mine)
      /\ Newer(g, Nothing) /\ Newer(s, Nothing)
  BY NothingPlaced
<1>2. PickFreshest(g, Nothing) = g
  BY <1>1, PickIs
<1>3. GatewayWell(g, s, Nothing, {}, mine, idle)
  BY <1>1, <1>2 DEF GatewayWell
<1>4. LossWell(g, s, Nothing, {}, mine, idle, O, H, top, gone)
  BY <1>1 DEF LossWell, Safe
<1>5. StartWell(g, s, Nothing, {}, mine, on, starts)
  BY <1>1 DEF StartWell
<1> QED  BY <1>3, <1>4, <1>5

\* A write of the runtime's reaches the row.
LEMMA RuntimeStorePlaces ==
    ASSUME NEW g \in PlanCopy, NEW s \in PlanCopy, NEW w \in PlanCopy, NEW mine \in PlanCopy,
           NEW idle \in BOOLEAN, NEW idle2 \in BOOLEAN,
           NEW Q \in SUBSET PlanCopy, NEW O, NEW H, NEW top \in Nat, NEW gone, NEW on, NEW starts,
           GatewayWell(g, s, w, Q, mine, idle), LossWell(g, s, w, Q, mine, idle, O, H, top, gone),
           StartWell(g, s, w, Q, mine, on, starts), LastWell(s, Q, mine, top, gone),
           s.id <= top, mine.id <= top,
           NEW n, n = PickFreshest(mine, s)
    PROVE  \/ idle \/ ~idle2
           \/ /\ n \in {mine, s} /\ n \in PlanCopy /\ Newer(n, mine) /\ Newer(n, s)
              /\ GatewayWell(g, n, w, Q, mine, idle2)
              /\ LossWell(g, n, w, Q, mine, idle2, O, H, top, gone)
              /\ StartWell(g, n, w, Q, mine, on, starts)
              /\ LastWell(n, Q, mine, top, gone)
<1> SUFFICES ASSUME ~idle, idle2
             PROVE  /\ n \in {mine, s} /\ n \in PlanCopy /\ Newer(n, mine) /\ Newer(n, s)
                    /\ GatewayWell(g, n, w, Q, mine, idle2)
                    /\ LossWell(g, n, w, Q, mine, idle2, O, H, top, gone)
                    /\ StartWell(g, n, w, Q, mine, on, starts)
                    /\ LastWell(n, Q, mine, top, gone)
  OBVIOUS
<1>1. n \in {mine, s} /\ n \in PlanCopy /\ Newer(n, mine) /\ Newer(n, s)
  BY PickIs
<1>2. mine.id \in Nat /\ s.id \in Nat /\ n.id \in Nat
  BY <1>1, FieldsOf
<1>3. ~Ahead(mine, mine)
  BY <1>2 DEF Ahead, Ended
<1>4. GatewayWell(g, n, w, Q, mine, idle2)
  <2>1. Newer(w, mine)
    BY DEF GatewayWell
  <2>2. Newer(PickFreshest(g, w), w) /\ PickFreshest(g, w) \in PlanCopy
    BY PickIs
  <2>3. Meets(PickFreshest(g, w), n)
    BY <1>1, <2>1, <2>2, NewerOrder DEF GatewayWell, Meets
  <2> QED  BY <1>1, <1>3, <2>3 DEF GatewayWell
<1>5. LossWell(g, n, w, Q, mine, idle2, O, H, top, gone)
  <2>1. \A c \in {g, w} : Safe(c, s, Q, mine, idle) => Safe(c, n, Q, mine, idle2)
    BY <1>1, NewerOrder DEF Safe
  <2> QED  BY <2>1 DEF LossWell
<1>6. StartWell(g, n, w, Q, mine, on, starts)
  BY <1>1, <1>3 DEF StartWell, Ended
<1>7. LastWell(n, Q, mine, top, gone)
  <2>1. n.id <= top /\ n.id >= mine.id /\ n.id >= s.id
    BY <1>1, <1>2 DEF Newer
  <2>2. top = mine.id \/ top = s.id => top = n.id
    BY <1>2, <2>1
  <2> QED  BY <2>2 DEF LastWell
<1> QED  BY <1>1, <1>4, <1>5, <1>6, <1>7

\* A start that goes on.
LEMMA GoesOnPlaces ==
    ASSUME NEW g \in PlanCopy, NEW s \in PlanCopy, NEW w \in PlanCopy, NEW mine \in PlanCopy,
           NEW idle, NEW O, NEW H, NEW top, NEW gone, NEW on, NEW starts, NEW starts2,
           GatewayWell(g, s, w, {}, mine, idle), LossWell(g, s, w, {}, mine, idle, O, H, top, gone),
           StartWell(g, s, w, {}, mine, on, starts), LastWell(s, {}, mine, top, gone),
           ~on, NEW n, n = PickFreshest(g, w), Active(n)
    PROVE  /\ n \in {g, w} /\ n \in PlanCopy
           /\ GatewayWell(n, s, n, {n}, mine, idle)
           /\ LossWell(n, s, n, {n}, mine, idle, O, H, top, gone)
           /\ StartWell(n, s, n, {n}, mine, on, starts2)
           /\ LastWell(s, {n}, mine, top, gone)
<1>1. /\ n \in {g, w} /\ n \in PlanCopy
      /\ GatewayWell(n, s, n, {n}, mine, idle)
      /\ LossWell(n, s, n, {n}, mine, idle, O, H, top, gone)
      /\ LastWell(s, {n}, mine, top, gone)
  BY SavePlaces
<1>2. Ahead(s, mine) => Newer(n, s)
  BY <1>1 DEF GatewayWell
<1>3. StartWell(n, s, n, {n}, mine, on, starts2)
  BY <1>2 DEF StartWell
<1> QED  BY <1>1, <1>3

\* A new plan at the gateway.
LEMMA OpensPlaces ==
    ASSUME NEW g \in PlanCopy, NEW s \in PlanCopy, NEW w \in PlanCopy, NEW mine \in PlanCopy,
           NEW idle, NEW O, NEW H, NEW top \in Nat, NEW on, NEW starts2, NEW top2, top2 = top + 1, NEW gone2, ~gone2,
           mine.id <= top, s.id <= top,
           ~on, NEW n \in PlanCopy, n.id = top + 1, Active(n)
    PROVE  /\ GatewayWell(n, s, n, {n}, mine, idle)
           /\ LossWell(n, s, n, {n}, mine, idle, O, H, top2, gone2)
           /\ StartWell(n, s, n, {n}, mine, on, starts2)
           /\ LastWell(s, {n}, mine, top2, gone2)
<1>1. mine.id \in Nat /\ s.id \in Nat
  BY FieldsOf
<1>2. Newer(n, n) /\ Newer(n, s) /\ Newer(n, mine)
  BY <1>1, NewerOrder DEF Newer
<1>3. PickFreshest(n, n) = n
  BY <1>2, PickIs
<1>4. GatewayWell(n, s, n, {n}, mine, idle)
  BY <1>2, <1>3 DEF GatewayWell, Meets
<1>5. LossWell(n, s, n, {n}, mine, idle, O, H, top2, gone2)
  BY <1>2 DEF LossWell, Safe
<1>6. StartWell(n, s, n, {n}, mine, on, starts2)
  BY <1>2 DEF StartWell
<1>7. LastWell(s, {n}, mine, top2, gone2)
  BY DEF LastWell
<1> QED  BY <1>4, <1>5, <1>6, <1>7

\* The owner ends the plan.
LEMMA EndsPlaces ==
    ASSUME NEW g \in PlanCopy, NEW s \in PlanCopy, NEW w \in PlanCopy, NEW mine \in PlanCopy,
           NEW idle, NEW O, NEW H, NEW top \in Nat, NEW gone, NEW on, NEW starts,
           PlacesWell(g, s, w, {}, mine, idle, O, H, top, gone, on, starts),
           \A c \in {g, w} : Fresh(c, mine), ~on, ~starts,
           NEW p, p = PickFreshest(g, w), Active(p),
           NEW n \in PlanCopy, n.id = p.id, n.rev = p.rev + 1, NEW now,
           now => gone \/ p.pending # 0
    PROVE  PlacesWell(n, s, n, {n}, mine, idle, O, H, top, now, on, starts)
<1>0. GatewayWell(g, s, w, {}, mine, idle) /\ LastWell(s, {}, mine, top, gone)
  BY DEF PlacesWell
<1>1. p \in {g, w} /\ p \in PlanCopy /\ Newer(p, g) /\ Newer(p, w)
  BY PickIs
<1>2. mine.id \in Nat /\ s.id \in Nat /\ p.id \in Nat /\ p.rev \in Nat /\ n.id \in Nat /\ n.rev \in Nat
  BY <1>1, FieldsOf
<1>3. Newer(n, n) /\ Newer(n, p)
  BY <1>2, NewerOrder DEF Newer
<1>4. Newer(p, s)
  BY <1>0 DEF GatewayWell, Meets
<1>5. Newer(n, s) /\ (~idle => Newer(n, mine))
  BY <1>0, <1>1, <1>3, <1>4, NewerOrder DEF GatewayWell
<1>6. PickFreshest(n, n) = n
  BY <1>3, PickIs
<1>7. GatewayWell(n, s, n, {n}, mine, idle)
  BY <1>3, <1>5, <1>6 DEF GatewayWell, Meets
<1>8. LossWell(n, s, n, {n}, mine, idle, O, H, top, now)
  BY <1>3 DEF LossWell, Safe
<1>9. StartWell(n, s, n, {n}, mine, on, starts)
  BY DEF StartWell
<1>10. LastWell(s, {n}, mine, top, now)
  <2>1. ASSUME top > mine.id PROVE ~now
    <3>1. ~gone /\ top = s.id
      BY <1>0, <1>2, <2>1 DEF LastWell
    <3>2. p.id >= s.id
      BY <1>2, <1>4 DEF Newer
    <3>3. p.id > mine.id
      BY <1>2, <2>1, <3>1, <3>2
    <3>4. p.pending = 0
      BY <1>1, <3>3 DEF Fresh
    <3> QED  BY <3>1, <3>4
  <2> QED  BY <1>0, <2>1 DEF LastWell
<1> QED  BY <1>7, <1>8, <1>9, <1>10 DEF PlacesWell

\* A restart of the runtime, or a start that goes on: its copy is what it was or the row's.
LEMMA TurnPlaces ==
    ASSUME NEW g \in PlanCopy, NEW s \in PlanCopy, NEW w \in PlanCopy, NEW mine \in PlanCopy, NEW idle, idle,
           NEW Q \in SUBSET PlanCopy, NEW O, NEW H, NEW top \in Nat, NEW gone, NEW on, NEW starts,
           PlacesWell(g, s, w, Q, mine, idle, O, H, top, gone, on, starts),
           s.id <= top, s.id >= mine.id,
           NEW r \in PlanCopy, r.id = s.id, Active(r) => Active(s),
           s.id = mine.id /\ Active(s) => r = mine
    PROVE  PlacesWell(g, s, w, Q, r, idle, O, H, top, gone, on, starts)
<1>0. /\ GatewayWell(g, s, w, Q, mine, idle) /\ LossWell(g, s, w, Q, mine, idle, O, H, top, gone)
      /\ StartWell(g, s, w, Q, mine, on, starts) /\ LastWell(s, Q, mine, top, gone)
  BY DEF PlacesWell
<1>1. mine.id \in Nat /\ s.id \in Nat /\ r.id \in Nat /\ g.id \in Nat /\ w.id \in Nat
  BY FieldsOf
<1>2. \A c \in PlanCopy : Ahead(c, r) => Ahead(c, mine)
  <2> TAKE c \in PlanCopy
  <2>1. c.id \in Nat
    BY FieldsOf
  <2>2. CASE s.id = mine.id
    BY <1>1, <2>1, <2>2 DEF Ahead, Ended
  <2>3. CASE s.id > mine.id
    BY <1>1, <2>1, <2>3 DEF Ahead, Ended
  <2> QED  BY <1>1, <2>2, <2>3
<1>3. GatewayWell(g, s, w, Q, r, idle)
  BY <1>0, <1>2 DEF GatewayWell
<1>4. LossWell(g, s, w, Q, r, idle, O, H, top, gone)
  <2>1. \A c \in {g, w} : Safe(c, s, Q, mine, idle) => Safe(c, s, Q, r, idle)
    BY DEF Safe
  <2>2. ASSUME Completed(g, mine, O, H, top, gone)
        PROVE  Safe(g, s, Q, r, idle) \/ Completed(g, r, O, H, top, gone)
    <3>1. CASE s.id = mine.id
      BY <2>2, <3>1 DEF Completed, Ended
    <3>2. CASE s.id > mine.id
      BY <1>1, <2>2, <3>2 DEF Completed, Ended, Safe, Newer
    <3>3. s.id = mine.id \/ s.id > mine.id
      BY <1>1
    <3> QED  BY <3>1, <3>2, <3>3
  <2> QED  BY <1>0, <2>1, <2>2 DEF LossWell
<1>5. StartWell(g, s, w, Q, r, on, starts)
  <2>1. ~(Ahead(s, r) /\ ~Active(s)) /\ (Active(r) => ~Ended(s, r))
    BY <1>1 DEF Ahead, Ended
  <2>2. on \/ starts => \A c \in {g, w} \union Q : Ahead(c, r) => Active(c)
    BY <1>0, <1>2 DEF StartWell
  <2> QED  BY <2>1, <2>2 DEF StartWell
<1>6. LastWell(s, Q, r, top, gone)
  BY <1>0, <1>1 DEF LastWell
<1> QED  BY <1>3, <1>4, <1>5, <1>6 DEF PlacesWell

\* The places stay right when a robot no longer runs or starts, and when one runs
\* whose active plan the row does not have as ended.
LEMMA StopPlaces ==
    ASSUME NEW g, NEW s, NEW w, NEW mine, NEW idle, NEW Q, NEW O, NEW H, NEW top, NEW gone,
           NEW on, NEW starts, PlacesWell(g, s, w, Q, mine, idle, O, H, top, gone, on, starts),
           NEW on2, NEW starts2, on2 \/ starts2 => on \/ starts, Active(mine) => ~Ended(s, mine)
    PROVE  PlacesWell(g, s, w, Q, mine, idle, O, H, top, gone, on2, starts2)
<1>1. /\ GatewayWell(g, s, w, Q, mine, idle) /\ LossWell(g, s, w, Q, mine, idle, O, H, top, gone)
      /\ StartWell(g, s, w, Q, mine, on, starts) /\ LastWell(s, Q, mine, top, gone)
  BY Zenon DEF PlacesWell
<1>2. StartWell(g, s, w, Q, mine, on2, starts2)
  BY <1>1, Zenon DEF StartWell
<1> QED  BY <1>1, <1>2, Zenon DEF PlacesWell

\* The runtime opens a new plan.
LEMMA RuntimeOpensPlaces ==
    ASSUME NEW g \in PlanCopy, NEW s \in PlanCopy, NEW w \in PlanCopy, NEW mine \in PlanCopy,
           NEW idle, idle, NEW idle2, ~idle2, NEW top \in Nat, NEW top2, top2 = top + 1, NEW gone2, ~gone2,
           NEW Q \in SUBSET PlanCopy, NEW O, NEW H, NEW gone, NEW on, NEW starts,
           NEW on2, NEW starts2,
           PlacesWell(g, s, w, Q, mine, idle, O, H, top, gone, on, starts), \A c \in {g, s} \union Q : c.id <= top,
           NEW n \in PlanCopy, n.id = top + 1, Active(n)
    PROVE  PlacesWell(g, s, n, Q, n, idle2, O, H, top2, gone2, on2, starts2)
<1>1. \A c \in {g, s} \union Q : c.id \in Nat /\ c.id < n.id
  BY FieldsOf
<1>2. Newer(n, n) /\ Newer(n, s) /\ Newer(n, g)
  BY <1>1, NewerOrder DEF Newer
<1>3. \A c \in {g, s, n} \union Q : ~Ahead(c, n)
  BY <1>1 DEF Ahead, Ended
<1>4. ~Newer(g, n)
  BY <1>1 DEF Newer
<1>5. PickFreshest(g, n) = n
  BY <1>4, PickIs
<1>6. GatewayWell(g, s, n, Q, n, idle2)
  <2>1. \A h \in Q : Newer(g, h)
    BY DEF PlacesWell, GatewayWell
  <2> QED  BY <1>2, <1>3, <1>5, <2>1 DEF GatewayWell, Meets
<1>7. LossWell(g, s, n, Q, n, idle2, O, H, top2, gone2)
  BY <1>2 DEF LossWell, Safe
<1>8. StartWell(g, s, n, Q, n, on2, starts2)
  BY <1>1, <1>3 DEF StartWell, Ended
<1>9. LastWell(s, Q, n, top2, gone2)
  BY DEF LastWell
<1> QED  BY <1>6, <1>7, <1>8, <1>9 DEF PlacesWell

-----------------------------------------------------------------------------
(* What the operations leave of a copy, beyond what StakeInv needs.        *)

\* A result that is booked.
LEMMA ApplyMore ==
    ASSUME NEW c \in PlanCopy, NEW o \in Order, NEW result \in Results, o \notin c.booked
    PROVE  LET d == ApplyResult(c, o, result) IN
           /\ d.terms = c.terms /\ d.unknown = c.unknown /\ d.rev = c.rev + 1
           /\ d.won = (IF result = "WIN" THEN c.won + 1 ELSE c.won)
           /\ d.lost = (IF result = "LOSS" THEN c.lost + 1 ELSE c.lost)
           /\ Active(c) => (Active(d) <=> d.won < W /\ d.lost <= N - W)
<1> DEFINE won == IF result = "WIN" THEN c.won + 1 ELSE c.won
           lost == IF result = "LOSS" THEN c.lost + 1 ELSE c.lost
           status == IF c.status # "active" THEN c.status
                     ELSE IF won >= W THEN "hit"
                     ELSE IF lost > N - W THEN "bust" ELSE c.status
           waits == IF c.pending = o THEN 0 ELSE c.pending
           booked == c.booked \union {o}
           rev == c.rev + 1
           d == ApplyResult(c, o, result)
           flags == BOOLEAN
           orders == {0} \union Order
           books == SUBSET Order
<1>1. d = [c EXCEPT !.booked = booked, !.won = won, !.lost = lost,
                    !.pending = waits, !.rev = rev, !.status = status]
  BY DEF ApplyResult, HasOrder
<1>2. won \in Nat /\ lost \in Nat /\ N \in Nat /\ W \in Nat
  BY FieldsOf, PlanAssumption
<1>3. c.status = "active" => (status = "active" <=> won < W /\ lost <= N - W)
  BY <1>2
<1>4. c \in CopyOver(Statuses, orders, flags, books)
  BY DEF PlanCopy
<1> HIDE DEF won, lost, status, waits, d, booked, rev, flags, orders, books
<1>5. /\ d.terms = c.terms /\ d.unknown = c.unknown /\ d.rev = rev
      /\ d.won = won /\ d.lost = lost /\ d.status = status
  BY <1>1, <1>4 DEF CopyOver
<1> QED  BY <1>3, <1>5 DEF Active, won, lost, rev, d

\* A plan that is closed.
LEMMA CloseMore ==
    ASSUME NEW c \in PlanCopy, NEW s \in Over
    PROVE  LET d == Close(c, s) IN
           d.terms = c.terms /\ d.won = c.won /\ d.lost = c.lost /\ d.unknown = c.unknown
<1> DEFINE d == Close(c, s)
           rev == c.rev + 1
           flags == BOOLEAN
           orders == {0} \union Order
           books == SUBSET Order
<1>1. d = [c EXCEPT !.status = s, !.rev = rev]
  BY DEF Close
<1>2. c \in CopyOver(Statuses, orders, flags, books)
  BY DEF PlanCopy
<1> HIDE DEF d, rev, flags, orders, books
<1>3. d.terms = c.terms /\ d.won = c.won /\ d.lost = c.lost /\ d.unknown = c.unknown
  BY <1>1, <1>2 DEF CopyOver
<1> QED  BY <1>3 DEF d

\* A result that is overdue.
LEMMA FlagMore ==
    ASSUME NEW c \in PlanCopy, NEW o \in Order, FlagUnknown(c, o) # c
    PROVE  LET d == FlagUnknown(c, o) IN
           /\ c.pending = o /\ ~c.unknown /\ d.unknown
           /\ d.terms = c.terms /\ d.won = c.won /\ d.lost = c.lost
<1> DEFINE d == FlagUnknown(c, o)
           rev == c.rev + 1
           flags == BOOLEAN
           orders == {0} \union Order
           books == SUBSET Order
<1>1. c.pending = o /\ ~c.unknown /\ d = [c EXCEPT !.unknown = TRUE, !.rev = rev]
  BY DEF FlagUnknown
<1>2. c \in CopyOver(Statuses, orders, flags, books)
  BY DEF PlanCopy
<1> HIDE DEF d, rev, flags, orders, books
<1>3. d.terms = c.terms /\ d.won = c.won /\ d.lost = c.lost /\ d.unknown = TRUE
  BY <1>1, <1>2 DEF CopyOver
<1> QED  BY <1>1, <1>3 DEF d

\* An order that is sent.
LEMMA MarkMore ==
    ASSUME NEW c \in PlanCopy, NEW o \in Order
    PROVE  LET d == MarkPending(c, o) IN
           d.terms = c.terms /\ d.won = c.won /\ d.lost = c.lost
<1> DEFINE d == MarkPending(c, o)
           rev == c.rev + 1
           flags == BOOLEAN
           orders == {0} \union Order
           books == SUBSET Order
<1>1. d = [c EXCEPT !.pending = o, !.unknown = FALSE, !.rev = rev]
  BY DEF MarkPending
<1>2. c \in CopyOver(Statuses, orders, flags, books)
  BY DEF PlanCopy
<1> HIDE DEF d, rev, flags, orders, books
<1>3. d.terms = c.terms /\ d.won = c.won /\ d.lost = c.lost
  BY <1>1, <1>2 DEF CopyOver
<1> QED  BY <1>3 DEF d

\* A new plan.
LEMMA NewMore ==
    ASSUME NEW i
    PROVE  LET d == NewCycle(i) IN d.terms = terms /\ d.won = 0 /\ d.lost = 0
<1> DEFINE none == {}
           d == NewCycle(i)
<1>1. Nothing = [id |-> 0, rev |-> 0, terms |-> 1, status |-> "abandoned", pending |-> 0,
                 unknown |-> FALSE, booked |-> none, won |-> 0, lost |-> 0]
  BY DEF Nothing
<1>2. d = [Nothing EXCEPT !.id = i, !.rev = 1, !.terms = terms, !.status = "active"]
  BY DEF NewCycle
<1> HIDE DEF none, d
<1>3. d.terms = terms /\ d.won = 0 /\ d.lost = 0
  BY <1>1, <1>2
<1> QED  BY <1>3 DEF d

-----------------------------------------------------------------------------
(* What a repair leaves.                                                   *)

\* 0 is no order.
LEMMA ToldOrders ==
    ASSUME NEW H \in SUBSET Trades, NEW O \in SUBSET Orders, NEW p
    PROVE  Told(H, p) \subseteq Order /\ Told(O, p) \subseteq Order /\ 0 \notin Order
BY PlanAssumption DEF Told, Trades, Orders

\* A copy lacks a result or none.
LEMMA NotBoth ==
    ASSUME NEW c \in PlanCopy, NEW d \in PlanCopy, NEW H \in SUBSET Trades, NEW O \in SUBSET Orders,
           c.id = d.id, Half(c, O, H), Full(d, O, H)
    PROVE  d.pending = 0 /\ c.pending # 0 /\ c # d
<1>1. Told(H, c.id) \subseteq Order /\ 0 \notin Order
  BY ToldOrders
<1>2. d.pending = 0
  BY DEF Half, Full
<1>3. c.pending # 0
  BY <1>1 DEF Half
<1> QED  BY <1>2, <1>3

\* A copy that lacks one is completed.
LEMMA RepairHalf ==
    ASSUME NEW c \in PlanCopy, NEW H \in SUBSET Trades, NEW O \in SUBSET Orders, Half(c, O, H)
    PROVE  LET d == Repair(c, H) IN
           /\ d \in PlanCopy /\ d.id = c.id /\ d.terms = c.terms /\ d.rev = c.rev + 1
           /\ Active(d) => Active(c)
           /\ Full(d, O, H) /\ d.pending = 0
           /\ \E h \in H :
                /\ h.id = c.id /\ h.order = c.pending
                /\ d.won = IF h.result = "WIN" THEN c.won + 1 ELSE c.won
                /\ d.lost = IF h.result = "LOSS" THEN c.lost + 1 ELSE c.lost
<1> DEFINE t == CHOOSE u \in Lacks(c, H) : TRUE
           d == Repair(c, H)
<1>1. PICK u \in H : u.id = c.id /\ u.order = c.pending
  BY DEF Half, Told
<1>2. c.pending \notin c.booked
  BY DEF Half
<1>3. u \in Lacks(c, H)
  BY <1>1, <1>2 DEF Lacks
<1>4. t \in Lacks(c, H)
  BY <1>3
<1>5. d = ApplyOwn(c, t)
  BY <1>3 DEF Repair
<1> HIDE DEF t, d
<1>6. t \in H /\ t.id = c.id /\ t.order \notin c.booked
  BY <1>4 DEF Lacks
<1>7. t.order = c.pending
  <2>1. t.order \in Told(H, c.id)
    BY <1>6 DEF Told
  <2> QED  BY <1>6, <2>1 DEF Half
<1>8. t.order \in Order /\ t.result \in Results
  BY <1>6 DEF Trades
<1>9. d = ApplyResult(c, t.order, t.result)
  BY <1>5, <1>6 DEF ApplyOwn
<1>10. /\ d \in PlanCopy /\ d.id = c.id /\ (Active(d) => Active(c))
       /\ d.booked = c.booked \union {t.order} /\ d.pending = 0
  BY <1>6, <1>7, <1>8, <1>9, ApplyOf
<1>11. /\ d.terms = c.terms /\ d.rev = c.rev + 1
       /\ d.won = (IF t.result = "WIN" THEN c.won + 1 ELSE c.won)
       /\ d.lost = (IF t.result = "LOSS" THEN c.lost + 1 ELSE c.lost)
  BY <1>6, <1>8, <1>9, ApplyMore
<1>12. Full(d, O, H)
  BY <1>7, <1>10 DEF Full, Half
<1> QED  BY <1>6, <1>7, <1>10, <1>11, <1>12 DEF d

\* A repair keeps the settings.
LEMMA RepairTerms ==
    ASSUME NEW c \in PlanCopy, NEW H \in SUBSET Trades
    PROVE  Repair(c, H).terms = c.terms
<1>1. CASE Lacks(c, H) = {}
  BY <1>1 DEF Repair
<1>2. CASE Lacks(c, H) # {}
  <2> DEFINE t == CHOOSE u \in Lacks(c, H) : TRUE
  <2>1. t \in Lacks(c, H)
    BY <1>2
  <2> HIDE DEF t
  <2>2. t \in Trades /\ t.id = c.id /\ t.order \notin c.booked
    BY <2>1 DEF Lacks
  <2>3. Repair(c, H) = ApplyResult(c, t.order, t.result)
    BY <1>2, <2>2 DEF Repair, ApplyOwn, t
  <2>4. t.order \in Order /\ t.result \in Results
    BY <2>2 DEF Trades
  <2> QED  BY <2>2, <2>3, <2>4, ApplyMore
<1> QED  BY <1>1, <1>2

\* The row, repaired: as it was, or what the runtime has, or of a plan the runtime has
\* left, or a plan given up with its last result.
LEMMA RowCompleted ==
    ASSUME NEW g, NEW s, NEW w, NEW Q, NEW mine, NEW idle \in BOOLEAN, NEW O, NEW H, NEW top, NEW gone,
           Sound(g, s, w, Q, mine, idle, O, H, top), MineWell(mine, O, H),
           CopiesWell({g, s, w} \union Q, mine, O, H, top, gone)
    PROVE  LET r == Repair(s, H) IN
           /\ r \in PlanCopy /\ r.id = s.id /\ r.terms = s.terms /\ (Active(r) => Active(s))
           /\ s.id > mine.id => r = s
           /\ idle => s.id >= mine.id /\ (s.id = mine.id /\ Active(s) => s = mine /\ r = mine)
           /\ \/ r = s
              \/ r = mine /\ Active(s) /\ ~idle
              \/ s.id < mine.id /\ ~idle /\ r.rev = s.rev + 1 /\ s.id # 0
              \/ /\ Ended(s, mine) /\ Half(s, O, H) /\ Full(r, O, H)
                 /\ r.pending = 0 /\ ~Active(r) /\ r.rev = s.rev + 1
                 /\ r.won = mine.won /\ r.lost = mine.lost
<1> DEFINE r == Repair(s, H)
<1>1. /\ s \in PlanCopy /\ mine \in PlanCopy /\ H \in SUBSET Trades /\ O \in SUBSET Orders
      /\ OrdersOnce(O, H, mine) /\ (idle => RowSettled(mine, s)) /\ (~idle => RowLags(mine, s, H))
  BY DEF Sound
<1>2. s.id \in Nat /\ mine.id \in Nat /\ \A t \in O \union H : t.id \in Nat /\ t.id <= mine.id /\ t.id >= 1
  BY <1>1, FieldsOf DEF OrdersOnce, MineWell, Trades, Orders
<1>3. /\ r \in PlanCopy /\ r.id = s.id /\ (Active(r) => Active(s))
      /\ r = s \/ r.rev = s.rev + 1
      /\ Told(H, s.id) \subseteq s.booked => r = s
      /\ r.terms = s.terms
  BY <1>1, RepairOf, RepairTerms
<1>4. s.id > mine.id \/ s.id = 0 => r = s
  <2>1. s.id > mine.id \/ s.id = 0 => Told(H, s.id) = {}
    BY <1>2 DEF Told
  <2> QED  BY <1>3, <2>1
<1>5. idle => s.id >= mine.id /\ (s.id = mine.id /\ Active(s) => s = mine /\ r = mine)
  <2>1. Told(H, mine.id) = mine.booked
    BY DEF MineWell, Full
  <2> QED  BY <1>1, <1>2, <1>3, <2>1 DEF RowSettled
<1>6. CASE r = s
  BY <1>3, <1>5, <1>6
<1>7. CASE r # s /\ s.id < mine.id
  BY <1>2, <1>3, <1>4, <1>5, <1>7
<1>8. CASE r # s /\ s.id = mine.id /\ Active(s)
  <2>1. ~idle /\ r = mine
    BY <1>1, <1>3, <1>5, <1>8 DEF RowLags
  <2> QED  BY <1>2, <1>3, <1>5, <1>8, <2>1
<1>9. CASE r # s /\ s.id = mine.id /\ ~Active(s)
  <2>1. Ended(s, mine) /\ ~Full(s, O, H)
    BY <1>3, <1>9 DEF Ended, Full
  <2>2. EndedWell(s, mine, O, H, top, gone)
    BY <2>1 DEF CopiesWell, Placed
  <2>3. Half(s, O, H)
    BY <2>1, <2>2 DEF EndedWell
  <2>4. /\ r.rev = s.rev + 1 /\ Full(r, O, H) /\ r.pending = 0
    BY <1>1, <2>3, RepairHalf
  <2>5. PICK h \in H :
              /\ h.id = s.id /\ h.order = s.pending
              /\ r.won = IF h.result = "WIN" THEN s.won + 1 ELSE s.won
              /\ r.lost = IF h.result = "LOSS" THEN s.lost + 1 ELSE s.lost
    BY <1>1, <2>3, RepairHalf
  <2>6. r.won = mine.won /\ r.lost = mine.lost
    BY <2>2, <2>3, <2>5 DEF EndedWell, Counts
  <2> QED  BY <1>2, <1>3, <1>5, <1>9, <2>1, <2>3, <2>4, <2>6
<1> HIDE DEF r
<1>10. r = s \/ s.id < mine.id \/ s.id = mine.id
  BY <1>2, <1>4
<1> QED  BY <1>6, <1>7, <1>8, <1>9, <1>10 DEF r

-----------------------------------------------------------------------------
(* Where the copies are: restarts of the gateway, and the runtime's work.  *)

\* The gateway restarts from the row.
LEMMA ReloadPlaces ==
    ASSUME NEW g, NEW s, NEW w, NEW mine, NEW idle \in BOOLEAN, NEW O, NEW H,
           NEW top, NEW gone, NEW on, NEW starts,
           Sound(g, s, w, {}, mine, idle, O, H, top),
           Arranged(g, s, w, {}, mine, idle, O, H, top, gone, on, starts),
           NEW r, r = Repair(s, H)
    PROVE  /\ GatewayWell(r, s, w, {}, mine, idle)
           /\ LossWell(r, s, w, {}, mine, idle, O, H, top, gone)
           /\ StartWell(r, s, w, {}, mine, on, starts)
           /\ LastWell(s, {}, mine, top, gone)
<1>1. /\ g \in PlanCopy /\ s \in PlanCopy /\ w \in PlanCopy /\ mine \in PlanCopy
      /\ H \in SUBSET Trades /\ O \in SUBSET Orders
  BY DEF Sound
<1>2. /\ MineWell(mine, O, H) /\ CopiesWell({g, s, w} \union {}, mine, O, H, top, gone)
      /\ GatewayWell(g, s, w, {}, mine, idle) /\ LossWell(g, s, w, {}, mine, idle, O, H, top, gone)
      /\ StartWell(g, s, w, {}, mine, on, starts) /\ LastWell(s, {}, mine, top, gone)
  BY DEF Arranged, KnownWell, PlacesWell
<1>3. /\ r \in PlanCopy /\ r.id = s.id /\ r.terms = s.terms /\ (Active(r) => Active(s))
      /\ s.id > mine.id => r = s
      /\ idle => s.id >= mine.id /\ (s.id = mine.id /\ Active(s) => s = mine /\ r = mine)
      /\ \/ r = s
         \/ r = mine /\ Active(s) /\ ~idle
         \/ s.id < mine.id /\ ~idle /\ r.rev = s.rev + 1
         \/ /\ Ended(s, mine) /\ Half(s, O, H) /\ Full(r, O, H)
            /\ r.pending = 0 /\ ~Active(r) /\ r.rev = s.rev + 1
  BY <1>2, RowCompleted
<1>4. /\ s.id \in Nat /\ w.id \in Nat /\ mine.id \in Nat /\ s.rev \in Nat /\ w.rev \in Nat
      /\ mine.rev \in Nat /\ r.id \in Nat /\ r.rev \in Nat
  BY <1>1, <1>3, FieldsOf
<1>5. ASSUME ~idle, Ahead(w, mine) PROVE Newer(s, w)
  <2>1. Newer(w, mine)
    BY <1>2, <1>5 DEF GatewayWell
  <2>2. ~Newer(mine, w)
    BY <1>4, <1>5, <2>1 DEF Newer, Ahead, Ended
  <2> QED  BY <1>2, <2>2 DEF LossWell, Safe
<1>6. Ahead(w, mine) => Newer(s, w)
  BY <1>2, <1>5 DEF LossWell, Safe
<1>7. r = mine \/ Newer(r, s)
  BY <1>1, <1>3, <1>4, NewerOrder DEF Newer
<1>8. r = mine => Newer(r, s)
  <2>1. s.id = mine.id /\ Active(s) => r = s \/ s.rev < mine.rev \/ (s.rev = mine.rev /\ (~Active(mine) \/ s = mine))
    <3>1. Follows(s, mine, s)
      BY DEF Sound, CopiesFollow
    <3> QED  BY <3>1 DEF Follows, Yields
  <2> QED  BY <1>1, <1>3, <1>4, <2>1, NewerOrder DEF Newer
<1>9. Newer(r, s)
  BY <1>7, <1>8
<1>10. GatewayWell(r, s, w, {}, mine, idle)
  <2>1. Newer(PickFreshest(r, w), r) /\ PickFreshest(r, w) \in PlanCopy
    BY <1>1, <1>3, PickIs
  <2>2. Meets(PickFreshest(r, w), s)
    BY <1>1, <1>3, <1>9, <2>1, NewerOrder DEF Meets
  <2>3. Ahead(w, mine) => Newer(r, w)
    BY <1>1, <1>3, <1>6, <1>9, NewerOrder
  <2> QED  BY <1>2, <1>9, <2>2, <2>3 DEF GatewayWell
<1>11. LossWell(r, s, w, {}, mine, idle, O, H, top, gone)
  <2>1. CASE r = s
    BY <1>1, <1>2, <2>1, NewerOrder DEF LossWell, Safe
  <2>2. CASE r = mine /\ ~idle
    BY <1>1, <1>2, <2>2, NewerOrder DEF LossWell, Safe
  <2>3. CASE s.id < mine.id /\ ~idle
    BY <1>2, <1>3, <1>4, <2>3 DEF LossWell, Safe, Newer
  <2>4. CASE Ended(s, mine) /\ Half(s, O, H) /\ Full(r, O, H) /\ r.pending = 0 /\ ~Active(r)
    <3>1. EndedWell(s, mine, O, H, top, gone)
      BY <1>2, <2>4 DEF CopiesWell, Placed
    <3>2. s.pending # 0
      BY <1>1, <1>3, <2>4, NotBoth
    <3>3. Completed(r, mine, O, H, top, gone)
      BY <1>3, <2>4, <3>1, <3>2 DEF Completed, Ended, EndedWell
    <3> QED  BY <1>2, <3>3 DEF LossWell
  <2> QED  BY <1>3, <2>1, <2>2, <2>3, <2>4
<1>12. StartWell(r, s, w, {}, mine, on, starts)
  <2>1. ASSUME on \/ starts, Ahead(r, mine) PROVE Active(r)
    <3>1. CASE r = s
      BY <1>2, <2>1, <3>1 DEF StartWell
    <3>2. CASE r # s
      <4>1. Ahead(s, mine) /\ Active(mine) /\ ~Active(r)
        BY <1>3, <1>4, <2>1, <3>2 DEF Ahead, Ended
      <4>2. Active(s) => r = mine
        BY <1>3, <1>4, <2>1, <3>2, <4>1 DEF Ended, Ahead
      <4>3. FALSE
        BY <1>2, <2>1, <4>1, <4>2 DEF StartWell
      <4> QED  BY <4>3
    <3> QED  BY <3>1, <3>2
  <2> QED  BY <1>2, <2>1 DEF StartWell
<1> QED  BY <1>2, <1>10, <1>11, <1>12

\* The runtime works on its plan: its copy is what it was, or a later one.
LEMMA WorkPlaces ==
    ASSUME NEW g, NEW s, NEW w, NEW Q, NEW mine, NEW idle, idle, NEW idle2, ~idle2, NEW O, NEW H, NEW top, NEW gone, NEW on, NEW starts,
           Sound(g, s, w, Q, mine, idle, O, H, top),
           PlacesWell(g, s, w, Q, mine, idle, O, H, top, gone, on, starts),
           NEW c \in PlanCopy, c.id = mine.id, c = mine \/ c.rev > mine.rev, Active(c) => Active(mine),
           NEW O2, NEW H2, NEW gone2, gone2 => gone, NEW on2, on2 => on,
           Completed(g, mine, O, H, top, gone) => Completed(g, c, O2, H2, top, gone2)
    PROVE  PlacesWell(g, s, c, Q, c, idle2, O2, H2, top, gone2, on2, starts)
<1>0. /\ GatewayWell(g, s, w, Q, mine, idle) /\ LossWell(g, s, w, Q, mine, idle, O, H, top, gone)
      /\ StartWell(g, s, w, Q, mine, on, starts) /\ LastWell(s, Q, mine, top, gone)
  BY DEF PlacesWell
<1>1. g \in PlanCopy /\ s \in PlanCopy /\ mine \in PlanCopy /\ RowSettled(mine, s)
  BY DEF Sound
<1>2. /\ g.id \in Nat /\ s.id \in Nat /\ mine.id \in Nat /\ c.id \in Nat
      /\ g.rev \in Nat /\ s.rev \in Nat /\ mine.rev \in Nat /\ c.rev \in Nat
  BY <1>1, FieldsOf
<1>3. \A d : Ahead(d, c) => Ahead(d, mine)
  BY DEF Ahead, Ended
<1>4. ~Ahead(c, c) /\ Newer(c, c)
  BY <1>2 DEF Ahead, Ended, Newer
<1> DEFINE p == PickFreshest(g, c)
<1>5. p \in {g, c} /\ p \in PlanCopy /\ Newer(p, g) /\ Newer(p, c) /\ (~Newer(g, c) => p = c)
  BY <1>1, PickIs
<1>6. p.id \in Nat /\ p.rev \in Nat
  BY <1>5, FieldsOf
<1>7. Meets(p, s)
  <2>1. CASE Ahead(s, mine)
    BY <1>0, <1>1, <1>5, <2>1, NewerOrder DEF GatewayWell, Meets
  <2>2. CASE s.id < mine.id
    BY <1>2, <1>5, <1>6, <2>2 DEF Newer, Meets
  <2>3. CASE s.id = mine.id /\ Active(s)
    <3>1. s = mine
      BY <1>2, <2>3, <1>1 DEF RowSettled
    <3>2. Newer(c, s)
      BY <1>2, <3>1, <1>4 DEF Newer
    <3> QED  BY <1>1, <1>5, <3>2, NewerOrder DEF Meets
  <2>4. CASE s.id = mine.id /\ ~Active(s) /\ ~Active(mine)
    <3>1. CASE p = c
      BY <2>4, <3>1 DEF Meets
    <3>2. CASE p = g /\ ~Active(g)
      BY <1>2, <1>5, <2>4, <3>2 DEF Meets, Newer
    <3>3. CASE p = g /\ Active(g) /\ g.id = mine.id /\ p # c
      <4>1. Follows(g, mine, s)
        BY DEF Sound, CopiesFollow
      <4>2. g = mine \/ g.rev < mine.rev \/ (g.rev = mine.rev /\ ~Active(mine))
        BY <3>3, <4>1 DEF Follows, Yields
      <4>3. Newer(g, c)
        BY <1>5, <3>3
      <4>4. FALSE
        BY <1>2, <2>4, <3>3, <4>2, <4>3 DEF Newer
      <4> QED  BY <4>4
    <3>4. CASE p = g /\ g.id # mine.id
      BY <1>2, <1>5, <2>4, <3>4 DEF Meets, Newer
    <3> QED  BY <1>5, <3>1, <3>2, <3>3, <3>4
  <2>5. \/ Ahead(s, mine) \/ s.id < mine.id \/ (s.id = mine.id /\ Active(s))
        \/ (s.id = mine.id /\ ~Active(s) /\ ~Active(mine))
    BY <1>2 DEF Ahead, Ended
  <2> QED  BY <2>1, <2>2, <2>3, <2>4, <2>5
<1>8. GatewayWell(g, s, c, Q, c, idle2)
  BY <1>0, <1>3, <1>4, <1>7 DEF GatewayWell
<1>9. LossWell(g, s, c, Q, c, idle2, O2, H2, top, gone2)
  <2>1. Safe(c, s, Q, c, idle2)
    BY <1>4 DEF Safe
  <2>2. Safe(g, s, Q, mine, idle) => Safe(g, s, Q, c, idle2)
    BY DEF Safe
  <2> QED  BY <1>0, <2>1, <2>2 DEF LossWell
<1>10. StartWell(g, s, c, Q, c, on2, starts)
  <2>1. on2 \/ starts => \A d \in {g, c} \union Q : Ahead(d, c) => Active(d)
    BY <1>0, <1>3, <1>4 DEF StartWell
  <2>2. on2 \/ starts => (Ahead(s, c) /\ ~Active(s) => \E h \in Q : Newer(h, s))
    BY <1>0, <1>3 DEF StartWell
  <2>3. on2 /\ Active(c) => ~Ended(s, c)
    BY <1>0 DEF StartWell, Ended
  <2> QED  BY <1>0, <2>1, <2>2, <2>3 DEF StartWell
<1>11. LastWell(s, Q, c, top, gone2)
  BY <1>0 DEF LastWell
<1> QED  BY <1>8, <1>9, <1>10, <1>11 DEF PlacesWell

-----------------------------------------------------------------------------
(* What the copies know: one more of them.                                 *)

\* One more copy.
LEMMA Joins ==
    ASSUME NEW all, NEW mine, NEW O, NEW H, NEW top, NEW gone, CopiesWell(all, mine, O, H, top, gone),
           NEW n, Placed(n, mine, O, H, top, gone), Paired(n, n, mine, O, H),
           \A c \in all : Paired(c, n, mine, O, H) /\ Paired(n, c, mine, O, H),
           NEW some, some \subseteq all \union {n}
    PROVE  CopiesWell(some, mine, O, H, top, gone)
BY DEF CopiesWell

\* Another plan is opened, or the plan is given up.
LEMMA CopiesLater ==
    ASSUME NEW all, NEW mine, NEW O, NEW H, NEW top, NEW gone, CopiesWell(all, mine, O, H, top, gone),
           NEW top2, NEW gone2, mine.id = top2 => mine.id = top /\ (gone => gone2)
    PROVE  CopiesWell(all, mine, O, H, top2, gone2)
BY DEF CopiesWell, Placed, EndedWell

\* The runtime's copy, outside it.
LEMMA MineJoins ==
    ASSUME NEW all \in SUBSET PlanCopy, NEW mine \in PlanCopy,
           NEW O \in SUBSET Orders, NEW H \in SUBSET Trades, NEW top, NEW gone,
           CopiesWell(all, mine, O, H, top, gone), MineWell(mine, O, H),
           ~Active(mine) /\ mine.pending # 0 /\ mine.id = top => gone,
           NEW some, some \subseteq all \union {mine}
    PROVE  CopiesWell(some, mine, O, H, top, gone)
<1>1. mine.id \in Nat /\ mine.rev \in Nat
  BY FieldsOf
<1>2. Full(mine, O, H) /\ ~Half(mine, O, H)
  BY NotBoth DEF MineWell
<1>3. Placed(mine, mine, O, H, top, gone)
  BY <1>1, <1>2 DEF Placed, EndedWell, Counts, Ended, MineWell
<1>4. Paired(mine, mine, mine, O, H)
  BY <1>2 DEF Paired, Ended
<1>5. ASSUME NEW c \in all PROVE Paired(c, mine, mine, O, H) /\ Paired(mine, c, mine, O, H)
  BY <1>2 DEF Paired, Ended, CopiesWell, Placed
<1> QED  BY <1>3, <1>4, <1>5, Joins

\* No plan, in the place of a copy.
LEMMA NothingJoins ==
    ASSUME NEW all \in SUBSET PlanCopy, NEW mine \in PlanCopy,
           NEW O \in SUBSET Orders, NEW H \in SUBSET Trades, NEW top, NEW gone,
           CopiesWell(all, mine, O, H, top, gone), MineWell(mine, O, H),
           NEW some, some \subseteq all \union {Nothing}
    PROVE  CopiesWell(some, mine, O, H, top, gone)
<1>1. Nothing \in PlanCopy /\ Nothing.id = 0 /\ Nothing.pending = 0 /\ mine.id \in Nat
  BY NothingIs, FieldsOf
<1>2. CASE mine = Nothing
  BY <1>1, <1>2, MineJoins
<1>3. CASE mine # Nothing
  <2>1. mine.id # 0 /\ ~Ended(Nothing, mine) /\ ~(Nothing.id > mine.id)
    BY <1>1, <1>3 DEF MineWell, Ended
  <2>2. Placed(Nothing, mine, O, H, top, gone)
    BY <1>1, <2>1 DEF Placed
  <2>3. Paired(Nothing, Nothing, mine, O, H)
    BY <2>1 DEF Paired
  <2>4. ASSUME NEW c \in all PROVE Paired(c, Nothing, mine, O, H) /\ Paired(Nothing, c, mine, O, H)
    BY <1>1, <2>1 DEF Paired, CopiesWell, Placed
  <2> QED  BY <2>2, <2>3, <2>4, Joins
<1> QED  BY <1>2, <1>3

\* The runtime's copy of a plan that ended with an order in flight was given up: the
\* row tells, or the snapshot does.
LEMMA GivenUp ==
    ASSUME NEW g, NEW s, NEW w, NEW Q, NEW mine, NEW idle \in BOOLEAN, NEW O, NEW H, NEW top,
           NEW gone \in BOOLEAN,
           Sound(g, s, w, Q, mine, idle, O, H, top), MineWell(mine, O, H),
           CopiesWell({g, s, w} \union Q, mine, O, H, top, gone),
           GatewayWell(g, s, w, Q, mine, idle),
           ~Active(mine), mine.pending # 0, mine.id = top, ~gone
    PROVE  FALSE
<1>1. /\ s \in PlanCopy /\ w \in PlanCopy /\ mine \in PlanCopy /\ H \in SUBSET Trades /\ O \in SUBSET Orders
      /\ CopiesFollow({g, s, w} \union Q, mine, s, top) /\ (idle => RowSettled(mine, s))
  BY DEF Sound
<1>2. /\ s.id \in Nat /\ w.id \in Nat /\ mine.id \in Nat /\ w.rev \in Nat /\ mine.rev \in Nat
      /\ s.id <= top /\ w.id <= top
  BY <1>1, FieldsOf DEF CopiesFollow
<1>3. ASSUME NEW c \in {s, w}, Ended(c, mine) PROVE FALSE
  <2>1. EndedWell(c, mine, O, H, top, gone)
    BY <1>3 DEF CopiesWell, Placed
  <2>2. ~Half(c, O, H)
    BY <1>1, <1>3, NotBoth DEF MineWell, Ended
  <2>3. c.pending = mine.pending
    BY <1>1, <1>3, <2>1, <2>2, FullAgree DEF MineWell, Ended, EndedWell
  <2> QED  BY <2>1, <2>3 DEF EndedWell
<1>4. CASE idle
  <2>1. Ended(s, mine)
    BY <1>1, <1>2, <1>4 DEF RowSettled, Ended
  <2> QED  BY <1>3, <2>1
<1>5. CASE ~idle
  <2>1. Newer(w, mine) /\ Follows(w, mine, s)
    BY <1>1, <1>5 DEF GatewayWell, CopiesFollow
  <2>2. Ended(w, mine)
    BY <1>2, <2>1 DEF Newer, Follows, Yields, Ended
  <2> QED  BY <1>3, <2>2
<1> QED  BY <1>4, <1>5

\* Fewer copies, with the row as it was.
LEMMA RowFewer ==
    ASSUME NEW all, NEW s, NEW mine, NEW idle, RowWell(all, s, mine, idle),
           NEW some, \A c \in some : c \in all \/ c.pending = 0 \/ Active(c)
    PROVE  RowWell(some, s, mine, idle)
BY DEF RowWell, Ended

-----------------------------------------------------------------------------
(* What the copies know: the gateway's steps.                              *)

\* A write of the gateway's reaches the row.
LEMMA StoreWell ==
    ASSUME NEW g, NEW s, NEW w, NEW h, NEW mine, NEW idle \in BOOLEAN, NEW O, NEW H,
           NEW top, NEW gone, NEW on, NEW starts,
           Sound(g, s, w, {h}, mine, idle, O, H, top),
           Arranged(g, s, w, {h}, mine, idle, O, H, top, gone, on, starts),
           NEW n, n = PickFreshest(h, s)
    PROVE  RowWell({g, n, w}, n, mine, idle)
<1> DEFINE all == {g, s, w} \union {h}
<1>1. /\ s \in PlanCopy /\ h \in PlanCopy /\ mine \in PlanCopy /\ H \in SUBSET Trades /\ O \in SUBSET Orders
      /\ all \in SUBSET PlanCopy
      /\ CopiesFollow(all, mine, s, top) /\ (idle => RowSettled(mine, s))
      /\ MineWell(mine, O, H) /\ CopiesWell(all, mine, O, H, top, gone) /\ RowWell(all, s, mine, idle)
  BY DEF Sound, Arranged, KnownWell, PlacesWell
<1>2. n \in {h, s} /\ n \in PlanCopy /\ Newer(n, h) /\ Newer(n, s)
  BY <1>1, PickIs
<1>3. {g, n, w} \subseteq all
  BY <1>2
<1>4. CASE n = s
  BY <1>1, <1>3, <1>4 DEF RowWell
<1> SUFFICES ASSUME n = h, NEW c \in all, Ended(c, mine), c.pending # 0
             PROVE  /\ idle /\ Ended(h, mine) => c.rev <= h.rev
                    /\ ~idle /\ ~Active(mine) /\ h.id <= mine.id =>
                          c.rev <= mine.rev \/ (Ended(h, mine) /\ c.rev <= h.rev)
  BY <1>2, <1>3, <1>4 DEF RowWell
<1>5. /\ s.id \in Nat /\ h.id \in Nat /\ mine.id \in Nat /\ c.id \in Nat
      /\ s.rev \in Nat /\ h.rev \in Nat /\ mine.rev \in Nat /\ c.rev \in Nat
  BY <1>1, FieldsOf
<1>6. EndedWell(c, mine, O, H, top, gone) /\ Follows(h, mine, s) /\ c.id = mine.id
  BY <1>1 DEF CopiesWell, Placed, CopiesFollow, Ended
<1>7. ASSUME idle, Ended(h, mine) PROVE c.rev <= h.rev
  <2>1. CASE Ended(s, mine)
    BY <1>1, <1>2, <1>5, <1>7, <2>1 DEF RowWell, Newer, Ended
  <2>2. CASE ~Ended(s, mine)
    <3>1. s = mine /\ Active(mine)
      BY <1>1, <1>2, <1>5, <1>7, <2>2 DEF RowSettled, Ended, Newer
    <3>2. h.rev >= mine.rev
      BY <1>2, <1>5, <1>7, <3>1 DEF Newer, Ended
    <3>3. CASE Half(c, O, H)
      BY <1>5, <1>6, <3>2, <3>3 DEF EndedWell
    <3>4. CASE Full(c, O, H)
      <4>1. EndedWell(h, mine, O, H, top, gone)
        BY <1>1, <1>7 DEF CopiesWell, Placed
      <4>2. ~Half(h, O, H)
        BY <1>1, <1>6, <1>7, <3>4, NotBoth DEF Ended
      <4>3. Full(h, O, H) /\ h.pending = c.pending
        BY <1>1, <1>6, <1>7, <3>4, <4>1, <4>2, FullAgree DEF EndedWell, Ended
      <4> QED  BY <1>1, <1>5, <1>7, <3>1, <3>4, <4>3 DEF CopiesWell, Paired
    <3> QED  BY <1>6, <3>3, <3>4 DEF EndedWell
  <2> QED  BY <2>1, <2>2
<1>8. ASSUME ~idle, ~Active(mine), h.id <= mine.id
      PROVE  c.rev <= mine.rev \/ (Ended(h, mine) /\ c.rev <= h.rev)
  <2>1. s.id <= mine.id
    BY <1>2, <1>5, <1>8 DEF Newer
  <2>2. CASE c.rev <= mine.rev
    BY <2>2
  <2>3. CASE Ended(s, mine) /\ c.rev <= s.rev
    <3>1. h.id = mine.id /\ s.rev <= h.rev
      BY <1>2, <1>5, <1>8, <2>3 DEF Newer, Ended
    <3>2. CASE Active(h)
      BY <1>5, <1>6, <2>3, <3>1, <3>2 DEF Follows, Yields
    <3>3. CASE ~Active(h)
      BY <1>5, <2>3, <3>1, <3>3 DEF Ended
    <3> QED  BY <3>2, <3>3
  <2> QED  BY <1>1, <1>8, <2>1, <2>2, <2>3 DEF RowWell
<1> QED  BY <1>7, <1>8

\* A write of the runtime's does.
LEMMA RuntimeStoreWell ==
    ASSUME NEW g, NEW s, NEW w, NEW Q, NEW mine, NEW idle \in BOOLEAN,
           NEW idle2 \in BOOLEAN, NEW O, NEW H, NEW top, NEW gone \in BOOLEAN, NEW on, NEW starts,
           Sound(g, s, w, Q, mine, idle, O, H, top),
           Arranged(g, s, w, Q, mine, idle, O, H, top, gone, on, starts),
           NEW n, n = PickFreshest(mine, s)
    PROVE  \/ idle \/ ~idle2
           \/ /\ CopiesWell({g, n, w} \union Q, mine, O, H, top, gone)
              /\ RowWell({g, n, w} \union Q, n, mine, idle2)
<1> SUFFICES ASSUME ~idle, idle2
             PROVE  /\ CopiesWell({g, n, w} \union Q, mine, O, H, top, gone)
                    /\ RowWell({g, n, w} \union Q, n, mine, idle2)
  OBVIOUS
<1> DEFINE all == {g, s, w} \union Q
<1>1. /\ s \in PlanCopy /\ mine \in PlanCopy /\ H \in SUBSET Trades /\ O \in SUBSET Orders
      /\ all \in SUBSET PlanCopy /\ GatewayWell(g, s, w, Q, mine, idle)
      /\ MineWell(mine, O, H) /\ CopiesWell(all, mine, O, H, top, gone) /\ RowWell(all, s, mine, idle)
  BY DEF Sound, Arranged, KnownWell, PlacesWell
<1>2. n \in {mine, s} /\ n \in PlanCopy /\ Newer(n, mine) /\ Newer(n, s)
  BY <1>1, PickIs
<1>3. {g, n, w} \union Q \subseteq all \union {mine}
  BY <1>2
<1>4. ASSUME ~Active(mine), mine.pending # 0, mine.id = top, ~gone PROVE FALSE
  <2>1. Sound(g, s, w, Q, mine, idle, O, H, top)
    OBVIOUS
  <2>2. CopiesWell({g, s, w} \union Q, mine, O, H, top, gone)
    BY <1>1
  <2> QED  BY <1>1, <1>4, <2>1, <2>2, GivenUp
<1>5. CopiesWell({g, n, w} \union Q, mine, O, H, top, gone)
  BY <1>1, <1>3, <1>4, MineJoins
<1>6. ASSUME NEW c \in all \union {mine}, Ended(c, mine), c.pending # 0, Ended(n, mine)
      PROVE  c.rev <= n.rev
  <2>1. /\ s.id \in Nat /\ n.id \in Nat /\ mine.id \in Nat /\ c.id \in Nat
        /\ s.rev \in Nat /\ n.rev \in Nat /\ mine.rev \in Nat /\ c.rev \in Nat
    BY <1>1, <1>2, <1>6, FieldsOf
  <2>2. n.rev >= mine.rev /\ n.id = mine.id /\ s.id <= mine.id
    BY <1>2, <1>6, <2>1 DEF Newer, Ended
  <2>3. CASE c = mine
    BY <2>2, <2>3
  <2>4. CASE c \in all /\ ~Active(mine)
    <3>1. c.rev <= mine.rev \/ (Ended(s, mine) /\ c.rev <= s.rev)
      BY <1>1, <1>6, <2>2, <2>4 DEF RowWell
    <3>2. Ended(s, mine) => s.rev <= n.rev
      BY <1>2, <2>1, <2>2 DEF Newer, Ended
    <3> QED  BY <2>1, <2>2, <3>1, <3>2
  <2>5. CASE c \in all /\ Active(mine)
    <3>1. n = s /\ Ended(s, mine)
      BY <1>2, <1>6, <2>5 DEF Ended
    <3>2. EndedWell(c, mine, O, H, top, gone) /\ EndedWell(s, mine, O, H, top, gone)
      BY <1>1, <1>6, <2>5, <3>1 DEF CopiesWell, Placed
    <3>3. CASE Half(c, O, H)
      BY <2>1, <2>2, <3>2, <3>3 DEF EndedWell
    <3>4. CASE Full(c, O, H)
      <4>1. ~Half(s, O, H)
        BY <1>1, <1>6, <2>5, <3>1, <3>4, NotBoth DEF Ended
      <4>2. Full(s, O, H) /\ s.pending = c.pending
        BY <1>1, <1>6, <2>5, <3>1, <3>2, <3>4, <4>1, FullAgree DEF EndedWell, Ended
      <4> QED  BY <1>1, <1>6, <2>1, <2>5, <3>1, <3>4, <4>2 DEF CopiesWell, Paired
    <3> QED  BY <3>2, <3>3, <3>4 DEF EndedWell
  <2> QED  BY <1>6, <2>3, <2>4, <2>5
<1>7. RowWell({g, n, w} \union Q, n, mine, idle2)
  BY <1>3, <1>6 DEF RowWell
<1> QED  BY <1>5, <1>7

\* The gateway restarts from the row.
LEMMA ReloadWell ==
    ASSUME NEW g, NEW s, NEW w, NEW mine, NEW idle \in BOOLEAN, NEW O, NEW H,
           NEW top, NEW gone \in BOOLEAN, NEW on, NEW starts,
           Sound(g, s, w, {}, mine, idle, O, H, top),
           Arranged(g, s, w, {}, mine, idle, O, H, top, gone, on, starts),
           NEW r, r = Repair(s, H)
    PROVE  /\ CopiesWell({r, s, w} \union {}, mine, O, H, top, gone)
           /\ RowWell({r, s, w} \union {}, s, mine, idle)
<1> DEFINE all == {g, s, w} \union {}
           some == {r, s, w} \union {}
<1>1. /\ s \in PlanCopy /\ w \in PlanCopy /\ mine \in PlanCopy /\ H \in SUBSET Trades /\ O \in SUBSET Orders
      /\ all \in SUBSET PlanCopy /\ MineWell(mine, O, H)
      /\ CopiesWell(all, mine, O, H, top, gone) /\ RowWell(all, s, mine, idle)
      /\ GatewayWell(g, s, w, {}, mine, idle) /\ Safe(w, s, {}, mine, idle)
  BY DEF Sound, Arranged, KnownWell, PlacesWell, LossWell
<1>2. /\ r \in PlanCopy /\ r.id = s.id /\ r.terms = s.terms /\ (Active(r) => Active(s))
      /\ \/ r = s
         \/ r = mine /\ Active(s) /\ ~idle
         \/ s.id < mine.id /\ ~idle /\ r.rev = s.rev + 1 /\ s.id # 0
         \/ /\ Ended(s, mine) /\ Half(s, O, H) /\ Full(r, O, H)
            /\ r.pending = 0 /\ ~Active(r) /\ r.rev = s.rev + 1
            /\ r.won = mine.won /\ r.lost = mine.lost
  <2>1. Sound(g, s, w, {}, mine, idle, O, H, top) /\ CopiesWell({g, s, w} \union {}, mine, O, H, top, gone)
    BY <1>1
  <2> QED  BY <1>1, <2>1, RowCompleted
<1>3. /\ s.id \in Nat /\ w.id \in Nat /\ mine.id \in Nat /\ r.id \in Nat
      /\ s.rev \in Nat /\ w.rev \in Nat /\ mine.rev \in Nat /\ r.rev \in Nat
  BY <1>1, <1>2, FieldsOf
<1>4. some \subseteq all \union {r} /\ s \in all /\ w \in all
  OBVIOUS
<1> HIDE DEF all, some
<1>5. CASE r = s
  <2>1. some \subseteq all
    BY <1>4, <1>5
  <2> QED  BY <1>1, <2>1 DEF CopiesWell, RowWell, some
<1>6. CASE r = mine /\ Active(s) /\ ~idle
  <2>1. ASSUME ~Active(mine), mine.pending # 0, mine.id = top, ~gone PROVE FALSE
    <3>1. Sound(g, s, w, {}, mine, idle, O, H, top)
      OBVIOUS
    <3>2. CopiesWell({g, s, w} \union {}, mine, O, H, top, gone)
      BY <1>1 DEF all
    <3> QED  BY <1>1, <2>1, <3>1, <3>2, GivenUp
  <2>2. CopiesWell(some, mine, O, H, top, gone)
    BY <1>1, <1>4, <1>6, <2>1, MineJoins
  <2>3. RowWell(some, s, mine, idle)
    BY <1>1, <1>3, <1>4, <1>6 DEF RowWell
  <2> QED  BY <2>2, <2>3 DEF some
<1>7. CASE s.id < mine.id /\ ~idle /\ s.id # 0
  <2>1. ~Ended(r, mine) /\ Placed(r, mine, O, H, top, gone)
    BY <1>2, <1>3, <1>7 DEF Ended, Placed
  <2>2. Paired(r, r, mine, O, H)
    BY <2>1 DEF Paired
  <2>3. ASSUME NEW c \in all PROVE Paired(c, r, mine, O, H) /\ Paired(r, c, mine, O, H)
    BY <1>1, <1>2, <1>4, <2>1 DEF Paired, CopiesWell
  <2>4. CopiesWell(some, mine, O, H, top, gone)
    BY <1>1, <1>4, <2>1, <2>2, <2>3, Joins
  <2>5. RowWell(some, s, mine, idle)
    BY <1>1, <1>4, <2>1 DEF RowWell
  <2> QED  BY <2>4, <2>5 DEF some
<1>8. CASE /\ Ended(s, mine) /\ Half(s, O, H) /\ Full(r, O, H)
           /\ r.pending = 0 /\ ~Active(r) /\ r.rev = s.rev + 1
           /\ r.won = mine.won /\ r.lost = mine.lost
  <2>1. ~Half(r, O, H) /\ r.id = mine.id /\ Ended(r, mine)
    BY <1>1, <1>2, <1>8, NotBoth DEF Ended
  <2>2. s.pending # 0
    BY <1>1, <1>8, ToldOrders DEF Half
  <2>3. Placed(s, mine, O, H, top, gone)
    BY <1>1, <1>4 DEF CopiesWell
  <2>4. r.id # 0
    BY <1>2, <2>2, <2>3, NothingIs DEF Placed
  <2>5. Placed(r, mine, O, H, top, gone)
    BY <1>2, <1>3, <1>8, <2>1, <2>3, <2>4 DEF Placed, EndedWell, Counts, Ended
  <2>6. Paired(r, r, mine, O, H)
    BY <1>8, <2>1 DEF Paired
  <2>7. ASSUME NEW c \in {s, w}, Ended(c, mine), Active(mine) PROVE c.rev < r.rev
    <3>1. CASE c = s
      BY <1>3, <1>8, <3>1
    <3>2. CASE c = w
      <4>1. Newer(s, w)
        <5>1. ~(~idle /\ Newer(mine, w))
          <6>1. ASSUME Newer(w, mine), Newer(mine, w) PROVE FALSE
            BY <1>1, <2>7, <3>2, <6>1, LeadTogether DEF Ended
          <6> QED  BY <1>1, <6>1 DEF GatewayWell
        <5> QED  BY <1>1, <5>1 DEF Safe
      <4> QED  BY <1>3, <1>8, <2>7, <3>2, <4>1 DEF Newer, Ended
    <3> QED  BY <3>1, <3>2
  <2>8. ASSUME NEW c \in {s, w} PROVE Paired(c, r, mine, O, H) /\ Paired(r, c, mine, O, H)
    <3>1. Paired(c, s, mine, O, H)
      BY <1>1, <1>4 DEF CopiesWell
    <3> QED  BY <1>2, <1>8, <2>1, <2>7, <2>8, <3>1 DEF Paired
  <2>9. CopiesWell({s, w}, mine, O, H, top, gone)
    BY <1>1, <1>4 DEF CopiesWell
  <2>10. some \subseteq {s, w} \union {r}
    BY DEF some
  <2>11. CopiesWell(some, mine, O, H, top, gone)
    BY <2>5, <2>6, <2>8, <2>9, <2>10, Joins
  <2>12. RowWell(some, s, mine, idle)
    BY <1>1, <1>4, <1>8 DEF RowWell
  <2> QED  BY <2>11, <2>12 DEF some
<1> QED  BY <1>2, <1>5, <1>6, <1>7, <1>8

\* The owner ends copy p, which n becomes, and the plan is waived or not.
Ending(g, s, w, mine, idle, O, H, top, gone, p, n, now) ==
    /\ g \in PlanCopy /\ s \in PlanCopy /\ w \in PlanCopy /\ mine \in PlanCopy
    /\ H \in SUBSET Trades /\ O \in SUBSET Orders
    /\ MineWell(mine, O, H) /\ CopiesFollow({g, s, w} \union {}, mine, s, top)
    /\ CopiesWell({g, s, w} \union {}, mine, O, H, top, gone)
    /\ RowWell({g, s, w} \union {}, s, mine, idle)
    /\ GatewayWell(g, s, w, {}, mine, idle) /\ (idle => RowSettled(mine, s))
    /\ p = PickFreshest(g, w) /\ Active(p) /\ n \in PlanCopy /\ n.id = p.id /\ n.rev = p.rev + 1
    /\ ~Active(n) /\ n.booked = p.booked /\ n.pending = p.pending /\ n.terms = p.terms
    /\ n.won = p.won /\ n.lost = p.lost /\ (gone \/ p.pending # 0 => now)
    /\ idle \in BOOLEAN /\ gone \in BOOLEAN /\ now \in BOOLEAN

\* The owner ends the plan: the copy ended was the runtime's, or of a plan it has not heard of.
LEMMA EndsWell ==
    ASSUME NEW g, NEW s, NEW w, NEW mine, NEW idle, NEW O, NEW H, NEW top, NEW gone,
           NEW p, NEW n, NEW now, Ending(g, s, w, mine, idle, O, H, top, gone, p, n, now)
    PROVE  /\ p.id = mine.id => p = mine
           /\ CopiesWell({n, s, n} \union {n}, mine, O, H, top, now)
           /\ RowWell({n, s, n} \union {n}, s, mine, idle)
<1> DEFINE all == {g, s, w} \union {}
           some == {n, s, n} \union {n}
<1>1. /\ g \in PlanCopy /\ s \in PlanCopy /\ w \in PlanCopy /\ mine \in PlanCopy
      /\ H \in SUBSET Trades /\ O \in SUBSET Orders
      /\ MineWell(mine, O, H) /\ CopiesFollow(all, mine, s, top)
      /\ CopiesWell(all, mine, O, H, top, gone) /\ RowWell(all, s, mine, idle)
      /\ GatewayWell(g, s, w, {}, mine, idle) /\ (idle => RowSettled(mine, s))
  BY DEF Ending
<1>0. /\ p = PickFreshest(g, w) /\ Active(p) /\ n \in PlanCopy /\ n.id = p.id /\ n.rev = p.rev + 1
      /\ ~Active(n) /\ n.booked = p.booked /\ n.pending = p.pending /\ n.terms = p.terms
      /\ n.won = p.won /\ n.lost = p.lost /\ (gone \/ p.pending # 0 => now)
      /\ idle \in BOOLEAN /\ gone \in BOOLEAN /\ now \in BOOLEAN
  BY DEF Ending
<1> USE <1>0
<1>2. p \in {g, w} /\ p \in PlanCopy /\ Newer(p, g) /\ Newer(p, w)
  BY <1>1, PickIs
<1>3. /\ s.id \in Nat /\ w.id \in Nat /\ mine.id \in Nat /\ p.id \in Nat /\ n.id \in Nat
      /\ s.rev \in Nat /\ w.rev \in Nat /\ mine.rev \in Nat /\ p.rev \in Nat /\ n.rev \in Nat
  BY <1>1, <1>2, FieldsOf
<1>4. Newer(p, s)
  BY <1>1 DEF GatewayWell, Meets
<1>5. ~idle => Newer(p, mine)
  BY <1>1, <1>2, NewerOrder DEF GatewayWell
<1>6. p \in all /\ s \in all /\ some \subseteq {s} \union {n}
  BY <1>2
<1> HIDE DEF all, some
<1>7. Placed(p, mine, O, H, top, gone) /\ Placed(s, mine, O, H, top, gone) /\ Paired(s, p, mine, O, H)
      /\ Paired(s, s, mine, O, H) /\ Follows(p, mine, s)
  BY <1>1, <1>6 DEF CopiesWell, CopiesFollow
<1>8. ASSUME p.id = mine.id, p # mine PROVE FALSE
  <2>1. Yields(p, mine) /\ s.id = mine.id /\ Yields(p, s)
    BY <1>3, <1>4, <1>7, <1>8 DEF Follows, Newer
  <2>2. p = s
    BY <1>3, <1>4, <1>8, <2>1 DEF Yields, Newer
  <2>3. CASE idle
    BY <1>1, <1>3, <1>8, <2>2, <2>3 DEF RowSettled
  <2>4. CASE ~idle
    BY <1>3, <1>5, <1>8, <2>1, <2>4 DEF Newer, Yields
  <2> QED  BY <2>3, <2>4
<1>9. CASE p.id = mine.id
  <2>1. p = mine /\ Active(mine)
    BY <1>8, <1>9
  <2>2. Full(n, O, H) /\ Ended(n, mine)
    BY <1>1, <2>1 DEF MineWell, Full, Ended
  <2>3. ~Half(n, O, H)
    BY <1>1, <2>2, NotBoth
  <2>4. n.id # 0
    BY <1>7, <2>1, NothingIs DEF Placed
  <2>5. Placed(n, mine, O, H, top, now)
    BY <1>3, <2>1, <2>2, <2>3, <2>4 DEF Placed, EndedWell, Counts
  <2>6. Paired(n, n, mine, O, H)
    BY <2>3 DEF Paired
  <2>7. ASSUME Ended(s, mine) PROVE EndedWell(s, mine, O, H, top, gone) /\ s.rev <= mine.rev /\ s.rev # mine.rev
    BY <1>3, <1>4, <1>7, <2>1, <2>7 DEF Placed, Ended, Newer
  <2>8. Paired(s, n, mine, O, H) /\ Paired(n, s, mine, O, H)
    <3>1. s.id = n.id => s.terms = n.terms
      BY <1>7 DEF Paired
    <3>2. ASSUME Ended(s, mine)
          PROVE  (Half(s, O, H) => s.rev < n.rev) /\ ~(Full(s, O, H) /\ s.pending # 0)
      BY <1>3, <2>1, <2>7, <3>2 DEF EndedWell
    <3> QED  BY <2>3, <3>1, <3>2 DEF Paired
  <2>9. CopiesWell({s}, mine, O, H, top, now)
    <3>1. Placed(s, mine, O, H, top, now)
      BY <1>7 DEF Placed, EndedWell
    <3> QED  BY <1>7, <3>1 DEF CopiesWell
  <2>10. CopiesWell(some, mine, O, H, top, now)
    BY <1>6, <2>5, <2>6, <2>8, <2>9, Joins
  <2>11. RowWell(some, s, mine, idle)
    <3>1. ~(idle /\ Ended(s, mine))
      BY <1>1, <1>3, <1>4, <2>1 DEF RowSettled, Ended, Newer, Yields
    <3> QED  BY <2>1, <3>1 DEF RowWell
  <2> QED  BY <2>1, <2>10, <2>11 DEF some
<1>10. CASE p.id # mine.id
  <2>1. ~Ended(n, mine) /\ n.id # 0
    BY <1>7, <1>10, NothingIs DEF Placed, Ended
  <2>2. Placed(n, mine, O, H, top, now)
    BY <1>7, <1>10, <2>1 DEF Placed
  <2>3. Paired(n, n, mine, O, H) /\ Paired(s, n, mine, O, H) /\ Paired(n, s, mine, O, H)
    BY <1>7, <2>1 DEF Paired
  <2>4. CopiesWell({s}, mine, O, H, top, now)
    <3>1. Placed(s, mine, O, H, top, now)
      BY <1>7 DEF Placed, EndedWell
    <3> QED  BY <1>7, <3>1 DEF CopiesWell
  <2>5. CopiesWell(some, mine, O, H, top, now)
    BY <1>6, <2>2, <2>3, <2>4, Joins
  <2>6. RowWell(some, s, mine, idle)
    BY <1>1, <1>6, <2>1 DEF RowWell
  <2> QED  BY <1>10, <2>5, <2>6 DEF some
<1> QED  BY <1>9, <1>10

\* A new plan at the gateway.
LEMMA OpensWell ==
    ASSUME NEW g, NEW s, NEW w, NEW mine, NEW idle \in BOOLEAN, NEW O, NEW H,
           NEW top, NEW gone \in BOOLEAN, NEW on, NEW starts,
           Sound(g, s, w, {}, mine, idle, O, H, top),
           Arranged(g, s, w, {}, mine, idle, O, H, top, gone, on, starts),
           NEW n \in PlanCopy, n.id = top + 1, Active(n), n.won = 0, n.lost = 0,
           NEW top2, top2 = top + 1, NEW gone2
    PROVE  /\ CopiesWell({n, s, n} \union {n}, mine, O, H, top2, gone2)
           /\ RowWell({n, s, n} \union {n}, s, mine, idle)
<1> DEFINE all == {g, s, w} \union {}
           some == {n, s, n} \union {n}
<1>1. /\ mine \in PlanCopy /\ all \subseteq PlanCopy /\ top \in Nat
      /\ mine.id <= top /\ (\A c \in all : c.id <= top)
      /\ CopiesWell(all, mine, O, H, top, gone) /\ RowWell(all, s, mine, idle)
  BY DEF Sound, Arranged, KnownWell, PlacesWell, CopiesFollow
<1>2. mine.id \in Nat /\ \A c \in all : c.id \in Nat
  BY <1>1, FieldsOf
<1>3. some \subseteq all \union {n}
  OBVIOUS
<1> HIDE DEF all, some
<1>4. mine.id # top2 /\ n.id # mine.id /\ n.id # 0 /\ \A c \in all : c.id # n.id
  BY <1>1, <1>2
<1>5. CopiesWell(all, mine, O, H, top2, gone2)
  BY <1>1, <1>4, CopiesLater
<1>6. ~Ended(n, mine)
  BY DEF Ended
<1>7. Placed(n, mine, O, H, top2, gone2) /\ Paired(n, n, mine, O, H)
  BY <1>4, <1>6 DEF Placed, Paired
<1>8. \A c \in all : Paired(c, n, mine, O, H) /\ Paired(n, c, mine, O, H)
  BY <1>4, <1>6 DEF Paired
<1>9. CopiesWell(some, mine, O, H, top2, gone2)
  BY <1>3, <1>5, <1>7, <1>8, Joins
<1>10. RowWell(some, s, mine, idle)
  BY <1>1, <1>3, <1>6 DEF RowWell
<1> QED  BY <1>9, <1>10 DEF some

-----------------------------------------------------------------------------
(* What the copies know: the runtime's steps.                              *)

\* The runtime opens a new plan.
LEMMA RuntimeOpensWell ==
    ASSUME NEW g, NEW s, NEW w, NEW Q, NEW mine, NEW idle \in BOOLEAN, NEW O, NEW H,
           NEW top, NEW gone \in BOOLEAN, NEW on, NEW starts,
           Sound(g, s, w, Q, mine, idle, O, H, top),
           Arranged(g, s, w, Q, mine, idle, O, H, top, gone, on, starts),
           NEW n \in PlanCopy, n.id = top + 1, Active(n), n.won = 0, n.lost = 0,
           n.booked = {}, n.pending = 0,
           NEW top2, top2 = top + 1, NEW gone2, NEW idle2
    PROVE  KnownWell(g, s, n, Q, n, idle2, O, H, top2, gone2)
<1> DEFINE all == {g, s, w} \union Q
           some == {g, s, n} \union Q
<1>1. /\ mine \in PlanCopy /\ all \subseteq PlanCopy /\ top \in Nat
      /\ mine.id <= top /\ (\A c \in all : c.id <= top)
      /\ CopiesWell(all, mine, O, H, top, gone) /\ MineWell(mine, O, H)
      /\ O \in SUBSET Orders /\ H \in SUBSET Trades /\ \A t \in O \union H : t.id <= mine.id
  BY DEF Sound, Arranged, KnownWell, PlacesWell, CopiesFollow, OrdersOnce
<1>2. mine.id \in Nat /\ \A c \in all : c.id \in Nat
  BY <1>1, FieldsOf
<1>3. some \subseteq all \union {n}
  OBVIOUS
<1> HIDE DEF all, some
<1>4. n.id # 0 /\ \A c \in all : c.id < n.id
  BY <1>1, <1>2
<1>5. MineWell(n, O, H)
  <2>1. \A t \in O \union H : t.id \in Nat
    BY <1>1 DEF Orders, Trades
  <2>2. Told(O, n.id) = {} /\ Told(H, n.id) = {}
    BY <1>1, <1>2, <2>1 DEF Told
  <2>3. 0 < W /\ 0 <= N - W
    BY PlanAssumption
  <2> QED  BY <1>1, <1>4, <2>2, <2>3 DEF MineWell, Full
<1>6. \A c \in some : ~Ended(c, n)
  BY <1>3, <1>4, <1>2, <1>1 DEF Ended
<1>7. \A c \in some : Placed(c, n, O, H, top2, gone2)
  <2>1. \A c \in all : c.id = 0 => c = Nothing
    BY <1>1 DEF CopiesWell, Placed
  <2> QED  BY <1>1, <1>2, <1>3, <1>4, <1>6, <2>1 DEF Placed
<1>8. \A c \in some, d \in some : Paired(c, d, n, O, H)
  <2>1. \A c \in all, d \in all : c.id = d.id => c.terms = d.terms
    BY <1>1 DEF CopiesWell, Paired
  <2> QED  BY <1>2, <1>1, <1>3, <1>4, <1>6, <2>1 DEF Paired
<1> QED  BY <1>5, <1>6, <1>7, <1>8 DEF CopiesWell, RowWell, KnownWell, some

\* A restart of the runtime, or a start that goes on with the row's plan.
LEMMA TurnWell ==
    ASSUME NEW g, NEW s, NEW w, NEW Q, NEW mine, NEW idle \in BOOLEAN, NEW O, NEW H,
           NEW top, NEW gone \in BOOLEAN, NEW on, NEW starts,
           Sound(g, s, w, Q, mine, idle, O, H, top),
           Arranged(g, s, w, Q, mine, idle, O, H, top, gone, on, starts),
           NEW r, r = Repair(s, H)
    PROVE  idle => KnownWell(g, s, w, Q, r, idle, O, H, top, gone)
<1> DEFINE all == {g, s, w} \union Q
<1>1. /\ s \in PlanCopy /\ mine \in PlanCopy /\ all \subseteq PlanCopy /\ s \in all
      /\ CopiesFollow(all, mine, s, top) /\ \A t \in O \union H : t.id <= mine.id
      /\ CopiesWell(all, mine, O, H, top, gone) /\ MineWell(mine, O, H) /\ RowWell(all, s, mine, idle)
      /\ O \in SUBSET Orders /\ H \in SUBSET Trades
  BY DEF Sound, Arranged, KnownWell, PlacesWell, OrdersOnce
<1>2. /\ r \in PlanCopy /\ r.id = s.id /\ r.terms = s.terms /\ (Active(r) => Active(s))
      /\ s.id > mine.id => r = s
      /\ idle => s.id >= mine.id /\ (s.id = mine.id /\ Active(s) => s = mine /\ r = mine)
      /\ \/ r = s
         \/ r = mine /\ Active(s) /\ ~idle
         \/ s.id < mine.id /\ ~idle /\ r.rev = s.rev + 1 /\ s.id # 0
         \/ /\ Ended(s, mine) /\ Half(s, O, H) /\ Full(r, O, H)
            /\ r.pending = 0 /\ ~Active(r) /\ r.rev = s.rev + 1
            /\ r.won = mine.won /\ r.lost = mine.lost
  <2>1. Sound(g, s, w, Q, mine, idle, O, H, top) /\ CopiesWell({g, s, w} \union Q, mine, O, H, top, gone)
    BY <1>1
  <2>2. mine.id \in Nat /\ s.id \in Nat
    BY <1>1, FieldsOf
  <2> QED  BY <1>1, <2>1, RowCompleted
<1>3. /\ mine.id \in Nat /\ mine.rev \in Nat /\ r.rev \in Nat /\ s.rev \in Nat /\ s.id \in Nat
      /\ \A c \in all : c.id \in Nat /\ c.rev \in Nat
  BY <1>1, <1>2, FieldsOf
<1>4. \A t \in O \union H : t.id \in Nat
  BY <1>1 DEF Orders, Trades
<1> HIDE DEF all
<1> SUFFICES ASSUME idle
             PROVE  /\ MineWell(r, O, H) /\ CopiesWell(all, r, O, H, top, gone) /\ RowWell(all, s, r, idle)
  BY DEF all, KnownWell
<1>5. CASE s.id > mine.id
  <2>1. r = s /\ s.id # 0
    BY <1>2, <1>3, <1>1, <1>5
  <2>2. Told(O, s.id) = {} /\ Told(H, s.id) = {}
    BY <1>1, <1>3, <1>4, <1>5 DEF Told
  <2>3. \A c \in all : c.id > mine.id => c.won = 0 /\ c.lost = 0 /\ c.booked = {} /\ c.pending = 0
    BY <1>1 DEF CopiesWell, Placed, CopiesFollow, Fresh
  <2>4. MineWell(s, O, H)
    <3>1. 0 < W /\ 0 <= N - W
      BY PlanAssumption
    <3> QED  BY <1>1, <1>5, <2>1, <2>2, <2>3, <3>1 DEF MineWell, Full
  <2>5. ASSUME NEW c \in all, Ended(c, s)
        PROVE  /\ Full(c, O, H) /\ ~Half(c, O, H) /\ c.pending = 0 /\ c.won = s.won /\ c.lost = s.lost
    <3>1. c.id = s.id
      BY <2>5 DEF Ended
    <3> QED  BY <1>1, <1>5, <2>2, <2>3, <3>1 DEF Full, Half
  <2>6. ASSUME NEW c \in all PROVE Placed(c, s, O, H, top, gone)
    <3>1. /\ c.id = 0 => c = Nothing
          /\ c.id = s.id => c.terms = s.terms
      BY <1>1 DEF CopiesWell, Placed, Paired
    <3>2. c.id > s.id => c.won = 0 /\ c.lost = 0
      BY <1>1, <1>3, <1>5, <2>3
    <3>3. Ended(c, s) => EndedWell(c, s, O, H, top, gone)
      BY <2>5 DEF EndedWell, Counts
    <3> QED  BY <3>1, <3>2, <3>3 DEF Placed
  <2>7. ASSUME NEW c \in all, NEW d \in all PROVE Paired(c, d, s, O, H)
    <3>1. c.id = d.id => c.terms = d.terms
      BY <1>1 DEF CopiesWell, Paired
    <3> QED  BY <2>5, <3>1 DEF Paired
  <2>8. RowWell(all, s, s, idle)
    BY <2>5 DEF RowWell
  <2> QED  BY <2>1, <2>4, <2>6, <2>7, <2>8 DEF CopiesWell
<1>6. CASE s.id = mine.id /\ Active(s)
  BY <1>1, <1>2, <1>6
<1>7. CASE s.id = mine.id /\ ~Active(s)
  <2>1. Ended(s, mine) /\ ~Active(r) /\ r.id = mine.id
    BY <1>2, <1>7 DEF Ended
  <2>2. Placed(s, mine, O, H, top, gone) /\ EndedWell(s, mine, O, H, top, gone)
    BY <1>1, <2>1 DEF CopiesWell, Placed
  <2>3. Full(r, O, H) /\ r.won = mine.won /\ r.lost = mine.lost /\ s.rev <= r.rev
    <3>1. CASE r = s
      <4>1. ASSUME Half(s, O, H) PROVE FALSE
        <5>1. Repair(s, H).rev = s.rev + 1
          BY <1>1, <4>1, RepairHalf
        <5> QED  BY <1>3, <3>1, <5>1
      <4> QED  BY <1>3, <2>2, <3>1, <4>1 DEF EndedWell, Counts
    <3>2. CASE r # s
      BY <1>2, <1>3, <1>7, <3>2
    <3> QED  BY <3>1, <3>2
  <2>4. r.id = 0 => r = Nothing
    <3>1. ASSUME r.id = 0 PROVE s = Nothing /\ ~Half(s, O, H)
      <4>1. s = Nothing
        BY <1>2, <2>2, <3>1 DEF Placed
      <4> QED  BY <1>1, <4>1, NothingIs, ToldOrders DEF Half
    <3> QED  BY <1>2, <1>7, <3>1
  <2>5. r.terms = mine.terms
    BY <1>2, <1>7, <2>2 DEF Placed
  <2>6. MineWell(r, O, H)
    BY <1>1, <2>1, <2>3, <2>4 DEF MineWell
  <2>7. ASSUME NEW c \in all, Ended(c, mine) PROVE EndedWell(c, r, O, H, top, gone)
    <3>1. EndedWell(c, mine, O, H, top, gone)
      BY <1>1, <2>7 DEF CopiesWell, Placed
    <3>2. Half(c, O, H) => c.pending # 0
      BY <1>1, ToldOrders DEF Half
    <3>3. c.pending # 0 => c.rev <= s.rev
      BY <1>1, <2>1, <2>7 DEF RowWell
    <3>4. c.pending # 0 => c.rev <= r.rev /\ c.rev <= r.rev + 1
      BY <1>3, <2>3, <3>3
    <3> QED  BY <2>1, <2>3, <3>1, <3>2, <3>4 DEF EndedWell, Counts
  <2>8. ASSUME NEW c \in all PROVE Placed(c, r, O, H, top, gone)
    BY <1>1, <2>1, <2>5, <2>7 DEF CopiesWell, Placed, Ended
  <2>9. ASSUME NEW c \in all, NEW d \in all PROVE Paired(c, d, r, O, H)
    BY <1>1, <2>1 DEF CopiesWell, Paired, Ended
  <2>10. RowWell(all, s, r, idle)
    BY <1>1, <2>1 DEF RowWell, Ended
  <2> QED  BY <2>6, <2>8, <2>9, <2>10 DEF CopiesWell
<1>8. s.id >= mine.id
  BY <1>2
<1>9. \/ s.id > mine.id \/ (s.id = mine.id /\ Active(s))
      \/ (s.id = mine.id /\ ~Active(s))
  BY <1>3, <1>8
<1> QED  BY <1>5, <1>6, <1>7, <1>9, Zenon

\* A robot that runs on its plan sees no other copy of it ended.
LEMMA NoneEnded ==
    ASSUME NEW g, NEW s, NEW w, NEW Q, NEW mine, NEW starts, NEW on, on,
           StartWell(g, s, w, Q, mine, on, starts), Active(mine)
    PROVE  \A c \in {g, s, w} \union Q : ~Ended(c, mine)
BY DEF StartWell, Ahead, Ended

\* An order is sent, or the money is out: no copy of the plan is ended.
LEMMA CalmWell ==
    ASSUME NEW g, NEW s, NEW w, NEW Q, NEW mine, NEW idle, NEW O, NEW H,
           NEW top, NEW gone, NEW on, NEW starts,
           Sound(g, s, w, Q, mine, idle, O, H, top),
           Arranged(g, s, w, Q, mine, idle, O, H, top, gone, on, starts),
           \A c \in {g, s, w} \union Q : ~Ended(c, mine), Active(mine),
           NEW c \in PlanCopy, c.id = mine.id, c.terms = mine.terms,
           NEW O2, NEW H2, O2 \in SUBSET Orders, H2 \in SUBSET Trades, Full(c, O2, H2),
           c.won = mine.won, c.lost = mine.lost,
           ~Active(c) => c.pending = 0, \A t \in O2 \union H2 : t.id \in {mine.id} \/ t \in O \union H,
           NEW gone2, NEW idle2
    PROVE  KnownWell(g, s, c, Q, c, idle2, O2, H2, top, gone2)
<1> DEFINE all == {g, s, w} \union Q
           some == {g, s, c} \union Q
<1>1. /\ mine \in PlanCopy
      /\ CopiesWell(all, mine, O, H, top, gone) /\ MineWell(mine, O, H)
      /\ \A d \in all : ~Ended(d, mine)
  BY DEF Sound, Arranged, KnownWell, PlacesWell
<1>2. some \subseteq all \union {c}
  OBVIOUS
<1> HIDE DEF all, some
<1>3. mine.id \in Nat /\ mine.id # 0
  BY <1>1, FieldsOf, NothingIs DEF MineWell
<1>4. MineWell(c, O2, H2)
  <2>1. \A t \in O2 \union H2 : t.id >= 1
    BY <1>1, <1>3 DEF MineWell
  <2> QED  BY <1>1, <1>3, <2>1 DEF MineWell
<1>5. \A d \in all : ~Ended(d, c)
  BY <1>1 DEF Ended
<1>6. Ended(c, c) => c.pending = 0 /\ ~Active(c)
  BY DEF Ended
<1>7. ~Half(c, O2, H2)
  BY NotBoth
<1>8. \A d \in all : Placed(d, c, O2, H2, top, gone2)
  BY <1>1, <1>5 DEF CopiesWell, Placed
<1>9. Placed(c, c, O2, H2, top, gone2)
  <2>1. EndedWell(c, c, O2, H2, top, gone2) \/ ~Ended(c, c)
    BY <1>6, <1>7 DEF EndedWell, Counts
  <2> QED  BY <1>3, <2>1, FieldsOf DEF Placed
<1>10. CopiesWell(all, c, O2, H2, top, gone2)
  <2>1. \A d \in all, e \in all : Paired(d, e, c, O2, H2)
    BY <1>1, <1>5 DEF CopiesWell, Paired
  <2> QED  BY <1>8, <2>1 DEF CopiesWell
<1>11. \A d \in all : Paired(d, c, c, O2, H2) /\ Paired(c, d, c, O2, H2)
  BY <1>5, <1>8 DEF Paired, Placed
<1>12. Paired(c, c, c, O2, H2)
  BY <1>6, <1>7 DEF Paired
<1>13. CopiesWell(some, c, O2, H2, top, gone2)
  BY <1>2, <1>9, <1>10, <1>11, <1>12, Joins
<1>14. RowWell(some, s, c, idle2)
  BY <1>2, <1>5, <1>6 DEF RowWell
<1> QED  BY <1>4, <1>13, <1>14 DEF some, KnownWell

\* The runtime's own copy joins the others once they are well against it.
LEMMA WorkJoins ==
    ASSUME NEW all \in SUBSET PlanCopy, NEW c \in PlanCopy, NEW s,
           NEW O \in SUBSET Orders, NEW H \in SUBSET Trades, NEW top, NEW gone, NEW idle,
           CopiesWell(all, c, O, H, top, gone), MineWell(c, O, H), RowWell(all, s, c, idle),
           ~idle, ~Active(c) /\ c.pending # 0 /\ c.id = top => gone,
           NEW some, some \subseteq all \union {c}
    PROVE  CopiesWell(some, c, O, H, top, gone) /\ RowWell(some, s, c, idle)
<1>1. CopiesWell(some, c, O, H, top, gone)
  BY MineJoins
<1>2. c.rev \in Nat
  BY FieldsOf
<1>3. RowWell(some, s, c, idle)
  BY <1>2 DEF RowWell
<1> QED  BY <1>1, <1>3

\* A copy of the plan that says nothing new of it, and what comes of the others' orders.
Quiet(g, s, w, Q, mine, idle, O, H, top, gone, on, starts, c, O2, H2) ==
    /\ Sound(g, s, w, Q, mine, idle, O, H, top)
    /\ Arranged(g, s, w, Q, mine, idle, O, H, top, gone, on, starts)
    /\ gone \in BOOLEAN
    /\ c \in PlanCopy /\ c.id = mine.id /\ c.terms = mine.terms /\ (Active(c) <=> Active(mine))
    /\ c.booked = mine.booked /\ c.pending = mine.pending /\ c.won = mine.won /\ c.lost = mine.lost
    /\ c = mine \/ (c.rev = mine.rev + 1 /\ c.unknown /\ ~mine.unknown /\ mine.pending # 0)
    /\ O2 \in SUBSET Orders /\ H2 \in SUBSET Trades /\ \A t \in O2 \union H2 : t.id >= 1
    /\ {t \in O2 : t.id = mine.id} = {t \in O : t.id = mine.id}
    /\ {t \in H2 : t.id = mine.id} = {t \in H : t.id = mine.id}

\* Nothing new of the plan: a result is overdue, or one of another plan comes.
LEMMA QuietWell ==
    ASSUME NEW g, NEW s, NEW w, NEW Q, NEW mine, NEW idle \in BOOLEAN, NEW O, NEW H,
           NEW top, NEW gone, NEW on, NEW starts, NEW c, NEW O2, NEW H2,
           Quiet(g, s, w, Q, mine, idle, O, H, top, gone, on, starts, c, O2, H2),
           NEW idle2, ~idle2
    PROVE  idle => KnownWell(g, s, c, Q, c, idle2, O2, H2, top, gone)
<1> /\ Sound(g, s, w, Q, mine, idle, O, H, top)
    /\ Arranged(g, s, w, Q, mine, idle, O, H, top, gone, on, starts)
    /\ gone \in BOOLEAN
    /\ c \in PlanCopy /\ c.id = mine.id /\ c.terms = mine.terms /\ (Active(c) <=> Active(mine))
    /\ c.booked = mine.booked /\ c.pending = mine.pending /\ c.won = mine.won /\ c.lost = mine.lost
    /\ c = mine \/ (c.rev = mine.rev + 1 /\ c.unknown /\ ~mine.unknown /\ mine.pending # 0)
    /\ O2 \in SUBSET Orders /\ H2 \in SUBSET Trades /\ \A t \in O2 \union H2 : t.id >= 1
    /\ {t \in O2 : t.id = mine.id} = {t \in O : t.id = mine.id}
    /\ {t \in H2 : t.id = mine.id} = {t \in H : t.id = mine.id}
  BY DEF Quiet
<1> DEFINE all == {g, s, w} \union Q
           some == {g, s, c} \union Q
<1>1. /\ s \in PlanCopy /\ mine \in PlanCopy /\ all \in SUBSET PlanCopy /\ s \in all
      /\ CopiesWell(all, mine, O, H, top, gone) /\ MineWell(mine, O, H) /\ RowWell(all, s, mine, idle)
      /\ GatewayWell(g, s, w, Q, mine, idle) /\ (idle => RowSettled(mine, s))
  BY DEF Sound, Arranged, KnownWell, PlacesWell
<1>2. some \subseteq all \union {c}
  OBVIOUS
<1>3. ASSUME ~Active(mine), mine.pending # 0, mine.id = top, ~gone PROVE FALSE
  <2>1. Sound(g, s, w, Q, mine, idle, O, H, top)
    OBVIOUS
  <2>2. CopiesWell({g, s, w} \union Q, mine, O, H, top, gone)
    BY <1>1
  <2> QED  BY <1>1, <1>3, <2>1, <2>2, GivenUp
<1> HIDE DEF all, some
<1> SUFFICES ASSUME idle
             PROVE  /\ MineWell(c, O2, H2) /\ CopiesWell(some, c, O2, H2, top, gone)
                    /\ RowWell(some, s, c, idle2)
  BY DEF some, KnownWell
<1>4. /\ mine.id \in Nat /\ mine.rev \in Nat /\ c.rev \in Nat /\ s.id \in Nat /\ s.rev \in Nat
      /\ \A d \in all : d.rev \in Nat
  BY <1>1, FieldsOf
<1>5. Told(O2, mine.id) = Told(O, mine.id) /\ Told(H2, mine.id) = Told(H, mine.id)
  BY DEF Told
<1>6. \A d : d.id = mine.id => /\ Full(d, O2, H2) <=> Full(d, O, H)
                               /\ Half(d, O2, H2) <=> Half(d, O, H)
  BY <1>5 DEF Full, Half
<1>7. c.rev = mine.rev \/ (c.rev = mine.rev + 1 /\ c.unknown /\ ~mine.unknown)
  OBVIOUS
<1>8. MineWell(c, O2, H2)
  <2>1. Full(c, O2, H2)
    BY <1>1, <1>5 DEF MineWell, Full
  <2>2. c.id = 0 => c = Nothing
    BY <1>1, NothingIs DEF MineWell
  <2> QED  BY <1>1, <2>1, <2>2 DEF MineWell
<1>9. ASSUME NEW d \in all, Ended(d, mine) PROVE EndedWell(d, c, O2, H2, top, gone)
  <2>1. EndedWell(d, mine, O, H, top, gone) /\ d.id = mine.id
    BY <1>1, <1>9 DEF CopiesWell, Placed, Ended
  <2>2. Counts(d, c, O2, H2)
    <3>1. \A h \in H2 : h.id = mine.id => h \in H
      OBVIOUS
    <3> QED  BY <1>6, <2>1, <3>1 DEF EndedWell, Counts
  <2>3. Half(d, O2, H2) => d.rev <= c.rev
    BY <1>4, <1>6, <1>7, <2>1 DEF EndedWell
  <2>4. Full(d, O2, H2) /\ d.pending # 0 =>
          /\ d.rev <= c.rev + 1
          /\ Active(c) => c.rev <= d.rev /\ (~c.unknown => c.rev < d.rev)
    <3>1. CASE c = mine
      BY <1>6, <2>1, <3>1 DEF EndedWell
    <3>2. CASE c.rev = mine.rev + 1 /\ c.unknown /\ ~mine.unknown
      BY <1>4, <1>6, <2>1, <3>2 DEF EndedWell
    <3> QED  BY <3>1, <3>2
  <2> QED  BY <1>6, <2>1, <2>2, <2>3, <2>4 DEF EndedWell
<1>10. CopiesWell(all, c, O2, H2, top, gone)
  <2>1. \A d \in all : Placed(d, c, O2, H2, top, gone)
    BY <1>1, <1>9 DEF CopiesWell, Placed, Ended
  <2>2. ASSUME NEW d \in all, NEW e \in all PROVE Paired(d, e, c, O2, H2)
    <3>1. Paired(d, e, mine, O, H)
      BY <1>1 DEF CopiesWell
    <3> QED  BY <1>6, <3>1 DEF Paired, Ended
  <2> QED  BY <2>1, <2>2 DEF CopiesWell
<1>11. RowWell(all, s, c, idle2)
  <2> SUFFICES ASSUME NEW d \in all, Ended(d, c), d.pending # 0, ~Active(c), s.id <= c.id
               PROVE  Ended(s, c) /\ d.rev <= s.rev
    BY DEF RowWell
  <2>1. Ended(s, mine)
    BY <1>1, <1>4 DEF RowSettled, Ended
  <2> QED  BY <1>1, <2>1 DEF RowWell, Ended
<1>12. ~Active(c) /\ c.pending # 0 /\ c.id = top => gone
  BY <1>3
<1>13. CopiesWell(some, c, O2, H2, top, gone) /\ RowWell(some, s, c, idle2)
  <2>1. c \in PlanCopy /\ O2 \in SUBSET Orders /\ H2 \in SUBSET Trades /\ ~idle2
    OBVIOUS
  <2> QED  BY ONLY <1>1, <1>2, <1>8, <1>10, <1>11, <1>12, <2>1, WorkJoins
<1> QED  BY <1>8, <1>13

\* The result of the order in flight: what was ended with it lacks it now.
LEMMA BookedWell ==
    ASSUME NEW g, NEW s, NEW w, NEW Q, NEW mine, NEW idle, NEW O, NEW H,
           NEW top, NEW gone, NEW on, NEW starts,
           Sound(g, s, w, Q, mine, idle, O, H, top),
           Arranged(g, s, w, Q, mine, idle, O, H, top, gone, on, starts),
           NEW t \in O, t.id = mine.id, NEW trade \in Trades, trade.order = t.order, trade.id = t.id,
           NEW c, c = ApplyOwn(mine, trade),
           NEW O2, NEW H2, O2 = O \ {t}, H2 = H \union {trade}, NEW idle2, ~idle2
    PROVE  /\ mine.pending = t.order /\ t.order \notin mine.booked
           /\ KnownWell(g, s, c, Q, c, idle2, O2, H2, top, gone)
<1> DEFINE all == {g, s, w} \union Q
           some == {g, s, c} \union Q
           o == t.order
<1>1. /\ s \in PlanCopy /\ mine \in PlanCopy /\ all \in SUBSET PlanCopy /\ s \in all
      /\ O \in SUBSET Orders /\ H \in SUBSET Trades
      /\ CopiesWell(all, mine, O, H, top, gone) /\ MineWell(mine, O, H) /\ OrdersOnce(O, H, mine)
  BY DEF Sound, Arranged, KnownWell, PlacesWell
<1>2. some \subseteq all \union {c}
  OBVIOUS
<1> HIDE DEF all, some
<1>3. o \in Order /\ trade.result \in Results /\ o # 0
  BY <1>1, PlanAssumption DEF Orders, Trades
<1>4. o \in Told(O, mine.id) /\ mine.pending = o
  <2>1. o \in Told(O, mine.id)
    BY DEF Told
  <2> QED  BY <1>1, <2>1 DEF MineWell, Full
<1>5. o \notin Told(H, mine.id) /\ mine.booked = Told(H, mine.id)
  BY <1>1 DEF OrdersOnce, Told, MineWell, Full
<1>6. c = ApplyResult(mine, o, trade.result)
  BY DEF ApplyOwn
<1>7. /\ c \in PlanCopy /\ c.id = mine.id /\ (Active(c) => Active(mine)) /\ c.rev = mine.rev + 1
      /\ c.booked = mine.booked \union {o} /\ c.pending = 0 /\ c.terms = mine.terms
      /\ c.won = (IF trade.result = "WIN" THEN mine.won + 1 ELSE mine.won)
      /\ c.lost = (IF trade.result = "LOSS" THEN mine.lost + 1 ELSE mine.lost)
      /\ Active(mine) => (Active(c) <=> c.won < W /\ c.lost <= N - W)
  <2>1. /\ c \in PlanCopy /\ c.id = mine.id /\ (Active(c) => Active(mine))
        /\ c.booked = mine.booked \union {o} /\ c.pending = 0
    BY <1>1, <1>3, <1>4, <1>5, <1>6, ApplyOf
  <2>2. /\ c.rev = mine.rev + 1 /\ c.terms = mine.terms
        /\ c.won = (IF trade.result = "WIN" THEN mine.won + 1 ELSE mine.won)
        /\ c.lost = (IF trade.result = "LOSS" THEN mine.lost + 1 ELSE mine.lost)
        /\ Active(mine) => (Active(c) <=> c.won < W /\ c.lost <= N - W)
    BY <1>1, <1>3, <1>5, <1>6, ApplyMore
  <2> QED  BY <2>1, <2>2
<1>8. Told(H2, mine.id) = Told(H, mine.id) \union {o}
  BY DEF Told
<1>9. Told(O2, mine.id) = {}
  <2>1. \A u \in O : u.order = o => u = t
    BY <1>1 DEF OrdersOnce
  <2>2. Told(O2, mine.id) = Told(O, mine.id) \ {o}
    BY <2>1 DEF Told
  <2> QED  BY <1>1, <1>4, <2>2 DEF MineWell, Full
<1>10. O2 \in SUBSET Orders /\ H2 \in SUBSET Trades
  BY <1>1
<1> HIDE DEF o
<1>11. mine.id # 0 /\ \A u \in O2 \union H2 : u.id >= 1
  BY <1>1 DEF MineWell
<1>12. MineWell(c, O2, H2)
  BY <1>5, <1>7, <1>8, <1>9, <1>11 DEF MineWell, Full
<1>13. ASSUME NEW d \in all, Ended(d, mine)
       PROVE  /\ EndedWell(d, c, O2, H2, top, gone)
              /\ Half(d, O2, H2) /\ ~Full(d, O2, H2) /\ d.pending = o /\ d.rev <= c.rev
  <2>1. EndedWell(d, mine, O, H, top, gone) /\ d.id = mine.id
    BY <1>1, <1>13 DEF CopiesWell, Placed, Ended
  <2>2. ~Half(d, O, H)
    BY <1>4, <2>1 DEF Half
  <2>3. Full(d, O, H) /\ d.booked = mine.booked /\ d.pending = o
    BY <1>4, <1>5, <2>1, <2>2 DEF EndedWell, Full
  <2>4. Half(d, O2, H2) /\ ~Full(d, O2, H2)
    BY <1>5, <1>8, <1>9, <2>1, <2>3 DEF Half, Full
  <2>5. Counts(d, c, O2, H2)
    <3>1. ASSUME NEW h \in H2, h.id = d.id, h.order = d.pending PROVE h = trade
      BY <1>5, <2>1, <2>3, <3>1 DEF Told
    <3>2. d.won = mine.won /\ d.lost = mine.lost
      BY <2>1, <2>3 DEF EndedWell, Counts
    <3> QED  BY <1>7, <2>4, <3>1, <3>2 DEF Counts
  <2>6. d.rev <= c.rev
    BY <1>3, <1>7, <2>1, <2>3 DEF EndedWell
  <2>7. d.pending # 0 /\ c.id = top => gone
    BY <1>7, <2>1 DEF EndedWell
  <2> QED  BY <2>3, <2>4, <2>5, <2>6, <2>7 DEF EndedWell
<1>14. CopiesWell(all, c, O2, H2, top, gone)
  <2>1. \A d \in all : Placed(d, c, O2, H2, top, gone)
    BY <1>1, <1>7, <1>13 DEF CopiesWell, Placed, Ended
  <2>2. ASSUME NEW d \in all, NEW e \in all PROVE Paired(d, e, c, O2, H2)
    <3>1. d.id = e.id => d.terms = e.terms
      BY <1>1 DEF CopiesWell, Paired
    <3> QED  BY <1>7, <1>13, <3>1 DEF Paired, Ended
  <2> QED  BY <2>1, <2>2 DEF CopiesWell
<1>15. RowWell(all, s, c, idle2)
  BY <1>7, <1>13 DEF RowWell, Ended
<1>16. ~Active(c) /\ c.pending # 0 /\ c.id = top => gone
  BY <1>7
<1>17. CopiesWell(some, c, O2, H2, top, gone) /\ RowWell(some, s, c, idle2)
  BY <1>1, <1>2, <1>7, <1>10, <1>12, <1>14, <1>15, <1>16, WorkJoins
<1> QED  BY <1>4, <1>5, <1>12, <1>17 DEF some, o, KnownWell

-----------------------------------------------------------------------------
(* The invariant, step by step.                                            *)

\* What StakeInv says of the copies.
LEMMA SoundIs ==
    ASSUME StakeInv
    PROVE  /\ Sound(AtGateway, stored, shown, Waiting, Mine, Idle, open, history, ids)
           /\ Idle \in BOOLEAN
           /\ AtGateway \in PlanCopy /\ stored \in PlanCopy /\ shown \in PlanCopy /\ Mine \in PlanCopy
           /\ Waiting \in SUBSET PlanCopy /\ open \in SUBSET Orders /\ history \in SUBSET Trades
           /\ ids \in Nat
           /\ Others(memory, stored, shown, queue) = {AtGateway, stored, shown} \union Waiting
           /\ Copies(memory, stored, shown, queue) = {AtGateway, stored, shown, Mine} \union Waiting
           /\ Idle <=> queue["runtime"] = <<>>
<1>1. Others(memory, stored, shown, queue) = {AtGateway, stored, shown} \union Waiting
  BY DEF Others, AtGateway, Waiting
<1>2. Copies(memory, stored, shown, queue) = {AtGateway, stored, shown, Mine} \union Waiting
  BY <1>1 DEF Copies, Mine
<1>3. /\ AtGateway \in PlanCopy /\ stored \in PlanCopy /\ shown \in PlanCopy /\ Mine \in PlanCopy
      /\ Waiting \in SUBSET PlanCopy
  BY <1>1, Parties DEF AtGateway
<1>4. open \in SUBSET Orders /\ history \in SUBSET Trades /\ ids \in Nat
  BY DEF StakeInv, PlanTypes, Orders, Trades
<1>5. /\ CopiesFollow({AtGateway, stored, shown} \union Waiting, Mine, stored, ids)
      /\ OrdersOnce(open, history, Mine)
  BY <1>1 DEF StakeInv
<1>6. /\ Idle => RowSettled(Mine, stored)
      /\ ~Idle => RowLags(Mine, stored, history)
  BY DEF StakeInv, Idle
<1>7. Idle \in BOOLEAN /\ (Idle <=> queue["runtime"] = <<>>)
  BY DEF Idle
<1> QED  BY <1>1, <1>2, <1>3, <1>4, <1>5, <1>6, <1>7 DEF Sound

\* The invariant, in parts.
LEMMA PlanIs ==
    ASSUME PlanInv
    PROVE  /\ StakeInv /\ waived \in BOOLEAN
           /\ Sound(AtGateway, stored, shown, Waiting, Mine, Idle, open, history, ids)
           /\ Arranged(AtGateway, stored, shown, Waiting, Mine, Idle, open, history, ids, waived,
                       running, asked)
           /\ MineWell(Mine, open, history)
           /\ CopiesFollow({AtGateway, stored, shown} \union Waiting, Mine, stored, ids)
           /\ CopiesWell({AtGateway, stored, shown} \union Waiting, Mine, open, history, ids, waived)
           /\ RowWell({AtGateway, stored, shown} \union Waiting, stored, Mine, Idle)
           /\ GatewayWell(AtGateway, stored, shown, Waiting, Mine, Idle)
           /\ LossWell(AtGateway, stored, shown, Waiting, Mine, Idle, open, history, ids, waived)
           /\ StartWell(AtGateway, stored, shown, Waiting, Mine, running, asked)
           /\ LastWell(stored, Waiting, Mine, ids, waived)
           /\ PlacesWell(AtGateway, stored, shown, Waiting, Mine, Idle, open, history, ids, waived,
                         running, asked)
<1>1. /\ StakeInv /\ waived \in BOOLEAN
      /\ Arranged(AtGateway, stored, shown, Waiting, Mine, Idle, open, history, ids, waived,
                  running, asked)
  BY DEF PlanInv
<1>2. Sound(AtGateway, stored, shown, Waiting, Mine, Idle, open, history, ids)
  BY <1>1, SoundIs
<1> QED  BY <1>1, <1>2 DEF Arranged, KnownWell, PlacesWell, Sound

\* The next state's, from its parts.
LEMMA PlanNextIs ==
    ASSUME StakeInv', waived' \in BOOLEAN,
           NEW g, AtGateway' = g, NEW s, stored' = s, NEW w, shown' = w, NEW Q, Waiting' = Q,
           NEW mine, Mine' = mine, NEW O, open' = O, NEW H, history' = H, NEW top, ids' = top,
           MineWell(mine, O, H), CopiesWell({g, s, w} \union Q, mine, O, H, top, waived'),
           RowWell({g, s, w} \union Q, s, mine, Idle'), GatewayWell(g, s, w, Q, mine, Idle'),
           LossWell(g, s, w, Q, mine, Idle', O, H, top, waived'),
           StartWell(g, s, w, Q, mine, running', asked'), LastWell(s, Q, mine, top, waived')
    PROVE  PlanInv'
<1>1. Arranged(g, s, w, Q, mine, Idle', O, H, top, waived', running', asked')
  BY DEF Arranged, KnownWell, PlacesWell
<1> QED  BY <1>1 DEF PlanInv

\* The same, of its parts together.
LEMMA PlanNext ==
    ASSUME StakeInv', waived' \in BOOLEAN,
           NEW g, AtGateway' = g, NEW s, stored' = s, NEW w, shown' = w, NEW Q, Waiting' = Q,
           NEW mine, Mine' = mine, NEW idle, Idle' = idle, NEW O, open' = O, NEW H, history' = H,
           NEW top, ids' = top, NEW gone, waived' = gone, NEW on, running' = on, NEW starts, asked' = starts,
           KnownWell(g, s, w, Q, mine, idle, O, H, top, gone),
           PlacesWell(g, s, w, Q, mine, idle, O, H, top, gone, on, starts)
    PROVE  PlanInv'
BY DEF PlanInv, Arranged

\* The next state's copies.
LEMMA NextCopies ==
    Copies(memory', stored', shown', queue') = {AtGateway', stored', shown', Mine'} \union Waiting'
BY DEF Copies, Others, AtGateway, Mine, Waiting

\* Copies that lead tell the same.
LEMMA TopTells ==
    ASSUME NEW all \in SUBSET PlanCopy, NEW mine \in PlanCopy, NEW kept, NEW top, NEW gone,
           NEW O \in SUBSET Orders, NEW H \in SUBSET Trades,
           CopiesFollow(all, mine, kept, top), CopiesWell(all, mine, O, H, top, gone),
           NEW c, NEW d, Leads(c, all \union {mine}), Leads(d, all \union {mine}),
           Leads(mine, all \union {mine}) => c = mine /\ d = mine
    PROVE  AsPlan(c) = AsPlan(d)
<1>1. CASE Leads(mine, all \union {mine})
  BY <1>1
<1>2. CASE ~Leads(mine, all \union {mine})
  <2>1. c \in all /\ d \in all
    BY <1>2 DEF Leads
  <2> QED  BY <1>2, <2>1, SameTop
<1> QED  BY <1>1, <1>2

\* The freshest copy, in both states.
LEMMA Tops ==
    ASSUME StakeInv, StakeInv'
    PROVE  /\ Leads(Freshest, {AtGateway, stored, shown} \union Waiting \union {Mine})
           /\ Freshest \in PlanCopy
           /\ Leads(Mine, {AtGateway, stored, shown} \union Waiting \union {Mine}) => Freshest = Mine
           /\ Leads(Freshest', {AtGateway', stored', shown'} \union Waiting' \union {Mine'})
           /\ Freshest' \in PlanCopy
           /\ Leads(Mine', {AtGateway', stored', shown'} \union Waiting' \union {Mine'}) => Freshest' = Mine'
<1>1. /\ Copies(memory, stored, shown, queue) = {AtGateway, stored, shown} \union Waiting \union {Mine}
      /\ Copies(memory', stored', shown', queue')
           = {AtGateway', stored', shown'} \union Waiting' \union {Mine'}
  BY NextCopies, SoundIs
<1> QED  BY <1>1, FreshIs, FreshNext DEF Leads

\* Copies are lost or take another's place: the plan stays.
LEMMA PlanShuffles ==
    ASSUME PlanInv, StakeInv', waived' = waived, Mine' = Mine,
           {AtGateway', stored', shown'} \union Waiting'
             \subseteq {AtGateway, stored, shown, Mine, Nothing} \union Waiting,
           \A c \in {AtGateway, stored, shown, Mine} \union Waiting :
             \E d \in {AtGateway', stored', shown', Mine} \union Waiting' : Newer(d, c)
    PROVE  PlanMoves
<1> DEFINE was == {AtGateway, stored, shown} \union Waiting
           all == was \union {Nothing}
           A == all \union {Mine}
           B == {AtGateway', stored', shown'} \union Waiting' \union {Mine'}
<1>1. /\ was \in SUBSET PlanCopy /\ Mine \in PlanCopy
      /\ open \in SUBSET Orders /\ history \in SUBSET Trades /\ ids \in Nat
      /\ CopiesFollow(was, Mine, stored, ids)
      /\ CopiesWell(was, Mine, open, history, ids, waived) /\ MineWell(Mine, open, history)
  BY PlanIs, SoundIs
<1>2. Leads(Freshest, was \union {Mine}) /\ Freshest \in PlanCopy /\ (Leads(Mine, was \union {Mine}) => Freshest = Mine)
  BY PlanIs, Tops
<1>3. Leads(Freshest', B) /\ Freshest' \in PlanCopy /\ (Leads(Mine', B) => Freshest' = Mine')
  BY PlanIs, Tops
<1>4. B \subseteq A /\ Mine \in B
  OBVIOUS
<1>5. \A c \in was \union {Mine} : \E d \in B : Newer(d, c)
  OBVIOUS
<1> HIDE DEF B
<1>6. Nothing \in PlanCopy /\ Nothing.id = 0 /\ ~Active(Nothing) /\ Nothing.pending = 0 /\ Nothing.booked = {}
  BY NothingIs
<1>7. Newer(Freshest, Nothing)
  <2>1. Freshest \in was \union {Mine}
    BY <1>2 DEF Leads
  <2>2. Freshest.id = 0 => Freshest = Nothing
    BY <1>1, <2>1 DEF MineWell, CopiesWell, Placed
  <2> QED  BY <1>1, <1>2, <2>2, NothingPlaced DEF MineWell
<1>8. all \in SUBSET PlanCopy /\ CopiesWell(all, Mine, open, history, ids, waived)
  BY <1>1, <1>6, NothingJoins
<1>9. CopiesFollow(all, Mine, stored, ids)
  <2>1. Mine.id \in Nat
    BY <1>1, FieldsOf
  <2>2. Nothing.id <= ids /\ Fresh(Nothing, Mine) /\ Follows(Nothing, Mine, stored)
    BY <1>1, <1>6, <2>1 DEF Fresh, Follows
  <2>3. \A c \in all : Agree(c, Nothing, Mine) /\ Agree(Nothing, c, Mine)
    BY <1>6, <2>1 DEF Agree
  <2> QED  BY <1>1, <2>2, <2>3 DEF CopiesFollow
<1>10. Leads(Freshest, A)
  BY <1>2, <1>7 DEF Leads
<1>11. Leads(Mine, A) => Freshest = Mine
  BY <1>2 DEF Leads
<1>12. \E c \in B : Leads(c, A)
  <2>1. Freshest \in was \union {Mine}
    BY <1>2 DEF Leads
  <2>2. PICK d \in B : Newer(d, Freshest)
    BY <1>5, <2>1
  <2>3. d \in A /\ A \subseteq PlanCopy
    BY <1>1, <1>4, <1>8, <2>2
  <2>4. \A e \in A : Newer(d, e)
    BY <1>2, <1>10, <2>2, <2>3, NewerOrder DEF Leads
  <2> QED  BY <2>2, <2>3, <2>4 DEF Leads
<1> HIDE DEF A, all
<1>13. AsPlan(Freshest) = AsPlan(Freshest')
  BY <1>1, <1>3, <1>4, <1>8, <1>9, <1>10, <1>11, <1>12, Shuffle DEF A
<1> QED  BY <1>13, PlanStays

-----------------------------------------------------------------------------
(* The steps that move copies about.                                       *)

\* A poll of the panel.
LEMMA SyncKeeps ==
    ASSUME PlanInv, GatewaySyncs
    PROVE  PlanInv' /\ PlanMoves
<1>1. PICK n : /\ n = PickFreshest(AtGateway, shown) \/ n = PickFreshest(AtGateway, stored)
               /\ Holds("gateway", n)
  BY DEF GatewaySyncs, Synced, AtGateway
<1>2. UNCHANGED <<stored, shown, queue, terms, running, asked, open, history, ids, turns, waived>>
  BY DEF GatewaySyncs
<1>3. StakeInv /\ StakeInv'
  BY PlanIs, SyncStep
<1>4. /\ AtGateway \in PlanCopy /\ stored \in PlanCopy /\ shown \in PlanCopy /\ Mine \in PlanCopy
      /\ Waiting \in SUBSET PlanCopy
  BY <1>3, SoundIs
<1>5. /\ n \in {AtGateway, stored, shown} /\ n \in PlanCopy /\ Newer(n, AtGateway)
      /\ GatewayWell(n, stored, shown, Waiting, Mine, Idle)
      /\ LossWell(n, stored, shown, Waiting, Mine, Idle, open, history, ids, waived)
      /\ StartWell(n, stored, shown, Waiting, Mine, running, asked)
  BY <1>1, <1>4, PlanIs, SyncPlaces
<1>6. AtGateway' = n /\ Mine' = Mine
  BY <1>1, <1>3, <1>5, GatewayTakes DEF AtGateway
<1>7. Waiting' = Waiting /\ Idle' = Idle
  BY <1>2 DEF Waiting, Idle
<1>8. {n, stored, shown} \union Waiting \subseteq {AtGateway, stored, shown} \union Waiting
  BY <1>5
<1>9. /\ CopiesWell({n, stored, shown} \union Waiting, Mine, open, history, ids, waived)
      /\ RowWell({n, stored, shown} \union Waiting, stored, Mine, Idle)
  BY <1>8, PlanIs DEF CopiesWell, RowWell
<1>10. PlanInv'
  BY <1>2, <1>3, <1>5, <1>6, <1>7, <1>9, PlanIs, PlanNextIs
<1>11. PlanMoves
  <2>1. \A c \in {stored, shown, Mine} \union Waiting : Newer(c, c)
    BY <1>4, NewerOrder
  <2> QED  BY <1>2, <1>3, <1>5, <1>6, <1>7, <1>8, <2>1, PlanShuffles
<1> QED  BY <1>10, <1>11

\* A save of the gateway's.
LEMMA PersistKeeps ==
    ASSUME PlanInv, GatewayPersists
    PROVE  PlanInv' /\ PlanMoves
<1> DEFINE n == PickFreshest(AtGateway, shown)
<1>1. Holds("gateway", n) /\ SaveLater("gateway", n) /\ Calm("gateway")
  BY DEF GatewayPersists, Synced, AtGateway
<1>2. UNCHANGED <<stored, shown, terms, running, asked, open, history, ids, turns, waived>>
  BY DEF GatewayPersists
<1>3. StakeInv /\ StakeInv'
  BY PlanIs, PersistStep
<1>4. /\ AtGateway \in PlanCopy /\ stored \in PlanCopy /\ shown \in PlanCopy /\ Mine \in PlanCopy
  BY <1>3, SoundIs
<1>5. Waiting = {}
  BY <1>1, <1>3, Parties, ShortQueue, OneWrite DEF Calm, Waiting
<1>6. n \in PlanCopy /\ Newer(n, AtGateway) /\ Newer(n, shown)
  BY <1>4, PickIs
<1>7. /\ n \in {AtGateway, shown} /\ n \in PlanCopy
      /\ GatewayWell(n, stored, shown, {n}, Mine, Idle)
      /\ LossWell(n, stored, shown, {n}, Mine, Idle, open, history, ids, waived)
      /\ StartWell(n, stored, shown, {n}, Mine, running, asked)
      /\ LastWell(stored, {n}, Mine, ids, waived)
  BY <1>4, <1>5, PlanIs, SavePlaces
<1> HIDE DEF n
<1>8. AtGateway' = n /\ Mine' = Mine
  BY <1>1, <1>3, <1>6, GatewayTakes DEF AtGateway
<1>9. Waiting' = {n} /\ Idle' = Idle
  BY <1>1, <1>3, <1>6, GatewaySaves DEF Waiting, Idle
<1>10. {n, stored, shown} \union {n} \subseteq {AtGateway, stored, shown} \union Waiting
  BY <1>7
<1>11. /\ CopiesWell({n, stored, shown} \union {n}, Mine, open, history, ids, waived)
       /\ RowWell({n, stored, shown} \union {n}, stored, Mine, Idle)
  BY <1>10, PlanIs DEF CopiesWell, RowWell
<1>12. PlanInv'
  BY <1>2, <1>3, <1>7, <1>8, <1>9, <1>11, PlanIs, PlanNextIs
<1>13. PlanMoves
  <2>1. \A c \in {stored, shown, Mine} : Newer(c, c)
    BY <1>4, NewerOrder
  <2> QED  BY <1>2, <1>3, <1>5, <1>6, <1>8, <1>9, <1>10, <2>1, PlanShuffles
<1> QED  BY <1>12, <1>13

\* A write of the gateway's reaches the row.
LEMMA GatewayRowKeeps ==
    ASSUME PlanInv, RowStored("gateway")
    PROVE  PlanInv' /\ PlanMoves
<1> DEFINE h == Head(queue["gateway"])
           n == PickFreshest(h, stored)
<1>1. /\ queue["gateway"] # <<>> /\ stored' = n
      /\ queue' = [queue EXCEPT !["gateway"] = Tail(@)]
      /\ UNCHANGED <<memory, shown, terms, running, asked, open, history, ids, turns, waived>>
  BY DEF RowStored
<1>2. StakeInv /\ StakeInv'
  BY PlanIs, GatewayRowStep
<1>3. /\ AtGateway \in PlanCopy /\ stored \in PlanCopy /\ shown \in PlanCopy /\ Mine \in PlanCopy
      /\ ids \in Nat /\ Idle \in BOOLEAN
  BY <1>2, SoundIs
<1>4. queue["gateway"] \in Seq(PlanCopy) /\ Len(queue["gateway"]) <= 1 /\ queue \in [Member -> Seq(PlanCopy)]
  BY <1>2, Parties DEF StakeInv, PlanTypes
<1>5. h \in PlanCopy /\ queue["gateway"] = <<h>> /\ Tail(queue["gateway"]) = <<>>
  BY <1>1, <1>4, ShortQueue
<1>0. n = PickFreshest(h, stored)
  OBVIOUS
<1> HIDE DEF h, n
<1>6. Waiting = {h}
  BY <1>5, OneWrite DEF Waiting
<1>7. queue'["gateway"] = <<>> /\ queue'["runtime"] = queue["runtime"]
  BY <1>1, <1>4, <1>5 DEF Member
<1>8. Waiting' = {} /\ Idle' = Idle
  BY <1>5, <1>7, OneWrite DEF Waiting, Idle
<1>9. AtGateway' = AtGateway /\ Mine' = Mine
  BY <1>1 DEF AtGateway, Mine
<1>10. h.id <= ids /\ stored.id <= ids
  BY <1>6, PlanIs DEF CopiesFollow
<1>11. /\ n \in {h, stored} /\ n \in PlanCopy /\ Newer(n, h) /\ Newer(n, stored)
       /\ GatewayWell(AtGateway, n, shown, {}, Mine, Idle)
       /\ LossWell(AtGateway, n, shown, {}, Mine, Idle, open, history, ids, waived)
       /\ StartWell(AtGateway, n, shown, {}, Mine, running, asked)
       /\ LastWell(n, {}, Mine, ids, waived)
  <2>1. n \in {h, stored} /\ n \in PlanCopy /\ Newer(n, h) /\ Newer(n, stored)
    BY <1>0, <1>3, <1>5, PickIs
  <2>2. PlacesWell(AtGateway, stored, shown, {h}, Mine, Idle, open, history, ids, waived, running, asked)
    BY <1>6, PlanIs
  <2>3. PlacesWell(AtGateway, n, shown, {}, Mine, Idle, open, history, ids, waived, running, asked)
    BY <1>0, <1>3, <1>5, <1>10, <2>2, StorePlaces
  <2> QED  BY <2>1, <2>3 DEF PlacesWell
<1>12. RowWell({AtGateway, n, shown} \union {}, n, Mine, Idle)
  <2>1. /\ Sound(AtGateway, stored, shown, {h}, Mine, Idle, open, history, ids)
        /\ Arranged(AtGateway, stored, shown, {h}, Mine, Idle, open, history, ids, waived,
                    running, asked)
    BY <1>6, PlanIs
  <2>2. RowWell({AtGateway, n, shown}, n, Mine, Idle)
    BY <1>0, <1>3, <2>1, StoreWell
  <2>3. {AtGateway, n, shown} \union {} = {AtGateway, n, shown}
    OBVIOUS
  <2> QED  BY <2>2, <2>3
<1>13. {AtGateway, n, shown} \union {} \subseteq {AtGateway, stored, shown} \union Waiting
  BY <1>6, <1>11
<1>14. CopiesWell({AtGateway, n, shown} \union {}, Mine, open, history, ids, waived)
  BY <1>13, PlanIs DEF CopiesWell
<1>15. PlanInv'
  BY <1>1, <1>2, <1>8, <1>9, <1>11, <1>12, <1>14, PlanIs, PlanNextIs
<1>16. PlanMoves
  <2>1. \A c \in {AtGateway, shown, Mine} : Newer(c, c)
    BY <1>3, NewerOrder
  <2> QED  BY <1>1, <1>2, <1>6, <1>8, <1>9, <1>11, <1>13, <2>1, PlanShuffles
<1> QED  BY <1>15, <1>16

\* A write of the runtime's reaches the row.
LEMMA RuntimeRowKeeps ==
    ASSUME PlanInv, RowStored("runtime")
    PROVE  PlanInv' /\ PlanMoves
<1> DEFINE n == PickFreshest(Mine, stored)
<1>1. /\ queue["runtime"] # <<>> /\ stored' = PickFreshest(Head(queue["runtime"]), stored)
      /\ queue' = [queue EXCEPT !["runtime"] = Tail(@)]
      /\ UNCHANGED <<memory, shown, terms, running, asked, open, history, ids, turns, waived>>
  BY DEF RowStored
<1>2. StakeInv /\ StakeInv'
  BY PlanIs, RuntimeRowStep
<1>3. /\ AtGateway \in PlanCopy /\ stored \in PlanCopy /\ shown \in PlanCopy /\ Mine \in PlanCopy
      /\ Waiting \in SUBSET PlanCopy
      /\ ids \in Nat /\ Idle \in BOOLEAN
  BY <1>2, SoundIs
<1>4. queue["runtime"] = <<Mine>> /\ queue \in [Member -> Seq(PlanCopy)]
  BY <1>1, <1>2 DEF StakeInv, PlanTypes
<1>5. Head(<<Mine>>) = Mine /\ Tail(<<Mine>>) = <<>>
  OBVIOUS
<1>6. stored' = n
  BY <1>1, <1>4, <1>5
<1>0. n = PickFreshest(Mine, stored)
  OBVIOUS
<1> HIDE DEF n
<1>7. queue'["runtime"] = <<>> /\ queue'["gateway"] = queue["gateway"]
  BY <1>1, <1>4, <1>5 DEF Member
<1>8. Waiting' = Waiting /\ Idle' = TRUE /\ ~Idle
  BY <1>1, <1>7 DEF Waiting, Idle
<1>i. PICK i \in BOOLEAN : i = Idle'
  BY <1>8
<1>9. AtGateway' = AtGateway /\ Mine' = Mine
  BY <1>1 DEF AtGateway, Mine
<1>10. Mine.id <= ids /\ stored.id <= ids
  BY PlanIs DEF CopiesFollow
<1>11. /\ n \in {Mine, stored} /\ n \in PlanCopy /\ Newer(n, Mine) /\ Newer(n, stored)
       /\ GatewayWell(AtGateway, n, shown, Waiting, Mine, i)
       /\ LossWell(AtGateway, n, shown, Waiting, Mine, i, open, history, ids, waived)
       /\ StartWell(AtGateway, n, shown, Waiting, Mine, running, asked)
       /\ LastWell(n, Waiting, Mine, ids, waived)
  <2>1. /\ GatewayWell(AtGateway, stored, shown, Waiting, Mine, Idle)
        /\ LossWell(AtGateway, stored, shown, Waiting, Mine, Idle, open, history, ids, waived)
        /\ StartWell(AtGateway, stored, shown, Waiting, Mine, running, asked)
        /\ LastWell(stored, Waiting, Mine, ids, waived)
    BY PlanIs
  <2>2. \/ Idle \/ ~i
        \/ /\ n \in {Mine, stored} /\ n \in PlanCopy /\ Newer(n, Mine) /\ Newer(n, stored)
           /\ GatewayWell(AtGateway, n, shown, Waiting, Mine, i)
           /\ LossWell(AtGateway, n, shown, Waiting, Mine, i, open, history, ids, waived)
           /\ StartWell(AtGateway, n, shown, Waiting, Mine, running, asked)
           /\ LastWell(n, Waiting, Mine, ids, waived)
    BY <1>0, <1>3, <1>10, <2>1, RuntimeStorePlaces
  <2> QED  BY <1>8, <1>i, <2>2
<1>12. /\ CopiesWell({AtGateway, n, shown} \union Waiting, Mine, open, history, ids, waived)
       /\ RowWell({AtGateway, n, shown} \union Waiting, n, Mine, i)
  <2>1. /\ Sound(AtGateway, stored, shown, Waiting, Mine, Idle, open, history, ids)
        /\ Arranged(AtGateway, stored, shown, Waiting, Mine, Idle, open, history, ids, waived,
                    running, asked)
        /\ waived \in BOOLEAN
    BY PlanIs
  <2>2. \/ Idle \/ ~i
        \/ /\ CopiesWell({AtGateway, n, shown} \union Waiting, Mine, open, history, ids, waived)
           /\ RowWell({AtGateway, n, shown} \union Waiting, n, Mine, i)
    BY <1>0, <1>3, <2>1, RuntimeStoreWell
  <2> QED  BY <1>8, <1>i, <2>2
<1>13. {AtGateway, n, shown} \union Waiting \subseteq {AtGateway, stored, shown, Mine, Nothing} \union Waiting
  BY <1>11
<1>14. PlanInv'
  BY <1>1, <1>2, <1>6, <1>8, <1>i, <1>9, <1>11, <1>12, PlanIs, PlanNextIs
<1>15. PlanMoves
  <2>1. \A c \in {AtGateway, shown, Mine} \union Waiting : Newer(c, c)
    BY <1>3, NewerOrder
  <2>2. \A c \in {AtGateway, stored, shown, Mine} \union Waiting :
          \E d \in {AtGateway, n, shown, Mine} \union Waiting : Newer(d, c)
    BY <1>11, <2>1
  <2>3. /\ AtGateway' = AtGateway /\ stored' = n /\ shown' = shown /\ Waiting' = Waiting
        /\ Mine' = Mine /\ waived' = waived
    BY <1>1, <1>6, <1>8, <1>i, <1>9
  <2> QED  BY <1>2, <1>13, <2>2, <2>3, PlanShuffles
<1> QED  BY <1>14, <1>15

\* The snapshot expires.
LEMMA ExpiryKeeps ==
    ASSUME PlanInv, ShownExpires
    PROVE  PlanInv' /\ PlanMoves
<1>1. /\ Synced = memory["gateway"] /\ \A m \in Member : queue[m] = <<>>
      /\ shown' = Nothing
      /\ UNCHANGED <<memory, stored, queue, terms, running, asked, open, history, ids, waived>>
  BY DEF ShownExpires, Turn
<1>2. StakeInv /\ StakeInv'
  BY PlanIs, RestStep
<1>3. /\ AtGateway \in PlanCopy /\ stored \in PlanCopy /\ shown \in PlanCopy /\ Mine \in PlanCopy
      /\ open \in SUBSET Orders /\ history \in SUBSET Trades
  BY <1>2, SoundIs
<1>4. Waiting = {} /\ Idle
  BY <1>1, OneWrite, <1>3 DEF Waiting, Idle, Member
<1>5. Waiting' = Waiting /\ Idle' = Idle /\ AtGateway' = AtGateway /\ Mine' = Mine
  BY <1>1 DEF Waiting, Idle, AtGateway, Mine
<1>6. PickFreshest(AtGateway, shown) = AtGateway
  BY <1>1 DEF Synced, AtGateway
<1>7. /\ \A c \in {AtGateway, stored} : c.id = 0 => c = Nothing
      /\ Mine.id = 0 => Mine = Nothing
  BY PlanIs DEF CopiesWell, Placed, MineWell
<1>8. /\ GatewayWell(AtGateway, stored, Nothing, {}, Mine, Idle)
      /\ LossWell(AtGateway, stored, Nothing, {}, Mine, Idle, open, history, ids, waived)
      /\ StartWell(AtGateway, stored, Nothing, {}, Mine, running, asked)
  BY <1>3, <1>4, <1>6, <1>7, PlanIs, ExpiryPlaces
<1> DEFINE all == {AtGateway, stored, shown} \union Waiting
           some == {AtGateway, stored, Nothing} \union {}
<1>9. some \subseteq all \union {Nothing} /\ all \in SUBSET PlanCopy
  BY <1>3, <1>4
<1>10. CopiesWell(all, Mine, open, history, ids, waived) /\ RowWell(all, stored, Mine, Idle)
  BY PlanIs
<1> HIDE DEF all, some
<1>11. CopiesWell(some, Mine, open, history, ids, waived)
  BY <1>3, <1>9, <1>10, PlanIs, NothingJoins
<1>12. RowWell(some, stored, Mine, Idle)
  BY <1>9, <1>10, RowFewer, NothingIs
<1>13. PlanInv'
  BY <1>1, <1>2, <1>4, <1>5, <1>8, <1>11, <1>12, PlanIs, PlanNextIs DEF some
<1>14. PlanMoves
  <2>1. \A c \in {AtGateway, stored, Mine} : Newer(c, c)
    BY <1>3, NewerOrder
  <2>2. Newer(AtGateway, shown)
    BY <1>3, <1>6, PickIs
  <2> QED  BY <1>1, <1>2, <1>4, <1>5, <2>1, <2>2, PlanShuffles
<1> QED  BY <1>13, <1>14

\* The robot stops, or the owner changes the settings.
LEMMA RestKeeps ==
    ASSUME PlanInv, ChangeSettings \/ RobotStops \/ UNCHANGED planVars
    PROVE  PlanInv' /\ PlanMoves
<1>1. /\ UNCHANGED <<memory, stored, shown, queue, asked, open, history, ids, waived>>
      /\ running' => running
  BY DEF ChangeSettings, RobotStops, planVars, Turn
<1>2. StakeInv /\ StakeInv'
  BY PlanIs, RestStep
<1>3. /\ AtGateway \in PlanCopy /\ stored \in PlanCopy /\ shown \in PlanCopy /\ Mine \in PlanCopy
      /\ Waiting \in SUBSET PlanCopy
  BY <1>2, SoundIs
<1>4. Waiting' = Waiting /\ Idle' = Idle /\ AtGateway' = AtGateway /\ Mine' = Mine
  BY <1>1 DEF Waiting, Idle, AtGateway, Mine
<1>5. StartWell(AtGateway, stored, shown, Waiting, Mine, running', asked')
  BY <1>1, PlanIs DEF StartWell
<1>6. PlanInv'
  BY <1>1, <1>2, <1>4, <1>5, PlanIs, PlanNextIs
<1>7. PlanMoves
  <2>1. \A c \in {AtGateway, stored, shown, Mine} \union Waiting : Newer(c, c)
    BY <1>3, NewerOrder
  <2> QED  BY <1>1, <1>2, <1>4, <2>1, PlanShuffles
<1> QED  BY <1>6, <1>7

-----------------------------------------------------------------------------
(* The restart of the gateway.                                             *)

\* A leader that is ended gives way to one that has every result.
LEMMA FromEnded ==
    ASSUME NEW f \in PlanCopy, NEW n \in PlanCopy, NEW mine, NEW O \in SUBSET Orders, NEW H \in SUBSET Trades,
           Freshest = f, Freshest' = n, waived' = waived, f.id = n.id, f.terms = n.terms,
           ~Active(f), ~Active(n), Full(f, O, H) \/ Half(f, O, H), Counts(f, mine, O, H),
           Full(n, O, H), n.won = mine.won, n.lost = mine.lost
    PROVE  PlanMoves
<1>1. CASE Full(f, O, H)
  <2>1. f.booked = n.booked /\ f.pending = n.pending
    BY <1>1, FullAgree
  <2>2. f.won = n.won /\ f.lost = n.lost
    BY <1>1 DEF Counts
  <2>3. AsPlan(n) = AsPlan(f)
    BY <2>1, <2>2, SameParts
  <2> QED  BY <2>3, PlanStays
<1>2. CASE Half(f, O, H)
  <2>1. n.pending = 0
    BY <1>2, NotBoth
  <2>2. PICK h \in H : h.id = f.id /\ h.order = f.pending
    BY <1>2 DEF Half, Told
  <2>3. h.result \in Results /\ f.pending \in Order
    BY <2>2 DEF Trades
  <2>4. f.pending \notin f.booked /\ n.booked = f.booked \union {f.pending}
    BY <1>2 DEF Half, Full
  <2>5. /\ n.won = IF h.result = "WIN" THEN f.won + 1 ELSE f.won
        /\ n.lost = IF h.result = "LOSS" THEN f.lost + 1 ELSE f.lost
    BY <1>2, <2>2 DEF Counts
  <2> QED  BY <2>1, <2>3, <2>4, <2>5, PlanBooks
<1> QED  BY <1>1, <1>2

\* What leads once the gateway has its copy from the row, if a copy that led is left.
LEMMA ReloadKept ==
    ASSUME NEW g, NEW s, NEW w, NEW mine, NEW idle \in BOOLEAN, NEW O, NEW H,
           NEW top, NEW gone \in BOOLEAN, NEW on, NEW starts,
           Sound(g, s, w, {}, mine, idle, O, H, top),
           Arranged(g, s, w, {}, mine, idle, O, H, top, gone, on, starts),
           NEW r, r = Repair(s, H),
           NEW A, A = {g, s, w} \union {mine}, NEW B, B = {r, s, w} \union {mine},
           NEW f \in PlanCopy, Freshest = f, Leads(f, A), Leads(mine, A) => f = mine,
           NEW h \in PlanCopy, Freshest' = h, Leads(h, B), Leads(mine, B) => h = mine,
           waived' = waived, waived \in BOOLEAN,
           \E c \in {s, w, mine} : Leads(c, A)
    PROVE  PlanMoves
<1> DEFINE all == {g, s, w} \union {}
           C == {s, w, mine}
<1>1. /\ g \in PlanCopy /\ s \in PlanCopy /\ w \in PlanCopy /\ mine \in PlanCopy
      /\ O \in SUBSET Orders /\ H \in SUBSET Trades /\ all \in SUBSET PlanCopy
      /\ CopiesFollow(all, mine, s, top) /\ CopiesWell(all, mine, O, H, top, gone)
      /\ MineWell(mine, O, H)
  BY DEF Sound, Arranged, KnownWell, PlacesWell
<1>2. /\ r \in PlanCopy /\ r.id = s.id /\ r.terms = s.terms
      /\ \/ r = s
         \/ r = mine /\ Active(s) /\ ~idle
         \/ s.id < mine.id /\ ~idle /\ r.rev = s.rev + 1 /\ s.id # 0
         \/ /\ Ended(s, mine) /\ Half(s, O, H) /\ Full(r, O, H)
            /\ r.pending = 0 /\ ~Active(r) /\ r.rev = s.rev + 1
            /\ r.won = mine.won /\ r.lost = mine.lost
  <2>1. Sound(g, s, w, {}, mine, idle, O, H, top) /\ CopiesWell({g, s, w} \union {}, mine, O, H, top, gone)
    BY <1>1
  <2> QED  BY <1>1, <2>1, RowCompleted
<1>3. /\ s.id \in Nat /\ w.id \in Nat /\ mine.id \in Nat /\ f.id \in Nat /\ h.id \in Nat /\ r.id \in Nat
      /\ s.rev \in Nat /\ mine.rev \in Nat /\ r.rev \in Nat
  BY <1>1, <1>2, FieldsOf
<1>4. A = all \union {mine} /\ C \subseteq A /\ C \subseteq B /\ B \subseteq PlanCopy
  BY <1>1, <1>2
<1> HIDE DEF C
<1>5. ASSUME h \in C PROVE PlanMoves
  <2>1. Leads(h, C)
    BY <1>4, <1>5 DEF Leads
  <2>2. ASSUME Leads(mine, C) PROVE h = mine
    <3>1. Newer(mine, h)
      BY <1>5, <2>2 DEF Leads
    <3>2. \A c \in B : Newer(mine, c)
      BY <1>1, <1>4, <3>1, NewerOrder DEF Leads
    <3>3. mine \in B
      OBVIOUS
    <3> QED  BY <3>2, <3>3 DEF Leads
  <2>3. \E c \in C : Leads(c, A)
    BY DEF C
  <2>4. mine \in C
    BY DEF C
  <2> HIDE DEF all
  <2>5. AsPlan(f) = AsPlan(h)
    BY <1>1, <1>4, <2>1, <2>2, <2>3, <2>4, Shuffle
  <2> QED  BY <2>5, PlanStays
<1>6. ASSUME h \notin C PROVE PlanMoves
  <2>1. h = r /\ r # s /\ r # mine
    BY <1>6 DEF Leads, C
  <2>2. Newer(r, mine) /\ Newer(r, s) /\ Newer(r, w)
    BY <2>1 DEF Leads
  <2>3. /\ Ended(s, mine) /\ Half(s, O, H) /\ Full(r, O, H)
        /\ r.pending = 0 /\ ~Active(r) /\ r.rev = s.rev + 1
        /\ r.won = mine.won /\ r.lost = mine.lost
    BY <1>2, <1>3, <2>1, <2>2 DEF Newer
  <2>4. r.id = mine.id
    BY <1>2, <2>3 DEF Ended
  <2>5. PICK c \in {s, w, mine} : Leads(c, A)
    OBVIOUS
  <2>6. f.id = mine.id
    <3>1. c.id <= mine.id
      BY <1>3, <2>2, <2>4, <2>5 DEF Newer
    <3>2. Newer(c, f) /\ Newer(f, mine)
      BY <2>5 DEF Leads
    <3>3. c.id \in Nat
      BY <1>3, <2>5
    <3> QED  BY <1>3, <3>1, <3>2, <3>3 DEF Newer
  <2>7. s.terms = mine.terms
    BY <1>1, <2>3 DEF CopiesWell, Placed, Ended
  <2>8. CASE f = mine /\ Active(mine)
    <3>1. r.booked = mine.booked /\ r.pending = mine.pending
      BY <1>1, <1>2, <2>3, <2>4, FullAgree DEF MineWell
    <3>2. waived' = (waived \/ mine.pending # 0)
      BY <2>3, <3>1
    <3> QED  BY <1>1, <1>2, <2>1, <2>3, <2>4, <2>7, <2>8, <3>1, <3>2, PlanEnds
  <2>9. CASE f = mine /\ ~Active(mine)
    <3>1. Full(mine, O, H) /\ Counts(mine, mine, O, H)
      <4>1. Full(mine, O, H)
        BY <1>1 DEF MineWell
      <4>2. ~Half(mine, O, H)
        BY <1>1, <4>1, NotBoth
      <4> QED  BY <4>1, <4>2 DEF Counts
    <3> QED  BY <1>1, <1>2, <2>1, <2>3, <2>4, <2>7, <2>9, <3>1, FromEnded
  <2>10. CASE f # mine
    <3>1. f \in all /\ Newer(f, mine)
      BY <2>10 DEF Leads
    <3>2. Ended(f, mine)
      BY <1>1, <2>6, <2>10, <3>1, LeaderEnded
    <3>3. EndedWell(f, mine, O, H, top, gone) /\ f.terms = mine.terms
      BY <1>1, <2>6, <3>1, <3>2 DEF CopiesWell, Placed
    <3> QED  BY <1>1, <1>2, <2>1, <2>3, <2>4, <2>6, <2>7, <3>2, <3>3, FromEnded DEF EndedWell, Ended
  <2> QED  BY <2>8, <2>9, <2>10
<1> QED  BY <1>5, <1>6

\* What leads then, if the only copy that led was the gateway's.
LEMMA ReloadLost ==
    ASSUME NEW g, NEW s, NEW w, NEW mine, NEW idle \in BOOLEAN, NEW O, NEW H,
           NEW top, NEW gone \in BOOLEAN, NEW on, NEW starts,
           Sound(g, s, w, {}, mine, idle, O, H, top),
           Arranged(g, s, w, {}, mine, idle, O, H, top, gone, on, starts),
           NEW r, r = Repair(s, H),
           NEW A, A = {g, s, w} \union {mine}, NEW B, B = {r, s, w} \union {mine},
           NEW f \in PlanCopy, Freshest = f, Leads(f, A), Leads(mine, A) => f = mine,
           NEW h \in PlanCopy, Freshest' = h, Leads(h, B), Leads(mine, B) => h = mine,
           waived' = waived, waived = gone,
           ~\E c \in {s, w, mine} : Leads(c, A)
    PROVE  PlanMoves
<1> DEFINE all == {g, s, w} \union {}
<1>1. /\ g \in PlanCopy /\ s \in PlanCopy /\ w \in PlanCopy /\ mine \in PlanCopy
      /\ O \in SUBSET Orders /\ H \in SUBSET Trades /\ all \in SUBSET PlanCopy
      /\ CopiesFollow(all, mine, s, top) /\ CopiesWell(all, mine, O, H, top, gone)
      /\ MineWell(mine, O, H) /\ LossWell(g, s, w, {}, mine, idle, O, H, top, gone)
      /\ LastWell(s, {}, mine, top, gone)
  BY DEF Sound, Arranged, KnownWell, PlacesWell
<1>2. /\ r \in PlanCopy /\ r.id = s.id
      /\ \/ r = s
         \/ r = mine /\ Active(s) /\ ~idle
         \/ s.id < mine.id /\ ~idle /\ r.rev = s.rev + 1 /\ s.id # 0
         \/ /\ Ended(s, mine) /\ Half(s, O, H) /\ Full(r, O, H)
            /\ r.pending = 0 /\ ~Active(r) /\ r.rev = s.rev + 1
            /\ r.won = mine.won /\ r.lost = mine.lost
  <2>1. Sound(g, s, w, {}, mine, idle, O, H, top) /\ CopiesWell({g, s, w} \union {}, mine, O, H, top, gone)
    BY <1>1
  <2> QED  BY <1>1, <2>1, RowCompleted
<1>3. /\ s.id \in Nat /\ w.id \in Nat /\ mine.id \in Nat /\ g.id \in Nat /\ h.id \in Nat /\ r.id \in Nat
      /\ s.rev \in Nat /\ mine.rev \in Nat /\ r.rev \in Nat /\ h.rev \in Nat /\ w.rev \in Nat
  BY <1>1, <1>2, FieldsOf
<1>4. f = g
  BY DEF Leads
<1>5. \A c \in {s, w, mine} : Newer(g, c) /\ ~Newer(c, g)
  <2>1. ASSUME NEW c \in {s, w, mine}, Newer(c, g) PROVE FALSE
    <3>1. \A d \in A : Newer(c, d)
      BY <1>1, <1>4, <2>1, NewerOrder DEF Leads
    <3> QED  BY <3>1 DEF Leads
  <2> QED  BY <1>4, <2>1 DEF Leads
<1>6. Completed(g, mine, O, H, top, gone)
  <2>1. ~Newer(s, g) /\ ~Newer(mine, g)
    BY <1>5
  <2>2. ~Safe(g, s, {}, mine, idle)
    BY <2>1 DEF Safe
  <2>3. Safe(g, s, {}, mine, idle) \/ Completed(g, mine, O, H, top, gone)
    BY <1>1 DEF LossWell
  <2> QED  BY <2>2, <2>3
<1>7. /\ Ended(g, mine) /\ Full(g, O, H) /\ g.pending = 0 /\ g.terms = mine.terms
      /\ g.won = mine.won /\ g.lost = mine.lost
  <2>1. Ended(g, mine) /\ Full(g, O, H) /\ g.pending = 0
    BY <1>6 DEF Completed
  <2>2. EndedWell(g, mine, O, H, top, gone) /\ g.terms = mine.terms
    BY <1>1, <2>1 DEF CopiesWell, Placed, Ended
  <2> QED  BY <2>1, <2>2 DEF EndedWell, Counts
<1>8. s.id <= mine.id /\ w.id <= mine.id /\ r.id <= mine.id /\ g.id = mine.id
  BY <1>2, <1>3, <1>5, <1>7 DEF Newer, Ended
<1>9. Newer(h, mine) /\ Newer(h, s) /\ Newer(h, r) /\ h \in {r, s, w, mine}
  BY DEF Leads
<1>10. h.id = mine.id
  BY <1>3, <1>8, <1>9 DEF Newer
<1>11. Full(mine, O, H) /\ mine.booked = g.booked /\ mine.pending = 0
  <2>1. Full(mine, O, H)
    BY <1>1 DEF MineWell
  <2> QED  BY <1>1, <1>7, <1>8, <2>1, FullAgree
<1>12. CASE h = mine /\ Active(mine)
  <2>1. top = mine.id
    <3>1. mine.id <= top /\ top \in Nat
      BY DEF Sound, CopiesFollow
    <3>2. top = mine.id \/ top = s.id
      BY <1>1 DEF LastWell
    <3> QED  BY <1>3, <1>8, <3>1, <3>2
  <2>2. waived
    BY <1>6, <2>1 DEF Completed
  <2>3. mine.won < W /\ mine.lost <= N - W
    BY <1>1, <1>12 DEF MineWell
  <2> QED  BY <1>1, <1>4, <1>7, <1>8, <1>11, <1>12, <2>2, <2>3, PlanReturns DEF Ended
<1>13. CASE h = mine /\ ~Active(mine)
  <2>1. AsPlan(h) = AsPlan(f)
    BY <1>4, <1>7, <1>8, <1>11, <1>13, SameParts DEF Ended
  <2> QED  BY <2>1, PlanStays
<1>14. ASSUME h # mine PROVE PlanMoves
  <2>1. ASSUME h = r, r # s PROVE PlanMoves
    <3>1. Full(r, O, H) /\ ~Active(r) /\ r.won = mine.won /\ r.lost = mine.lost /\ Ended(s, mine)
      BY <1>2, <1>3, <1>10, <1>14, <2>1
    <3>2. r.terms = g.terms
      <4>1. r.terms = s.terms
        BY <1>1, RepairTerms
      <4>2. s.terms = mine.terms
        BY <1>1, <3>1 DEF CopiesWell, Placed, Ended
      <4> QED  BY <1>7, <4>1, <4>2
    <3>3. r.booked = g.booked /\ r.pending = g.pending
      BY <1>1, <1>2, <1>7, <1>8, <1>10, <2>1, <3>1, FullAgree
    <3>4. AsPlan(h) = AsPlan(f)
      BY <1>4, <1>7, <1>8, <1>10, <2>1, <3>1, <3>2, <3>3, SameParts DEF Ended
    <3> QED  BY <3>4, PlanStays
  <2>2. ASSUME h \in {s, w} PROVE PlanMoves
    <3>1. h \in all
      BY <2>2
    <3>2. Ended(h, mine)
      BY <1>1, <1>9, <1>10, <1>14, <3>1, LeaderEnded
    <3>3. EndedWell(h, mine, O, H, top, gone) /\ h.terms = mine.terms
      BY <1>1, <1>10, <3>1, <3>2 DEF CopiesWell, Placed
    <3>4. ~Half(h, O, H)
      <4> SUFFICES ASSUME Half(h, O, H) PROVE FALSE
        OBVIOUS
      <4>1. h.rev <= mine.rev
        BY <3>3 DEF EndedWell
      <4>2. Active(mine) /\ h.rev = mine.rev
        <5>1. h.rev >= mine.rev
          BY <1>3, <1>9, <1>10 DEF Newer
        <5>2. ASSUME ~Active(mine) PROVE FALSE
          <6>1. Newer(mine, h)
            BY <1>3, <1>10, <4>1, <5>1, <5>2 DEF Newer
          <6>2. Leads(mine, B)
            <7>1. B \subseteq PlanCopy /\ mine \in B
              BY <1>1, <1>2
            <7>2. \A c \in B : Newer(mine, c)
              BY <1>1, <6>1, <7>1, NewerOrder DEF Leads
            <7> QED  BY <7>1, <7>2 DEF Leads
          <6> QED  BY <1>14, <6>2
        <5> QED  BY <1>3, <4>1, <5>1, <5>2
      <4>3. Newer(s, h)
        <5>1. Safe(w, s, {}, mine, idle)
          BY <1>1 DEF LossWell
        <5>2. ~Newer(mine, h)
          BY <1>3, <1>10, <3>2, <4>2 DEF Newer, Ended
        <5> QED  BY <1>1, <2>2, <5>1, <5>2, NewerOrder DEF Safe
      <4>4. s.id = mine.id /\ s.rev = h.rev /\ ~Active(s)
        BY <1>3, <1>8, <1>9, <1>10, <3>2, <4>3 DEF Newer, Ended
      <4>5. Ended(s, mine)
        BY <4>4 DEF Ended
      <4>6. EndedWell(s, mine, O, H, top, gone)
        BY <1>1, <4>5 DEF CopiesWell, Placed
      <4>7. ~Half(s, O, H)
        <5>1. ASSUME Half(s, O, H) PROVE FALSE
          <6>1. r.rev = s.rev + 1 /\ r.id = s.id
            BY <1>1, <5>1, RepairHalf
          <6> QED  BY <1>3, <1>9, <1>10, <4>4, <6>1 DEF Newer
        <5> QED  BY <5>1
      <4>8. Full(s, O, H)
        BY <4>6, <4>7 DEF EndedWell
      <4>9. h.rev < s.rev
        <5>1. Paired(h, s, mine, O, H)
          BY <1>1, <3>1 DEF CopiesWell
        <5> QED  BY <3>2, <4>2, <4>5, <4>8, <5>1 DEF Paired
      <4> QED  BY <1>3, <4>4, <4>9
    <3>5. Full(h, O, H) /\ h.won = mine.won /\ h.lost = mine.lost
      BY <3>3, <3>4 DEF EndedWell, Counts
    <3>6. h.booked = g.booked /\ h.pending = g.pending
      BY <1>1, <1>7, <1>8, <1>10, <3>5, FullAgree
    <3>7. AsPlan(h) = AsPlan(f)
      BY <1>4, <1>7, <1>8, <1>10, <3>2, <3>3, <3>5, <3>6, SameParts DEF Ended
    <3> QED  BY <3>7, PlanStays
  <2> QED  BY <1>9, <1>14, <2>1, <2>2
<1> QED  BY <1>12, <1>13, <1>14

\* The gateway restarts.
LEMMA ReloadKeeps ==
    ASSUME PlanInv, GatewayReloads
    PROVE  PlanInv' /\ PlanMoves
<1> DEFINE r == Repair(stored, history)
<1>1. /\ queue["gateway"] = <<>> /\ Holds("gateway", r)
      /\ UNCHANGED <<stored, shown, queue, terms, running, asked, open, history, ids, waived>>
  BY RepairedIs DEF GatewayReloads, Turn
<1>2. StakeInv /\ StakeInv'
  BY PlanIs, ReloadStep
<1>3. /\ AtGateway \in PlanCopy /\ stored \in PlanCopy /\ shown \in PlanCopy /\ Mine \in PlanCopy
      /\ history \in SUBSET Trades /\ Idle \in BOOLEAN /\ waived \in BOOLEAN
  BY <1>2, PlanIs, SoundIs
<1>4. r \in PlanCopy
  BY <1>3, RepairOf
<1>0. r = Repair(stored, history)
  OBVIOUS
<1> HIDE DEF r
<1>5. AtGateway' = r /\ Mine' = Mine
  BY <1>1, <1>2, <1>4, GatewayTakes DEF AtGateway
<1>6. Waiting = {} /\ Waiting' = {} /\ Idle' = Idle
  BY <1>1, <1>3, OneWrite DEF Waiting, Idle
<1>7. /\ Sound(AtGateway, stored, shown, {}, Mine, Idle, open, history, ids)
      /\ Arranged(AtGateway, stored, shown, {}, Mine, Idle, open, history, ids, waived,
                  running, asked)
  BY <1>6, PlanIs
<1>8. /\ GatewayWell(r, stored, shown, {}, Mine, Idle)
      /\ LossWell(r, stored, shown, {}, Mine, Idle, open, history, ids, waived)
      /\ StartWell(r, stored, shown, {}, Mine, running, asked)
      /\ LastWell(stored, {}, Mine, ids, waived)
  BY <1>0, <1>3, <1>7, ReloadPlaces
<1>9. /\ CopiesWell({r, stored, shown} \union {}, Mine, open, history, ids, waived)
      /\ RowWell({r, stored, shown} \union {}, stored, Mine, Idle)
  BY <1>0, <1>3, <1>7, ReloadWell
<1>10. PlanInv'
  BY <1>1, <1>2, <1>3, <1>5, <1>6, <1>8, <1>9, PlanIs, PlanNextIs
<1>11. PlanMoves
  <2> DEFINE A == {AtGateway, stored, shown} \union {Mine}
             B == {r, stored, shown} \union {Mine}
  <2>1. /\ Leads(Freshest, A) /\ Freshest \in PlanCopy /\ (Leads(Mine, A) => Freshest = Mine)
        /\ Leads(Freshest', B) /\ Freshest' \in PlanCopy /\ (Leads(Mine, B) => Freshest' = Mine)
    <3>1. {AtGateway, stored, shown} \union {} \union {Mine} = A /\ {r, stored, shown} \union {} \union {Mine} = B
      OBVIOUS
    <3>2. stored' = stored /\ shown' = shown
      BY <1>1
    <3> QED  BY <1>2, <1>5, <1>6, <3>1, <3>2, Tops
  <2>2. PICK f \in PlanCopy, h \in PlanCopy : f = Freshest /\ h = Freshest'
    BY <2>1
  <2>3. PICK a, b : a = A /\ b = B
    OBVIOUS
  <2>4. waived' = waived
    BY <1>1
  <2>5. CASE \E c \in {stored, shown, Mine} : Leads(c, A)
    BY <1>0, <1>3, <1>7, <2>1, <2>2, <2>3, <2>4, <2>5, ReloadKept
  <2>6. CASE ~\E c \in {stored, shown, Mine} : Leads(c, A)
    BY <1>0, <1>3, <1>7, <2>1, <2>2, <2>3, <2>4, <2>6, ReloadLost
  <2> QED  BY <2>5, <2>6
<1> QED  BY <1>10, <1>11

-----------------------------------------------------------------------------
(* The owner's steps.                                                      *)

\* A leader that all others are behind.
LEMMA TopIs ==
    ASSUME NEW all, NEW h, Leads(h, all), NEW n \in all, \A c \in all : c = n \/ ~Newer(c, n)
    PROVE  h = n
BY DEF Leads

\* A plan with results that leads in use is the runtime's, and the gateway has it.
LEMMA OwnTop ==
    ASSUME NEW g, NEW s, NEW w, NEW Q, NEW mine, NEW idle \in BOOLEAN, NEW O, NEW H,
           NEW top, NEW gone, NEW on, NEW starts,
           Sound(g, s, w, Q, mine, idle, O, H, top),
           Arranged(g, s, w, Q, mine, idle, O, H, top, gone, on, starts),
           NEW A, A = {g, s, w} \union Q \union {mine},
           NEW f \in PlanCopy, Leads(f, A), Active(f), f.booked # {} \/ f = mine,
           NEW p, p = PickFreshest(g, w)
    PROVE  f = mine /\ p = mine
<1> DEFINE all == {g, s, w} \union Q
<1>1. /\ g \in PlanCopy /\ s \in PlanCopy /\ w \in PlanCopy /\ mine \in PlanCopy /\ all \in SUBSET PlanCopy
      /\ CopiesFollow(all, mine, s, top) /\ GatewayWell(g, s, w, Q, mine, idle)
  BY DEF Sound, Arranged, KnownWell, PlacesWell
<1>2. /\ s.id \in Nat /\ s.rev \in Nat /\ mine.id \in Nat /\ mine.rev \in Nat /\ f.id \in Nat
  BY <1>1, FieldsOf
<1>3. f = mine
  <2> SUFFICES ASSUME f # mine PROVE FALSE
    OBVIOUS
  <2>1. f \in all /\ Newer(f, mine) /\ f.booked # {}
    BY DEF Leads
  <2>2. f.id = mine.id
    BY <1>1, <1>2, <2>1 DEF CopiesFollow, Fresh, Newer
  <2>3. Ended(f, mine)
    BY <1>1, <2>1, <2>2, LeaderEnded
  <2> QED  BY <2>3 DEF Ended
<1>4. p \in {g, w} /\ p \in PlanCopy /\ Newer(p, w)
  BY <1>1, PickIs
<1>5. Newer(p, mine)
  <2>1. CASE idle
    <3>1. Newer(mine, s)
      BY <1>3 DEF Leads
    <3>2. RowSettled(mine, s)
      BY <2>1 DEF Sound
    <3>3. s = mine
      BY <1>2, <1>3, <3>1, <3>2 DEF Newer, RowSettled, Yields
    <3>4. Meets(p, s)
      BY <1>1 DEF GatewayWell
    <3> QED  BY <1>3, <3>3, <3>4 DEF Meets
  <2>2. CASE ~idle
    <3>1. Newer(w, mine)
      BY <1>1, <2>2 DEF GatewayWell
    <3> QED  BY <1>1, <1>4, <3>1, NewerOrder
  <2>3. idle \/ ~idle
    OBVIOUS
  <2> QED  BY <2>1, <2>2, <2>3, Zenon
<1>6. p = mine
  <2> SUFFICES ASSUME p # mine PROVE FALSE
    OBVIOUS
  <2>1. p \in all /\ Newer(mine, p)
    BY <1>3, <1>4 DEF Leads
  <2>2. p.id = mine.id /\ (Active(p) <=> Active(mine))
    BY <1>1, <1>4, <1>5, <2>1, LeadTogether
  <2>3. Ended(p, mine)
    BY <1>1, <1>5, <2>1, <2>2, LeaderEnded
  <2> QED  BY <1>3, <2>2, <2>3 DEF Ended
<1> QED  BY <1>3, <1>6

\* The plan that is ended leads.
LEMMA EndedTop ==
    ASSUME NEW g, NEW s, NEW w, NEW Q, NEW mine, NEW idle \in BOOLEAN, NEW O, NEW H,
           NEW top, NEW gone, NEW on, NEW starts,
           Sound(g, s, w, Q, mine, idle, O, H, top),
           Arranged(g, s, w, Q, mine, idle, O, H, top, gone, on, starts), Q = {},
           NEW A, A = {g, s, w} \union Q \union {mine},
           NEW f \in PlanCopy, Leads(f, A), Leads(mine, A) => f = mine,
           NEW p, p = PickFreshest(g, w), Active(p), p.id = mine.id => p = mine
    PROVE  f = p /\ p \in PlanCopy /\ Newer(p, s) /\ Newer(p, mine)
<1> DEFINE all == {g, s, w} \union Q
<1>1. /\ g \in PlanCopy /\ s \in PlanCopy /\ w \in PlanCopy /\ mine \in PlanCopy /\ all \in SUBSET PlanCopy
      /\ CopiesFollow(all, mine, s, top) /\ GatewayWell(g, s, w, Q, mine, idle)
  BY DEF Sound, Arranged, KnownWell, PlacesWell
<1>2. p \in {g, w} /\ p \in PlanCopy /\ Newer(p, w) /\ Newer(p, g)
  BY <1>1, PickIs
<1>3. /\ s.id \in Nat /\ s.rev \in Nat /\ mine.id \in Nat /\ mine.rev \in Nat /\ p.id \in Nat
  BY <1>1, <1>2, FieldsOf
<1>4. Newer(p, s)
  BY <1>1 DEF GatewayWell, Meets
<1>5. Newer(p, mine)
  <2>1. CASE idle
    <3>1. RowSettled(mine, s)
      BY <2>1 DEF Sound
    <3>2. s.id >= mine.id
      BY <1>3, <3>1 DEF RowSettled
    <3>3. p.id >= mine.id
      BY <1>3, <1>4, <3>2 DEF Newer
    <3> QED  BY <1>1, <1>3, <3>3, NewerOrder DEF Newer
  <2>2. CASE ~idle
    <3>1. Newer(w, mine)
      BY <1>1, <2>2 DEF GatewayWell
    <3> QED  BY <1>1, <1>2, <3>1, NewerOrder
  <2>3. idle \/ ~idle
    OBVIOUS
  <2> QED  BY <2>1, <2>2, <2>3, Zenon
<1>6. Leads(p, A)
  BY <1>2, <1>4, <1>5 DEF Leads
<1>7. Newer(f, p) /\ Newer(p, f)
  BY <1>6 DEF Leads
<1>8. f.id = p.id /\ f.rev = p.rev /\ Active(f)
  BY <1>2, <1>7, LeadTogether
<1>9. ASSUME p.id = mine.id PROVE f = p
  <2>1. p = mine
    BY <1>9
  <2>2. Leads(mine, A)
    BY <1>6, <2>1
  <2> QED  BY <2>1, <2>2
<1>10. ASSUME p.id # mine.id PROVE f = p
  <2>1. f \in all /\ p \in all /\ p.id > mine.id
    BY <1>2, <1>3, <1>5, <1>8, <1>10 DEF Leads, Newer
  <2>2. Agree(f, p, mine)
    BY <1>1, <2>1 DEF CopiesFollow
  <2> QED  BY <1>2, <1>4, <1>5, <1>8, <2>1, <2>2 DEF Agree
<1> QED  BY <1>2, <1>4, <1>5, <1>9, <1>10

\* A start: a plan goes on or is opened.
LEMMA StartKeeps ==
    ASSUME PlanInv, PlanStarts
    PROVE  PlanInv' /\ PlanMoves
<1> DEFINE p == PickFreshest(AtGateway, shown)
           n == NewCycle(ids + 1)
<1>1. /\ ~running /\ ~asked /\ Calm("gateway") /\ asked'
      /\ shown' = memory'["gateway"] /\ SaveLater("gateway", memory'["gateway"])
      /\ UNCHANGED <<stored, terms, running, open, history, turns>>
  BY DEF PlanStarts
<1>2. \/ Active(p) /\ Holds("gateway", p) /\ ids' = ids /\ waived' = waived
      \/ /\ \E overdue \in BOOLEAN : ~GoesOn(p, overdue)
         /\ Holds("gateway", n) /\ ids' = ids + 1 /\ waived' = FALSE
  BY DEF PlanStarts, GoesOn, Synced, Opens, AtGateway
<1>3. StakeInv /\ StakeInv'
  BY PlanIs, StartStep
<1>4. /\ AtGateway \in PlanCopy /\ stored \in PlanCopy /\ shown \in PlanCopy /\ Mine \in PlanCopy
      /\ ids \in Nat /\ Idle \in BOOLEAN /\ waived \in BOOLEAN /\ terms \in Terms
  BY <1>3, PlanIs, SoundIs DEF StakeInv, PlanTypes
<1>5. Waiting = {}
  BY <1>1, <1>3, <1>4, Parties, ShortQueue, OneWrite DEF Calm, Waiting
<1>6. /\ Sound(AtGateway, stored, shown, {}, Mine, Idle, open, history, ids)
      /\ Arranged(AtGateway, stored, shown, {}, Mine, Idle, open, history, ids, waived,
                  running, asked)
      /\ GatewayWell(AtGateway, stored, shown, {}, Mine, Idle)
      /\ LossWell(AtGateway, stored, shown, {}, Mine, Idle, open, history, ids, waived)
      /\ StartWell(AtGateway, stored, shown, {}, Mine, running, asked)
      /\ LastWell(stored, {}, Mine, ids, waived)
  BY <1>5, PlanIs
<1>7. p \in {AtGateway, shown} /\ p \in PlanCopy /\ Newer(p, AtGateway) /\ Newer(p, shown)
  BY <1>4, PickIs
<1>8. n \in PlanCopy /\ n.id = ids + 1 /\ Active(n) /\ n.booked = {} /\ n.pending = 0
  BY <1>4, NewOf
<1>9. n.terms = terms /\ n.won = 0 /\ n.lost = 0
  BY NewMore
<1>0. p = PickFreshest(AtGateway, shown)
  OBVIOUS
<1> HIDE DEF p, n
<1>10. ASSUME NEW c \in PlanCopy, Holds("gateway", c)
       PROVE  /\ AtGateway' = c /\ shown' = c /\ Waiting' = {c} /\ Mine' = Mine
              /\ (Idle' <=> Idle) /\ stored' = stored
  <2>1. memory'["gateway"] = c /\ Mine' = Mine
    BY <1>3, <1>10, GatewayTakes
  <2> QED  BY <1>1, <1>3, <2>1, GatewaySaves DEF AtGateway, Waiting, Idle
<1>11. ASSUME Active(p), Holds("gateway", p), ids' = ids, waived' = waived PROVE PlanInv' /\ PlanMoves
  <2>1. /\ AtGateway' = p /\ shown' = p /\ Waiting' = {p} /\ Mine' = Mine
        /\ (Idle' <=> Idle) /\ stored' = stored
    BY <1>7, <1>10, <1>11
  <2>2. /\ GatewayWell(p, stored, p, {p}, Mine, Idle)
        /\ LossWell(p, stored, p, {p}, Mine, Idle, open, history, ids, waived)
        /\ StartWell(p, stored, p, {p}, Mine, running, asked')
        /\ LastWell(stored, {p}, Mine, ids, waived)
    <3>1. PICK b : b = asked'
      OBVIOUS
    <3>2. ~running
      BY <1>1
    <3>3. /\ GatewayWell(p, stored, p, {p}, Mine, Idle)
          /\ LossWell(p, stored, p, {p}, Mine, Idle, open, history, ids, waived)
          /\ StartWell(p, stored, p, {p}, Mine, running, b)
          /\ LastWell(stored, {p}, Mine, ids, waived)
      BY <1>0, <1>4, <1>6, <1>11, <3>2, GoesOnPlaces
    <3> QED  BY <3>1, <3>3
  <2>3. {p, stored, p} \union {p} \subseteq {AtGateway, stored, shown} \union Waiting
    BY <1>7
  <2>4. /\ CopiesWell({p, stored, p} \union {p}, Mine, open, history, ids, waived)
        /\ RowWell({p, stored, p} \union {p}, stored, Mine, Idle)
    BY <2>3, PlanIs DEF CopiesWell, RowWell
  <2>5. PlanInv'
    BY <1>1, <1>3, <1>4, <1>11, <2>1, <2>2, <2>4, PlanIs, PlanNextIs
  <2>6. PlanMoves
    <3>1. \A c \in {stored, Mine} : Newer(c, c)
      BY <1>4, NewerOrder
    <3> QED  BY <1>3, <1>5, <1>7, <1>11, <2>1, <2>3, <3>1, PlanShuffles
  <2> QED  BY <2>5, <2>6
<1>12. ASSUME NEW overdue \in BOOLEAN, ~GoesOn(p, overdue),
              Holds("gateway", n), ids' = ids + 1, waived' = FALSE
       PROVE  PlanInv' /\ PlanMoves
  <2>1. /\ AtGateway' = n /\ shown' = n /\ Waiting' = {n} /\ Mine' = Mine
        /\ (Idle' <=> Idle) /\ stored' = stored
    BY <1>8, <1>10, <1>12
  <2>2. Mine.id <= ids /\ stored.id <= ids /\ AtGateway.id <= ids /\ shown.id <= ids
    BY PlanIs DEF CopiesFollow
  <2>3. PICK now \in BOOLEAN : now = FALSE
    OBVIOUS
  <2>4. /\ GatewayWell(n, stored, n, {n}, Mine, Idle)
        /\ LossWell(n, stored, n, {n}, Mine, Idle, open, history, ids + 1, now)
        /\ StartWell(n, stored, n, {n}, Mine, running, asked')
        /\ LastWell(stored, {n}, Mine, ids + 1, now)
    BY <1>1, <1>4, <1>8, <2>2, <2>3, OpensPlaces
  <2>5. /\ CopiesWell({n, stored, n} \union {n}, Mine, open, history, ids + 1, now)
        /\ RowWell({n, stored, n} \union {n}, stored, Mine, Idle)
    BY <1>4, <1>6, <1>8, <1>9, OpensWell, SMTT(60)
  <2>6. PlanInv'
    BY <1>1, <1>3, <1>4, <1>12, <2>1, <2>3, <2>4, <2>5, PlanIs, PlanNextIs
  <2>7. PlanMoves
    <3> DEFINE A == {AtGateway, stored, shown} \union {} \union {Mine}
               B == {n, stored, n} \union {n} \union {Mine}
    <3>1. /\ Leads(Freshest, A) /\ Freshest \in PlanCopy
          /\ Leads(Freshest', B)
      BY <1>3, <1>5, <2>1, Tops
    <3>2. /\ Mine.id \in Nat /\ stored.id \in Nat /\ Freshest.id \in Nat
      BY <1>4, <3>1, FieldsOf
    <3>3. Freshest' = n
      <4>1. \A c \in B : c = n \/ ~Newer(c, n)
        BY <1>4, <1>8, <2>2, <3>2 DEF Newer
      <4>2. n \in B
        OBVIOUS
      <4> HIDE DEF B
      <4> QED  BY <3>1, <4>1, <4>2, TopIs
    <3>4. Freshest.id = ids
      <4>1. Freshest.id <= ids
        BY <2>2, <3>1 DEF Leads
      <4>2. Newer(Freshest, Mine) /\ Newer(Freshest, stored)
        BY <3>1 DEF Leads
      <4>3. ids = Mine.id \/ ids = stored.id
        BY <1>6 DEF LastWell
      <4> QED  BY <1>4, <3>2, <4>1, <4>2, <4>3 DEF Newer
    <3>5. PICK f \in PlanCopy : f = Freshest
      BY <3>1
    <3>6. ~Active(f) \/ f.pending # 0 \/ f.booked = {} \/ n.terms # f.terms
      <4> SUFFICES ASSUME Active(f), f.pending = 0, f.booked # {} PROVE n.terms # f.terms
        OBVIOUS
      <4>1. p = f
        BY <1>0, <1>4, <1>6, <3>1, <3>5, OwnTop DEF A
      <4> QED  BY <1>9, <1>12, <4>1 DEF GoesOn
    <3>7. ~waived' /\ waived' \in BOOLEAN
      BY <1>12
    <3> QED  BY <1>8, <1>9, <3>3, <3>4, <3>5, <3>6, <3>7, PlanOpens
  <2> QED  BY <2>6, <2>7
<1> QED  BY <1>2, <1>11, <1>12

\* The owner gives the plan up.
LEMMA EndKeeps ==
    ASSUME PlanInv, EndCycle
    PROVE  PlanInv' /\ PlanMoves
<1> DEFINE p == PickFreshest(AtGateway, shown)
           n == Close(p, "abandoned")
           now == (waived \/ p.pending # 0)
<1>1. /\ ~running /\ ~asked /\ Calm("gateway") /\ Active(p) /\ Holds("gateway", n)
      /\ shown' = memory'["gateway"] /\ SaveLater("gateway", memory'["gateway"])
      /\ waived' = now
      /\ UNCHANGED <<stored, terms, running, asked, open, history, ids, turns>>
  BY DEF EndCycle, Synced, AtGateway
<1>2. StakeInv /\ StakeInv'
  BY PlanIs, EndStep
<1>3. /\ AtGateway \in PlanCopy /\ stored \in PlanCopy /\ shown \in PlanCopy /\ Mine \in PlanCopy
      /\ ids \in Nat /\ Idle \in BOOLEAN /\ waived \in BOOLEAN
  BY <1>2, PlanIs, SoundIs
<1>4. Waiting = {}
  BY <1>1, <1>2, <1>3, Parties, ShortQueue, OneWrite DEF Calm, Waiting
<1>5. /\ Sound(AtGateway, stored, shown, {}, Mine, Idle, open, history, ids)
      /\ Arranged(AtGateway, stored, shown, {}, Mine, Idle, open, history, ids, waived,
                  running, asked)
      /\ PlacesWell(AtGateway, stored, shown, {}, Mine, Idle, open, history, ids, waived,
                    running, asked)
  BY <1>4, PlanIs
<1>6. p \in {AtGateway, shown} /\ p \in PlanCopy
  BY <1>3, PickIs
<1>7. "abandoned" \in Over
  BY DEF Over
<1>8. /\ n \in PlanCopy /\ n.id = p.id /\ n.rev = p.rev + 1 /\ ~Active(n)
      /\ n.booked = p.booked /\ n.pending = p.pending
      /\ n.terms = p.terms /\ n.won = p.won /\ n.lost = p.lost
  BY <1>6, <1>7, CloseOf, CloseMore
<1>9. now \in BOOLEAN
  OBVIOUS
<1>0. p = PickFreshest(AtGateway, shown) /\ now = (waived \/ p.pending # 0)
  OBVIOUS
<1> HIDE DEF p, n, now
<1>10. /\ AtGateway' = n /\ shown' = n /\ Waiting' = {n} /\ Mine' = Mine
       /\ (Idle' <=> Idle) /\ stored' = stored
  <2>1. memory'["gateway"] = n /\ Mine' = Mine
    BY <1>1, <1>2, <1>8, GatewayTakes
  <2> QED  BY <1>1, <1>2, <1>8, <2>1, GatewaySaves DEF AtGateway, Waiting, Idle
<1>11. /\ p.id = Mine.id => p = Mine
       /\ CopiesWell({n, stored, n} \union {n}, Mine, open, history, ids, now)
       /\ RowWell({n, stored, n} \union {n}, stored, Mine, Idle)
  <2>1. PICK b \in BOOLEAN : b = now
    BY <1>9
  <2>2. waived \/ p.pending # 0 => b
    BY <1>0, <2>1
  <2>3. /\ p = PickFreshest(AtGateway, shown) /\ Active(p)
        /\ Idle \in BOOLEAN /\ waived \in BOOLEAN
    BY <1>0, <1>1, <1>3
  <2>4. /\ p.id = Mine.id => p = Mine
        /\ CopiesWell({n, stored, n} \union {n}, Mine, open, history, ids, b)
        /\ RowWell({n, stored, n} \union {n}, stored, Mine, Idle)
    <3>1. Ending(AtGateway, stored, shown, Mine, Idle, open, history, ids, waived, p, n, b)
      BY <1>5, <1>8, <2>2, <2>3 DEF Ending, Sound, Arranged, KnownWell, PlacesWell
    <3> QED  BY <3>1, EndsWell
  <2> QED  BY <2>1, <2>4
<1>12. /\ GatewayWell(n, stored, n, {n}, Mine, Idle)
       /\ LossWell(n, stored, n, {n}, Mine, Idle, open, history, ids, now)
       /\ StartWell(n, stored, n, {n}, Mine, running, asked)
       /\ LastWell(stored, {n}, Mine, ids, now)
  <2>1. \A c \in {AtGateway, shown} : Fresh(c, Mine)
    BY PlanIs DEF CopiesFollow
  <2>2. ~running /\ ~asked
    BY <1>1
  <2>3. PICK b \in BOOLEAN : b = now
    BY <1>9
  <2>4. b => waived \/ p.pending # 0
    BY <1>0, <2>3
  <2>5. p = PickFreshest(AtGateway, shown) /\ Active(p)
    BY <1>0, <1>1
  <2>6. running \in BOOLEAN /\ asked \in BOOLEAN
    BY <1>2 DEF StakeInv, PlanTypes
  <2>7. PlacesWell(n, stored, n, {n}, Mine, Idle, open, history, ids, b, running, asked)
    BY <1>3, <1>5, <1>8, <2>1, <2>2, <2>4, <2>5, <2>6, EndsPlaces
  <2> QED  BY <2>3, <2>7 DEF PlacesWell
<1>13. PlanInv'
  BY <1>1, <1>2, <1>9, <1>10, <1>11, <1>12, PlanIs, PlanNextIs
<1>14. PlanMoves
  <2> DEFINE A == {AtGateway, stored, shown} \union {} \union {Mine}
             B == {n, stored, n} \union {n} \union {Mine}
  <2>1. /\ Leads(Freshest, A) /\ Freshest \in PlanCopy /\ (Leads(Mine, A) => Freshest = Mine)
        /\ Leads(Freshest', B)
    BY <1>2, <1>4, <1>10, Tops
  <2>2. PICK f \in PlanCopy : f = Freshest
    BY <2>1
  <2>3. f = p /\ Newer(p, stored) /\ Newer(p, Mine)
    BY <1>0, <1>1, <1>3, <1>5, <1>11, <2>1, <2>2, EndedTop DEF A
  <2>4. Freshest' = n
    <3>1. /\ p.id \in Nat /\ p.rev \in Nat /\ stored.id \in Nat /\ stored.rev \in Nat
          /\ Mine.id \in Nat /\ Mine.rev \in Nat
      BY <1>3, <1>6, FieldsOf
    <3>2. \A c \in B : c = n \/ ~Newer(c, n)
      BY <1>8, <2>3, <3>1 DEF Newer
    <3>3. n \in B
      OBVIOUS
    <3> HIDE DEF B
    <3> QED  BY <2>1, <3>2, <3>3, TopIs
  <2>5. waived' = (waived \/ p.pending # 0)
    BY <1>0, <1>1
  <2> QED  BY <1>1, <1>6, <1>8, <2>2, <2>3, <2>4, <2>5, PlanEnds
<1> QED  BY <1>13, <1>14

-----------------------------------------------------------------------------
(* The restart of the runtime, and a start that goes on.                   *)

\* f leads all and h leads the next; the runtime's, if it does.
Succeeds(f, all, mine, h, next, its) ==
    /\ f \in PlanCopy /\ Leads(f, all) /\ (Leads(mine, all) => f = mine)
    /\ h \in PlanCopy /\ Leads(h, next) /\ (Leads(its, next) => h = its)

\* The runtime goes from mine to c, the snapshot from w to v and the lead from f to h.
Moves(g, s, w, Q, mine, O, H, top, gone, on, starts, v, c, f, h) ==
    /\ Sound(g, s, w, Q, mine, TRUE, O, H, top)
    /\ Arranged(g, s, w, Q, mine, TRUE, O, H, top, gone, on, starts)
    /\ gone \in BOOLEAN /\ c \in PlanCopy
    /\ Succeeds(f, {g, s, w} \union Q \union {mine}, mine, h, {g, s, v} \union Q \union {c}, c)

\* A step of the runtime's is one.
LEMMA MovesNext ==
    ASSUME PlanInv, StakeInv', Idle, AtGateway' = AtGateway, stored' = stored, Waiting' = Waiting,
           NEW v, shown' = v, NEW c \in PlanCopy, Mine' = c,
           NEW f, f = Freshest, NEW h, h = Freshest'
    PROVE  Moves(AtGateway, stored, shown, Waiting, Mine, open, history, ids, waived,
                 running, asked, v, c, f, h)
<1>1. Idle = TRUE
  BY DEF Idle
<1>2. Succeeds(f, {AtGateway, stored, shown} \union Waiting \union {Mine}, Mine,
               h, {AtGateway, stored, v} \union Waiting \union {c}, c)
  BY PlanIs, Tops DEF Succeeds
<1> QED  BY <1>1, <1>2, PlanIs DEF Moves

\* A plan the runtime has not heard of leads on while the runtime works on its own.
LEMMA LeaderAbove ==
    ASSUME NEW g, NEW s, NEW w, NEW Q, NEW mine, NEW O, NEW H,
           NEW top, NEW gone, NEW on, NEW starts, NEW c, NEW f, NEW h,
           Moves(g, s, w, Q, mine, O, H, top, gone, on, starts, c, c, f, h),
           c.id = mine.id, f.id > mine.id
    PROVE  AsPlan(f) = AsPlan(h)
<1> DEFINE all == {g, s, w} \union Q
           A == all \union {mine}
           B == {g, s, c} \union Q \union {c}
<1>1. /\ g \in PlanCopy /\ s \in PlanCopy /\ w \in PlanCopy /\ mine \in PlanCopy
      /\ all \in SUBSET PlanCopy /\ Q \in SUBSET PlanCopy
      /\ O \in SUBSET Orders /\ H \in SUBSET Trades
      /\ CopiesFollow(all, mine, s, top) /\ CopiesWell(all, mine, O, H, top, gone)
      /\ Safe(w, s, Q, mine, TRUE)
      /\ c \in PlanCopy /\ f \in PlanCopy /\ h \in PlanCopy
      /\ Leads(f, A) /\ Leads(h, B)
  BY DEF Moves, Succeeds, Sound, Arranged, KnownWell, PlacesWell, LossWell
<1>2. A = all \union {mine} /\ A \subseteq PlanCopy /\ B \subseteq PlanCopy /\ f \in A /\ h \in B
  BY <1>1 DEF Leads
<1>3. mine.id \in Nat /\ \A e \in PlanCopy : e.id \in Nat
  BY <1>1, FieldsOf
<1>4. PICK e \in {g, s} \union Q : Newer(e, f)
  <2>1. CASE f = w
    BY <1>1, <2>1 DEF Safe
  <2>2. CASE f # w
    <3>1. f \in {g, s} \union Q
      BY <1>2, <1>3, <2>2
    <3> QED  BY <1>2, <3>1, NewerOrder
  <2> QED  BY <2>1, <2>2
<1>5. e \in A /\ e \in B
  OBVIOUS
<1>6. Newer(h, f)
  <2>1. Newer(h, e)
    BY <1>1, <1>5 DEF Leads
  <2> QED  BY <1>2, <1>4, <1>5, <2>1, NewerOrder
<1>7. h.id > mine.id /\ h \in all
  <2>1. h.id > mine.id
    BY <1>2, <1>3, <1>6 DEF Newer
  <2> QED  BY <1>2, <1>3, <2>1
<1>8. Leads(h, A)
  <2>1. \A d \in A : Newer(h, d)
    BY <1>1, <1>2, <1>6, NewerOrder DEF Leads
  <2> QED  BY <1>1, <1>2, <1>7, <2>1 DEF Leads
<1>9. ~Leads(mine, A)
  BY <1>2, <1>3 DEF Leads, Newer
<1> HIDE DEF all, A, B
<1> QED  BY <1>1, <1>2, <1>8, <1>9, TopTells DEF A

\* What leads once the runtime has its copy from the row.
LEMMA TurnMoves ==
    ASSUME NEW g, NEW s, NEW w, NEW Q, NEW mine, NEW O, NEW H,
           NEW top, NEW gone, NEW on, NEW starts, NEW r, NEW f, NEW h,
           Moves(g, s, w, Q, mine, O, H, top, gone, on, starts, w, r, f, h),
           r = Repair(s, H), Freshest = f, Freshest' = h, waived' = waived
    PROVE  PlanMoves
<1> DEFINE all == {g, s, w} \union Q
           A == all \union {mine}
           B == all \union {r}
<1>1. /\ s \in PlanCopy /\ mine \in PlanCopy /\ all \in SUBSET PlanCopy /\ s \in all
      /\ O \in SUBSET Orders /\ H \in SUBSET Trades
      /\ CopiesFollow(all, mine, s, top) /\ CopiesWell(all, mine, O, H, top, gone)
      /\ MineWell(mine, O, H) /\ RowWell(all, s, mine, TRUE) /\ RowSettled(mine, s)
  BY DEF Moves, Sound, Arranged, KnownWell, PlacesWell
<1>l. /\ f \in PlanCopy /\ Leads(f, A) /\ (Leads(mine, A) => f = mine)
      /\ h \in PlanCopy /\ Leads(h, B) /\ (Leads(r, B) => h = r)
  BY DEF Moves, Succeeds
<1>2. /\ r \in PlanCopy /\ r.id = s.id /\ r.terms = s.terms /\ (Active(r) => Active(s))
      /\ s.id > mine.id => r = s
      /\ s.id >= mine.id /\ (s.id = mine.id /\ Active(s) => s = mine /\ r = mine)
      /\ \/ r = s
         \/ /\ Ended(s, mine) /\ Half(s, O, H) /\ Full(r, O, H)
            /\ r.pending = 0 /\ ~Active(r) /\ r.rev = s.rev + 1
            /\ r.won = mine.won /\ r.lost = mine.lost
  <2>1. /\ r \in PlanCopy /\ r.id = s.id /\ (Active(r) => Active(s)) /\ r.terms = s.terms
        /\ Told(H, s.id) \subseteq s.booked => r = s
    BY <1>1, RepairOf, RepairTerms
  <2>2. mine.id \in Nat /\ s.id \in Nat /\ \A t \in O \union H : t.id <= mine.id /\ t.id \in Nat
    BY <1>1, FieldsOf DEF Moves, Sound, OrdersOnce, Orders, Trades
  <2>3. CASE s.id > mine.id
    <3>1. Told(H, s.id) = {}
      BY <2>2, <2>3 DEF Told
    <3> QED  BY <2>1, <2>2, <2>3, <3>1
  <2>4. CASE s.id = mine.id /\ Active(s)
    <3>1. s = mine
      BY <1>1, <2>2, <2>4 DEF RowSettled
    <3> QED  BY <1>1, <2>1, <2>2, <2>4, <3>1 DEF MineWell, Full
  <2>5. CASE s.id = mine.id /\ ~Active(s)
    <3>1. Ended(s, mine)
      BY <2>5 DEF Ended
    <3>2. EndedWell(s, mine, O, H, top, gone)
      BY <1>1, <3>1 DEF CopiesWell, Placed
    <3>3. CASE Full(s, O, H)
      BY <2>1, <2>2, <2>5, <3>3 DEF Full
    <3>4. CASE Half(s, O, H)
      <4>1. /\ r.rev = s.rev + 1 /\ Full(r, O, H) /\ r.pending = 0
            /\ \E t \in H :
                 /\ t.id = s.id /\ t.order = s.pending
                 /\ r.won = IF t.result = "WIN" THEN s.won + 1 ELSE s.won
                 /\ r.lost = IF t.result = "LOSS" THEN s.lost + 1 ELSE s.lost
        BY <1>1, <3>4, RepairHalf
      <4>2. r.won = mine.won /\ r.lost = mine.lost
        BY <3>2, <3>4, <4>1 DEF EndedWell, Counts
      <4> QED  BY <2>1, <2>2, <2>5, <3>1, <3>4, <4>1, <4>2
    <3> QED  BY <3>2, <3>3, <3>4 DEF EndedWell
  <2>6. s.id >= mine.id
    BY <1>1, <2>2 DEF RowSettled
  <2> QED  BY <2>2, <2>3, <2>4, <2>5, <2>6
<1>3. /\ mine.id \in Nat /\ mine.rev \in Nat /\ r.rev \in Nat /\ s.rev \in Nat /\ s.id \in Nat
      /\ f.id \in Nat /\ f.rev \in Nat /\ h.id \in Nat /\ h.rev \in Nat
  BY <1>1, <1>2, <1>l, FieldsOf
<1>4. A = all \union {mine} /\ B = all \union {r} /\ A \subseteq PlanCopy /\ B \subseteq PlanCopy
  BY <1>1, <1>2
<1> HIDE DEF all
<1>5. f \in A /\ h \in B /\ Newer(f, mine) /\ Newer(f, s) /\ Newer(h, s) /\ Newer(h, r)
  BY <1>1, <1>4, <1>l DEF Leads
<1>6. ASSUME f.id > mine.id PROVE PlanMoves
  <2>1. f \in all /\ Newer(h, f)
    BY <1>3, <1>4, <1>5, <1>6, <1>l DEF Leads
  <2>2. h \in all
    <3>1. h.id > mine.id
      BY <1>3, <1>6, <2>1 DEF Newer
    <3>2. r.id = mine.id \/ r = s
      BY <1>2, <1>3
    <3> QED  BY <1>1, <1>3, <1>4, <1>5, <3>1, <3>2
  <2>3. Leads(h, A)
    <3>1. \A d \in A : Newer(h, d)
      BY <1>4, <1>l, <2>1, NewerOrder DEF Leads
    <3> QED  BY <1>4, <2>2, <3>1 DEF Leads
  <2>4. ~Leads(mine, A)
    BY <1>3, <1>5, <1>6 DEF Leads, Newer
  <2>5. AsPlan(f) = AsPlan(h)
    BY <1>1, <1>4, <1>l, <2>3, <2>4, TopTells
  <2> QED  BY <2>5, PlanStays
<1>7. CASE s.id = mine.id /\ Active(s)
  <2>1. r = mine
    BY <1>2, <1>7
  <2>2. AsPlan(f) = AsPlan(h)
    BY <1>1, <1>4, <1>l, <2>1, TopTells
  <2> QED  BY <2>2, PlanStays
<1>8. ASSUME f.id = mine.id, s.id = mine.id, ~Active(s) PROVE PlanMoves
  <2>1. Ended(s, mine) /\ ~Active(r) /\ r.id = mine.id
    BY <1>2, <1>8 DEF Ended
  <2>2. EndedWell(s, mine, O, H, top, gone) /\ s.terms = mine.terms
    BY <1>1, <2>1 DEF CopiesWell, Placed, Ended
  <2>3. Full(r, O, H) /\ r.won = mine.won /\ r.lost = mine.lost /\ s.rev <= r.rev
    <3>1. CASE r = s
      <4>1. ASSUME Half(s, O, H) PROVE FALSE
        <5>1. Repair(s, H).rev = s.rev + 1
          BY <1>1, <4>1, RepairHalf
        <5> QED  BY <1>3, <3>1, <5>1
      <4> QED  BY <1>3, <2>2, <3>1, <4>1 DEF EndedWell, Counts
    <3>2. CASE r # s
      BY <1>2, <1>3, <1>8, <3>2
    <3> QED  BY <3>1, <3>2
  <2>4. /\ ~Active(f) /\ f.terms = mine.terms
        /\ Full(f, O, H) \/ Half(f, O, H)
        /\ Counts(f, mine, O, H)
    <3>1. CASE f = mine
      <4>1. ~Active(mine)
        <5>1. Active(mine) => mine.rev <= s.rev
          BY <1>1, <1>3, <1>8 DEF RowSettled, Yields
        <5> QED  BY <1>3, <1>5, <1>8, <3>1, <5>1 DEF Newer
      <4>2. Full(mine, O, H)
        BY <1>1 DEF MineWell
      <4>3. ~Half(mine, O, H)
        BY <1>1, <4>2, NotBoth
      <4> QED  BY <3>1, <4>1, <4>2, <4>3 DEF Counts
    <3>2. CASE f # mine
      <4>1. f \in all
        BY <1>4, <1>5, <3>2
      <4>2. Ended(f, mine)
        BY <1>1, <1>5, <1>8, <1>l, <3>2, <4>1, LeaderEnded
      <4>3. EndedWell(f, mine, O, H, top, gone) /\ f.terms = mine.terms
        BY <1>1, <1>8, <4>1, <4>2 DEF CopiesWell, Placed
      <4> QED  BY <4>2, <4>3 DEF EndedWell, Ended
    <3> QED  BY <3>1, <3>2
  <2>5. h.id = mine.id
    <3>1. h \in all => Newer(f, h)
      BY <1>4, <1>l DEF Leads
    <3>2. h.id <= mine.id
      BY <1>3, <1>4, <1>5, <1>8, <2>1, <3>1 DEF Newer
    <3> QED  BY <1>3, <1>5, <1>8, <3>2 DEF Newer
  <2>6. /\ ~Active(h) /\ h.terms = mine.terms /\ Full(h, O, H)
        /\ h.won = mine.won /\ h.lost = mine.lost
    <3>1. CASE h = r
      BY <1>2, <2>1, <2>2, <2>3, <3>1
    <3>2. CASE h # r
      <4>1. h \in all
        BY <1>4, <1>5, <3>2
      <4>2. ~Newer(r, h)
        <5>1. ASSUME Newer(r, h) PROVE FALSE
          <6>1. \A d \in B : Newer(r, d)
            BY <1>2, <1>4, <1>l, <5>1, NewerOrder DEF Leads
          <6>2. Leads(r, B)
            BY <1>4, <6>1 DEF Leads
          <6> QED  BY <1>l, <3>2, <6>2
        <5> QED  BY <5>1
      <4>3. ~Active(h)
        <5>1. Follows(h, mine, s)
          BY <1>1, <4>1 DEF CopiesFollow
        <5>2. Active(h) => Yields(h, s)
          BY <1>1, <1>3, <1>8, <2>5, <5>1 DEF Follows, RowSettled
        <5> QED  BY <1>3, <1>5, <1>8, <2>5, <5>2 DEF Newer, Yields
      <4>4. Ended(h, mine)
        BY <2>5, <4>3 DEF Ended
      <4>5. EndedWell(h, mine, O, H, top, gone) /\ h.terms = mine.terms
        BY <1>1, <2>5, <4>1, <4>4 DEF CopiesWell, Placed
      <4>6. h.pending = 0
        <5>1. h.pending # 0 => h.rev <= s.rev
          BY <1>1, <2>1, <4>1, <4>4 DEF RowWell
        <5>2. h.rev > r.rev
          BY <1>3, <2>1, <2>5, <4>2, <4>3 DEF Newer
        <5> QED  BY <1>3, <2>3, <5>1, <5>2
      <4>7. ~Half(h, O, H)
        BY <1>1, <4>6, ToldOrders DEF Half
      <4> QED  BY <4>3, <4>5, <4>7 DEF EndedWell, Counts
    <3> QED  BY <3>1, <3>2
  <2> QED  BY <1>1, <1>8, <1>l, <2>4, <2>5, <2>6, FromEnded
<1>9. s.id >= mine.id /\ f.id >= mine.id /\ f.id >= s.id
  BY <1>2, <1>3, <1>5 DEF Newer
<1> QED  BY <1>3, <1>6, <1>7, <1>8, <1>9

\* The runtime takes the row's plan.
LEMMA TurnTaken ==
    ASSUME PlanInv, StakeInv', queue["runtime"] = <<>>,
           Mine' = Repair(stored, history), AtGateway' = AtGateway,
           UNCHANGED <<stored, shown, queue, open, history, ids, waived>>,
           running' \/ asked' => running \/ asked
    PROVE  PlanInv' /\ PlanMoves
<1> DEFINE r == Repair(stored, history)
<1>1. /\ AtGateway \in PlanCopy /\ stored \in PlanCopy /\ shown \in PlanCopy /\ Mine \in PlanCopy
      /\ Waiting \in SUBSET PlanCopy /\ open \in SUBSET Orders /\ history \in SUBSET Trades
      /\ ids \in Nat /\ Idle \in BOOLEAN /\ Idle /\ waived \in BOOLEAN
  BY PlanIs, SoundIs
<1>2. /\ Sound(AtGateway, stored, shown, Waiting, Mine, Idle, open, history, ids)
      /\ Arranged(AtGateway, stored, shown, Waiting, Mine, Idle, open, history, ids, waived,
                  running, asked)
      /\ PlacesWell(AtGateway, stored, shown, Waiting, Mine, Idle, open, history, ids, waived,
                    running, asked)
      /\ MineWell(Mine, open, history)
      /\ CopiesWell({AtGateway, stored, shown} \union Waiting, Mine, open, history, ids, waived)
  BY PlanIs
<1>3. /\ r \in PlanCopy /\ r.id = stored.id /\ (Active(r) => Active(stored))
      /\ stored.id >= Mine.id /\ (stored.id = Mine.id /\ Active(stored) => r = Mine)
  <2>1. /\ r \in PlanCopy /\ r.id = stored.id /\ (Active(r) => Active(stored))
        /\ Told(history, stored.id) \subseteq stored.booked => r = stored
    BY <1>1, RepairOf
  <2>2. RowSettled(Mine, stored) /\ stored.id \in Nat /\ Mine.id \in Nat
    BY <1>1, <1>2, FieldsOf DEF Sound
  <2>3. Told(history, Mine.id) = Mine.booked
    BY <1>2 DEF MineWell, Full
  <2> QED  BY <2>1, <2>2, <2>3 DEF RowSettled
<1>4. Waiting' = Waiting /\ Idle' = Idle
  BY DEF Waiting, Idle
<1>0. r = Repair(stored, history)
  OBVIOUS
<1> HIDE DEF r
<1>5. stored.id <= ids
  BY PlanIs DEF CopiesFollow
<1>6. PICK on, starts : on = running' /\ starts = asked'
  OBVIOUS
<1>7. PlacesWell(AtGateway, stored, shown, Waiting, r, Idle, open, history, ids, waived, on, starts)
  <2>1. PlacesWell(AtGateway, stored, shown, Waiting, r, Idle, open, history, ids, waived,
                   running, asked)
    BY <1>1, <1>2, <1>3, <1>5, TurnPlaces
  <2>2. on \/ starts => running \/ asked
    BY <1>6
  <2>3. Active(r) => ~Ended(stored, r)
    BY <1>3 DEF Ended
  <2> QED  BY <2>1, <2>2, <2>3, StopPlaces
<1>8. KnownWell(AtGateway, stored, shown, Waiting, r, Idle, open, history, ids, waived)
  BY <1>0, <1>1, <1>2, TurnWell
<1>9. PlanInv'
  BY <1>0, <1>1, <1>4, <1>6, <1>7, <1>8, PlanNext
<1>10. PlanMoves
  <2>1. PICK f, h : f = Freshest /\ h = Freshest'
    OBVIOUS
  <2>2. Moves(AtGateway, stored, shown, Waiting, Mine, open, history, ids, waived,
              running, asked, shown, r, f, h)
    BY <1>0, <1>1, <1>3, <1>4, <2>1, MovesNext
  <2>3. waived' = waived
    OBVIOUS
  <2> QED  BY <1>0, <2>1, <2>2, <2>3, TurnMoves
<1> QED  BY <1>9, <1>10

\* The runtime restarts.
LEMMA RuntimeReloadKeeps ==
    ASSUME PlanInv, RuntimeReloads
    PROVE  PlanInv' /\ PlanMoves
<1> DEFINE r == Repair(stored, history)
<1>1. /\ queue["runtime"] = <<>> /\ Holds("runtime", r) /\ asked' = FALSE
      /\ UNCHANGED <<stored, shown, queue, terms, running, open, history, ids, waived>>
  BY RepairedIs DEF RuntimeReloads, Turn
<1>2. StakeInv /\ StakeInv'
  BY PlanIs, RuntimeReloadStep
<1>3. r \in PlanCopy
  BY <1>2, SoundIs, RepairOf
<1>4. Mine' = r /\ AtGateway' = AtGateway
  <2> HIDE DEF r
  <2> QED  BY <1>1, <1>2, <1>3, RuntimeTakes DEF AtGateway
<1> QED  BY <1>1, <1>2, <1>4, TurnTaken

\* A plan with results that leads in use is the runtime's and the row's.
LEMMA RowTop ==
    ASSUME NEW g, NEW s, NEW w, NEW Q, NEW mine, NEW O, NEW H, NEW top, NEW gone, NEW on, NEW starts,
           NEW v, NEW c, NEW f, NEW h,
           Moves(g, s, w, Q, mine, O, H, top, gone, on, starts, v, c, f, h),
           Active(f), f.booked # {}
    PROVE  f = mine /\ s = mine
<1> DEFINE all == {g, s, w} \union Q
           A == all \union {mine}
<1>1. /\ s \in PlanCopy /\ mine \in PlanCopy /\ all \in SUBSET PlanCopy /\ s \in all
      /\ CopiesFollow(all, mine, s, top) /\ RowSettled(mine, s)
  BY DEF Moves, Sound
<1>2. f \in PlanCopy /\ Leads(f, A)
  BY DEF Moves, Succeeds
<1>3. /\ s.id \in Nat /\ s.rev \in Nat /\ mine.id \in Nat /\ mine.rev \in Nat /\ f.id \in Nat
  BY <1>1, <1>2, FieldsOf
<1> HIDE DEF all
<1>4. f \in A /\ Newer(f, mine) /\ Newer(f, s)
  BY <1>1, <1>2 DEF Leads
<1>5. f = mine
  <2> SUFFICES ASSUME f # mine PROVE FALSE
    OBVIOUS
  <2>1. f \in all
    BY <1>4
  <2>2. f.id = mine.id
    BY <1>1, <1>3, <1>4, <2>1 DEF CopiesFollow, Fresh, Newer
  <2>3. Ended(f, mine)
    BY <1>1, <1>4, <2>1, <2>2, LeaderEnded
  <2> QED  BY <2>3 DEF Ended
<1>6. s = mine
  BY <1>1, <1>3, <1>4, <1>5 DEF Newer, RowSettled, Yields
<1> QED  BY <1>5, <1>6

\* The runtime goes on with the row's plan or none.
LEMMA PicksRow ==
    ASSUME NEW s \in PlanCopy, NEW mine \in PlanCopy, NEW r \in PlanCopy, RowSettled(mine, s),
           r.id = s.id, Active(r) => Active(s), r = s \/ r.rev = s.rev + 1,
           s.id = mine.id /\ Active(s) => r = mine,
           NEW p, p = PickFreshest(r, mine), Active(p)
    PROVE  p = r
<1>1. /\ s.id \in Nat /\ s.rev \in Nat /\ mine.id \in Nat /\ mine.rev \in Nat
      /\ r.id \in Nat /\ r.rev \in Nat
  BY FieldsOf
<1>2. s.id > mine.id => p = r
  BY <1>1 DEF PickFreshest
<1>3. ASSUME s.id = mine.id, ~Active(s) PROVE p = r
  <2>1. Active(mine) => mine.rev <= r.rev
    BY <1>1, <1>3 DEF RowSettled, Yields
  <2>2. p \in {r, mine}
    BY DEF PickFreshest
  <2> QED  BY <1>1, <1>3, <2>1, <2>2 DEF PickFreshest
<1>4. s.id = mine.id /\ Active(s) => p = r
  BY DEF PickFreshest
<1>5. s.id >= mine.id
  BY <1>1 DEF RowSettled
<1> QED  BY <1>1, <1>2, <1>3, <1>4, <1>5

\* The runtime opens the plan n; no is FALSE, and on and starts are the robot's next flags.
OpensNew(g, s, w, Q, mine, O, H, top, gone, on, starts, n, no, top2, on2, starts2) ==
    /\ Sound(g, s, w, Q, mine, TRUE, O, H, top)
    /\ Arranged(g, s, w, Q, mine, TRUE, O, H, top, gone, on, starts)
    /\ gone \in BOOLEAN /\ no = FALSE /\ top2 = top + 1
    /\ n \in PlanCopy /\ n.id = top + 1 /\ Active(n)
    /\ n.won = 0 /\ n.lost = 0 /\ n.booked = {} /\ n.pending = 0

\* What the copies know then, and where they are.
LEMMA RuntimeOpensAll ==
    ASSUME NEW g, NEW s, NEW w, NEW Q, NEW mine, NEW O, NEW H, NEW top, NEW gone, NEW on, NEW starts,
           NEW n, NEW no, NEW top2, NEW on2, NEW starts2,
           OpensNew(g, s, w, Q, mine, O, H, top, gone, on, starts, n, no, top2, on2, starts2)
    PROVE  /\ KnownWell(g, s, n, Q, n, no, O, H, top2, no)
           /\ PlacesWell(g, s, n, Q, n, no, O, H, top2, no, on2, starts2)
<1>1. PICK idle \in BOOLEAN : idle = TRUE
  OBVIOUS
<1>2. /\ Sound(g, s, w, Q, mine, idle, O, H, top)
      /\ Arranged(g, s, w, Q, mine, idle, O, H, top, gone, on, starts)
      /\ gone \in BOOLEAN /\ no = FALSE /\ top2 = top + 1
      /\ n \in PlanCopy /\ n.id = top + 1 /\ Active(n)
      /\ n.won = 0 /\ n.lost = 0 /\ n.booked = {} /\ n.pending = 0
  BY <1>1 DEF OpensNew
<1>3. /\ g \in PlanCopy /\ s \in PlanCopy /\ w \in PlanCopy /\ mine \in PlanCopy
      /\ Q \in SUBSET PlanCopy /\ top \in Nat /\ \A c \in {g, s} \union Q : c.id <= top
  BY <1>2 DEF Sound, CopiesFollow
<1>4. PlacesWell(g, s, w, Q, mine, idle, O, H, top, gone, on, starts)
  BY <1>2 DEF Arranged
<1>5. KnownWell(g, s, n, Q, n, no, O, H, top2, no)
  BY <1>2, RuntimeOpensWell
<1>6. PlacesWell(g, s, n, Q, n, no, O, H, top2, no, on2, starts2)
  BY <1>1, <1>2, <1>3, <1>4, RuntimeOpensPlaces
<1> QED  BY <1>5, <1>6

\* The runtime hears of a start.
LEMMA RuntimeStartKeeps ==
    ASSUME PlanInv, RuntimeStarts
    PROVE  PlanInv' /\ PlanMoves
<1> DEFINE r == Repair(stored, history)
           p == PickFreshest(r, Mine)
           n == NewCycle(ids + 1)
<1>1. /\ asked /\ Calm("runtime") /\ asked' = FALSE /\ running' = TRUE
      /\ UNCHANGED <<stored, terms, open, history, turns>>
  BY DEF RuntimeStarts
<1>2. \/ Active(p) /\ Holds("runtime", p) /\ UNCHANGED <<shown, queue, ids, waived>>
      \/ /\ \E overdue \in BOOLEAN : ~GoesOn(p, overdue)
         /\ Works(n) /\ ids' = ids + 1 /\ waived' = FALSE
  <2>1. \A c, o : GoesOn(c, o) => Active(c)
    BY DEF GoesOn
  <2>2. p = PickFreshest(Repaired(stored), memory["runtime"])
    BY RepairedIs DEF Mine
  <2> HIDE DEF p, r
  <2> QED  BY <2>1, <2>2 DEF RuntimeStarts, Opens
<1>3. StakeInv /\ StakeInv'
  BY PlanIs, RuntimeStartStep
<1>4. /\ AtGateway \in PlanCopy /\ stored \in PlanCopy /\ shown \in PlanCopy /\ Mine \in PlanCopy
      /\ Waiting \in SUBSET PlanCopy /\ open \in SUBSET Orders /\ history \in SUBSET Trades
      /\ ids \in Nat /\ Idle \in BOOLEAN /\ waived \in BOOLEAN /\ terms \in Terms
  BY <1>3, PlanIs, SoundIs DEF StakeInv, PlanTypes
<1>5. queue["runtime"] = <<>> /\ Idle
  BY <1>1, <1>3, Parties, ShortQueue DEF Calm, Idle
<1>6. RowSettled(Mine, stored) /\ MineWell(Mine, open, history)
  BY <1>3, <1>5, PlanIs DEF StakeInv
<1>7. /\ r \in PlanCopy /\ r.id = stored.id /\ (Active(r) => Active(stored))
      /\ r = stored \/ r.rev = stored.rev + 1
      /\ stored.id = Mine.id /\ Active(stored) => stored = Mine /\ r = Mine
  <2>1. Told(history, Mine.id) = Mine.booked
    BY <1>6 DEF MineWell, Full
  <2>2. stored.id \in Nat /\ Mine.id \in Nat
    BY <1>4, FieldsOf
  <2>3. /\ r \in PlanCopy /\ r.id = stored.id /\ (Active(r) => Active(stored))
        /\ r = stored \/ r.rev = stored.rev + 1
        /\ Told(history, stored.id) \subseteq stored.booked => r = stored
    BY <1>4, RepairOf
  <2> HIDE DEF r
  <2> QED  BY <1>6, <2>1, <2>2, <2>3 DEF RowSettled
<1>8. n \in PlanCopy /\ n.id = ids + 1 /\ Active(n) /\ n.booked = {} /\ n.pending = 0
  BY <1>4, NewOf
<1>9. n.terms = terms /\ n.won = 0 /\ n.lost = 0
  BY NewMore
<1>0. p = PickFreshest(r, Mine) /\ r = Repair(stored, history)
  OBVIOUS
<1> HIDE DEF p, n, r
<1>10. ASSUME Active(p), Holds("runtime", p), UNCHANGED <<shown, queue, ids, waived>>
       PROVE  PlanInv' /\ PlanMoves
  <2>1. p = r
    BY <1>0, <1>4, <1>6, <1>7, <1>10, PicksRow
  <2>2. Mine' = r /\ AtGateway' = AtGateway
    BY <1>3, <1>7, <1>10, <2>1, RuntimeTakes DEF AtGateway
  <2> QED  BY <1>0, <1>1, <1>3, <1>5, <1>10, <2>2, TurnTaken
<1>11. ASSUME NEW overdue \in BOOLEAN, ~GoesOn(p, overdue), Works(n), ids' = ids + 1, waived' = FALSE
       PROVE  PlanInv' /\ PlanMoves
  <2>1. /\ AtGateway' = AtGateway /\ shown' = n /\ Waiting' = Waiting /\ Mine' = n
        /\ Idle' = FALSE /\ stored' = stored
    BY <1>1, <1>3, <1>8, <1>11, WorksOf DEF AtGateway, Waiting, Idle
  <2>2. PICK no \in BOOLEAN : no = FALSE
    OBVIOUS
  <2>3. /\ Sound(AtGateway, stored, shown, Waiting, Mine, Idle, open, history, ids)
        /\ Arranged(AtGateway, stored, shown, Waiting, Mine, Idle, open, history, ids, waived,
                    running, asked)
        /\ PlacesWell(AtGateway, stored, shown, Waiting, Mine, Idle, open, history, ids, waived,
                      running, asked)
        /\ CopiesFollow({AtGateway, stored, shown} \union Waiting, Mine, stored, ids)
    BY PlanIs
  <2>4. Mine.id <= ids /\ \A c \in {AtGateway, stored} \union Waiting : c.id <= ids
    BY <2>3 DEF CopiesFollow
  <2>5. PICK on, starts, top : on = running' /\ starts = asked' /\ top = ids + 1
    OBVIOUS
  <2>6. OpensNew(AtGateway, stored, shown, Waiting, Mine, open, history, ids, waived, running, asked,
               n, no, top, on, starts)
    <3>1. Idle = TRUE
      BY <1>5 DEF Idle
    <3> QED  BY <1>4, <1>8, <1>9, <2>2, <2>3, <2>4, <2>5, <3>1 DEF OpensNew
  <2>7. /\ KnownWell(AtGateway, stored, n, Waiting, n, no, open, history, top, no)
        /\ PlacesWell(AtGateway, stored, n, Waiting, n, no, open, history, top, no, on, starts)
    BY <2>6, RuntimeOpensAll
  <2>8. PlanInv'
    BY <1>1, <1>3, <1>11, <2>1, <2>2, <2>5, <2>7, PlanNext
  <2>9. PICK f, h : f = Freshest /\ h = Freshest'
    OBVIOUS
  <2>10. Moves(AtGateway, stored, shown, Waiting, Mine, open, history, ids, waived,
               running, asked, n, n, f, h)
    BY <1>3, <1>5, <1>8, <2>1, <2>9, MovesNext
  <2> DEFINE A == {AtGateway, stored, shown} \union Waiting \union {Mine}
             B == {AtGateway, stored, n} \union Waiting \union {n}
  <2>11. f \in PlanCopy /\ Leads(f, A) /\ Leads(h, B)
    BY <2>10 DEF Moves, Succeeds
  <2>12. f.id \in Nat /\ \A c \in A : c.id \in Nat
    BY <1>4, <2>11, FieldsOf
  <2>13. h = n
    <3>1. \A c \in B : c = n \/ ~Newer(c, n)
      BY <1>4, <1>8, <2>4, <2>12 DEF Newer
    <3>2. n \in B
      OBVIOUS
    <3> HIDE DEF B
    <3> QED  BY <2>11, <3>1, <3>2, TopIs
  <2>14. f.id = ids
    <3>1. f.id <= ids /\ \A c \in A : Newer(f, c)
      BY <2>3, <2>4, <2>11 DEF Leads, CopiesFollow
    <3>2. \/ ids = Mine.id \/ ids = stored.id \/ \E c \in Waiting : ids = c.id
      BY <2>3 DEF PlacesWell, LastWell
    <3> QED  BY <1>4, <2>12, <3>1, <3>2 DEF Newer
  <2>15. ~Active(f) \/ f.pending # 0 \/ f.booked = {} \/ n.terms # f.terms
    <3> SUFFICES ASSUME Active(f), f.pending = 0, f.booked # {} PROVE n.terms # f.terms
      OBVIOUS
    <3>1. f = Mine /\ stored = Mine
      BY <2>10, RowTop
    <3>2. r = Mine
      BY <1>7, <3>1
    <3>3. p = f
      BY <1>0, <3>1, <3>2 DEF PickFreshest
    <3> QED  BY <1>9, <1>11, <3>3 DEF GoesOn
  <2>16. ~waived' /\ waived' \in BOOLEAN
    BY <1>11
  <2>17. PlanMoves
    BY <1>8, <1>9, <2>9, <2>11, <2>13, <2>14, <2>15, <2>16, PlanOpens
  <2> QED  BY <2>8, <2>17
<1> QED  BY <1>2, <1>10, <1>11

-----------------------------------------------------------------------------
(* What leads while the runtime works on its plan.                         *)

\* What led: the runtime's copy, one of its plan that is ended, or a plan it has
\* not heard of.
LEMMA WorkLeads ==
    ASSUME NEW g, NEW s, NEW w, NEW Q, NEW mine, NEW O, NEW H, NEW top, NEW gone, NEW on, NEW starts,
           NEW c, NEW f, NEW h,
           Moves(g, s, w, Q, mine, O, H, top, gone, on, starts, c, c, f, h), c.id = mine.id
    PROVE  /\ f.id >= mine.id
           /\ f = mine /\ c.rev > mine.rev => h = c
           /\ f # mine /\ f.id = mine.id =>
                /\ Ended(f, mine) /\ EndedWell(f, mine, O, H, top, gone) /\ f.terms = mine.terms
                /\ top = mine.id
           /\ f.id > mine.id => AsPlan(f) = AsPlan(h) /\ ~gone
<1> DEFINE all == {g, s, w} \union Q
           A == all \union {mine}
           B == {g, s, c} \union Q \union {c}
<1>1. /\ mine \in PlanCopy /\ all \in SUBSET PlanCopy /\ top \in Nat
      /\ CopiesFollow(all, mine, s, top) /\ CopiesWell(all, mine, O, H, top, gone)
      /\ LastWell(s, Q, mine, top, gone)
  BY DEF Moves, Sound, Arranged, KnownWell, PlacesWell
<1>2. c \in PlanCopy /\ f \in PlanCopy /\ Leads(f, A) /\ Leads(h, B)
  BY DEF Moves, Succeeds
<1>3. /\ mine.id \in Nat /\ mine.rev \in Nat /\ c.id \in Nat /\ c.rev \in Nat /\ f.id \in Nat
      /\ \A e \in all : e.id \in Nat /\ e.rev \in Nat
  BY <1>1, <1>2, FieldsOf
<1>4. f \in A /\ Newer(f, mine) /\ \A e \in all : Newer(f, e)
  BY <1>2 DEF Leads
<1>5. s \in all /\ Q \subseteq all /\ B \subseteq all \union {c} /\ c \in B
  OBVIOUS
<1> HIDE DEF all, B
<1>6. f.id >= mine.id
  BY <1>3, <1>4 DEF Newer
<1>7. ASSUME f = mine, c.rev > mine.rev PROVE h = c
  <2>1. \A e \in B : e = c \/ ~Newer(e, c)
    BY <1>3, <1>4, <1>5, <1>7 DEF Newer
  <2> QED  BY <1>2, <1>5, <2>1, TopIs
<1>8. ASSUME f # mine, f.id = mine.id
      PROVE  /\ Ended(f, mine) /\ EndedWell(f, mine, O, H, top, gone) /\ f.terms = mine.terms
             /\ top = mine.id
  <2>1. f \in all
    BY <1>4, <1>8
  <2>2. Ended(f, mine)
    BY <1>1, <1>4, <1>8, <2>1, LeaderEnded
  <2>3. EndedWell(f, mine, O, H, top, gone) /\ f.terms = mine.terms
    BY <1>1, <1>8, <2>1, <2>2 DEF CopiesWell, Placed
  <2>4. \A e \in all : e.id <= mine.id
    BY <1>3, <1>4, <1>8 DEF Newer
  <2>5. top = mine.id \/ \E e \in all : top = e.id
    BY <1>1, <1>5 DEF LastWell
  <2>6. mine.id <= top
    BY <1>1 DEF CopiesFollow
  <2> QED  BY <1>1, <1>3, <2>2, <2>3, <2>4, <2>5, <2>6
<1>9. ASSUME f.id > mine.id PROVE AsPlan(f) = AsPlan(h) /\ ~gone
  <2>1. f \in all
    BY <1>3, <1>4, <1>9
  <2>2. top > mine.id
    BY <1>1, <1>3, <1>9, <2>1 DEF CopiesFollow
  <2> QED  BY <1>1, <1>9, <2>2, LeaderAbove DEF LastWell
<1> QED  BY <1>6, <1>7, <1>8, <1>9

\* If one that is ended led, it leads on unless the runtime's new copy does.
LEMMA EndedLeads ==
    ASSUME NEW g, NEW s, NEW w, NEW Q, NEW mine, NEW O, NEW H, NEW top, NEW gone, NEW on, NEW starts,
           NEW c, NEW f, NEW h,
           Moves(g, s, w, Q, mine, O, H, top, gone, on, starts, c, c, f, h), c.id = mine.id,
           f # mine, f.id = mine.id
    PROVE  \/ AsPlan(f) = AsPlan(h)
           \/ h = c /\ Newer(c, f)
<1> DEFINE all == {g, s, w} \union Q
           A == all \union {mine}
           B == {g, s, c} \union Q \union {c}
<1>1. /\ g \in PlanCopy /\ s \in PlanCopy /\ w \in PlanCopy /\ mine \in PlanCopy
      /\ all \in SUBSET PlanCopy /\ Q \in SUBSET PlanCopy
      /\ O \in SUBSET Orders /\ H \in SUBSET Trades
      /\ CopiesFollow(all, mine, s, top) /\ CopiesWell(all, mine, O, H, top, gone)
      /\ Safe(w, s, Q, mine, TRUE)
  BY DEF Moves, Sound, Arranged, KnownWell, PlacesWell, LossWell
<1>2. /\ c \in PlanCopy /\ f \in PlanCopy /\ Leads(f, A) /\ h \in PlanCopy /\ Leads(h, B)
      /\ Leads(mine, A) => f = mine
  BY DEF Moves, Succeeds
<1>3. A \subseteq PlanCopy /\ f \in A /\ h \in B
  BY <1>1, <1>2 DEF Leads
<1>4. PICK e \in {g, s} \union Q : Newer(e, f)
  <2>1. CASE f = w
    BY <1>1, <2>1 DEF Safe
  <2>2. CASE f # w
    <3>1. f \in {g, s} \union Q
      BY <1>3, <2>2
    <3> QED  BY <1>2, <3>1, NewerOrder
  <2> QED  BY <2>1, <2>2
<1>5. Newer(h, f)
  <2>1. e \in A /\ e \in B
    OBVIOUS
  <2>2. Newer(h, e)
    BY <1>2, <2>1 DEF Leads
  <2> QED  BY <1>2, <1>3, <1>4, <2>1, <2>2, NewerOrder
<1>6. CASE h \in all
  <2>1. \A d \in A : Newer(h, d)
    BY <1>2, <1>3, <1>5, NewerOrder DEF Leads
  <2>2. Leads(h, A)
    BY <1>6, <2>1 DEF Leads
  <2>3. ~Leads(mine, A)
    BY <1>2
  <2> HIDE DEF all
  <2> QED  BY <1>1, <1>2, <2>2, <2>3, TopTells DEF A
<1>7. CASE h \notin all
  BY <1>3, <1>5, <1>7
<1> QED  BY <1>6, <1>7

-----------------------------------------------------------------------------
(* The robot's steps.                                                      *)

\* Every one of them saves a copy of the runtime's.
LEMMA WorkTaken ==
    ASSUME PlanInv, StakeInv', Calm("runtime"), NEW c \in PlanCopy, Works(c), stored' = stored
    PROVE  /\ AtGateway' = AtGateway /\ shown' = c /\ Waiting' = Waiting /\ Mine' = c
           /\ Idle /\ Idle' = FALSE
           /\ Moves(AtGateway, stored, shown, Waiting, Mine, open, history, ids, waived,
                    running, asked, c, c, Freshest, Freshest')
<1>1. /\ AtGateway' = AtGateway /\ shown' = c /\ Waiting' = Waiting /\ Mine' = c
      /\ Idle /\ Idle' = FALSE
  BY PlanIs, WorksOf DEF AtGateway, Waiting, Idle
<1>2. PICK f, h : f = Freshest /\ h = Freshest'
  OBVIOUS
<1>3. Moves(AtGateway, stored, shown, Waiting, Mine, open, history, ids, waived,
            running, asked, c, c, f, h)
  BY <1>1, <1>2, MovesNext
<1> QED  BY <1>1, <1>2, <1>3

\* The invariant after it, if the copies are well against the new one.
LEMMA WorkKeeps ==
    ASSUME PlanInv, StakeInv', Calm("runtime"), NEW c \in PlanCopy, Works(c), stored' = stored, ids' = ids,
           asked' = asked, c.id = Mine.id, c = Mine \/ c.rev = Mine.rev + 1, Active(c) => Active(Mine),
           NEW no, no = FALSE, NEW gone2 \in BOOLEAN, waived' = gone2, gone2 => waived,
           NEW O2, open' = O2, NEW H2, history' = H2, running' => running,
           KnownWell(AtGateway, stored, c, Waiting, c, no, O2, H2, ids, gone2),
           Completed(AtGateway, Mine, open, history, ids, waived)
             => Completed(AtGateway, c, O2, H2, ids, gone2)
    PROVE  PlanInv'
<1>1. /\ AtGateway' = AtGateway /\ shown' = c /\ Waiting' = Waiting /\ Mine' = c
      /\ Idle /\ Idle' = FALSE
  BY WorkTaken
<1>2. Mine.rev \in Nat /\ c.rev \in Nat
  BY PlanIs, SoundIs, FieldsOf
<1>3. PICK on2 : on2 = running'
  OBVIOUS
<1>4. /\ Sound(AtGateway, stored, shown, Waiting, Mine, Idle, open, history, ids)
      /\ PlacesWell(AtGateway, stored, shown, Waiting, Mine, Idle, open, history, ids, waived,
                    running, asked)
  BY PlanIs
<1>5. PlacesWell(AtGateway, stored, c, Waiting, c, no, O2, H2, ids, gone2, on2, asked)
  <2>1. c = Mine \/ c.rev > Mine.rev
    BY <1>2
  <2>2. on2 => running
    BY <1>3
  <2> QED  BY <1>1, <1>4, <2>1, <2>2, WorkPlaces
<1> QED  BY <1>1, <1>3, <1>5, PlanNext

\* An order is sent.
LEMMA SendKeeps ==
    ASSUME PlanInv, NEW o \in Order, SendOrder(o)
    PROVE  PlanInv' /\ PlanMoves
<1> DEFINE c == MarkPending(Mine, o)
           O2 == open \union {[order |-> o, id |-> Mine.id]}
<1>1. /\ running /\ Calm("runtime") /\ Active(Mine) /\ Mine.pending = 0 /\ Unsent(o)
      /\ open' = O2 /\ Works(c) /\ waived' = FALSE
      /\ UNCHANGED <<stored, terms, running, asked, history, ids, turns>>
  BY DEF SendOrder
<1>2. StakeInv /\ StakeInv'
  BY PlanIs, OrderSent
<1>3. /\ Mine \in PlanCopy /\ ids \in Nat /\ Idle \in BOOLEAN /\ waived \in BOOLEAN
      /\ history \in SUBSET Trades
  BY <1>2, PlanIs, SoundIs
<1>4. /\ c \in PlanCopy /\ c.id = Mine.id /\ c.rev = Mine.rev + 1 /\ c.status = Mine.status
      /\ c.booked = Mine.booked /\ c.pending = o
      /\ c.terms = Mine.terms /\ c.won = Mine.won /\ c.lost = Mine.lost
  BY <1>3, MarkOf, MarkMore
<1>5. Active(c)
  BY <1>1, <1>4 DEF Active
<1>6. O2 \in SUBSET Orders /\ \A t \in O2 \union history : t.id \in {Mine.id} \/ t \in open \union history
  <2>1. open' \in SUBSET Orders
    BY <1>2 DEF StakeInv, PlanTypes, Orders
  <2> QED  BY <1>1, <2>1
<1> HIDE DEF c, O2
<1>7. Mine' = c
  BY <1>1, <1>2, <1>4, WorkTaken
<1>8. Full(c, O2, history)
  <2>1. MineRight(c, O2, history)
    BY <1>1, <1>2, <1>7 DEF StakeInv
  <2> QED  BY <1>5, <2>1 DEF MineRight, Full
<1>9. /\ Sound(AtGateway, stored, shown, Waiting, Mine, Idle, open, history, ids)
      /\ Arranged(AtGateway, stored, shown, Waiting, Mine, Idle, open, history, ids, waived,
                  running, asked)
      /\ StartWell(AtGateway, stored, shown, Waiting, Mine, running, asked)
      /\ MineWell(Mine, open, history)
  BY PlanIs
<1>10. \A d \in {AtGateway, stored, shown} \union Waiting : ~Ended(d, Mine)
  BY <1>1, <1>9, NoneEnded
<1>11. PICK no \in BOOLEAN : no = FALSE
  OBVIOUS
<1>12. KnownWell(AtGateway, stored, c, Waiting, c, no, O2, history, ids, no)
  <2>1. /\ Active(Mine) /\ history \in SUBSET Trades /\ c \in PlanCopy
        /\ c.id = Mine.id /\ c.terms = Mine.terms /\ c.won = Mine.won /\ c.lost = Mine.lost
        /\ ~Active(c) => c.pending = 0
    BY <1>1, <1>3, <1>4, <1>5
  <2> QED  BY <1>6, <1>8, <1>9, <1>10, <2>1, CalmWell
<1>13. PlanInv'
  <2>1. ~Completed(AtGateway, Mine, open, history, ids, waived)
    BY <1>10 DEF Completed
  <2> QED  BY <1>1, <1>2, <1>4, <1>11, <1>12, <2>1, WorkKeeps
<1>14. PlanMoves
  <2>1. PICK f, h : f = Freshest /\ h = Freshest'
    OBVIOUS
  <2>2. Moves(AtGateway, stored, shown, Waiting, Mine, open, history, ids, waived,
              running, asked, c, c, f, h)
    BY <1>1, <1>2, <1>4, <2>1, WorkTaken
  <2>3. /\ f.id >= Mine.id
        /\ f = Mine /\ c.rev > Mine.rev => h = c
        /\ f # Mine /\ f.id = Mine.id => Ended(f, Mine)
        /\ f.id > Mine.id => AsPlan(f) = AsPlan(h) /\ ~waived
    BY <1>4, <2>2, WorkLeads
  <2>4. f \in PlanCopy /\ f \in {AtGateway, stored, shown} \union Waiting \union {Mine}
    BY <2>2 DEF Moves, Succeeds, Leads
  <2>5. f.id \in Nat /\ Mine.id \in Nat /\ Mine.rev \in Nat
    BY <1>3, <2>4, FieldsOf
  <2>6. ASSUME f = Mine PROVE PlanMoves
    <3>1. h = c
      BY <1>4, <2>3, <2>5, <2>6
    <3>2. o \notin Mine.booked
      <4>1. Mine.booked = Told(history, Mine.id)
        BY <1>9 DEF MineWell, Full
      <4>2. \A t \in history : t.order # o
        <5> TAKE t \in history
        <5> DEFINE r == [order |-> t.order, id |-> t.id]
        <5>1. r \in open \union {[order |-> x.order, id |-> x.id] : x \in history}
          OBVIOUS
        <5>2. r.order # o
          BY <1>1, <5>1 DEF Unsent
        <5> QED  BY <5>2
      <4> QED  BY <4>1, <4>2 DEF Told
    <3> QED  BY <1>1, <1>3, <1>4, <2>1, <2>6, <3>1, <3>2, PlanStakes
  <2>7. ASSUME f.id > Mine.id PROVE PlanMoves
    <3>1. waived' = waived
      BY <1>1, <1>3, <2>3, <2>7
    <3> QED  BY <2>1, <2>3, <2>7, <3>1, PlanStays
  <2>8. f = Mine \/ f.id # Mine.id
    BY <1>10, <2>3, <2>4
  <2> QED  BY <2>3, <2>5, <2>6, <2>7, <2>8
<1> QED  BY <1>13, <1>14

\* The money is out.
LEMMA NoCapitalKeeps ==
    ASSUME PlanInv, NoCapital
    PROVE  PlanInv' /\ PlanMoves
<1> DEFINE c == Close(Mine, "bust")
<1>1. /\ running /\ Calm("runtime") /\ Active(Mine) /\ Mine.pending = 0 /\ Works(c)
      /\ running' = FALSE
      /\ UNCHANGED <<stored, terms, asked, open, history, ids, turns, waived>>
  BY DEF NoCapital
<1>2. StakeInv /\ StakeInv'
  BY PlanIs, QuietWorkStep
<1>3. /\ Mine \in PlanCopy /\ ids \in Nat /\ Idle \in BOOLEAN /\ waived \in BOOLEAN
      /\ open \in SUBSET Orders /\ history \in SUBSET Trades
  BY <1>2, PlanIs, SoundIs
<1>4. /\ c \in PlanCopy /\ c.id = Mine.id /\ c.rev = Mine.rev + 1 /\ ~Active(c)
      /\ c.booked = Mine.booked /\ c.pending = Mine.pending
      /\ c.terms = Mine.terms /\ c.won = Mine.won /\ c.lost = Mine.lost
  <2>1. "bust" \in Over
    BY DEF Over
  <2> QED  BY <1>3, <2>1, CloseOf, CloseMore
<1> HIDE DEF c
<1>5. /\ Sound(AtGateway, stored, shown, Waiting, Mine, Idle, open, history, ids)
      /\ Arranged(AtGateway, stored, shown, Waiting, Mine, Idle, open, history, ids, waived,
                  running, asked)
      /\ StartWell(AtGateway, stored, shown, Waiting, Mine, running, asked)
      /\ MineWell(Mine, open, history)
  BY PlanIs
<1>6. \A d \in {AtGateway, stored, shown} \union Waiting : ~Ended(d, Mine)
  BY <1>1, <1>5, NoneEnded
<1>7. Full(c, open, history)
  BY <1>4, <1>5 DEF MineWell, Full
<1>8. PICK no \in BOOLEAN : no = FALSE
  OBVIOUS
<1>9. KnownWell(AtGateway, stored, c, Waiting, c, no, open, history, ids, waived)
  <2>1. /\ Active(Mine) /\ c.pending = 0
        /\ \A t \in open \union history : t.id \in {Mine.id} \/ t \in open \union history
    BY <1>1, <1>4
  <2> QED  BY <1>3, <1>4, <1>5, <1>6, <1>7, <2>1, CalmWell
<1>10. PlanInv'
  <2>1. ~Completed(AtGateway, Mine, open, history, ids, waived)
    BY <1>6 DEF Completed
  <2>2. /\ Active(c) => Active(Mine)
        /\ c = Mine \/ c.rev = Mine.rev + 1
        /\ running' => running
        /\ waived' = waived /\ open' = open /\ history' = history
        /\ stored' = stored /\ ids' = ids /\ asked' = asked
    BY <1>1, <1>4
  <2> QED  BY <1>1, <1>2, <1>3, <1>4, <1>8, <1>9, <2>1, <2>2, WorkKeeps
<1>11. PlanMoves
  <2>1. PICK f, h : f = Freshest /\ h = Freshest'
    OBVIOUS
  <2>2. Moves(AtGateway, stored, shown, Waiting, Mine, open, history, ids, waived,
              running, asked, c, c, f, h)
    BY <1>1, <1>2, <1>4, <2>1, WorkTaken
  <2>3. /\ f.id >= Mine.id
        /\ f = Mine /\ c.rev > Mine.rev => h = c
        /\ f # Mine /\ f.id = Mine.id => Ended(f, Mine)
        /\ f.id > Mine.id => AsPlan(f) = AsPlan(h)
    BY <1>4, <2>2, WorkLeads
  <2>4. f \in PlanCopy /\ f \in {AtGateway, stored, shown} \union Waiting \union {Mine}
    BY <2>2 DEF Moves, Succeeds, Leads
  <2>5. f.id \in Nat /\ Mine.id \in Nat /\ Mine.rev \in Nat
    BY <1>3, <2>4, FieldsOf
  <2>6. ASSUME f = Mine PROVE PlanMoves
    <3>1. h = c
      BY <1>4, <2>3, <2>5, <2>6
    <3>2. waived' = (waived \/ Mine.pending # 0)
      BY <1>1, <1>3
    <3> QED  BY <1>1, <1>3, <1>4, <2>1, <2>6, <3>1, <3>2, PlanEnds
  <2>7. ASSUME f.id > Mine.id PROVE PlanMoves
    BY <1>1, <2>1, <2>3, <2>7, PlanStays
  <2>8. f = Mine \/ f.id # Mine.id
    BY <1>6, <2>3, <2>4
  <2> QED  BY <2>3, <2>5, <2>6, <2>7, <2>8
<1> QED  BY <1>10, <1>11

\* The runtime says again what it has: nothing of the plan changes.
LEMMA SaysAgain ==
    ASSUME PlanInv, StakeInv', Calm("runtime"), Works(Mine), waived' = waived,
           UNCHANGED <<stored, ids>>
    PROVE  PlanMoves
<1>1. /\ AtGateway' = AtGateway /\ shown' = Mine /\ Waiting' = Waiting /\ Mine' = Mine /\ Idle
  BY WorkTaken, PlanIs, SoundIs
<1>2. Safe(shown, stored, Waiting, Mine, Idle)
  BY PlanIs DEF LossWell
<1>3. \A d \in {AtGateway, stored, Mine} \union Waiting : Newer(d, d)
  BY PlanIs, SoundIs, NewerOrder
<1>4. \A d \in {AtGateway, stored, shown, Mine} \union Waiting :
        \E e \in {AtGateway', stored', shown', Mine} \union Waiting' : Newer(e, d)
  <2> TAKE d \in {AtGateway, stored, shown, Mine} \union Waiting
  <2>1. CASE d = shown
    BY <1>1, <1>2, <2>1 DEF Safe
  <2>2. CASE d # shown
    BY <1>1, <1>3, <2>2
  <2> QED  BY <2>1, <2>2
<1>5. {AtGateway', stored', shown'} \union Waiting'
        \subseteq {AtGateway, stored, shown, Mine, Nothing} \union Waiting
  BY <1>1
<1> QED  BY <1>1, <1>4, <1>5, PlanShuffles

\* The robot stops for a result that is too long in coming.
LEMMA OverdueKeeps ==
    ASSUME PlanInv, PendingOverdue
    PROVE  PlanInv' /\ PlanMoves
<1>1. /\ running /\ Calm("runtime") /\ Active(Mine) /\ Works(Mine)
      /\ running' = FALSE
      /\ UNCHANGED <<stored, terms, asked, open, history, ids, turns, waived>>
  BY DEF PendingOverdue
<1>2. StakeInv /\ StakeInv'
  BY PlanIs, QuietWorkStep
<1>3. /\ Mine \in PlanCopy /\ ids \in Nat /\ Idle \in BOOLEAN /\ waived \in BOOLEAN
      /\ open \in SUBSET Orders /\ history \in SUBSET Trades
  BY <1>2, PlanIs, SoundIs
<1>4. /\ Sound(AtGateway, stored, shown, Waiting, Mine, Idle, open, history, ids)
      /\ Arranged(AtGateway, stored, shown, Waiting, Mine, Idle, open, history, ids, waived,
                  running, asked)
      /\ StartWell(AtGateway, stored, shown, Waiting, Mine, running, asked)
      /\ MineWell(Mine, open, history)
  BY PlanIs
<1>5. \A d \in {AtGateway, stored, shown} \union Waiting : ~Ended(d, Mine)
  BY <1>1, <1>4, NoneEnded
<1>6. Full(Mine, open, history)
  BY <1>4 DEF MineWell
<1>7. PICK no \in BOOLEAN : no = FALSE
  OBVIOUS
<1>8. KnownWell(AtGateway, stored, Mine, Waiting, Mine, no, open, history, ids, waived)
  <2>1. /\ Active(Mine)
        /\ \A t \in open \union history : t.id \in {Mine.id} \/ t \in open \union history
    BY <1>1
  <2> QED  BY <1>3, <1>4, <1>5, <1>6, <2>1, CalmWell
<1>9. PlanInv'
  <2>1. running' => running
    BY <1>1
  <2> QED  BY <1>1, <1>2, <1>3, <1>7, <1>8, <2>1, WorkKeeps
<1>10. PlanMoves
  BY <1>1, <1>2, SaysAgain
<1> QED  BY <1>9, <1>10

\* A result is overdue: the plan stays what it was.
LEMMA TimeOutKeeps ==
    ASSUME PlanInv, NEW t \in open, ResultTimesOut(t)
    PROVE  PlanInv' /\ PlanMoves
<1> DEFINE c == FlagUnknown(Mine, t.order)
<1>1. /\ Calm("runtime") /\ c # Mine /\ Works(c)
      /\ UNCHANGED <<stored, terms, running, asked, open, history, ids, turns, waived>>
  BY DEF ResultTimesOut
<1>2. StakeInv /\ StakeInv'
  BY PlanIs, QuietWorkStep
<1>3. /\ Mine \in PlanCopy /\ ids \in Nat /\ Idle \in BOOLEAN /\ waived \in BOOLEAN
      /\ open \in SUBSET Orders /\ history \in SUBSET Trades
  BY <1>2, PlanIs, SoundIs
<1>4. t.order \in Order /\ t.order # 0
  BY <1>3, PlanAssumption DEF Orders
<1>5. /\ c \in PlanCopy /\ c.id = Mine.id /\ c.rev = Mine.rev + 1 /\ c.status = Mine.status
      /\ c.booked = Mine.booked /\ c.pending = Mine.pending
      /\ Mine.pending = t.order /\ ~Mine.unknown /\ c.unknown
      /\ c.terms = Mine.terms /\ c.won = Mine.won /\ c.lost = Mine.lost
  BY <1>1, <1>3, <1>4, FlagOf, FlagMore
<1> HIDE DEF c
<1>6. Active(c) <=> Active(Mine)
  BY <1>5 DEF Active
<1>7. /\ Sound(AtGateway, stored, shown, Waiting, Mine, Idle, open, history, ids)
      /\ Arranged(AtGateway, stored, shown, Waiting, Mine, Idle, open, history, ids, waived,
                  running, asked)
      /\ MineWell(Mine, open, history)
  BY PlanIs
<1>8. PICK no \in BOOLEAN : no = FALSE
  OBVIOUS
<1>9. Idle
  BY <1>1, <1>2, <1>5, WorkTaken
<1>10. KnownWell(AtGateway, stored, c, Waiting, c, no, open, history, ids, waived)
  <2>1. \A u \in open \union history : u.id >= 1
    BY <1>7 DEF MineWell
  <2>2. c = Mine \/ (c.rev = Mine.rev + 1 /\ c.unknown /\ ~Mine.unknown /\ Mine.pending # 0)
    BY <1>4, <1>5
  <2>3. Quiet(AtGateway, stored, shown, Waiting, Mine, Idle, open, history, ids, waived,
              running, asked, c, open, history)
    BY <1>3, <1>5, <1>6, <1>7, <2>1, <2>2 DEF Quiet
  <2>4. ~no
    BY <1>8
  <2> QED  BY <1>3, <1>9, <2>3, <2>4, QuietWell
<1>11. PlanInv'
  <2>1. Completed(AtGateway, Mine, open, history, ids, waived)
          => Completed(AtGateway, c, open, history, ids, waived)
    BY <1>5 DEF Completed, Ended
  <2>2. /\ Active(c) => Active(Mine)
        /\ c = Mine \/ c.rev = Mine.rev + 1
        /\ running' => running
        /\ waived' = waived /\ open' = open /\ history' = history
        /\ stored' = stored /\ ids' = ids /\ asked' = asked
    BY <1>1, <1>5, <1>6
  <2> QED  BY <1>1, <1>2, <1>3, <1>5, <1>8, <1>10, <2>1, <2>2, WorkKeeps
<1>12. PlanMoves
  <2>1. PICK f, h : f = Freshest /\ h = Freshest'
    OBVIOUS
  <2>2. Moves(AtGateway, stored, shown, Waiting, Mine, open, history, ids, waived,
              running, asked, c, c, f, h)
    BY <1>1, <1>2, <1>5, <2>1, WorkTaken
  <2>3. /\ f.id >= Mine.id
        /\ f = Mine /\ c.rev > Mine.rev => h = c
        /\ f # Mine /\ f.id = Mine.id =>
             Ended(f, Mine) /\ EndedWell(f, Mine, open, history, ids, waived) /\ f.terms = Mine.terms
        /\ f.id > Mine.id => AsPlan(f) = AsPlan(h)
    BY <1>5, <2>2, WorkLeads
  <2>4. f \in PlanCopy
    BY <2>2 DEF Moves, Succeeds
  <2>5. f.id \in Nat /\ f.rev \in Nat /\ Mine.id \in Nat /\ Mine.rev \in Nat
    BY <1>3, <2>4, FieldsOf
  <2>6. ASSUME AsPlan(f) = AsPlan(h) PROVE PlanMoves
    BY <1>1, <2>1, <2>6, PlanStays
  <2>7. CASE f = Mine
    <3>1. h = c
      BY <1>5, <2>3, <2>5, <2>7
    <3>2. AsPlan(f) = AsPlan(h)
      BY <1>5, <1>6, <2>7, <3>1, SameParts
    <3> QED  BY <2>6, <3>2
  <2>8. CASE f.id > Mine.id
    BY <2>3, <2>6, <2>8
  <2>9. CASE f # Mine /\ f.id = Mine.id
    <3>1. AsPlan(f) = AsPlan(h) \/ (h = c /\ Newer(c, f))
      BY <1>5, <2>2, <2>9, EndedLeads
    <3>2. Full(Mine, open, history)
      BY <1>7 DEF MineWell
    <3>3. Full(f, open, history)
      <4>1. Told(open, f.id) # {}
        BY <1>4, <1>5, <2>9, <3>2 DEF Full
      <4> QED  BY <2>3, <2>9, <4>1 DEF EndedWell, Half
    <3>4. f.booked = Mine.booked /\ f.pending = Mine.pending
      BY <1>3, <2>4, <2>9, <3>2, <3>3, FullAgree
    <3>5. f.won = Mine.won /\ f.lost = Mine.lost /\ f.terms = Mine.terms
      BY <2>3, <2>9, <3>3 DEF EndedWell, Counts
    <3>6. ~Active(f)
      BY <2>3, <2>9 DEF Ended
    <3>7. ASSUME h = c, Newer(c, f) PROVE AsPlan(f) = AsPlan(h)
      <4>1. ~Active(Mine)
        <5>1. Active(Mine) => Mine.rev < f.rev
          BY <1>4, <1>5, <2>3, <2>9, <3>3, <3>4 DEF EndedWell
        <5> QED  BY <1>5, <1>6, <2>5, <2>9, <3>6, <3>7, <5>1 DEF Newer
      <4> QED  BY <1>5, <1>6, <2>9, <3>4, <3>5, <3>6, <3>7, <4>1, SameParts
    <3> QED  BY <2>6, <3>1, <3>7
  <2> QED  BY <2>3, <2>5, <2>7, <2>8, <2>9
<1> QED  BY <1>11, <1>12

\* The result of an order of another plan: it does not enter the runtime's.
LEMMA OtherResultKeeps ==
    ASSUME PlanInv, NEW t \in open, NEW result \in Results, ResultArrives(t, result), t.id # Mine.id
    PROVE  PlanInv' /\ PlanMoves
<1> DEFINE trade == [order |-> t.order, id |-> t.id, result |-> result]
           O2 == open \ {t}
           H2 == history \union {trade}
<1>1. trade.order = t.order /\ trade.id = t.id
  OBVIOUS
<1>2. /\ Calm("runtime") /\ open' = O2 /\ history' = H2 /\ Works(ApplyOwn(Mine, trade))
      /\ running' => running
      /\ UNCHANGED <<stored, terms, asked, ids, turns, waived>>
  BY DEF ResultArrives
<1>3. StakeInv /\ StakeInv'
  BY PlanIs, ResultStep
<1>4. /\ Mine \in PlanCopy /\ ids \in Nat /\ Idle \in BOOLEAN /\ waived \in BOOLEAN
      /\ open \in SUBSET Orders /\ history \in SUBSET Trades
  BY <1>3, PlanIs, SoundIs
<1>5. trade \in Trades /\ O2 \in SUBSET Orders /\ H2 \in SUBSET Trades
  BY <1>4 DEF Orders, Trades
<1>6. t \in open /\ O2 = open \ {t} /\ H2 = history \union {trade}
  OBVIOUS
<1> HIDE DEF trade, O2, H2
<1>7. ApplyOwn(Mine, trade) = Mine
  BY <1>1 DEF ApplyOwn
<1>8. Works(Mine)
  BY <1>2, <1>7
<1>9. /\ Sound(AtGateway, stored, shown, Waiting, Mine, Idle, open, history, ids)
      /\ Arranged(AtGateway, stored, shown, Waiting, Mine, Idle, open, history, ids, waived,
                  running, asked)
      /\ MineWell(Mine, open, history)
  BY PlanIs
<1>10. PICK no \in BOOLEAN : no = FALSE
  OBVIOUS
<1>11. Idle
  BY <1>2, <1>3, <1>4, <1>8, WorkTaken
<1>12. /\ {u \in O2 : u.id = Mine.id} = {u \in open : u.id = Mine.id}
       /\ {u \in H2 : u.id = Mine.id} = {u \in history : u.id = Mine.id}
  BY <1>1, <1>6
<1>13. KnownWell(AtGateway, stored, Mine, Waiting, Mine, no, O2, H2, ids, waived)
  <2>1. \A u \in O2 \union H2 : u.id >= 1
    BY <1>1, <1>6, <1>9 DEF MineWell
  <2>2. Quiet(AtGateway, stored, shown, Waiting, Mine, Idle, open, history, ids, waived,
              running, asked, Mine, O2, H2)
    BY <1>4, <1>5, <1>9, <1>12, <2>1 DEF Quiet
  <2>3. ~no
    BY <1>10
  <2> QED  BY <1>4, <1>11, <2>2, <2>3, QuietWell
<1>14. PlanInv'
  <2>1. Completed(AtGateway, Mine, open, history, ids, waived)
          => Completed(AtGateway, Mine, O2, H2, ids, waived)
    <3>1. Told(O2, Mine.id) = Told(open, Mine.id) /\ Told(H2, Mine.id) = Told(history, Mine.id)
      BY <1>12 DEF Told
    <3> QED  BY <3>1 DEF Completed, Ended, Full
  <2>2. /\ waived' = waived /\ stored' = stored /\ ids' = ids /\ asked' = asked
        /\ running' => running
    BY <1>2
  <2> QED  BY <1>2, <1>3, <1>4, <1>8, <1>10, <1>13, <2>1, <2>2, WorkKeeps
<1>15. PlanMoves
  BY <1>2, <1>3, <1>8, SaysAgain
<1> QED  BY <1>14, <1>15

\* The result of the order in flight is booked.
LEMMA OwnResultKeeps ==
    ASSUME PlanInv, NEW t \in open, NEW result \in Results, ResultArrives(t, result), t.id = Mine.id
    PROVE  PlanInv' /\ PlanMoves
<1> DEFINE trade == [order |-> t.order, id |-> t.id, result |-> result]
           O2 == open \ {t}
           H2 == history \union {trade}
           c == ApplyOwn(Mine, trade)
           o == t.order
<1>1. trade.order = t.order /\ trade.id = t.id /\ trade.result = result
  OBVIOUS
<1>2. /\ Calm("runtime") /\ open' = O2 /\ history' = H2 /\ Works(c)
      /\ running' => running
      /\ UNCHANGED <<stored, terms, asked, ids, turns, waived>>
  BY DEF ResultArrives
<1>3. StakeInv /\ StakeInv'
  BY PlanIs, ResultStep
<1>4. /\ Mine \in PlanCopy /\ ids \in Nat /\ Idle \in BOOLEAN /\ waived \in BOOLEAN
      /\ open \in SUBSET Orders /\ history \in SUBSET Trades
  BY <1>3, PlanIs, SoundIs
<1>5. trade \in Trades /\ o \in Order /\ o # 0
  BY <1>4, PlanAssumption DEF Orders, Trades
<1>6. t \in open /\ O2 = open \ {t} /\ H2 = history \union {trade} /\ c = ApplyOwn(Mine, trade)
  OBVIOUS
<1> HIDE DEF trade, O2, H2, c
<1>7. c = ApplyResult(Mine, o, result)
  BY <1>1, <1>6 DEF ApplyOwn
<1>8. /\ Sound(AtGateway, stored, shown, Waiting, Mine, Idle, open, history, ids)
      /\ Arranged(AtGateway, stored, shown, Waiting, Mine, Idle, open, history, ids, waived,
                  running, asked)
      /\ MineWell(Mine, open, history)
  BY PlanIs
<1>9. PICK no \in BOOLEAN : no = FALSE
  OBVIOUS
<1>10. ~no
  BY <1>9
<1>11. /\ Mine.pending = o /\ o \notin Mine.booked
       /\ KnownWell(AtGateway, stored, c, Waiting, c, no, O2, H2, ids, waived)
  BY <1>1, <1>5, <1>6, <1>8, <1>10, BookedWell
<1>12. /\ c \in PlanCopy /\ c.id = Mine.id /\ (Active(c) => Active(Mine))
       /\ c.booked = Mine.booked \union {o} /\ c.pending = 0
       /\ c.terms = Mine.terms /\ c.rev = Mine.rev + 1
       /\ c.won = (IF result = "WIN" THEN Mine.won + 1 ELSE Mine.won)
       /\ c.lost = (IF result = "LOSS" THEN Mine.lost + 1 ELSE Mine.lost)
       /\ Active(Mine) => (Active(c) <=> c.won < W /\ c.lost <= N - W)
  BY <1>4, <1>5, <1>7, <1>11, ApplyOf, ApplyMore
<1>13. Told(open, Mine.id) # {}
  BY <1>6 DEF Told
<1>14. PlanInv'
  <2>1. ~Completed(AtGateway, Mine, open, history, ids, waived)
    BY <1>13 DEF Completed, Ended, Full
  <2>2. /\ waived' = waived /\ stored' = stored /\ ids' = ids /\ asked' = asked
        /\ running' => running
        /\ c = Mine \/ c.rev = Mine.rev + 1
    BY <1>2, <1>12
  <2> QED  BY <1>2, <1>3, <1>4, <1>9, <1>11, <1>12, <2>1, <2>2, WorkKeeps
<1>15. PlanMoves
  <2>1. PICK f, h : f = Freshest /\ h = Freshest'
    OBVIOUS
  <2>2. Moves(AtGateway, stored, shown, Waiting, Mine, open, history, ids, waived,
              running, asked, c, c, f, h)
    BY <1>2, <1>3, <1>12, <2>1, WorkTaken
  <2>3. /\ f.id >= Mine.id
        /\ f = Mine /\ c.rev > Mine.rev => h = c
        /\ f # Mine /\ f.id = Mine.id =>
             /\ Ended(f, Mine) /\ EndedWell(f, Mine, open, history, ids, waived)
             /\ f.terms = Mine.terms /\ ids = Mine.id
        /\ f.id > Mine.id => AsPlan(f) = AsPlan(h)
    BY <1>12, <2>2, WorkLeads
  <2>4. f \in PlanCopy
    BY <2>2 DEF Moves, Succeeds
  <2>5. f.id \in Nat /\ f.rev \in Nat /\ Mine.id \in Nat /\ Mine.rev \in Nat
    BY <1>4, <2>4, FieldsOf
  <2>6. ASSUME AsPlan(f) = AsPlan(h) PROVE PlanMoves
    BY <1>2, <2>1, <2>6, PlanStays
  <2>7. CASE f = Mine
    <3>1. h = c
      BY <1>12, <2>3, <2>5, <2>7
    <3>2. /\ Freshest = Mine /\ Freshest' = c /\ waived' = waived
          /\ Active(c) => c.won < W /\ c.lost <= N - W
          /\ Active(Mine) /\ ~Active(c) => ~(c.won < W /\ c.lost <= N - W)
          /\ ~Active(Mine) /\ Active(c) => waived
      BY <1>2, <1>12, <2>1, <2>7, <3>1
    <3> QED  BY <1>4, <1>5, <1>11, <1>12, <3>2, PlanBooks
  <2>8. CASE f.id > Mine.id
    BY <2>3, <2>6, <2>8
  <2>9. CASE f # Mine /\ f.id = Mine.id
    <3>1. AsPlan(f) = AsPlan(h) \/ (h = c /\ Newer(c, f))
      BY <1>12, <2>2, <2>9, EndedLeads
    <3>2. Full(Mine, open, history)
      BY <1>8 DEF MineWell
    <3>3. Full(f, open, history)
      BY <1>13, <2>3, <2>9 DEF EndedWell, Half
    <3>4. f.booked = Mine.booked /\ f.pending = Mine.pending
      BY <1>4, <2>4, <2>9, <3>2, <3>3, FullAgree
    <3>5. f.won = Mine.won /\ f.lost = Mine.lost /\ f.terms = Mine.terms
      BY <2>3, <2>9, <3>3 DEF EndedWell, Counts
    <3>6. ~Active(f) /\ waived
      BY <1>5, <1>11, <2>3, <2>9, <3>4 DEF Ended, EndedWell
    <3>7. ASSUME h = c PROVE PlanMoves
      <4>1. /\ Freshest = f /\ Freshest' = c /\ waived' = waived
            /\ f.pending = o /\ o \notin f.booked
            /\ c.id = f.id /\ c.terms = f.terms /\ c.pending = 0 /\ c.booked = f.booked \union {o}
            /\ c.won = (IF result = "WIN" THEN f.won + 1 ELSE f.won)
            /\ c.lost = (IF result = "LOSS" THEN f.lost + 1 ELSE f.lost)
            /\ Active(c) => c.won < W /\ c.lost <= N - W
            /\ Active(f) /\ ~Active(c) => ~(c.won < W /\ c.lost <= N - W)
            /\ ~Active(f) /\ Active(c) => waived
        BY <1>2, <1>11, <1>12, <2>1, <2>9, <3>4, <3>5, <3>6, <3>7
      <4> QED  BY <1>5, <1>12, <2>4, <4>1, PlanBooks
    <3> QED  BY <2>6, <3>1, <3>7
  <2> QED  BY <2>3, <2>5, <2>7, <2>8, <2>9
<1> QED  BY <1>14, <1>15

-----------------------------------------------------------------------------
(* The theorem.                                                            *)

\* At first there is no plan and every copy says so.
LEMMA PlanStart == MoneyInit => PlanInv /\ Plan!PlanInit
<1> SUFFICES ASSUME MoneyInit PROVE PlanInv /\ Plan!PlanInit
  OBVIOUS
<1>1. StakeInv
  BY StakeStart
<1>2. /\ Nothing \in PlanCopy /\ Nothing.id = 0 /\ ~Active(Nothing) /\ Nothing.pending = 0
      /\ Nothing.booked = {}
  BY NothingIs
<1>3. /\ AtGateway = Nothing /\ Mine = Nothing /\ stored = Nothing /\ shown = Nothing
      /\ Waiting = {} /\ Idle = TRUE /\ open = {} /\ history = {} /\ ids = 0
      /\ waived = FALSE /\ running = FALSE /\ asked = FALSE
  BY OneWrite, <1>2 DEF MoneyInit, Member, Mine, AtGateway, Waiting, Idle
<1>4. Told({}, 0) = {}
  BY DEF Told
<1>5. Full(Nothing, {}, {})
  BY <1>2, <1>4 DEF Full
<1>6. Newer(Nothing, Nothing) /\ PickFreshest(Nothing, Nothing) = Nothing
  BY <1>2, NewerOrder, PickIs
<1>7. ~Half(Nothing, {}, {})
  BY <1>2, <1>4 DEF Half
<1>8. Ended(Nothing, Nothing) /\ ~Ahead(Nothing, Nothing)
  BY <1>2 DEF Ended, Ahead
<1>9. KnownWell(Nothing, Nothing, Nothing, {}, Nothing, TRUE, {}, {}, 0, FALSE)
  <2>1. MineWell(Nothing, {}, {})
    BY <1>2, <1>5 DEF MineWell
  <2>2. Placed(Nothing, Nothing, {}, {}, 0, FALSE)
    BY <1>2, <1>5, <1>7 DEF Placed, EndedWell, Counts
  <2>3. Paired(Nothing, Nothing, Nothing, {}, {})
    BY <1>2, <1>7 DEF Paired
  <2>4. CopiesWell({Nothing}, Nothing, {}, {}, 0, FALSE)
    BY <2>2, <2>3 DEF CopiesWell
  <2>5. RowWell({Nothing}, Nothing, Nothing, TRUE)
    BY <1>2 DEF RowWell
  <2>6. {Nothing, Nothing, Nothing} \union {} = {Nothing}
    OBVIOUS
  <2> QED  BY <2>1, <2>4, <2>5, <2>6 DEF KnownWell
<1>10. PlacesWell(Nothing, Nothing, Nothing, {}, Nothing, TRUE, {}, {}, 0, FALSE, FALSE, FALSE)
  <2>1. GatewayWell(Nothing, Nothing, Nothing, {}, Nothing, TRUE)
    BY <1>6 DEF GatewayWell, Meets
  <2>2. LossWell(Nothing, Nothing, Nothing, {}, Nothing, TRUE, {}, {}, 0, FALSE)
    BY <1>6 DEF LossWell, Safe
  <2>3. StartWell(Nothing, Nothing, Nothing, {}, Nothing, FALSE, FALSE)
    BY DEF StartWell
  <2>4. LastWell(Nothing, {}, Nothing, 0, FALSE)
    BY <1>2 DEF LastWell
  <2> QED  BY <2>1, <2>2, <2>3, <2>4 DEF PlacesWell
<1>11. PlanInv
  BY <1>1, <1>3, <1>9, <1>10 DEF PlanInv, Arranged
<1>12. Freshest = Nothing
  <2>1. Leads(Freshest, Copies(memory, stored, shown, queue))
    BY <1>1, FreshIs
  <2>2. Copies(memory, stored, shown, queue) = {Nothing}
    BY <1>1, <1>3, SoundIs
  <2> QED  BY <2>1, <2>2 DEF Leads
<1>13. Plan!PlanInit
  <2>1. AsPlan(Nothing) = [Plan!NewPlan(0, 1) EXCEPT !.status = "ended"]
    BY DEF AsPlan, Active, Nothing, Plan!NewPlan
  <2> QED  BY <1>3, <1>12, <2>1, PlanAssumption DEF Plan!PlanInit
<1> QED  BY <1>11, <1>13

\* Every step keeps the invariant and is a step of the plan or none.
LEMMA PlanStep ==
    ASSUME PlanInv, [MoneyNext]_planVars
    PROVE  PlanInv' /\ PlanMoves
<1>1. CASE GatewaySyncs
  BY <1>1, SyncKeeps
<1>2. CASE GatewayPersists
  BY <1>2, PersistKeeps
<1>3. CASE \E m \in Member : RowStored(m)
  BY <1>3, GatewayRowKeeps, RuntimeRowKeeps DEF Member
<1>4. CASE ShownExpires
  BY <1>4, ExpiryKeeps
<1>5. CASE ChangeSettings \/ RobotStops \/ UNCHANGED planVars
  BY <1>5, RestKeeps
<1>6. CASE GatewayReloads
  BY <1>6, ReloadKeeps
<1>7. CASE RuntimeReloads
  BY <1>7, RuntimeReloadKeeps
<1>8. CASE PlanStarts
  BY <1>8, StartKeeps
<1>9. CASE RuntimeStarts
  BY <1>9, RuntimeStartKeeps
<1>10. CASE EndCycle
  BY <1>10, EndKeeps
<1>11. CASE \E o \in Order : SendOrder(o)
  BY <1>11, SendKeeps
<1>12. CASE NoCapital
  BY <1>12, NoCapitalKeeps
<1>13. CASE PendingOverdue
  BY <1>13, OverdueKeeps
<1>14. CASE \E t \in open : ResultTimesOut(t)
  BY <1>14, TimeOutKeeps
<1>15. CASE \E t \in open : \E r \in {"WIN", "LOSS", "DRAW"} : ResultArrives(t, r)
  BY <1>15, OtherResultKeeps, OwnResultKeeps DEF Results
<1> QED  BY <1>1, <1>2, <1>3, <1>4, <1>5, <1>6, <1>7, <1>8, <1>9, <1>10, <1>11, <1>12, <1>13,
            <1>14, <1>15 DEF MoneyNext

\* For any number of orders, plans, restarts, late results and lost snapshots: the
\* copies of masaniello_cycle, whatever order they are saved and read in, behave as
\* one plan with one order in flight, each result booked once.
THEOREM PlanKept == MoneySpec => KeepsPlan
<1>1. PlanInv /\ [MoneyNext]_planVars => PlanInv'
  BY PlanStep
<1>2. PlanInv /\ [MoneyNext]_planVars => [Plan!PlanNext]_(Plan!planOf)
  BY PlanStep DEF PlanMoves
<1> QED  BY PlanStart, <1>1, <1>2, PTL DEF MoneySpec, KeepsPlan, Plan!PlanSpec

-----------------------------------------------------------------------------
(* The types of what the gateway decides, with their bounds.               *)

\* A disconnection the route waits for is at the service; its retry makes three.
CallsOut ==
    /\ exit \in {"sent", "again"} => pending >= 1
    /\ exit = "sent" => pending <= 2

\* What the types of the account bound beside Types.
LinkBounds ==
    /\ redis \in BOOLEAN /\ mark \in BOOLEAN /\ hear \in BOOLEAN /\ robot \in BOOLEAN
    /\ mirror \in [Process -> BOOLEAN]
    /\ pending \in 0..3 /\ mishaps \in 0..MaxMishap

\* A failure more is still within the bound.
LEMMA MishapBound == mishaps \in 0..MaxMishap /\ Mishap => mishaps' \in 0..MaxMishap
  BY LinkAssumption DEF Mishap

\* AccountLink keeps its bounds.
LEMMA LinkBoundsKept ==
    ASSUME LinkInv, LinkBounds, CallsOut, [LinkNext]_linkVars
    PROVE  LinkBounds' /\ CallsOut'
<1> USE DEF LinkBounds, CallsOut
<1>1. CASE UNCHANGED linkVars
  BY <1>1 DEF linkVars
<1>2. CASE EntryBegins
  BY <1>2 DEF EntryBegins, SetMark
<1>3. CASE EntryEnds
  BY <1>3 DEF EntryEnds
<1>4. CASE RobotStarts
  BY <1>4 DEF RobotStarts
<1>5. CASE ExitBegins
  <2>1. mirror' \in [Process -> BOOLEAN]
    BY <1>5 DEF ExitBegins, SetMark
  <2>2. pending \in 0..1
    BY <1>5 DEF ExitBegins
  <2>3. hear' \in BOOLEAN /\ mark' \in BOOLEAN
    BY <1>5 DEF ExitBegins, SetMark
  <2>4. pending' \in 1..2 /\ UNCHANGED <<redis, robot, mishaps>>
    BY <1>5, <2>2 DEF ExitBegins
  <2> QED  BY <2>1, <2>3, <2>4
<1>6. CASE ServiceDisconnects
  BY <1>6 DEF ServiceDisconnects
<1>7. CASE ExitUnanswered
  BY <1>7, MishapBound DEF ExitUnanswered
<1>8. CASE ExitEnds
  BY <1>8, MishapBound DEF ExitEnds
<1>9. ASSUME NEW p \in Process, AttemptBegins(p) PROVE LinkBounds' /\ CallsOut'
  BY <1>9 DEF AttemptBegins, Corrected, Marked
<1>10. ASSUME NEW p \in Process, SsidEnds(p) \/ LoginBegins(p) \/ LoginEnds(p)
       PROVE  LinkBounds' /\ CallsOut'
  BY <1>10 DEF SsidEnds, LoginBegins, LoginEnds
<1>11. CASE RuntimeHears
  BY <1>11 DEF RuntimeHears, Process
<1>12. CASE LinkFalls
  BY <1>12, MishapBound DEF LinkFalls
<1>13. CASE RedisFails
  BY <1>13, MishapBound DEF RedisFails
<1>14. CASE RedisReturns
  BY <1>14 DEF RedisReturns
<1>15. ASSUME NEW p \in Process, ProcessRestarts(p) PROVE LinkBounds' /\ CallsOut'
  BY <1>15, MishapBound DEF ProcessRestarts
<1> QED  BY <1>1, <1>2, <1>3, <1>4, <1>5, <1>6, <1>7, <1>8, <1>9, <1>10,
            <1>11, <1>12, <1>13, <1>14, <1>15 DEF LinkNext

\* The account's types, of their two parts.
LEMMA LinkTypesAre == LinkInv /\ LinkBounds => LinkTypeOK
  BY DEF LinkInv, Types, LinkBounds, LinkTypeOK

\* What the types of the switch bound beside SwitchTypes.
SwitchBounds ==
    /\ snapshot \in {"none", "on", "off"}
    /\ clicks \in 0..MaxClick /\ downs \in 0..MaxDown

\* RobotSwitch keeps its types.
LEMMA SwitchTypesKept ==
    ASSUME SwitchInv, SwitchBounds, [SwitchNext]_switchVars
    PROVE  SwitchBounds'
<1> USE SwitchAssumption DEF SwitchBounds
<1>1. CASE UNCHANGED switchVars
  BY <1>1 DEF switchVars
<1>2. CASE StartClicked
  BY <1>2 DEF StartClicked, Click, ShowControl, Shown
<1>3. CASE StartPublished
  <2>1. Goes \/ UNCHANGED downs
    BY <1>3 DEF StartPublished
  <2>2. downs' \in 0..MaxDown
    BY <2>1 DEF Goes
  <2>3. UNCHANGED <<snapshot, clicks>>
    BY <1>3 DEF StartPublished
  <2> QED  BY <2>2, <2>3
<1>4. CASE StopClicked
  BY <1>4 DEF StopClicked, Click, ShowControl, Shown
<1>5. CASE PanelPolls
  BY <1>5 DEF PanelPolls
<1>6. CASE HearStart \/ HearEnsure \/ HearStop
  BY <1>6 DEF HearStart, HearEnsure, HearStop
<1>7. CASE WorkerPersists
  BY <1>7 DEF WorkerPersists, Shown
<1>8. CASE RobotStopsItself
  BY <1>8 DEF RobotStopsItself, Click
<1>9. CASE \E s \in Side : RowWritten(s)
  BY <1>9 DEF RowWritten
<1>10. CASE RuntimeDies
  BY <1>10 DEF RuntimeDies, Goes
<1>11. CASE RuntimeLoads \/ RuntimeListens
  BY <1>11 DEF RuntimeLoads, RuntimeListens
<1>12. CASE GatewayRestarts
  BY <1>12 DEF GatewayRestarts, Goes
<1>13. CASE SnapshotExpires
  BY <1>13 DEF SnapshotExpires
<1> QED  BY <1>1, <1>2, <1>3, <1>4, <1>5, <1>6, <1>7, <1>8, <1>9, <1>10,
            <1>11, <1>12, <1>13 DEF SwitchNext, RuntimeSteps

\* The switch's types, of its two parts.
LEMMA SwitchTypesAre == SwitchInv /\ SwitchBounds => SwitchTypeOK
  BY DEF SwitchInv, SwitchTypes, SwitchBounds, SwitchTypeOK, OnlyListening


-----------------------------------------------------------------------------
(* Delivery: the attempts.                                                  *)

\* A hand is about to make an attempt, or will be queued for one. The operator has one.
Debt(h, step, status) ==
    IF \/ step = "holds" /\ h # "listing"
       \/ step = "queued" /\ h \in Tasks
       \/ step \in {"answered", "saved"} /\ h \in Tasks /\ status = "retrying"
       \/ step = "away" /\ h = "replay"
    THEN 1 ELSE 0

\* Who is.
Owes(f) == [h \in Hand |-> Debt(h, f[h].step, f[h].copy.status)]

\* How many.
Sum5(o) == o["first task"] + o["second task"] + o["replay"] + o["inline"] + o["listing"]
Owed(f) == Sum5(Owes(f))

\* What other calls and deaths bring.
Coming == (IF call # "over" THEN 1 ELSE 0) + (MaxCalls - calls) + (MaxTrouble - trouble)

\* The attempts there may still be, but for those of a task's own retries.
AttemptsLeft == Owed(hand) + Coming

\* A task tries again until the last of its tries.
Beyond(n) == IF n < MaxTries THEN MaxTries - 1 ELSE n

\* There is room for what is left.
Roomy(n) == Beyond(n) + AttemptsLeft <= MaxTries + MaxCalls + MaxTrouble

\* What the types of the delivery bound beside SendTypes.
SendBounds ==
    /\ Roomy(outgoing.tries)
    /\ \A h \in Hand : Roomy(hand[h].copy.tries) /\ hand[h].retries <= MaxTries
    /\ calls \in 1..MaxCalls /\ trouble \in 0..MaxTrouble
    /\ abandoned \in BOOLEAN

\* One hand changes the sum.
LEMMA SumPut ==
    ASSUME NEW o \in [Hand -> {0, 1}], NEW p \in [Hand -> {0, 1}], NEW h \in Hand,
           \A g \in Hand : g # h => p[g] = o[g]
    PROVE  Sum5(p) = Sum5(o) - o[h] + p[h] /\ Sum5(o) \in Nat
<1>1. /\ "first task" \in Hand /\ "second task" \in Hand /\ "replay" \in Hand
      /\ "inline" \in Hand /\ "listing" \in Hand
      /\ h \in {"first task", "second task", "replay", "inline", "listing"}
  BY DEF Hand, Tasks
<1>2. \A g \in Hand : o[g] \in Nat /\ p[g] \in Nat
  OBVIOUS
<1>3. PICK a \in Nat, b \in Nat, c \in Nat, d \in Nat, i \in Nat, m \in Nat :
        /\ a = o["first task"] /\ b = o["second task"] /\ c = o["replay"]
        /\ d = o["inline"] /\ i = o["listing"] /\ m = p[h]
  BY <1>1, <1>2, Zenon
<1>4. Sum5(o) = a + b + c + d + i
  BY <1>3, Zenon DEF Sum5
<1>5. /\ m + b + c + d + i = (a + b + c + d + i) - a + m
      /\ a + m + c + d + i = (a + b + c + d + i) - b + m
      /\ a + b + m + d + i = (a + b + c + d + i) - c + m
      /\ a + b + c + m + i = (a + b + c + d + i) - d + m
      /\ a + b + c + d + m = (a + b + c + d + i) - i + m
      /\ a + b + c + d + i \in Nat
  OBVIOUS
<1>6. CASE h = "first task"
  <2>1. Sum5(p) = m + b + c + d + i /\ o[h] = a
    BY <1>1, <1>3, <1>6, Zenon DEF Sum5
  <2> QED  BY <1>3, <1>4, <1>5, <2>1, Zenon
<1>7. CASE h = "second task"
  <2>1. Sum5(p) = a + m + c + d + i /\ o[h] = b
    BY <1>1, <1>3, <1>7, Zenon DEF Sum5
  <2> QED  BY <1>3, <1>4, <1>5, <2>1, Zenon
<1>8. CASE h = "replay"
  <2>1. Sum5(p) = a + b + m + d + i /\ o[h] = c
    BY <1>1, <1>3, <1>8, Zenon DEF Sum5
  <2> QED  BY <1>3, <1>4, <1>5, <2>1, Zenon
<1>9. CASE h = "inline"
  <2>1. Sum5(p) = a + b + c + m + i /\ o[h] = d
    BY <1>1, <1>3, <1>9, Zenon DEF Sum5
  <2> QED  BY <1>3, <1>4, <1>5, <2>1, Zenon
<1>10. CASE h = "listing"
  <2>1. Sum5(p) = a + b + c + d + m /\ o[h] = i
    BY <1>1, <1>3, <1>10, Zenon DEF Sum5
  <2> QED  BY <1>3, <1>4, <1>5, <2>1, Zenon
<1> QED  BY <1>1, <1>6, <1>7, <1>8, <1>9, <1>10

\* One hand changes what is owed.
LEMMA OwedPut ==
    ASSUME NEW f \in [Hand -> HandRow], NEW h \in Hand, NEW r \in HandRow,
           NEW g, g = [f EXCEPT ![h] = r]
    PROVE  /\ Owed(g) = Owed(f) - Owes(f)[h] + Owes(g)[h]
           /\ Owed(f) \in Nat
           /\ Owes(f) \in [Hand -> {0, 1}] /\ Owes(g) \in [Hand -> {0, 1}]
<1>1. \A i \in Hand : g[i] = IF i = h THEN r ELSE f[i]
  OBVIOUS
<1>2. Owes(f) \in [Hand -> {0, 1}] /\ Owes(g) \in [Hand -> {0, 1}]
  BY DEF Owes, Debt
<1>3. \A i \in Hand : i # h => Owes(g)[i] = Owes(f)[i]
  BY <1>1 DEF Owes
<1> QED  BY <1>2, <1>3, SumPut DEF Owed

\* What is owed is a number.
LEMMA OwedIs == ASSUME NEW f \in [Hand -> HandRow] PROVE Owed(f) \in Nat
<1>1. "inline" \in Hand /\ f["inline"] \in HandRow /\ f = [f EXCEPT !["inline"] = f["inline"]]
  BY DEF Hand
<1> QED  BY <1>1, OwedPut

\* No try is beyond the bound.
LEMMA RoomIs ==
    ASSUME SendTypes, SendBounds, NEW n \in Nat, Roomy(n)
    PROVE  n <= MaxTries + MaxCalls + MaxTrouble
<1>1. AttemptsLeft \in Nat
  <2>1. Owed(hand) \in Nat
    BY OwedIs DEF SendTypes
  <2>2. Coming \in Nat
    BY SendAssumption DEF Coming, SendBounds
  <2> QED  BY <2>1, <2>2 DEF AttemptsLeft
<1> QED  BY <1>1, SendAssumption DEF Roomy, Beyond

\* There is room while less is left, for less.
LEMMA RoomStays ==
    ASSUME NEW n \in Nat, NEW k \in Nat, NEW a \in Nat, NEW b \in Nat, k <= n, b <= a,
           Beyond(n) + a <= MaxTries + MaxCalls + MaxTrouble
    PROVE  Beyond(k) + b <= MaxTries + MaxCalls + MaxTrouble
  BY SendAssumption DEF Beyond

\* An attempt uses up one of those that are left.
LEMMA AttemptFits ==
    ASSUME NEW n \in Nat, NEW a \in Nat, NEW b \in Nat,
           n + 1 < MaxTries => b <= a, n + 1 >= MaxTries => b + 1 <= a,
           Beyond(n) + a <= MaxTries + MaxCalls + MaxTrouble
    PROVE  Beyond(n + 1) + b <= MaxTries + MaxCalls + MaxTrouble
  BY SendAssumption DEF Beyond

\* The counts of calls and trouble.
Counted == calls \in 1..MaxCalls /\ trouble \in 0..MaxTrouble /\ abandoned \in BOOLEAN

\* A hand may make its step, and the row another, when that leaves room.
LEMMA HandKeeps ==
    ASSUME SendTypes, SendTypes', SendBounds, Counted',
           NEW h \in Hand, NEW r \in HandRow, hand' = [hand EXCEPT ![h] = r],
           Owes(hand')[h] + Coming' <= Owes(hand)[h] + Coming,
           \/ r.copy.tries \in {0, outgoing.tries, hand[h].copy.tries}
           \/ /\ r.copy.tries = hand[h].copy.tries + 1
              /\ r.copy.tries >= MaxTries =>
                     Owes(hand')[h] + Coming' + 1 <= Owes(hand)[h] + Coming,
           outgoing'.tries \in {0, outgoing.tries, hand[h].copy.tries},
           r.retries <= MaxTries
    PROVE  SendBounds'
<1> DEFINE all == MaxTries + MaxCalls + MaxTrouble
<1>1. \A g \in Hand : hand'[g] = IF g = h THEN r ELSE hand[g]
  BY DEF SendTypes
<1>2. /\ Coming \in Nat /\ Owed(hand) \in Nat /\ AttemptsLeft = Owed(hand) + Coming
      /\ Coming' \in Nat /\ Owed(hand') \in Nat /\ AttemptsLeft' = Owed(hand') + Coming'
  <2>1. Owed(hand) \in Nat /\ Owed(hand') \in Nat
    BY OwedIs DEF SendTypes
  <2>2. Coming \in Nat
    BY SendAssumption DEF Coming, SendBounds
  <2>3. Coming' \in Nat
    BY SendAssumption DEF Coming, Counted
  <2> QED  BY <2>1, <2>2, <2>3 DEF AttemptsLeft
<1>3. /\ Owed(hand') = Owed(hand) - Owes(hand)[h] + Owes(hand')[h]
      /\ Owes(hand)[h] \in {0, 1} /\ Owes(hand')[h] \in {0, 1}
  BY OwedPut DEF SendTypes
<1>4. PICK a \in Nat, b \in Nat : a = AttemptsLeft /\ b = AttemptsLeft'
  BY <1>2
<1>5. PICK o \in Nat, p \in Nat, c \in Nat, d \in Nat, x \in {0, 1}, y \in {0, 1} :
        /\ o = Owed(hand) /\ p = Owed(hand') /\ c = Coming /\ d = Coming'
        /\ x = Owes(hand)[h] /\ y = Owes(hand')[h]
  BY <1>2, <1>3
<1>6. /\ b <= a
      /\ y + d + 1 <= x + c => b + 1 <= a
  <2>1. a = o + c /\ b = p + d /\ p = o - x + y /\ y + d <= x + c
    BY <1>2, <1>3, <1>4, <1>5
  <2> QED  BY <2>1
<1>7. /\ outgoing.tries \in Nat /\ outgoing'.tries \in Nat
      /\ \A g \in Hand : hand[g].copy.tries \in Nat /\ hand[g].retries \in Nat
      /\ r.copy.tries \in Nat
  BY DEF SendTypes, HandRow, Copy
<1>8. /\ Beyond(outgoing.tries) + a <= all
      /\ \A g \in Hand : Beyond(hand[g].copy.tries) + a <= all /\ hand[g].retries <= MaxTries
  BY <1>4 DEF SendBounds, Roomy
<1>9. Beyond(0) + b <= all
  BY <1>6, <1>7, <1>8, RoomStays
<1>10. \A g \in Hand : Beyond(hand[g].copy.tries) + b <= all
  BY <1>6, <1>7, <1>8, RoomStays
<1>11. Beyond(outgoing.tries) + b <= all
  BY <1>6, <1>7, <1>8, RoomStays
<1>12. Beyond(outgoing'.tries) + b <= all
  BY <1>9, <1>10, <1>11
<1>13. Beyond(r.copy.tries) + b <= all
  <2>1. CASE r.copy.tries \in {0, outgoing.tries, hand[h].copy.tries}
    BY <1>9, <1>10, <1>11, <2>1
  <2>2. CASE /\ r.copy.tries = hand[h].copy.tries + 1
             /\ r.copy.tries >= MaxTries => y + d + 1 <= x + c
    <3>1. PICK n \in Nat : n = hand[h].copy.tries
      BY <1>7
    <3>2. n + 1 < MaxTries \/ n + 1 >= MaxTries
      BY <3>1, SendAssumption
    <3>3. /\ n + 1 < MaxTries => b <= a
          /\ n + 1 >= MaxTries => b + 1 <= a
          /\ Beyond(n) + a <= all
      BY <1>6, <1>8, <2>2, <3>1
    <3>4. Beyond(n + 1) + b <= all
      BY <3>3, AttemptFits
    <3> QED  BY <2>2, <3>1, <3>4
  <2> QED  BY <1>5, <2>1, <2>2
<1>14. \A g \in Hand : Beyond(hand'[g].copy.tries) + b <= all /\ hand'[g].retries <= MaxTries
  BY <1>1, <1>8, <1>10, <1>13
<1> QED  BY <1>4, <1>12, <1>14 DEF SendBounds, Roomy, Counted, Beyond

\* What a hand is after a step, with its retries.
Puts(h, step, copy, n) ==
    \E r \in HandRow : /\ hand' = [hand EXCEPT ![h] = r]
                       /\ r.step = step /\ r.copy = copy /\ r.retries = n

\* A hand that goes one step on.
LEMMA StepsPuts ==
    ASSUME SendTypes, NEW h \in Hand, NEW step \in {"queued", "holds", "answered", "saved", "over"},
           Steps(h, step)
    PROVE  Puts(h, step, hand[h].copy, hand[h].retries)
<1> DEFINE r == [hand[h] EXCEPT !.step = step]
<1>1. r \in HandRow /\ r.step = step /\ r.copy = hand[h].copy /\ r.retries = hand[h].retries
  BY DEF SendTypes, HandRow
<1>2. hand' = [hand EXCEPT ![h] = r]
  BY DEF Steps
<1> HIDE DEF r
<1> QED  BY <1>1, <1>2 DEF Puts

\* A hand that is over, or queued.
LEMMA EndsPuts ==
    ASSUME SendTypes, NEW h \in Hand
    PROVE  /\ Ends(h) => Puts(h, "over", New, 0)
           /\ \A n \in Nat : Queues(h, n) => Puts(h, "queued", New, n)
<1>1. /\ At("over") \in HandRow /\ At("over").step = "over" /\ At("over").copy = New
      /\ At("over").retries = 0
  BY AtRow DEF At
<1>2. ASSUME Ends(h) PROVE Puts(h, "over", New, 0)
  BY <1>1, <1>2 DEF Ends, Puts
<1>3. ASSUME NEW n \in Nat, Queues(h, n) PROVE Puts(h, "queued", New, n)
  <2> DEFINE r == [At("queued") EXCEPT !.retries = n]
  <2>1. r \in HandRow /\ r.step = "queued" /\ r.copy = New
    BY AtRow
  <2>2. r.retries = n
    BY DEF At
  <2>3. hand' = [hand EXCEPT ![h] = r]
    BY <1>3 DEF Queues
  <2> HIDE DEF r
  <2> QED  BY <2>1, <2>2, <2>3 DEF Puts
<1> QED  BY <1>2, <1>3

\* A hand that has read the row.
LEMMA ReadsPuts ==
    ASSUME SendTypes, NEW h \in Hand, Reads(h)
    PROVE  Puts(h, "holds", outgoing, hand[h].retries)
<1> DEFINE r == [hand[h] EXCEPT !.step = "holds", !.copy = outgoing]
<1>1. r \in HandRow /\ r.step = "holds" /\ r.copy = outgoing /\ r.retries = hand[h].retries
  BY DEF SendTypes, HandRow
<1>2. hand' = [hand EXCEPT ![h] = r]
  BY DEF Reads, SendTypes, HandRow
<1> HIDE DEF r
<1> QED  BY <1>1, <1>2 DEF Puts

\* A hand whose attempt was answered; it may try again before the last try only.
LEMMA AnsweredPuts ==
    ASSUME SendTypes, NEW h \in Hand, NEW ok \in BOOLEAN, Answered(h, ok)
    PROVE  \E copy \in Copy : /\ Puts(h, "answered", copy, hand[h].retries)
                              /\ copy.tries = hand[h].copy.tries + 1
                              /\ copy.tries >= MaxTries => copy.status # "retrying"
<1> DEFINE tries == hand[h].copy.tries + 1
           copy == [status |-> IF ok THEN "delivered" ELSE AfterFailure(tries), tries |-> tries]
           r == [hand[h] EXCEPT !.step = "answered", !.copy = copy]
<1>1. copy \in Copy /\ copy.tries = tries /\ (tries >= MaxTries => copy.status # "retrying")
  BY DEF SendTypes, HandRow, Copy, AfterFailure
<1>2. hand' = [hand EXCEPT ![h] = r]
  BY DEF Answered, SendTypes, HandRow
<1>3. /\ r.step = "answered" /\ r.copy = copy /\ r.retries = hand[h].retries
      /\ copy \in Copy => r \in HandRow
  <2> HIDE DEF copy
  <2> QED  BY DEF SendTypes, HandRow
<1> HIDE DEF copy, r
<1>4. Puts(h, "answered", copy, hand[h].retries)
  BY <1>1, <1>2, <1>3 DEF Puts
<1> QED  BY <1>1, <1>4

\* The same, of what the hand is put to.
LEMMA PutsKeep ==
    ASSUME SendTypes, SendTypes', SendBounds, Counted',
           NEW h \in Hand, NEW step, NEW copy \in Copy, NEW n \in Nat,
           Puts(h, step, copy, n), n <= MaxTries,
           NEW more \in Nat, more = Debt(h, step, copy.status) + Coming',
           NEW most \in Nat, most = Debt(h, hand[h].step, hand[h].copy.status) + Coming,
           more <= most,
           \/ copy.tries \in {0, outgoing.tries, hand[h].copy.tries}
           \/ copy.tries = hand[h].copy.tries + 1 /\ (copy.tries >= MaxTries => more + 1 <= most),
           outgoing'.tries \in {0, outgoing.tries, hand[h].copy.tries}
    PROVE  SendBounds'
<1>1. PICK r \in HandRow : /\ hand' = [hand EXCEPT ![h] = r]
                           /\ r.step = step /\ r.copy = copy /\ r.retries = n
  BY DEF Puts
<1>2. hand'[h] = r
  BY <1>1 DEF SendTypes
<1>3. /\ Owes(hand')[h] = Debt(h, step, copy.status)
      /\ Owes(hand)[h] = Debt(h, hand[h].step, hand[h].copy.status)
  BY <1>1, <1>2 DEF Owes
<1> QED  BY <1>1, <1>3, HandKeeps

\* A debt is none or one, and which it is.
LEMMA Debts ==
    ASSUME NEW h, NEW step, NEW status
    PROVE  /\ Debt(h, step, status) \in {0, 1}
           /\ step = "holds" /\ h # "listing" => Debt(h, step, status) = 1
           /\ step = "queued" /\ h \in Tasks => Debt(h, step, status) = 1
           /\ step = "away" /\ h = "replay" => Debt(h, step, status) = 1
           /\ step = "over" => Debt(h, step, status) = 0
           /\ step \in {"holds", "answered", "saved"} /\ h = "listing" => Debt(h, step, status) = 0
           /\ step \in {"answered", "saved"} /\ status # "retrying" => Debt(h, step, status) = 0
           /\ step \in {"answered", "saved"} /\ h \notin Tasks => Debt(h, step, status) = 0
           /\ step \in {"answered", "saved"} /\ h \in Tasks /\ status = "retrying" =>
                 Debt(h, step, status) = 1
<1> USE DEF Debt, Tasks
<1>1. Debt(h, step, status) \in {0, 1}
  OBVIOUS
<1>2. /\ step = "holds" /\ h # "listing" => Debt(h, step, status) = 1
      /\ step = "queued" /\ h \in Tasks => Debt(h, step, status) = 1
      /\ step = "away" /\ h = "replay" => Debt(h, step, status) = 1
      /\ step = "over" => Debt(h, step, status) = 0
  OBVIOUS
<1>3. /\ step \in {"holds", "answered", "saved"} /\ h = "listing" => Debt(h, step, status) = 0
      /\ step \in {"answered", "saved"} /\ status # "retrying" => Debt(h, step, status) = 0
  OBVIOUS
<1>4. /\ step \in {"answered", "saved"} /\ h \notin Tasks => Debt(h, step, status) = 0
      /\ step \in {"answered", "saved"} /\ h \in Tasks /\ status = "retrying" =>
            Debt(h, step, status) = 1
  OBVIOUS
<1> QED  BY <1>1, <1>2, <1>3, <1>4

\* What is coming, of the counts.
ComingOf(c, n, m) == (IF c # "over" THEN 1 ELSE 0) + (MaxCalls - n) + (MaxTrouble - m)

\* It is a number; it does not grow, and a call that ends or a death takes one off.
LEMMA ComingIs ==
    ASSUME NEW c, NEW n \in 1..MaxCalls, NEW m \in 0..MaxTrouble
    PROVE  /\ ComingOf(c, n, m) \in Nat
           /\ c # "over" => ComingOf(c, n, m) = 1 + (MaxCalls - n) + (MaxTrouble - m)
           /\ c = "over" => ComingOf(c, n, m) = 0 + (MaxCalls - n) + (MaxTrouble - m)
  BY SendAssumption DEF ComingOf

\* What is coming does not grow; a call that ends or a death takes one off.
LEMMA ComingMoves ==
    ASSUME Counted, Counted'
    PROVE  /\ Coming \in Nat /\ Coming' \in Nat
           /\ UNCHANGED <<call, calls, trouble>> => Coming' = Coming
           /\ UNCHANGED <<call, calls>> /\ Trouble => Coming' + 1 = Coming
           /\ call # "over" /\ call' # "over" /\ UNCHANGED <<calls, trouble>> => Coming' = Coming
           /\ call # "over" /\ call' = "over" /\ UNCHANGED <<calls, trouble>> =>
                 Coming' + 1 = Coming
           /\ call # "over" /\ call' = "over" /\ UNCHANGED calls /\ Trouble =>
                 Coming' + 2 = Coming
           /\ CalledAgain => Coming' = Coming
<1>1. PICK n \in 1..MaxCalls, k \in 1..MaxCalls, m \in 0..MaxTrouble, j \in 0..MaxTrouble :
         n = calls /\ k = calls' /\ m = trouble /\ j = trouble'
  BY DEF Counted
<1>2. Coming = ComingOf(call, n, m) /\ Coming' = ComingOf(call', k, j)
  BY <1>1, Zenon DEF Coming, ComingOf
<1>3. PICK a \in Nat, b \in Nat : a = Coming /\ b = Coming'
  BY <1>2, ComingIs
<1>4. /\ call # "over" => a = 1 + (MaxCalls - n) + (MaxTrouble - m)
      /\ call = "over" => a = 0 + (MaxCalls - n) + (MaxTrouble - m)
      /\ call' # "over" => b = 1 + (MaxCalls - k) + (MaxTrouble - j)
      /\ call' = "over" => b = 0 + (MaxCalls - k) + (MaxTrouble - j)
  BY <1>2, <1>3, ComingIs
<1>5. ASSUME UNCHANGED <<call, calls, trouble>> PROVE b = a
  BY <1>1, <1>4, <1>5
<1>6. ASSUME UNCHANGED <<call, calls>>, Trouble PROVE b + 1 = a
  BY <1>1, <1>4, <1>6, SendAssumption DEF Trouble
<1>7. ASSUME call # "over", call' # "over", UNCHANGED <<calls, trouble>> PROVE b = a
  BY <1>1, <1>4, <1>7
<1>8. ASSUME call # "over", call' = "over", UNCHANGED <<calls, trouble>> PROVE b + 1 = a
  BY <1>1, <1>4, <1>8, SendAssumption
<1>9. ASSUME call # "over", call' = "over", UNCHANGED calls, Trouble PROVE b + 2 = a
  BY <1>1, <1>4, <1>9, SendAssumption DEF Trouble
<1>10. ASSUME CalledAgain PROVE b = a
  <2>1. call = "over" /\ call' # "over" /\ k = n + 1 /\ j = m
    BY <1>1, <1>10 DEF CalledAgain
  <2> QED  BY <1>4, <2>1, SendAssumption
<1> QED  BY <1>3, <1>5, <1>6, <1>7, <1>8, <1>9, <1>10

\* Calls and trouble stay within their bounds.
LEMMA CountsKept ==
    ASSUME Counted
    PROVE  /\ UNCHANGED <<calls, trouble>> => calls' \in 1..MaxCalls /\ trouble' \in 0..MaxTrouble
           /\ UNCHANGED calls /\ Trouble => calls' \in 1..MaxCalls /\ trouble' \in 0..MaxTrouble
           /\ CalledAgain => calls' \in 1..MaxCalls /\ trouble' \in 0..MaxTrouble
<1>1. UNCHANGED <<calls, trouble>> => calls' \in 1..MaxCalls /\ trouble' \in 0..MaxTrouble
  BY DEF Counted
<1>2. UNCHANGED calls /\ Trouble => calls' \in 1..MaxCalls /\ trouble' \in 0..MaxTrouble
  BY SendAssumption DEF Counted, Trouble
<1>3. CalledAgain => calls' \in 1..MaxCalls /\ trouble' \in 0..MaxTrouble
  BY SendAssumption DEF Counted, CalledAgain
<1> QED  BY <1>1, <1>2, <1>3

\* What the counts and the histories do in a step of Delivery.
LEMMA CountedKept ==
    ASSUME Counted, [SendNext]_sendVars
    PROVE  Counted'
<1>1. UNCHANGED <<calls, trouble>> \/ (UNCHANGED calls /\ Trouble) \/ CalledAgain
  <2>1. CASE UNCHANGED sendVars
    BY <2>1 DEF sendVars
  <2>2. CASE Queueing \/ MailSentInline \/ CallFails \/ CalledAgain \/ Replayed \/ Listed \/ MarkedFailed
    BY <2>2 DEF Queueing, RowNoted, TaskQueued, MailSentInline, CallFails, CalledAgain,
                Replayed, Listed, MarkedFailed
  <2>3. ASSUME NEW h \in Hand, Attempt(h) \/ AnswerLost(h) \/ Dies(h) \/ Raises(h)
        PROVE  UNCHANGED <<calls, trouble>> \/ (UNCHANGED calls /\ Trouble)
    BY <2>3 DEF Attempt, Taken, Reaches, Refused, Saved, Finished, AnswerLost, Dies, Raises
  <2> QED  BY <2>1, <2>2, <2>3 DEF SendNext
<1>2. calls' \in 1..MaxCalls /\ trouble' \in 0..MaxTrouble
  BY <1>1, CountsKept
<1>3. abandoned' \in BOOLEAN
  <2> USE DEF marks
  <2>0. abandoned \in BOOLEAN
    BY DEF Counted
  <2>1. CASE UNCHANGED abandoned
    BY <2>0, <2>1
  <2>2. CASE TaskQueued
    BY <2>2 DEF TaskQueued
  <2>3. CASE CallFails
    BY <2>0, <2>3 DEF CallFails
  <2>4. ASSUME NEW h \in Hand, Finished(h) \/ Dies(h) \/ Raises(h)
        PROVE  abandoned' \in BOOLEAN
    BY <2>0, <2>4 DEF Finished, Dies, Raises
  <2>5. UNCHANGED abandoned \/ TaskQueued \/ CallFails
        \/ \E h \in Hand : Finished(h) \/ Dies(h) \/ Raises(h)
    <3>1. CASE UNCHANGED sendVars
      BY <3>1 DEF sendVars
    <3>2. CASE Queueing \/ MailSentInline \/ CallFails \/ CalledAgain \/ Replayed \/ Listed \/ MarkedFailed
      BY <3>2 DEF Queueing, RowNoted, MailSentInline, CalledAgain, Replayed, Listed, MarkedFailed
    <3>3. ASSUME NEW h \in Hand, Attempt(h) \/ AnswerLost(h) \/ Dies(h) \/ Raises(h)
          PROVE  UNCHANGED abandoned \/ Finished(h) \/ Dies(h) \/ Raises(h)
      BY <3>3 DEF Attempt, Taken, Reaches, Refused, Saved, AnswerLost
    <3> QED  BY <3>1, <3>2, <3>3 DEF SendNext
  <2> QED  BY <2>1, <2>2, <2>3, <2>4, <2>5
<1> QED  BY <1>2, <1>3 DEF Counted

\* The step of one hand, as numbers.
LEMMA PutsWithin ==
    ASSUME SendTypes, SendTypes', SendBounds, Counted',
           NEW h \in Hand, NEW step, NEW copy \in Copy, NEW n \in Nat,
           Puts(h, step, copy, n), n <= MaxTries,
           NEW x \in {0, 1}, x = Debt(h, hand[h].step, hand[h].copy.status),
           NEW y \in {0, 1}, y = Debt(h, step, copy.status),
           NEW c \in Nat, c = Coming, NEW d \in Nat, d = Coming', y + d <= x + c,
           \/ copy.tries \in {0, outgoing.tries, hand[h].copy.tries}
           \/ copy.tries = hand[h].copy.tries + 1 /\ (copy.tries >= MaxTries => y + d + 1 <= x + c),
           outgoing'.tries \in {0, outgoing.tries, hand[h].copy.tries}
    PROVE  SendBounds'
<1>1. y + d \in Nat /\ x + c \in Nat
  OBVIOUS
<1>2. PICK more \in Nat, most \in Nat : more = y + d /\ most = x + c
  BY <1>1
<1>3. more = Debt(h, step, copy.status) + Coming' /\ more <= most
  BY <1>2
<1>4. most = Debt(h, hand[h].step, hand[h].copy.status) + Coming
  BY <1>2
<1>5. \/ copy.tries \in {0, outgoing.tries, hand[h].copy.tries}
      \/ copy.tries = hand[h].copy.tries + 1 /\ (copy.tries >= MaxTries => more + 1 <= most)
  BY <1>2
<1> QED  BY <1>3, <1>4, <1>5, PutsKeep

\* Delivery keeps its bounds.
LEMMA SendBoundsKept ==
    ASSUME SendInv, SendBounds, SendInv', [SendNext]_sendVars
    PROVE  SendBounds'
<1> USE DEF marks
<1>1. /\ SendTypes /\ SendTypes' /\ MaxTries \in Nat
      /\ outgoing.tries \in Nat
      /\ New \in Copy /\ New.tries = 0
      /\ \A h \in Hand : /\ hand[h].copy \in Copy /\ hand[h].copy.tries \in Nat
                         /\ hand[h].retries \in Nat /\ hand[h].retries <= MaxTries
  <2>1. New \in Copy /\ New.tries = 0
    BY DEF New, Copy
  <2> QED  BY <2>1, SendAssumption DEF SendInv, SendTypes, HandRow, Copy, SendBounds
<1>2. Counted /\ Counted'
  <2>1. Counted
    BY DEF Counted, SendBounds
  <2> QED  BY <2>1, CountedKept
<1>3. PICK c \in Nat, d \in Nat : c = Coming /\ d = Coming'
  BY <1>2, ComingMoves
<1>4. /\ UNCHANGED <<call, calls, trouble>> => d = c
      /\ UNCHANGED <<call, calls>> /\ Trouble => d + 1 = c
      /\ call # "over" /\ call' # "over" /\ UNCHANGED <<calls, trouble>> => d = c
      /\ call # "over" /\ call' = "over" /\ UNCHANGED <<calls, trouble>> => d + 1 = c
      /\ call # "over" /\ call' = "over" /\ UNCHANGED calls /\ Trouble => d + 2 = c
      /\ CalledAgain => d = c
  BY <1>2, <1>3, ComingMoves
<1>5. /\ "inline" \in Hand /\ "listing" \in Hand /\ "replay" \in Hand /\ Tasks \subseteq Hand
      /\ "inline" \notin Tasks /\ "listing" \notin Tasks /\ "replay" \notin Tasks
  BY DEF Hand, Tasks
<1>6. CASE UNCHANGED sendVars \/ RowNoted \/ CallFails \/ CalledAgain
  <2>1. hand' = hand
    BY <1>6 DEF sendVars, RowNoted, CallFails, CalledAgain
  <2>2. Puts("inline", hand["inline"].step, hand["inline"].copy, hand["inline"].retries)
    <3>1. hand["inline"] \in HandRow /\ hand' = [hand EXCEPT !["inline"] = hand["inline"]]
      BY <1>1, <1>5, <2>1 DEF SendTypes
    <3> QED  BY <3>1 DEF Puts
  <2>3. outgoing'.tries \in {0, outgoing.tries}
    BY <1>1, <1>6 DEF sendVars, RowNoted, CallFails, CalledAgain
  <2>4. d <= c
    <3>1. CASE UNCHANGED sendVars
      BY <1>4, <3>1 DEF sendVars
    <3>2. CASE RowNoted
      BY <1>4, <3>2 DEF RowNoted
    <3>3. CASE CallFails
      BY <1>4, <3>3 DEF CallFails
    <3>4. CASE CalledAgain
      BY <1>4, <3>4
    <3> QED  BY <1>6, <3>1, <3>2, <3>3, <3>4
  <2>5. PICK x \in {0, 1} : x = Debt("inline", hand["inline"].step, hand["inline"].copy.status)
    BY Debts
  <2>6. x + d <= x + c
    BY <2>4
  <2> QED  BY <1>1, <1>2, <1>3, <1>5, <2>2, <2>3, <2>5, <2>6, PutsWithin, SMTT(30), ZenonT(60)
<1>7. CASE TaskQueued
  <2>1. PICK h \in Tasks : Steps(h, "queued")
    BY <1>7 DEF TaskQueued, Tasks
  <2>2. Puts(h, "queued", hand[h].copy, hand[h].retries)
    BY <1>1, <1>5, <2>1, StepsPuts
  <2>3. d + 1 = c /\ outgoing' = outgoing
    BY <1>4, <1>7 DEF TaskQueued
  <2>4. PICK x \in {0, 1}, y \in {0, 1} : /\ x = Debt(h, hand[h].step, hand[h].copy.status)
                                          /\ y = Debt(h, "queued", hand[h].copy.status)
    BY Debts
  <2>5. y + d <= x + c
    BY <2>3
  <2> QED  BY <1>1, <1>2, <1>3, <1>5, <2>2, <2>3, <2>4, <2>5, PutsWithin, SMTT(30), ZenonT(60)
<1>8. CASE MailSentInline \/ Replayed \/ Listed
  <2>1. PICK h \in {"inline", "replay", "listing"} :
          \/ h = "inline" /\ MailSentInline
          \/ h = "replay" /\ Replayed
          \/ h = "listing" /\ Listed
    BY <1>8
  <2>2. h \in Hand /\ Reads(h) /\ outgoing' = outgoing
    BY <1>5, <2>1 DEF MailSentInline, Replayed, Listed
  <2>3. Puts(h, "holds", outgoing, hand[h].retries)
    BY <1>1, <2>2, ReadsPuts
  <2>4. PICK x \in {0, 1}, y \in {0, 1} : /\ x = Debt(h, hand[h].step, hand[h].copy.status)
                                          /\ y = Debt(h, "holds", outgoing.status)
    BY Debts
  <2>5. y + d <= x + c
    <3>1. CASE h = "inline" /\ MailSentInline
      <4>1. d + 2 = c
        BY <1>4, <3>1 DEF MailSentInline
      <4> QED  BY <4>1
    <3>2. CASE h = "replay" /\ Replayed
      <4>1. d = c
        BY <1>4, <3>2 DEF Replayed
      <4>2. x = 1
        BY <2>4, <3>2, Debts DEF Replayed
      <4> QED  BY <4>1, <4>2
    <3>3. CASE h = "listing" /\ Listed
      <4>1. d = c
        BY <1>4, <3>3 DEF Listed
      <4>2. y = 0
        BY <2>4, <3>3, Debts
      <4> QED  BY <4>1, <4>2
    <3> QED  BY <2>1, <3>1, <3>2, <3>3
  <2>6. outgoing \in Copy
    BY <1>1 DEF SendTypes
  <2> QED  BY <1>1, <1>2, <1>3, <2>2, <2>3, <2>4, <2>5, <2>6, PutsWithin, SMTT(30), ZenonT(60)
<1>9. CASE MarkedFailed
  <2>1. Puts("listing", "over", New, 0)
    BY <1>1, <1>5, <1>9, EndsPuts DEF MarkedFailed
  <2>2. outgoing'.tries = hand["listing"].copy.tries
    BY <1>1, <1>5, <1>9 DEF MarkedFailed, Copy
  <2>3. d = c
    BY <1>4, <1>9 DEF MarkedFailed
  <2>4. PICK x \in {0, 1}, y \in {0, 1} :
          /\ x = Debt("listing", hand["listing"].step, hand["listing"].copy.status)
          /\ y = Debt("listing", "over", New.status)
    BY Debts
  <2>5. y = 0
    BY <2>4, Debts
  <2>6. y + d <= x + c /\ 0 <= MaxTries
    BY <1>1, <2>3, <2>5
  <2> QED  BY <1>1, <1>2, <1>3, <1>5, <2>1, <2>2, <2>4, <2>6, PutsWithin, SMTT(30), ZenonT(60)
<1>10. ASSUME NEW h \in Hand, Taken(h) PROVE SendBounds'
  <2>1. PICK x \in {0, 1} : x = Debt(h, hand[h].step, hand[h].copy.status)
    BY Debts
  <2>2. x = 1
    BY <1>10, <2>1, Debts DEF Taken
  <2>3. d = c /\ outgoing' = outgoing
    BY <1>4, <1>10 DEF Taken
  <2>4. \A y \in {0, 1} : y + d <= x + c
    BY <2>2, <2>3
  <2>5. CASE Ends(h)
    <3>1. PICK y \in {0, 1} : y = Debt(h, "over", New.status)
      BY Debts
    <3>2. Puts(h, "over", New, 0) /\ 0 <= MaxTries /\ y + d <= x + c
      BY <1>1, <2>4, <2>5, EndsPuts
    <3> QED  BY <1>1, <1>2, <1>3, <2>1, <2>3, <3>1, <3>2, PutsWithin, SMTT(30), ZenonT(60)
  <2>6. CASE Reads(h)
    <3>1. PICK y \in {0, 1} : y = Debt(h, "holds", outgoing.status)
      BY Debts
    <3>2. Puts(h, "holds", outgoing, hand[h].retries) /\ outgoing \in Copy /\ y + d <= x + c
      BY <1>1, <2>4, <2>6, ReadsPuts DEF SendTypes
    <3> QED  BY <1>1, <1>2, <1>3, <2>1, <2>3, <3>1, <3>2, PutsWithin, SMTT(30), ZenonT(60)
  <2> QED  BY <1>10, <2>5, <2>6 DEF Taken
<1>11. ASSUME NEW h \in Hand, Reaches(h) \/ Refused(h) \/ AnswerLost(h) PROVE SendBounds'
  <2>1. PICK ok \in BOOLEAN : Answered(h, ok)
    BY <1>11 DEF Reaches, Refused, AnswerLost
  <2>2. PICK copy \in Copy : /\ Puts(h, "answered", copy, hand[h].retries)
                             /\ copy.tries = hand[h].copy.tries + 1
                             /\ copy.tries >= MaxTries => copy.status # "retrying"
    BY <1>1, <2>1, AnsweredPuts
  <2>3. PICK x \in {0, 1}, y \in {0, 1} : /\ x = Debt(h, hand[h].step, hand[h].copy.status)
                                          /\ y = Debt(h, "answered", copy.status)
    BY Debts
  <2>4. x = 1
    <3>1. hand[h].step = "holds" /\ h # "listing"
      BY <1>11, Zenon DEF Reaches, Refused, AnswerLost
    <3> QED  BY <2>3, <3>1, Debts
  <2>5. copy.tries >= MaxTries => y = 0
    BY <2>2, <2>3, Debts
  <2>6. d <= c /\ outgoing' = outgoing
    <3>1. CASE Reaches(h)
      BY <1>4, <3>1 DEF Reaches
    <3>3. CASE Refused(h)
      BY <1>4, <3>3 DEF Refused
    <3>2. CASE AnswerLost(h)
      BY <1>4, <3>2 DEF AnswerLost
    <3> QED  BY <1>11, <3>1, <3>2, <3>3
  <2>7. y + d <= x + c /\ (copy.tries >= MaxTries => y + d + 1 <= x + c)
    BY <2>4, <2>5, <2>6
  <2> QED  BY <1>1, <1>2, <1>3, <2>2, <2>3, <2>6, <2>7, PutsWithin, SMTT(30), ZenonT(60)
<1>12. ASSUME NEW h \in Hand, Saved(h) PROVE SendBounds'
  <2>1. Puts(h, "saved", hand[h].copy, hand[h].retries) /\ outgoing' = hand[h].copy
    BY <1>1, <1>12, StepsPuts DEF Saved
  <2>2. PICK x \in {0, 1} : x = Debt(h, hand[h].step, hand[h].copy.status)
    BY Debts
  <2>3. x = Debt(h, "saved", hand[h].copy.status)
    BY <1>12, <2>2 DEF Saved, Debt
  <2>4. d = c
    BY <1>4, <1>12 DEF Saved
  <2>5. x + d <= x + c
    BY <2>4
  <2> QED  BY <1>1, <1>2, <1>3, <2>1, <2>2, <2>3, <2>5, PutsWithin, SMTT(30), ZenonT(60)
<1>13. ASSUME NEW h \in Hand, Finished(h) PROVE SendBounds'
  <2>1. d = c /\ outgoing' = outgoing
    BY <1>4, <1>13 DEF Finished
  <2>2. PICK x \in {0, 1}, y \in {0, 1}, z \in {0, 1} :
          /\ x = Debt(h, hand[h].step, hand[h].copy.status)
          /\ y = Debt(h, "queued", New.status) /\ z = Debt(h, "over", New.status)
    BY Debts
  <2>3. CASE TriesAgain(h)
    <3>1. PICK n \in Nat : n = hand[h].retries + 1
      BY <1>1
    <3>2. Puts(h, "queued", New, n) /\ n <= MaxTries
      BY <1>1, <1>13, <2>3, <3>1, EndsPuts DEF Finished, TriesAgain
    <3>3. x = 1
      BY <1>13, <2>2, <2>3, Debts DEF Finished, TriesAgain
    <3>4. y + d <= x + c
      BY <2>1, <3>3
    <3> QED  BY <1>1, <1>2, <1>3, <2>1, <2>2, <3>2, <3>4, PutsWithin, SMTT(30), ZenonT(60)
  <2>4. CASE ~TriesAgain(h)
    <3>1. Puts(h, "over", New, 0) /\ 0 <= MaxTries
      BY <1>1, <1>13, <2>4, EndsPuts DEF Finished
    <3>2. z = 0
      BY <2>2, Debts
    <3>3. z + d <= x + c
      BY <2>1, <3>2
    <3> QED  BY <1>1, <1>2, <1>3, <2>1, <2>2, <3>1, <3>3, PutsWithin, SMTT(30), ZenonT(60)
  <2> QED  BY <2>3, <2>4
<1>14. ASSUME NEW h \in Hand, Dies(h) \/ Raises(h) PROVE SendBounds'
  <2>1. d + 1 = c /\ outgoing' = outgoing
    BY <1>4, <1>14 DEF Dies, Raises
  <2>2. PICK x \in {0, 1}, y \in {0, 1}, z \in {0, 1} :
          /\ x = Debt(h, hand[h].step, hand[h].copy.status)
          /\ y = Debt(h, "queued", New.status) /\ z = Debt(h, "over", New.status)
    BY Debts
  <2>3. y + d <= x + c /\ z + d <= x + c /\ 0 <= MaxTries
    BY <1>1, <2>1
  <2>4. CASE Queues(h, hand[h].retries)
    <3>1. Puts(h, "queued", New, hand[h].retries)
      BY <1>1, <2>4, EndsPuts
    <3> QED  BY <1>1, <1>2, <1>3, <2>1, <2>2, <2>3, <3>1, PutsWithin, SMTT(30), ZenonT(60)
  <2>5. CASE Ends(h)
    <3>1. Puts(h, "over", New, 0)
      BY <1>1, <2>5, EndsPuts
    <3> QED  BY <1>1, <1>2, <1>3, <2>1, <2>2, <2>3, <3>1, PutsWithin, SMTT(30), ZenonT(60)
  <2> QED  BY <1>14, <2>4, <2>5 DEF Dies, Raises
<1> QED  BY <1>6, <1>7, <1>8, <1>9, <1>10, <1>11, <1>12, <1>13, <1>14
         DEF SendNext, Queueing, Attempt

\* The delivery's types, of their two parts.
LEMMA SendTypesAre == SendInv /\ SendBounds => SendTypeOK
<1> SUFFICES ASSUME SendInv, SendBounds PROVE SendTypeOK
  OBVIOUS
<1>1. SendTypes
  BY DEF SendInv
<1>2. outgoing \in Row
  <2>1. outgoing.tries <= MaxTries + MaxCalls + MaxTrouble
    BY <1>1, RoomIs DEF SendBounds, SendTypes, Copy
  <2> QED  BY <1>1, <2>1, SendAssumption DEF SendTypes, Copy, Row
<1>3. \A h \in Hand :
        hand[h] \in [step : {"away", "queued", "holds", "answered", "saved", "over"},
                     copy : Row, retries : 0..MaxTries]
  <2> TAKE h \in Hand
  <2>1. hand[h] \in HandRow
    BY <1>1 DEF SendTypes
  <2>2. hand[h].copy.tries <= MaxTries + MaxCalls + MaxTrouble
    BY <1>1, <2>1, RoomIs DEF SendBounds, HandRow, Copy
  <2>3. hand[h].copy \in Row /\ hand[h].retries \in 0..MaxTries
    BY <2>1, <2>2, SendAssumption DEF HandRow, Copy, Row, SendBounds
  <2> QED  BY <2>1, <2>3 DEF HandRow
<1> QED  BY <1>1, <1>2, <1>3 DEF SendTypes, SendBounds, SendTypeOK

-----------------------------------------------------------------------------
(* Masaniello: the bounds of a copy.                                        *)

\* The revisions its state takes: three an order, the one it waits for, and its end.
Revisions(c) ==
    1 + 3 * Cardinality(c.booked)
      + (IF c.pending = 0 THEN 0 ELSE IF c.unknown THEN 2 ELSE 1)
      + (IF Active(c) THEN 0 ELSE 1)

\* What the types bound of a copy.
Bounded(c) ==
    /\ c.id <= MaxId /\ c.rev <= Revisions(c) /\ c.pending \notin c.booked
    /\ c.won <= N /\ c.lost <= N
    /\ Active(c) \/ c.pending # 0 => c.won < W /\ c.lost <= N - W

\* What is booked is counted.
LEMMA BookedCount ==
    ASSUME NEW B \in SUBSET Order
    PROVE  /\ Cardinality(B) \in Nat
           /\ \A o \in Order : o \notin B => Cardinality(B \union {o}) = Cardinality(B) + 1
           /\ Cardinality(B) <= Cardinality(Order) /\ Cardinality(Order) \in Nat
<1>1. IsFiniteSet(B) /\ Cardinality(B) <= Cardinality(Order)
  BY PlanAssumption, FS_Subset
<1>2. Cardinality(B) \in Nat /\ Cardinality(Order) \in Nat
  BY <1>1, PlanAssumption, FS_CardinalityType
<1>3. \A o \in Order : o \notin B => Cardinality(B \union {o}) = Cardinality(B) + 1
  BY <1>1, FS_AddElement
<1> QED  BY <1>1, <1>2, <1>3

\* The revisions, as numbers.
LEMMA RevisionsAre ==
    ASSUME NEW c \in PlanCopy, NEW k \in Nat, k = Cardinality(c.booked)
    PROVE  /\ c.pending = 0 /\ Active(c) => Revisions(c) = 1 + 3 * k
           /\ c.pending = 0 /\ ~Active(c) => Revisions(c) = 1 + 3 * k + 1
           /\ c.pending # 0 /\ ~c.unknown /\ Active(c) => Revisions(c) = 1 + 3 * k + 1
           /\ c.pending # 0 /\ ~c.unknown /\ ~Active(c) => Revisions(c) = 1 + 3 * k + 1 + 1
           /\ c.pending # 0 /\ c.unknown /\ Active(c) => Revisions(c) = 1 + 3 * k + 2
           /\ c.pending # 0 /\ c.unknown /\ ~Active(c) => Revisions(c) = 1 + 3 * k + 2 + 1
  BY DEF Revisions

\* No plan, and a new one.
LEMMA NewBounded ==
    /\ Bounded(Nothing)
    /\ \A i \in Nat : i <= MaxId /\ terms \in Terms => Bounded(NewCycle(i))
<1> DEFINE none == {}
<1>1. Nothing = [id |-> 0, rev |-> 0, terms |-> 1, status |-> "abandoned", pending |-> 0,
                 unknown |-> FALSE, booked |-> none, won |-> 0, lost |-> 0]
  BY DEF Nothing
<1>2. none = {} /\ 0 \in Nat /\ 0 = Cardinality(none)
  BY FS_EmptySet
<1> HIDE DEF none
<1>3. /\ Nothing.rev = 0 /\ Nothing.won = 0 /\ Nothing.lost = 0 /\ Nothing.booked = none
      /\ Nothing.id = 0
  BY <1>1
<1>4. Revisions(Nothing) = 1 + 3 * 0 + 1
  BY <1>2, <1>3, NothingIs, RevisionsAre
<1>5. Bounded(Nothing)
  BY <1>2, <1>3, <1>4, NothingIs, PlanAssumption DEF Bounded
<1>6. ASSUME NEW i \in Nat, i <= MaxId, terms \in Terms PROVE Bounded(NewCycle(i))
  <2> DEFINE d == NewCycle(i)
  <2>1. d.rev = 1
    BY <1>1 DEF NewCycle
  <2>2. /\ d \in PlanCopy /\ d.id = i /\ Active(d) /\ d.booked = none /\ d.pending = 0
        /\ d.won = 0 /\ d.lost = 0
    BY <1>2, <1>6, NewOf, NewMore
  <2> HIDE DEF d
  <2>3. Revisions(d) = 1 + 3 * 0
    BY <1>2, <2>2, RevisionsAre
  <2>4. Bounded(d)
    BY <1>2, <1>6, <2>1, <2>2, <2>3, PlanAssumption DEF Bounded
  <2> QED  BY <2>4 DEF d
<1> QED  BY <1>5, <1>6

\* What is closed, sent or overdue.
LEMMA StepsBounded ==
    ASSUME NEW c \in PlanCopy, Bounded(c)
    PROVE  /\ \A s \in Over : Active(c) => Bounded(Close(c, s))
           /\ \A o \in Order : Active(c) /\ c.pending = 0 /\ o \notin c.booked =>
                  Bounded(MarkPending(c, o))
           /\ \A o \in Order : FlagUnknown(c, o) # c => Bounded(FlagUnknown(c, o))
<1>1. PICK k \in Nat : k = Cardinality(c.booked)
  BY BookedCount, FieldsOf
<1>2. c.rev \in Nat
  BY FieldsOf
<1>3. ASSUME NEW s \in Over, Active(c) PROVE Bounded(Close(c, s))
  <2> DEFINE d == Close(c, s)
  <2>1. /\ d \in PlanCopy /\ d.id = c.id /\ d.rev = c.rev + 1 /\ ~Active(d)
        /\ d.booked = c.booked /\ d.pending = c.pending
        /\ d.won = c.won /\ d.lost = c.lost /\ d.unknown = c.unknown
    BY CloseOf, CloseMore
  <2> HIDE DEF d
  <2>2. Revisions(d) = Revisions(c) + 1 /\ Revisions(c) \in Nat
    BY <1>1, <1>3, <2>1, RevisionsAre
  <2>3. d.rev <= Revisions(d)
    BY <1>2, <2>1, <2>2 DEF Bounded
  <2>4. Bounded(d)
    BY <1>3, <2>1, <2>3 DEF Bounded
  <2> QED  BY <2>4 DEF d
<1>4. ASSUME NEW o \in Order, Active(c), c.pending = 0, o \notin c.booked
      PROVE  Bounded(MarkPending(c, o))
  <2> DEFINE d == MarkPending(c, o)
  <2>1. /\ d \in PlanCopy /\ d.id = c.id /\ d.rev = c.rev + 1 /\ (Active(d) <=> Active(c))
        /\ d.booked = c.booked /\ d.pending = o /\ o # 0
        /\ d.won = c.won /\ d.lost = c.lost
    BY MarkOf, MarkMore, PlanAssumption DEF Active
  <2> HIDE DEF d
  <2>2. Revisions(d) >= Revisions(c) + 1 /\ Revisions(c) \in Nat /\ Revisions(d) \in Nat
    BY <1>1, <1>4, <2>1, RevisionsAre
  <2>3. d.rev <= Revisions(d)
    BY <1>2, <2>1, <2>2 DEF Bounded
  <2>4. Bounded(d)
    BY <1>4, <2>1, <2>3 DEF Bounded
  <2> QED  BY <2>4 DEF d
<1>5. ASSUME NEW o \in Order, FlagUnknown(c, o) # c PROVE Bounded(FlagUnknown(c, o))
  <2> DEFINE d == FlagUnknown(c, o)
  <2>1. /\ d \in PlanCopy /\ d.id = c.id /\ d.rev = c.rev + 1 /\ (Active(d) <=> Active(c))
        /\ d.booked = c.booked /\ d.pending = c.pending /\ c.pending # 0
        /\ d.won = c.won /\ d.lost = c.lost /\ ~c.unknown /\ d.unknown
    BY <1>5, FlagOf, FlagMore, PlanAssumption DEF Active
  <2> HIDE DEF d
  <2>2. Revisions(d) = Revisions(c) + 1 /\ Revisions(c) \in Nat
    BY <1>1, <2>1, RevisionsAre
  <2>3. d.rev <= Revisions(d)
    BY <1>2, <2>1, <2>2 DEF Bounded
  <2>4. Bounded(d)
    BY <2>1, <2>3 DEF Bounded
  <2> QED  BY <2>4 DEF d
<1> QED  BY <1>3, <1>4, <1>5

\* A copy that books the result it waits for.
LEMMA ApplyBounded ==
    ASSUME NEW c \in PlanCopy, Bounded(c), NEW o \in Order, NEW result \in Results,
           o = c.pending
    PROVE  Bounded(ApplyResult(c, o, result))
<1> DEFINE d == ApplyResult(c, o, result)
<1>1. PICK k \in Nat, m \in Nat : k = Cardinality(c.booked) /\ m = Cardinality(d.booked)
  BY BookedCount, FieldsOf, ApplyOf
<1>2. o \notin c.booked /\ o # 0
  BY PlanAssumption DEF Bounded
<1>3. /\ d \in PlanCopy /\ d.id = c.id /\ (Active(d) => Active(c))
      /\ d.booked = c.booked \union {o} /\ d.pending = 0 /\ d.rev = c.rev + 1
      /\ d.won = (IF result = "WIN" THEN c.won + 1 ELSE c.won)
      /\ d.lost = (IF result = "LOSS" THEN c.lost + 1 ELSE c.lost)
      /\ Active(c) => (Active(d) <=> d.won < W /\ d.lost <= N - W)
  BY <1>2, ApplyOf, ApplyMore
<1>4. m = k + 1
  BY <1>1, <1>2, <1>3, BookedCount, FieldsOf
<1>5. c.rev \in Nat /\ c.won \in Nat /\ c.lost \in Nat /\ c.won < W /\ c.lost <= N - W
  BY <1>2, FieldsOf DEF Bounded
<1> HIDE DEF d
<1>6. Revisions(d) >= Revisions(c) + 1 /\ Revisions(c) \in Nat /\ Revisions(d) \in Nat
  <2>1. \/ Revisions(d) = 1 + 3 * m /\ Active(d) /\ Active(c)
        \/ Revisions(d) = 1 + 3 * m + 1
    BY <1>1, <1>3, RevisionsAre
  <2>2. \/ Revisions(c) = 1 + 3 * k + 1
        \/ Revisions(c) = 1 + 3 * k + 1 + 1 /\ ~Active(c)
        \/ Revisions(c) = 1 + 3 * k + 2
        \/ Revisions(c) = 1 + 3 * k + 2 + 1 /\ ~Active(c)
    BY <1>1, <1>2, RevisionsAre
  <2> QED  BY <1>4, <2>1, <2>2
<1>7. d.rev <= Revisions(d)
  BY <1>3, <1>5, <1>6 DEF Bounded
<1>8. d.won <= N /\ d.lost <= N
  BY <1>3, <1>5, PlanAssumption
<1>9. d.pending \notin d.booked
  BY <1>2, <1>3, FieldsOf, PlanAssumption
<1>10. Bounded(d)
  BY <1>3, <1>7, <1>8, <1>9 DEF Bounded
<1> QED  BY <1>10 DEF d

\* A bounded copy is of the type.
LEMMA BoundedTyped ==
    ASSUME NEW c \in PlanCopy, Bounded(c)
    PROVE  c \in Cycle
<1>1. PICK k \in Nat, n \in Nat : k = Cardinality(c.booked) /\ n = Cardinality(Order) /\ k <= n
  BY BookedCount, FieldsOf
<1>2. c.rev \in Nat /\ c.rev <= Revisions(c)
  BY FieldsOf DEF Bounded
<1>3. c.pending # 0 => k + 1 <= n
  <2> SUFFICES ASSUME c.pending # 0 PROVE k + 1 <= n
    OBVIOUS
  <2>1. c.pending \in Order /\ c.pending \notin c.booked
    BY FieldsOf DEF Bounded
  <2>2. c.booked \union {c.pending} \in SUBSET Order
    BY <2>1, FieldsOf
  <2> QED  BY <1>1, <2>1, <2>2, BookedCount, FieldsOf
<1>4. Revisions(c) \in Nat /\ Revisions(c) <= 3 * n + 2
  BY <1>1, <1>3, RevisionsAre
<1>5. c.rev \in 0..(4 * n + 2)
  <2>1. PICK r \in Nat : r = Revisions(c)
    BY <1>4
  <2> QED  BY <1>2, <1>4, <2>1
<1>6. c.id \in 0..MaxId /\ c.won \in 0..N /\ c.lost \in 0..N
  BY FieldsOf, PlanAssumption DEF Bounded
<1> DEFINE revs == 0..(4 * n + 2)
           nums == 0..MaxId
           sums == 0..N
           flags == BOOLEAN
           orders == {0} \union Order
           books == SUBSET Order
<1>7. /\ c \in CopyOver(Statuses, orders, flags, books)
      /\ Cycle = [id : nums, rev : revs, terms : Terms, status : Statuses, pending : orders,
                  unknown : flags, booked : books, won : sums, lost : sums]
  BY <1>1 DEF PlanCopy, Cycle, Statuses
<1>8. c.rev \in revs /\ c.id \in nums /\ c.won \in sums /\ c.lost \in sums
  BY <1>5, <1>6
<1> HIDE DEF revs, nums, sums, flags, orders, books
<1> QED  BY <1>7, <1>8 DEF CopyOver

-----------------------------------------------------------------------------
(* Masaniello: what the row lacks.                                          *)

\* A copy lacks no result but the one it waits for.
Lackless(c, H) == \A t \in Lacks(c, H) : t.order = c.pending

\* So do the row and the copies that would replace it: a restart completes them.
RowLackless(s, Q, H) == \A h \in {s} \union Q : Newer(h, s) => Lackless(h, H)

\* What the types bound beside PlanTypes, and what that rests on.
MoneyBounds ==
    /\ \A c \in Copies(memory, stored, shown, queue) : Bounded(c)
    /\ RowLackless(stored, Waiting, history)
    /\ ids <= MaxId /\ turns \in 0..MaxTurn

\* A completed copy is bounded.
LEMMA RepairBounded ==
    ASSUME NEW c \in PlanCopy, Bounded(c), NEW H \in SUBSET Trades, Lackless(c, H)
    PROVE  Bounded(Repair(c, H))
<1>1. CASE Lacks(c, H) = {}
  BY <1>1 DEF Repair
<1>2. CASE Lacks(c, H) # {}
  <2> DEFINE t == CHOOSE u \in Lacks(c, H) : TRUE
  <2>1. t \in Lacks(c, H)
    BY <1>2
  <2> HIDE DEF t
  <2>2. t \in Trades /\ t.id = c.id /\ t.order = c.pending
    BY <2>1 DEF Lacks, Lackless
  <2>3. Repair(c, H) = ApplyResult(c, t.order, t.result)
    BY <1>2, <2>2 DEF Repair, ApplyOwn, t
  <2>4. t.order \in Order /\ t.result \in Results
    BY <2>2 DEF Trades
  <2> QED  BY <2>2, <2>3, <2>4, ApplyBounded
<1> QED  BY <1>1, <1>2

\* A copy that knows its orders lacks no other, nor one of a plan without orders.
LEMMA KnownLackless ==
    ASSUME NEW c, NEW O, NEW H
    PROVE  /\ Full(c, O, H) => Lackless(c, H)
           /\ Half(c, O, H) => Lackless(c, H)
           /\ (\A t \in H : t.id # c.id) => Lackless(c, H)
<1>1. \A t \in Lacks(c, H) : t.order \in Told(H, c.id) /\ t.order \notin c.booked
  BY DEF Lacks, Told
<1> QED  BY <1>1 DEF Full, Half, Lackless, Lacks

\* A copy that would replace the row, and is not behind the runtime's, lacks no other.
LEMMA HereLackless ==
    ASSUME NEW g, NEW s, NEW w, NEW Q, NEW mine, NEW idle, NEW O, NEW H, NEW top, NEW gone,
           Sound(g, s, w, Q, mine, idle, O, H, top),
           KnownWell(g, s, w, Q, mine, idle, O, H, top, gone),
           NEW h \in {s} \union Q, h.id >= mine.id, Newer(h, s), Lackless(s, H)
    PROVE  Lackless(h, H)
<1>1. /\ h.id \in Nat /\ h.rev \in Nat /\ s.id \in Nat /\ s.rev \in Nat /\ mine.id \in Nat
      /\ h \in PlanCopy /\ s \in PlanCopy
  BY FieldsOf DEF Sound
<1>2. CASE h.id > mine.id
  <2>1. \A t \in H : t.id \in Nat /\ t.id <= mine.id
    BY DEF Sound, OrdersOnce, Trades
  <2>2. \A t \in H : t.id # h.id
    BY <1>1, <1>2, <2>1
  <2> QED  BY <2>2, KnownLackless
<1>3. CASE h.id = mine.id /\ ~Active(h)
  <2>1. Placed(h, mine, O, H, top, gone)
    BY DEF KnownWell, CopiesWell
  <2>2. Full(h, O, H) \/ Half(h, O, H)
    BY <1>3, <2>1 DEF Placed, Ended, EndedWell
  <2> QED  BY <2>2, KnownLackless
<1>4. CASE h.id = mine.id /\ Active(h)
  <2>1. Follows(h, mine, s)
    BY DEF Sound, CopiesFollow
  <2>2. \/ h = mine
        \/ s.id > mine.id
        \/ s.id = mine.id /\ Yields(h, s)
    BY <1>4, <2>1 DEF Follows
  <2>3. h = mine \/ h = s
    BY <1>1, <1>4, <2>2 DEF Newer, Yields
  <2>4. Full(mine, O, H)
    BY DEF KnownWell, MineWell
  <2> QED  BY <2>3, <2>4, KnownLackless
<1> QED  BY <1>1, <1>2, <1>3, <1>4

\* What the gateway reads is not behind the runtime's.
LEMMA SyncedAbove ==
    ASSUME PlanInv
    PROVE  /\ Synced.id >= Mine.id /\ Synced.id \in Nat /\ Mine.id \in Nat
           /\ Synced \in {AtGateway, shown} /\ Synced \in PlanCopy
<1>1. /\ AtGateway \in PlanCopy /\ stored \in PlanCopy /\ shown \in PlanCopy /\ Mine \in PlanCopy
      /\ Idle \in BOOLEAN
      /\ Idle => RowSettled(Mine, stored)
      /\ GatewayWell(AtGateway, stored, shown, Waiting, Mine, Idle)
  BY SoundIs DEF PlanInv, Arranged, PlacesWell, Sound
<1>2. Synced = PickFreshest(AtGateway, shown)
  BY DEF Synced, AtGateway
<1>3. /\ Synced \in {AtGateway, shown} /\ Synced \in PlanCopy /\ Newer(Synced, shown)
      /\ Meets(Synced, stored)
  BY <1>1, <1>2, PickIs DEF GatewayWell
<1>4. /\ Synced.id \in Nat /\ Mine.id \in Nat /\ stored.id \in Nat /\ shown.id \in Nat
  BY <1>1, <1>3, FieldsOf
<1>5. CASE Idle
  <2>1. stored.id >= Mine.id
    BY <1>1, <1>4, <1>5 DEF RowSettled
  <2>2. Synced.id >= stored.id
    BY <1>3, <1>4 DEF Meets, Newer
  <2> QED  BY <1>3, <1>4, <2>1, <2>2
<1>6. CASE ~Idle
  <2>1. shown.id >= Mine.id
    BY <1>1, <1>4, <1>6 DEF GatewayWell, Newer
  <2>2. Synced.id >= shown.id
    BY <1>3, <1>4 DEF Newer
  <2> QED  BY <1>3, <1>4, <2>1, <2>2
<1> QED  BY <1>1, <1>5, <1>6

\* The copies are sound, now and next.
LEMMA SoundNow == PlanInv => Sound(AtGateway, stored, shown, Waiting, Mine, Idle, open, history, ids)
  BY SoundIs DEF PlanInv

\* The same, primed.
LEMMA SoundNext ==
    PlanInv' => Sound(AtGateway, stored, shown, Waiting, Mine, Idle, open, history, ids)'
  BY SoundNow, PTL

\* What the gateway saves then lacks no other.
LEMMA SavedLackless ==
    ASSUME PlanInv, PlanInv', MoneyBounds, NEW c \in PlanCopy, Waiting' = {c}, c.id >= Mine.id,
           UNCHANGED <<stored, history>>, Mine' = Mine
    PROVE  RowLackless(stored', Waiting', history')
<1>1. /\ Sound(AtGateway', stored', shown', Waiting', Mine', Idle', open', history', ids')
      /\ KnownWell(AtGateway', stored', shown', Waiting', Mine', Idle', open', history', ids', waived')
  <2>1. Sound(AtGateway, stored, shown, Waiting, Mine, Idle, open, history, ids)'
    BY SoundNext
  <2> QED  BY <2>1 DEF PlanInv, Arranged
<1>2. stored \in PlanCopy /\ Newer(stored, stored)
  BY SoundIs, NewerOrder DEF PlanInv
<1>3. Lackless(stored', history')
  BY <1>2 DEF MoneyBounds, RowLackless
<1>4. ASSUME Newer(c, stored') PROVE Lackless(c, history')
  <2>1. c \in {stored'} \union Waiting' /\ c.id >= Mine'.id
    OBVIOUS
  <2> HIDE DEF Waiting, Mine, Idle, AtGateway
  <2> QED  BY <1>1, <1>3, <1>4, <2>1, HereLackless
<1> QED  BY <1>3, <1>4 DEF RowLackless

\* The copies are bounded, when one more is.
LEMMA BoundedNext ==
    ASSUME MoneyBounds, NEW n, Bounded(n),
           NEW all, all = Copies(memory, stored, shown, queue) \union {n},
           AtGateway' \in all, Mine' \in all, stored' \in all, shown' \in all, Waiting' \subseteq all
    PROVE  \A c \in Copies(memory', stored', shown', queue') : Bounded(c)
<1>1. \A c \in all : Bounded(c)
  BY DEF MoneyBounds
<1>2. Copies(memory', stored', shown', queue') = {AtGateway', stored', shown', Mine'} \union Waiting'
  BY DEF Copies, Others, AtGateway, Mine, Waiting
<1> QED  BY <1>1, <1>2

\* Nothing else is saved by the gateway.
LEMMA RowStays ==
    ASSUME MoneyBounds, UNCHANGED <<stored, history>>, Waiting' \subseteq Waiting
    PROVE  RowLackless(stored', Waiting', history')
BY DEF MoneyBounds, RowLackless

\* Every copy there is.
LEMMA AllAre ==
    ASSUME PlanInv, MoneyBounds
    PROVE  /\ StakeInv
           /\ {AtGateway, stored, shown, Mine} \union Waiting = Copies(memory, stored, shown, queue)
           /\ AtGateway \in PlanCopy /\ stored \in PlanCopy /\ shown \in PlanCopy /\ Mine \in PlanCopy
           /\ Waiting \subseteq PlanCopy /\ history \in SUBSET Trades /\ ids \in Nat
           /\ Bounded(AtGateway) /\ Bounded(stored) /\ Bounded(shown) /\ Bounded(Mine)
           /\ Lackless(stored, history)
           /\ Mine.id <= ids /\ Mine.id \in Nat
<1>1. /\ StakeInv
      /\ {AtGateway, stored, shown, Mine} \union Waiting = Copies(memory, stored, shown, queue)
      /\ AtGateway \in PlanCopy /\ stored \in PlanCopy /\ shown \in PlanCopy /\ Mine \in PlanCopy
      /\ Waiting \subseteq PlanCopy /\ history \in SUBSET Trades /\ ids \in Nat
      /\ Mine.id <= ids
  BY SoundIs DEF PlanInv, Sound, CopiesFollow
<1>2. Newer(stored, stored) /\ Mine.id \in Nat
  BY <1>1, NewerOrder, FieldsOf
<1>3. Lackless(stored, history)
  BY <1>2 DEF MoneyBounds, RowLackless
<1> QED  BY <1>1, <1>2, <1>3 DEF MoneyBounds

\* Steps that only move copies keep the bounds.
LEMMA ReadsBounded ==
    ASSUME PlanInv, PlanInv', MoneyBounds,
           GatewaySyncs \/ ShownExpires \/ ChangeSettings \/ RobotStops \/ UNCHANGED planVars
    PROVE  MoneyBounds'
<1> DEFINE all == Copies(memory, stored, shown, queue) \union {Nothing}
<1>1. UNCHANGED <<stored, history, ids, queue>> /\ Mine' = Mine /\ Waiting' = Waiting
  BY AllAre, GatewayTakes, SyncedIs, Parties DEF GatewaySyncs, ShownExpires, ChangeSettings, RobotStops,
     planVars, Mine, Waiting, PickFreshest, Holds, Member, PlanInv, StakeInv, PlanTypes
<1>2. AtGateway' \in all /\ shown' \in all
  <2>1. CASE GatewaySyncs
    <3>1. PICK c \in {AtGateway, stored, shown} : Holds("gateway", c)
      BY <2>1 DEF GatewaySyncs, PickFreshest, Synced, AtGateway
    <3>2. AtGateway' = c
      BY AllAre, <3>1, GatewayTakes DEF AtGateway
    <3>3. shown' = shown
      BY <2>1 DEF GatewaySyncs
    <3> QED  BY <3>1, <3>2, <3>3, AllAre
  <2>2. CASE ShownExpires \/ ChangeSettings \/ RobotStops \/ UNCHANGED planVars
    <3>1. memory' = memory /\ shown' \in {shown, Nothing}
      BY <2>2 DEF ShownExpires, ChangeSettings, RobotStops, planVars
    <3> QED  BY <3>1, AllAre DEF AtGateway
  <2> QED  BY <2>1, <2>2
<1>3. Mine' \in all /\ stored' \in all /\ Waiting' \subseteq all
  BY <1>1, AllAre
<1>4. turns' \in 0..MaxTurn
  BY PlanAssumption DEF MoneyBounds, GatewaySyncs, ShownExpires, ChangeSettings, RobotStops, planVars, Turn
<1>5. \A c \in Copies(memory', stored', shown', queue') : Bounded(c)
  <2>1. Bounded(Nothing)
    BY NewBounded
  <2> HIDE DEF all
  <2> QED  BY <1>2, <1>3, <2>1, BoundedNext DEF all
<1>6. RowLackless(stored', Waiting', history')
  BY <1>1, RowStays
<1>7. ids' <= MaxId
  BY <1>1 DEF MoneyBounds
<1> QED  BY <1>4, <1>5, <1>6, <1>7 DEF MoneyBounds

\* A write that reaches the row keeps them.
LEMMA StoresBounded ==
    ASSUME PlanInv, PlanInv', MoneyBounds, NEW m \in Member, RowStored(m)
    PROVE  MoneyBounds'
<1> DEFINE all == Copies(memory, stored, shown, queue) \union {Nothing}
<1>1. UNCHANGED <<memory, shown, history, ids, turns>> /\ Mine' = Mine /\ AtGateway' = AtGateway
  BY DEF RowStored, Mine, AtGateway
<1>2. queue["gateway"] \in Seq(PlanCopy) /\ Len(queue["gateway"]) <= 1
  BY AllAre, Parties DEF StakeInv
<1>3. CASE m = "gateway"
  <2>1. Waiting = {Head(queue["gateway"])} /\ Head(queue["gateway"]) \in PlanCopy
    BY <1>2, <1>3, WaitingIs DEF RowStored, Waiting
  <2>2. PICK h \in PlanCopy : h = Head(queue["gateway"])
    BY <2>1
  <2>3. stored' = PickFreshest(h, stored)
    BY <1>3, <2>2 DEF RowStored
  <2>4. queue'["gateway"] = <<>>
    <3>1. queue["gateway"] # <<>> /\ Tail(queue["gateway"]) = <<>>
      BY <1>2, <1>3, ShortQueue DEF RowStored
    <3>2. queue' = [queue EXCEPT !["gateway"] = Tail(queue["gateway"])]
      BY <1>3 DEF RowStored
    <3>3. queue'["gateway"] = Tail(queue["gateway"])
      BY <3>2, AllAre DEF StakeInv, PlanTypes, Member
    <3> QED  BY <3>1, <3>3
  <2>5. Waiting' = {}
    BY <2>4, AllAre, OneWrite DEF Waiting
  <2>6. stored' = stored \/ (stored' = h /\ Newer(h, stored))
    BY <2>3, AllAre, PickIs
  <2>7. Lackless(stored', history')
    BY <1>1, <2>1, <2>2, <2>6, AllAre DEF MoneyBounds, RowLackless
  <2>8. RowLackless(stored', Waiting', history')
    BY <2>5, <2>7 DEF RowLackless
  <2>9. stored' \in all /\ Waiting' \subseteq all
    BY <2>1, <2>2, <2>5, <2>6, AllAre
  <2>10. AtGateway' \in all /\ Mine' \in all /\ shown' \in all
    BY <1>1, AllAre
  <2>11. Bounded(Nothing)
    BY NewBounded
  <2> HIDE DEF all
  <2>12. \A c \in Copies(memory', stored', shown', queue') : Bounded(c)
    BY <2>9, <2>10, <2>11, BoundedNext DEF all
  <2> QED  BY <1>1, <2>8, <2>12 DEF MoneyBounds
<1>4. CASE m = "runtime"
  <2>1. queue["runtime"] = <<Mine>>
    BY <1>4, AllAre DEF RowStored, StakeInv
  <2>2. Head(<<Mine>>) = Mine
    OBVIOUS
  <2>3. stored' = PickFreshest(Mine, stored)
    BY <1>4, <2>1, <2>2 DEF RowStored
  <2>4. stored' \in {stored, Mine} /\ Newer(stored', stored)
    BY <2>3, AllAre, PickIs
  <2>5. Waiting' = Waiting
    BY <1>4, AllAre DEF RowStored, Waiting, StakeInv, PlanTypes, Member
  <2>6. Full(Mine, open, history)
    BY DEF PlanInv, Arranged, KnownWell, MineWell
  <2>7. Lackless(stored', history')
    BY <1>1, <2>4, <2>6, AllAre, KnownLackless
  <2>8. ASSUME NEW h \in Waiting', Newer(h, stored') PROVE Lackless(h, history')
    <3>1. h \in PlanCopy /\ stored' \in PlanCopy
      BY <2>4, <2>5, AllAre
    <3>2. Newer(h, stored)
      BY <2>4, <2>8, <3>1, AllAre, NewerOrder
    <3> QED  BY <1>1, <2>5, <3>2 DEF MoneyBounds, RowLackless
  <2>9. RowLackless(stored', Waiting', history')
    BY <2>7, <2>8 DEF RowLackless
  <2>10. AtGateway' \in all /\ Mine' \in all /\ shown' \in all /\ stored' \in all /\ Waiting' \subseteq all
    BY <1>1, <2>4, <2>5, AllAre
  <2>11. Bounded(Nothing)
    BY NewBounded
  <2> HIDE DEF all
  <2>12. \A c \in Copies(memory', stored', shown', queue') : Bounded(c)
    BY <2>10, <2>11, BoundedNext DEF all
  <2> QED  BY <1>1, <2>9, <2>12 DEF MoneyBounds
<1> QED  BY <1>3, <1>4 DEF Member

\* The gateway's own: a copy that it holds, and saves.
LEMMA SavesBounded ==
    ASSUME PlanInv, PlanInv', MoneyBounds, NEW c \in PlanCopy, Bounded(c), c.id >= Mine.id,
           Calm("gateway"), Holds("gateway", c), SaveLater("gateway", c),
           shown' \in {shown, c}, UNCHANGED <<stored, history>>, ids' <= MaxId, turns' \in 0..MaxTurn
    PROVE  MoneyBounds'
<1> DEFINE all == Copies(memory, stored, shown, queue) \union {c}
<1>1. AtGateway' = c /\ Mine' = Mine
  BY AllAre, GatewayTakes DEF AtGateway
<1>2. Waiting' = {c}
  BY AllAre, GatewaySaves DEF Waiting
<1>3. RowLackless(stored', Waiting', history')
  BY <1>1, <1>2, SavedLackless
<1>4. AtGateway' \in all /\ Mine' \in all /\ shown' \in all /\ stored' \in all /\ Waiting' \subseteq all
  BY <1>1, <1>2, AllAre
<1> HIDE DEF all
<1>5. \A d \in Copies(memory', stored', shown', queue') : Bounded(d)
  BY <1>4, BoundedNext DEF all
<1> QED  BY <1>3, <1>5 DEF MoneyBounds

\* The gateway's steps that save keep them.
LEMMA GatewayBounded ==
    ASSUME PlanInv, PlanInv', MoneyBounds, GatewayPersists \/ PlanStarts \/ EndCycle
    PROVE  MoneyBounds'
<1>1. /\ Synced.id >= Mine.id /\ Synced.id \in Nat /\ Mine.id \in Nat /\ Synced \in PlanCopy
      /\ Bounded(Synced)
  BY SyncedAbove, AllAre
<1>2. UNCHANGED <<stored, history, turns>> /\ turns' \in 0..MaxTurn /\ Calm("gateway")
  BY DEF GatewayPersists, PlanStarts, EndCycle, MoneyBounds
<1>3. CASE GatewayPersists
  BY <1>1, <1>2, <1>3, SavesBounded DEF GatewayPersists, MoneyBounds
<1>4. CASE EndCycle
  <2> DEFINE c == Close(Synced, "abandoned")
  <2>1. "abandoned" \in Over /\ Active(Synced)
    BY <1>4 DEF EndCycle, Over
  <2>2. c \in PlanCopy /\ c.id = Synced.id /\ Bounded(c)
    BY <1>1, <2>1, CloseOf, StepsBounded
  <2>3. Holds("gateway", c) /\ ids' <= MaxId
    BY <1>4 DEF EndCycle, MoneyBounds
  <2> HIDE DEF c
  <2>4. memory'["gateway"] = c
    BY <2>2, <2>3, AllAre, GatewayTakes
  <2>5. SaveLater("gateway", c) /\ shown' = c
    BY <1>4, <2>4 DEF EndCycle
  <2> QED  BY <1>1, <1>2, <2>2, <2>3, <2>5, SavesBounded
<1>5. CASE PlanStarts
  <2>1. \/ Holds("gateway", Synced) /\ ids' = ids
        \/ Opens /\ Holds("gateway", NewCycle(ids'))
    BY <1>5 DEF PlanStarts
  <2>2. PICK c : /\ Holds("gateway", c) /\ c \in PlanCopy /\ Bounded(c) /\ c.id >= Mine.id
                 /\ ids' <= MaxId
    <3>1. CASE Holds("gateway", Synced) /\ ids' = ids
      BY <1>1, <3>1 DEF MoneyBounds
    <3>2. CASE Opens /\ Holds("gateway", NewCycle(ids'))
      <4>1. ids' \in Nat /\ ids' <= MaxId /\ ids' >= Mine.id
        BY <3>2, AllAre, PlanAssumption DEF Opens
      <4>2. terms \in Terms
        BY AllAre DEF StakeInv, PlanTypes
      <4> QED  BY <3>2, <4>1, <4>2, NewOf, NewBounded
    <3> QED  BY <2>1, <3>1, <3>2
  <2>3. memory'["gateway"] = c
    BY <2>2, AllAre, GatewayTakes
  <2>4. SaveLater("gateway", c) /\ shown' = c
    BY <1>5, <2>3 DEF PlanStarts
  <2> QED  BY <1>2, <2>2, <2>4, SavesBounded
<1> QED  BY <1>3, <1>4, <1>5

\* A row that a restart completes.
LEMMA RepairedBounded ==
    ASSUME PlanInv, MoneyBounds
    PROVE  Repaired(stored) \in PlanCopy /\ Bounded(Repaired(stored))
BY AllAre, RepairedIs, RepairOf, RepairBounded

\* Restarts keep them.
LEMMA ReloadsBounded ==
    ASSUME PlanInv, PlanInv', MoneyBounds, GatewayReloads \/ RuntimeReloads
    PROVE  MoneyBounds'
<1> DEFINE c == Repaired(stored)
           all == Copies(memory, stored, shown, queue) \union {c}
<1>1. c \in PlanCopy /\ Bounded(c)
  BY RepairedBounded
<1>2. Holds("gateway", c) \/ Holds("runtime", c)
  BY DEF GatewayReloads, RuntimeReloads
<1> HIDE DEF c, all
<1>3. AtGateway' \in {AtGateway, c} /\ Mine' \in {Mine, c}
  BY <1>1, <1>2, AllAre, GatewayTakes, RuntimeTakes DEF AtGateway
<1>4. UNCHANGED <<stored, shown, queue, history, ids>> /\ turns' \in 0..MaxTurn
  BY PlanAssumption DEF GatewayReloads, RuntimeReloads, Turn, MoneyBounds
<1>5. Waiting' = Waiting
  BY <1>4 DEF Waiting
<1>6. AtGateway' \in all /\ Mine' \in all /\ shown' \in all /\ stored' \in all /\ Waiting' \subseteq all
  BY <1>3, <1>4, <1>5, AllAre DEF all
<1>7. \A d \in Copies(memory', stored', shown', queue') : Bounded(d)
  BY <1>1, <1>6, BoundedNext DEF all
<1>8. RowLackless(stored', Waiting', history')
  BY <1>4, <1>5, RowStays
<1> QED  BY <1>4, <1>7, <1>8 DEF MoneyBounds

\* The runtime's own: a copy that it holds.
LEMMA RuntimeBounded ==
    ASSUME PlanInv, MoneyBounds, NEW c \in PlanCopy, Bounded(c), Holds("runtime", c),
           queue'["gateway"] = queue["gateway"], shown' \in {shown, c}, UNCHANGED stored
    PROVE  /\ \A d \in Copies(memory', stored', shown', queue') : Bounded(d)
           /\ Waiting' = Waiting
<1> DEFINE all == Copies(memory, stored, shown, queue) \union {c}
<1>1. AtGateway' = AtGateway /\ Mine' = c
  BY AllAre, RuntimeTakes DEF AtGateway
<1>2. Waiting' = Waiting
  BY DEF Waiting
<1>3. AtGateway' \in all /\ Mine' \in all /\ shown' \in all /\ stored' \in all /\ Waiting' \subseteq all
  BY <1>1, <1>2, AllAre
<1> HIDE DEF all
<1> QED  BY <1>2, <1>3, BoundedNext DEF all

\* And works with.
LEMMA WorksBounded ==
    ASSUME PlanInv, MoneyBounds, NEW c \in PlanCopy, Bounded(c), Calm("runtime"), Works(c),
           UNCHANGED stored
    PROVE  /\ \A d \in Copies(memory', stored', shown', queue') : Bounded(d)
           /\ Waiting' = Waiting
<1>1. queue'["gateway"] = queue["gateway"] /\ Holds("runtime", c) /\ shown' = c
  BY AllAre, RuntimeSaves DEF Works
<1> QED  BY <1>1, RuntimeBounded

\* A start that the runtime hears keeps them.
LEMMA StartBounded ==
    ASSUME PlanInv, PlanInv', MoneyBounds, RuntimeStarts
    PROVE  MoneyBounds'
<1> DEFINE mine == PickFreshest(Repaired(stored), Mine)
<1>1. mine \in PlanCopy /\ Bounded(mine)
  BY RepairedBounded, AllAre DEF PickFreshest
<1>2. UNCHANGED <<stored, history, turns>> /\ Calm("runtime")
  BY DEF RuntimeStarts
<1>3. \/ Holds("runtime", mine) /\ UNCHANGED <<shown, queue, ids>>
      \/ Opens /\ Works(NewCycle(ids'))
  BY DEF RuntimeStarts, Mine
<1> HIDE DEF mine
<1>4. CASE Holds("runtime", mine) /\ UNCHANGED <<shown, queue, ids>>
  <2>1. /\ \A d \in Copies(memory', stored', shown', queue') : Bounded(d)
        /\ Waiting' = Waiting
    BY <1>1, <1>2, <1>4, RuntimeBounded
  <2>2. RowLackless(stored', Waiting', history')
    BY <1>2, <2>1, RowStays
  <2> QED  BY <1>2, <1>4, <2>1, <2>2 DEF MoneyBounds
<1>5. CASE Opens /\ Works(NewCycle(ids'))
  <2>1. ids' \in Nat /\ ids' <= MaxId
    BY <1>5, AllAre, PlanAssumption DEF Opens
  <2>2. terms \in Terms
    BY AllAre DEF StakeInv, PlanTypes
  <2>3. NewCycle(ids') \in PlanCopy /\ Bounded(NewCycle(ids'))
    BY <2>1, <2>2, NewOf, NewBounded
  <2>4. /\ \A d \in Copies(memory', stored', shown', queue') : Bounded(d)
        /\ Waiting' = Waiting
    BY <1>2, <1>5, <2>3, WorksBounded
  <2>5. RowLackless(stored', Waiting', history')
    BY <1>2, <2>4, RowStays
  <2> QED  BY <1>2, <2>1, <2>4, <2>5 DEF MoneyBounds
<1> QED  BY <1>3, <1>4, <1>5

\* The robot's steps without a result keep them.
LEMMA RobotBounded ==
    ASSUME PlanInv, PlanInv', MoneyBounds,
           \/ \E o \in Order : SendOrder(o)
           \/ NoCapital
           \/ PendingOverdue
           \/ \E t \in open : ResultTimesOut(t)
    PROVE  MoneyBounds'
<1>1. UNCHANGED <<stored, history, turns, ids>> /\ Calm("runtime")
  BY DEF SendOrder, NoCapital, PendingOverdue, ResultTimesOut
<1>2. \E c \in PlanCopy : Bounded(c) /\ Works(c)
  <2>1. ASSUME NEW o \in Order, SendOrder(o) PROVE MarkPending(Mine, o) \in PlanCopy /\ Bounded(MarkPending(Mine, o))
    <3>1. Active(Mine) /\ Mine.pending = 0 /\ Unsent(o)
      BY <2>1 DEF SendOrder
    <3>2. \A h \in history : h.order # o
      <4> TAKE h \in history
      <4> DEFINE u == [order |-> h.order, id |-> h.id]
      <4>1. u \in open \union {[order |-> k.order, id |-> k.id] : k \in history}
        OBVIOUS
      <4>2. u.order # o
        BY <3>1, <4>1 DEF Unsent
      <4> QED  BY <4>2
    <3>3. Told(history, Mine.id) = Mine.booked
      BY DEF PlanInv, Arranged, KnownWell, MineWell, Full
    <3>4. o \notin Mine.booked
      BY <3>2, <3>3 DEF Told
    <3> QED  BY <3>1, <3>4, AllAre, MarkOf, StepsBounded
  <2>2. ASSUME NoCapital PROVE Close(Mine, "bust") \in PlanCopy /\ Bounded(Close(Mine, "bust"))
    <3>1. Active(Mine) /\ "bust" \in Over
      BY <2>2 DEF NoCapital, Over
    <3> QED  BY <3>1, AllAre, CloseOf, StepsBounded
  <2>3. ASSUME NEW t \in open, ResultTimesOut(t)
        PROVE  FlagUnknown(Mine, t.order) \in PlanCopy /\ Bounded(FlagUnknown(Mine, t.order))
    <3>1. t.order \in Order
      BY AllAre DEF StakeInv, PlanTypes
    <3>2. FlagUnknown(Mine, t.order) # Mine
      BY <2>3 DEF ResultTimesOut
    <3> QED  BY <3>1, <3>2, AllAre, FlagOf, StepsBounded
  <2>4. CASE \E o \in Order : SendOrder(o)
    BY <2>1, <2>4 DEF SendOrder
  <2>5. CASE NoCapital
    BY <2>2, <2>5 DEF NoCapital
  <2>6. CASE PendingOverdue
    BY <2>6, AllAre DEF PendingOverdue
  <2>7. CASE \E t \in open : ResultTimesOut(t)
    BY <2>3, <2>7 DEF ResultTimesOut
  <2> QED  BY <2>4, <2>5, <2>6, <2>7
<1>3. /\ \A d \in Copies(memory', stored', shown', queue') : Bounded(d)
      /\ Waiting' = Waiting
  BY <1>1, <1>2, WorksBounded
<1>4. RowLackless(stored', Waiting', history')
  BY <1>1, <1>3, RowStays
<1> QED  BY <1>1, <1>3, <1>4 DEF MoneyBounds

\* A result keeps them.
LEMMA ResultBounded ==
    ASSUME PlanInv, PlanInv', MoneyBounds, NEW t \in open, NEW r \in Results, ResultArrives(t, r)
    PROVE  MoneyBounds'
<1> DEFINE trade == [order |-> t.order, id |-> t.id, result |-> r]
           c == ApplyOwn(Mine, trade)
<1>1. UNCHANGED <<stored, turns, ids>> /\ Calm("runtime") /\ Works(c)
  BY DEF ResultArrives
<1>2. history' = history \union {trade}
  BY DEF ResultArrives
<1>3. t.order \in Order /\ t.id \in Nat
  BY AllAre DEF StakeInv, PlanTypes
<1>4. /\ Told(history, Mine.id) = Mine.booked /\ Told(open, Mine.id) = {Mine.pending} \ {0}
  BY DEF PlanInv, Arranged, KnownWell, MineWell, Full
<1>5. t.id = Mine.id => t.order = Mine.pending
  BY <1>4 DEF Told
<1>6. c \in PlanCopy /\ Bounded(c) /\ c.id = Mine.id
  <2>1. CASE t.id = Mine.id
    BY <1>3, <1>5, <2>1, AllAre, ApplyOf, ApplyBounded DEF ApplyOwn
  <2>2. CASE t.id # Mine.id
    BY <2>2, AllAre DEF ApplyOwn
  <2> QED  BY <2>1, <2>2
<1>7. trade.order = t.order /\ trade.id = t.id
  OBVIOUS
<1> HIDE DEF c, trade
<1>8. /\ \A d \in Copies(memory', stored', shown', queue') : Bounded(d)
      /\ Waiting' = Waiting
  BY <1>1, <1>6, WorksBounded
<1>9. Mine' = c /\ queue["runtime"] = <<>> /\ Idle
  BY <1>1, <1>6, AllAre, RuntimeTakes, RuntimeSaves DEF Works, Idle
<1>10. RowSettled(Mine, stored)
  BY <1>9, SoundIs DEF PlanInv, Sound
<1>11. Sound(AtGateway, stored, shown, Waiting, Mine, Idle, open, history, ids)'
  BY SoundNext
<1>12. ASSUME NEW h \in {stored} \union Waiting, Newer(h, stored) PROVE Lackless(h, history')
  <2>1. /\ h \in PlanCopy /\ h.id \in Nat /\ h.rev \in Nat
        /\ stored.id \in Nat /\ stored.rev \in Nat /\ Mine.id \in Nat
    BY AllAre, FieldsOf
  <2>2. h.id >= stored.id /\ stored.id >= Mine.id
    BY <1>10, <1>12, <2>1 DEF Newer, RowSettled
  <2>3. CASE h.id > Mine.id
    <3>1. \A u \in history' : u.id \in Nat /\ u.id <= Mine.id
      BY <1>6, <1>9, <1>11 DEF Sound, OrdersOnce, Trades
    <3>2. \A u \in history' : u.id # h.id
      BY <2>1, <2>3, <3>1
    <3> QED  BY <3>2, KnownLackless
  <2>4. CASE h.id = Mine.id /\ ~Active(h)
    <3>1. Placed(h, Mine', open', history', ids', waived')
      BY <1>1, <1>8 DEF PlanInv, Arranged, KnownWell, CopiesWell
    <3>2. Full(h, open', history') \/ Half(h, open', history')
      BY <1>6, <1>9, <2>4, <3>1 DEF Placed, Ended, EndedWell
    <3> QED  BY <3>2, KnownLackless
  <2>5. CASE h.id = Mine.id /\ Active(h)
    <3>1. Follows(h, Mine, stored)
      BY SoundIs DEF PlanInv, Sound, CopiesFollow
    <3>2. stored.id = Mine.id
      BY <2>1, <2>2, <2>5
    <3>3. h = Mine \/ Yields(h, stored)
      BY <2>1, <2>5, <3>1, <3>2 DEF Follows
    <3>4. Active(stored) => stored = Mine
      BY <1>10, <2>1, <3>2 DEF RowSettled
    <3>5. h = Mine
      BY <1>12, <2>1, <2>5, <3>2, <3>3, <3>4 DEF Newer, Yields
    <3>6. ASSUME NEW u \in Lacks(h, history') PROVE u.order = h.pending
      <4>1. u \in history' /\ u.id = Mine.id /\ u.order \notin Mine.booked
        BY <3>5, <3>6 DEF Lacks
      <4>2. u \notin history
        BY <1>4, <4>1 DEF Told
      <4>3. u = trade
        BY <1>2, <4>1, <4>2
      <4> QED  BY <1>5, <1>7, <3>5, <4>1, <4>3
    <3> QED  BY <3>6 DEF Lackless
  <2> QED  BY <2>1, <2>2, <2>3, <2>4, <2>5
<1>13. RowLackless(stored', Waiting', history')
  BY <1>1, <1>8, <1>12 DEF RowLackless
<1> QED  BY <1>1, <1>8, <1>13 DEF MoneyBounds

\* Masaniello keeps its bounds.
LEMMA MoneyBoundsKept ==
    ASSUME PlanInv, PlanInv', MoneyBounds, [MoneyNext]_planVars
    PROVE  MoneyBounds'
<1>1. CASE GatewaySyncs \/ ShownExpires \/ ChangeSettings \/ RobotStops \/ UNCHANGED planVars
  BY <1>1, ReadsBounded
<1>2. CASE \E m \in Member : RowStored(m)
  BY <1>2, StoresBounded
<1>3. CASE GatewayPersists \/ PlanStarts \/ EndCycle
  BY <1>3, GatewayBounded
<1>4. CASE GatewayReloads \/ RuntimeReloads
  BY <1>4, ReloadsBounded
<1>5. CASE RuntimeStarts
  BY <1>5, StartBounded
<1>6. CASE \/ \E o \in Order : SendOrder(o)
           \/ NoCapital
           \/ PendingOverdue
           \/ \E t \in open : ResultTimesOut(t)
  BY <1>6, RobotBounded
<1>7. CASE \E t \in open : \E r \in {"WIN", "LOSS", "DRAW"} : ResultArrives(t, r)
  BY <1>7, ResultBounded DEF Results
<1> QED  BY <1>1, <1>2, <1>3, <1>4, <1>5, <1>6, <1>7 DEF MoneyNext

\* The plan's types, of their parts.
LEMMA MoneyTypesAre == PlanInv /\ MoneyBounds => MoneyTypeOK
<1> SUFFICES ASSUME PlanInv, MoneyBounds PROVE MoneyTypeOK
  OBVIOUS
<1>1. /\ StakeInv /\ PlanTypes /\ waived \in BOOLEAN
      /\ \A c \in Copies(memory, stored, shown, queue) : c \in Cycle
  <2>1. Copies(memory, stored, shown, queue) \subseteq PlanCopy
    BY AllAre
  <2> QED  BY <2>1, AllAre, BoundedTyped DEF MoneyBounds, StakeInv, PlanInv
<1>2. AtGateway \in Cycle /\ Mine \in Cycle /\ stored \in Cycle /\ shown \in Cycle /\ Waiting \subseteq Cycle
  BY <1>1, AllAre
<1>3. memory \in [Member -> Cycle]
  BY <1>1, <1>2 DEF PlanTypes, Member, AtGateway, Mine
<1>4. queue \in [Member -> Seq(Cycle)]
  <2>1. queue["gateway"] \in Seq(PlanCopy) /\ Len(queue["gateway"]) <= 1
    BY <1>1, Parties DEF StakeInv
  <2>2. queue["gateway"] = <<>> \/ (queue["gateway"] = <<Head(queue["gateway"])>> /\ Head(queue["gateway"]) \in Cycle)
    BY <1>2, <2>1, WaitingIs, ShortQueue DEF Waiting
  <2>3. queue["runtime"] = <<>> \/ queue["runtime"] = <<Mine>>
    BY <1>1 DEF StakeInv
  <2>4. <<>> \in Seq(Cycle) /\ \A c \in Cycle : <<c>> \in Seq(Cycle)
    OBVIOUS
  <2>5. queue["gateway"] \in Seq(Cycle) /\ queue["runtime"] \in Seq(Cycle)
    BY <1>2, <2>2, <2>3, <2>4, Zenon
  <2> QED  BY <1>1, <2>5 DEF PlanTypes, Member
<1>5. ids \in 0..MaxId
  BY <1>1, PlanAssumption DEF PlanTypes, MoneyBounds
<1>6. \A t \in open \union history : t.id \in 1..MaxId
  <2> TAKE t \in open \union history
  <2>1. t.id >= 1 /\ t.id <= Mine.id /\ Mine.id <= ids /\ Mine.id \in Nat
    BY AllAre DEF PlanInv, Arranged, KnownWell, MineWell, StakeInv, OrdersOnce
  <2>2. t.id \in Nat
    BY <1>1 DEF PlanTypes
  <2> QED  BY <1>5, <2>1, <2>2, PlanAssumption
<1>7. open \subseteq [order : Order, id : 1..MaxId]
  BY <1>1, <1>6 DEF PlanTypes
<1>8. history \subseteq [order : Order, id : 1..MaxId, result : {"WIN", "LOSS", "DRAW"}]
  BY <1>1, <1>6 DEF PlanTypes, Results
<1> QED  BY <1>1, <1>2, <1>3, <1>4, <1>5, <1>7, <1>8 DEF PlanTypes, MoneyBounds, MoneyTypeOK

-----------------------------------------------------------------------------
(* The types of all that the gateway decides.                               *)

\* The inductive invariant behind GatewayTypeOK.
GatewayInv ==
    /\ LinkInv /\ LinkBounds /\ CallsOut
    /\ SwitchInv /\ SwitchBounds
    /\ PlanInv /\ MoneyBounds
    /\ SendInv /\ SendBounds

\* At first no attempt was made: there is room for all of them.
LEMMA SendBoundsStart == SendInit => SendBounds
<1> SUFFICES ASSUME SendInit PROVE SendBounds
  OBVIOUS
<1>1. /\ SendTypes /\ outgoing.tries = 0
      /\ \A h \in Hand : hand[h].step = "away" /\ hand[h].copy.tries = 0 /\ hand[h].retries = 0
  <2>1. \A h \in Hand : hand[h] = At("away")
    BY DEF SendInit
  <2>2. outgoing.tries = 0
    BY DEF SendInit, New
  <2> QED  BY <2>1, <2>2, SendStart DEF SendInv, At, New
<1>2. calls = 1 /\ trouble = 0 /\ call # "over" /\ abandoned \in BOOLEAN
  BY DEF SendInit
<1>3. Owed(hand) = 1
  <2>1. \A h \in Hand : Owes(hand)[h] = IF h = "replay" THEN 1 ELSE 0
    BY <1>1 DEF Owes, Debt
  <2>2. /\ "first task" \in Hand /\ "second task" \in Hand /\ "replay" \in Hand
        /\ "inline" \in Hand /\ "listing" \in Hand
    BY DEF Hand, Tasks
  <2>3. Sum5(Owes(hand)) = 0 + 0 + 1 + 0 + 0
    BY <2>1, <2>2, Zenon DEF Sum5
  <2> QED  BY <2>3 DEF Owed
<1>4. Coming = 1 + (MaxCalls - 1) + (MaxTrouble - 0)
  BY <1>2 DEF Coming
<1>5. Beyond(0) + AttemptsLeft <= MaxTries + MaxCalls + MaxTrouble
  BY <1>3, <1>4, SendAssumption DEF Beyond, AttemptsLeft
<1>6. Roomy(0)
  BY <1>5, Zenon DEF Roomy
<1> QED  BY <1>1, <1>2, <1>6, SendAssumption DEF SendBounds

\* No copy has an order at first.
LEMMA MoneyBoundsStart == MoneyInit => MoneyBounds
<1> SUFFICES ASSUME MoneyInit PROVE MoneyBounds
  OBVIOUS
<1>1. /\ memory["gateway"] = Nothing /\ memory["runtime"] = Nothing /\ stored = Nothing
      /\ shown = Nothing /\ queue["gateway"] = <<>> /\ history = {} /\ ids = 0 /\ turns = 0
  BY DEF MoneyInit, Member
<1>2. Waiting = {}
  BY <1>1, NothingIs, OneWrite DEF Waiting
<1>3. Copies(memory, stored, shown, queue) = {Nothing}
  BY <1>1, <1>2 DEF Copies, Others, Waiting
<1>4. RowLackless(stored, Waiting, history)
  <2>1. Lackless(Nothing, {})
    BY DEF Lackless, Lacks
  <2> QED  BY <1>1, <1>2, <2>1 DEF RowLackless
<1> QED  BY <1>1, <1>3, <1>4, NewBounded, PlanAssumption DEF MoneyBounds

\* The invariant holds at first.
LEMMA GatewayAtFirst == Init => GatewayInv
<1> SUFFICES ASSUME Init PROVE GatewayInv
  OBVIOUS
<1>0. LinkInit /\ SwitchInit /\ MoneyInit /\ SendInit
  BY DEF Init
<1>1. LinkInv /\ LinkBounds /\ CallsOut
  <2>1. LinkInv
    BY <1>0 DEF LinkInit, LinkInv, Types, OneRoute, NothingLeft
  <2>2. redis \in BOOLEAN /\ mark \in BOOLEAN /\ hear \in BOOLEAN /\ robot \in BOOLEAN
    BY <1>0 DEF LinkInit
  <2>3. mirror \in [Process -> BOOLEAN]
    BY <1>0 DEF LinkInit
  <2>4. pending = 0 /\ mishaps = 0 /\ exit = "none"
    BY <1>0, Zenon DEF LinkInit
  <2>5. pending \in 0..3 /\ mishaps \in 0..MaxMishap
    BY <2>4, LinkAssumption
  <2> QED  BY <2>1, <2>2, <2>3, <2>4, <2>5, Zenon DEF LinkBounds, CallsOut
<1>2. SwitchInv /\ SwitchBounds
  BY <1>0, SwitchStart, SwitchAssumption DEF SwitchInit, SwitchBounds
<1> QED  BY <1>0, <1>1, <1>2, PlanStart, MoneyBoundsStart, SendStart, SendBoundsStart DEF GatewayInv

\* A step of one part leaves the others where they are.
LEMMA PartsStep ==
    ASSUME [Next]_vars
    PROVE  [LinkNext]_linkVars /\ [SwitchNext]_switchVars /\ [MoneyNext]_planVars /\ [SendNext]_sendVars
BY DEF Next, Link, Switch, Money, Send, vars

\* A step keeps the invariant.
LEMMA GatewayStep ==
    ASSUME GatewayInv, [Next]_vars
    PROVE  GatewayInv'
<1>1. LinkInv' /\ LinkBounds' /\ CallsOut'
  BY PartsStep, LinkStep, LinkBoundsKept DEF GatewayInv
<1>2. SwitchInv' /\ SwitchBounds'
  BY PartsStep, SwitchStep, SwitchTypesKept DEF GatewayInv
<1>3. PlanInv' /\ MoneyBounds'
  <2>1. PlanInv'
    BY PartsStep, PlanStep DEF GatewayInv
  <2> QED  BY <2>1, PartsStep, MoneyBoundsKept DEF GatewayInv
<1>4. SendInv' /\ SendBounds'
  <2>1. SendInv'
    BY PartsStep, SendStep DEF GatewayInv
  <2> QED  BY <2>1, PartsStep, SendBoundsKept DEF GatewayInv
<1> QED  BY <1>1, <1>2, <1>3, <1>4 DEF GatewayInv

\* For any bounds, orders and settings: revisions, wins, losses, attempts and calls
\* stay within what their types say, however often copies are lost and repaired,
\* tasks come again and messages are repeated.
THEOREM GatewayTypesKept == Spec => []GatewayTypeOK
<1>1. GatewayInv /\ [Next]_vars => GatewayInv'
  BY GatewayStep
<1>2. GatewayInv => GatewayTypeOK
  BY LinkTypesAre, SwitchTypesAre, MoneyTypesAre, SendTypesAre DEF GatewayInv, GatewayTypeOK
<1> QED  BY GatewayAtFirst, <1>1, <1>2, PTL DEF Spec
==============================================================================
