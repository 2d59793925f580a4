----------------------------- MODULE Rows_proofs -----------------------------
(* Rows that several processes write without a lock: the score, a deleted     *)
(* order, a buyer's access, a client's access and its copies, the memory of   *)
(* patterns; for any number of results, handlers, requests, clients, losses,  *)
(* failures and times to live. Sums over clients are taken up by induction:   *)
(* the library's theorems take an operator as a parameter, so it goes over    *)
(* sets, from least members of sets of naturals.                              *)
EXTENDS MCRows, TLAPS, FiniteSetTheorems, WellFoundedInduction,
        SequenceTheorems

\* A set of naturals that is not empty has a least member: what an induction
\* over a set of clients starts from.
LEMMA LeastNatural ==
  ASSUME NEW S \in SUBSET Nat, S # {}
  PROVE  \E n \in S : \A m \in S : n <= m
<1>1. IsWellFoundedOn(OpToRel(<, Nat), Nat)
  BY NatLessThanWellFounded
<1>2. \E n \in S : \A m \in S : ~(<<m, n>> \in OpToRel(<, Nat))
  BY <1>1, WFMin
<1>3. ASSUME NEW m \in Nat, NEW n \in Nat, m < n PROVE <<m, n>> \in OpToRel(<, Nat)
  BY <1>3 DEF OpToRel
<1>4. \A m, n \in Nat : ~(m < n) => n <= m
  OBVIOUS
<1> QED
  BY <1>2, <1>3, <1>4

-----------------------------------------------------------------------------
(* ScoreCopies: the panel is shown the score.                              *)

\* Something is under way that makes the score smaller.
Pending == commands # <<>> \/ resetting
\* The mark of the score is there.
Marked == authority # NoScore

\* A write that waits.
Saving == [score : {Keep} \cup Score, old : BOOLEAN]

\* A score that a newer write overtook is still to be written.
Doomed == \E i \in 1..Len(saves) : saves[i].old /\ saves[i].score # Keep
\* From the k-th on, the writes that wait leave the row with what counts.
SavesRight(k) == \A i \in k..Len(saves) : saves[i].score \in {Keep, counted}
\* No write that waits has more than that.
SavesBelow(n) == \A i \in 1..Len(saves) : saves[i].score <= n
\* The row is going to be what counts, or a write comes out of order.
Settles == \/ Doomed
           \/ scoreRow = counted /\ SavesRight(1)
           \/ \E k \in 1..Len(saves) : saves[k].score = counted /\ SavesRight(k)

\* The mark is what counts, and the gateway knows it.
MarkRight ==
    Marked => /\ authority = counted /\ tally["gateway"] = counted
              /\ ~missed["gateway"] /\ ~unsaved

\* One decrease at a time, under the mark; the command tells what counts.
CommandRight ==
    /\ resetting => commands = <<>> /\ counted = 0
    /\ commands # <<>> => /\ Len(commands) = 1
                          /\ Head(commands).score = counted
                          /\ Head(commands).kind = "reset" => counted = 0
    /\ Pending => Marked

\* Once it heard of the decrease the runtime has what counts, and shows it.
RuntimeRight ==
    ~Pending => /\ tally["runtime"] = counted
                /\ Marked => /\ ~missed["runtime"]
                             /\ Published => posted[1] = counted

\* Without a mark no copy has more than what counts; when the runtime has
\* published its results, the snapshot or else the row has all of them.
CopiesBelow ==
    ~Marked => /\ tally["gateway"] <= counted
               /\ Published => posted[1] <= counted
               /\ scoreRow <= counted /\ SavesBelow(counted)
               /\ ~unsaved => IF Published THEN posted[1] = counted
                              ELSE scoreRow = counted /\ SavesRight(1)

\* When nothing is unsaved the row settles.
RowSettles == ~unsaved => Settles

\* What the copies are to be, as long as nothing was mixed or late.
CopiesRight == MarkRight /\ CommandRight /\ RuntimeRight /\ CopiesBelow /\ RowSettles

\* The inductive invariant behind ScoreShown.
ScoreInv == ScoreTypeOK /\ (~mixed /\ ~late => CopiesRight)

-----------------------------------------------------------------------------
(* The readings.                                                           *)

\* A set of scores that is not empty has a largest one.
LEMMA LargestScore ==
    ASSUME NEW S \in SUBSET Score, S # {}
    PROVE  Max(S) \in S /\ \A x \in S : x <= Max(S)
<1> DEFINE T == {MaxScore - x : x \in S}
<1>0. MaxScore \in Nat /\ \A x \in S : x \in Nat /\ x <= MaxScore
  BY ScoreAssumption DEF Score
<1>1. T \in SUBSET Nat /\ T # {}
  BY <1>0
<1>2. PICK n \in T : \A m \in T : n <= m
  BY <1>1, LeastNatural
<1>3. PICK x \in S : n = MaxScore - x
  BY <1>2
<1>4. \A y \in S : x >= y
  <2> TAKE y \in S
  <2>1. MaxScore - y \in T
    OBVIOUS
  <2>2. MaxScore - x <= MaxScore - y
    BY <1>2, <1>3, <2>1
  <2> QED  BY <1>0, <1>3, <2>2
<1>5. Max(S) \in S /\ \A y \in S : Max(S) >= y
  BY <1>3, <1>4 DEF Max
<1> QED  BY <1>0, <1>5

\* What a copy that was published is.
LEMMA PostedType ==
    ASSUME ScoreTypeOK
    PROVE  /\ Published => posted[1] \in Score /\ posted[2] \in BOOLEAN
           /\ Stamped => Published
BY DEF ScoreTypeOK, Published, NothingPosted, Stamped

\* Scores are numbers.
LEMMA ScoresAreNumbers ==
    /\ Score \subseteq Nat /\ NoScore \notin Score /\ Keep \notin Score
    /\ 0 \in Score /\ MaxScore \in Nat /\ NoScore = -1 /\ Keep = -1
BY ScoreAssumption DEF Score, NoScore, Keep

\* The mark decides; without it the reading is bounded by the copies it prefers.
LEMMA ReconciledIs ==
    ASSUME ScoreTypeOK, NEW p \in Holder
    PROVE  /\ Reconciled(p) \in Score
           /\ Authority(p) # NoScore => Reconciled(p) = Authority(p)
           /\ Authority(p) = NoScore =>
                /\ Published => posted[1] <= Reconciled(p)
                /\ ~Published => scoreRow <= Reconciled(p)
                /\ p = "runtime" => tally[p] <= Reconciled(p)
                /\ \A n \in Score : tally[p] <= n /\ scoreRow <= n
                                    /\ (Published => posted[1] <= n)
                                        => Reconciled(p) <= n
<1> DEFINE own == IF p = "gateway" /\ Adopts THEN posted[1] ELSE tally[p]
           all == {own} \cup OfSnapshot \cup (IF Stamped THEN {} ELSE {scoreRow})
<1>1. own \in Score /\ (own # tally[p] => Published /\ own = posted[1] /\ p = "gateway")
  BY PostedType DEF ScoreTypeOK, Adopts
<1>2. all \in SUBSET Score /\ all # {}
  BY <1>1, PostedType DEF ScoreTypeOK, OfSnapshot
<1>3. Max(all) \in all /\ \A x \in all : x <= Max(all)
  BY <1>2, LargestScore
<1>4. CASE Authority(p) # NoScore
  <2>1. Authority(p) \in Score
    BY <1>4 DEF ScoreTypeOK, Authority
  <2> QED  BY <1>4, <2>1 DEF Reconciled
<1>5. CASE Authority(p) = NoScore
  <2>1. Reconciled(p) = Max(all)
    BY <1>5 DEF Reconciled, Preferred
  <2>2. Published => posted[1] \in all
    BY DEF OfSnapshot
  <2>3. ~Published => scoreRow \in all
    BY PostedType
  <2>4. p = "runtime" => tally[p] \in all
    BY <1>1
  <2>5. \A n \in Score : tally[p] <= n /\ scoreRow <= n /\ (Published => posted[1] <= n)
                            => \A x \in all : x <= n
    BY <1>1 DEF OfSnapshot
  <2> HIDE DEF all
  <2> QED  BY <1>2, <1>3, <1>5, <2>1, <2>2, <2>3, <2>4, <2>5
<1> QED  BY <1>4, <1>5

\* What the gateway answers without a snapshot is the mark, its own or the row.
LEMMA ServedIs ==
    ASSUME ScoreTypeOK
    PROVE  /\ Served \in Score
           /\ Published => Served = Reconciled("gateway")
           /\ ~Published => \/ Served = tally["gateway"]
                            \/ Authority("gateway") = NoScore /\ Served = scoreRow
                            \/ Served = Authority("gateway")
<1>1. "gateway" \in Holder
  BY DEF Holder
<1>2. Authority("gateway") \in {NoScore} \cup Score
  BY <1>1 DEF ScoreTypeOK, Authority
<1>3. Published => Served = Reconciled("gateway") /\ Served \in Score
  BY <1>1, ReconciledIs DEF Served
<1>4. tally["gateway"] \in Score /\ scoreRow \in Score
  BY <1>1 DEF ScoreTypeOK
<1>5. ~Published => /\ Served \in Score
                    /\ \/ Served = tally["gateway"]
                       \/ Authority("gateway") = NoScore /\ Served = scoreRow
                       \/ Served = Authority("gateway")
  BY <1>2, <1>4 DEF Served, Rehydrated
<1> QED  BY <1>3, <1>5

\* While the copies are right no reading has more than what counts, and what is
\* read in time has all of it.
LEMMA ReadingsRight ==
    ASSUME ScoreTypeOK, CopiesRight
    PROVE  /\ \A s \in {Served, Reconciled("gateway")} :
                /\ s \in Score /\ s <= counted
                /\ Marked => s = counted
           /\ ~unsaved => Reconciled("gateway") = counted
           /\ ~unsaved /\ Published => Served = counted
           /\ Reconciled("runtime") \in Score
           /\ ~Pending => Reconciled("runtime") = counted
<1>0. {"gateway", "runtime"} \subseteq Holder
  BY DEF Holder
<1>1. /\ counted \in Score /\ scoreRow \in Score
      /\ \A p \in Holder : tally[p] \in Score
      /\ authority \in {NoScore} \cup Score
  BY DEF ScoreTypeOK
<1>2. /\ Reconciled("gateway") \in Score /\ Served \in Score
      /\ Reconciled("runtime") \in Score
  BY <1>0, ReconciledIs, ServedIs
<1>3. CASE Marked
  <2>1. /\ Authority("gateway") = counted /\ tally["gateway"] = counted
        /\ Authority("gateway") # NoScore
    BY <1>1, <1>3, ScoresAreNumbers DEF CopiesRight, MarkRight, Authority, Marked
  <2>2. Reconciled("gateway") = counted
    BY <1>0, <2>1, ReconciledIs
  <2>3. Served = counted
    BY <2>1, <2>2, ServedIs
  <2>4. ~Pending => Authority("runtime") = counted /\ Authority("runtime") # NoScore
    BY <1>1, <1>3, ScoresAreNumbers
    DEF CopiesRight, MarkRight, RuntimeRight, Authority, Marked
  <2>5. ~Pending => Reconciled("runtime") = counted
    BY <1>0, <2>4, ReconciledIs
  <2> QED  BY <1>1, <1>2, <2>2, <2>3, <2>5, ScoresAreNumbers
<1>4. CASE ~Marked
  <2>1. /\ tally["gateway"] <= counted /\ scoreRow <= counted
        /\ Published => posted[1] <= counted
        /\ tally["runtime"] = counted /\ ~Pending
        /\ ~unsaved => IF Published THEN posted[1] = counted ELSE scoreRow = counted
    BY <1>4 DEF CopiesRight, CopiesBelow, CommandRight, RuntimeRight
  <2>2. \A p \in Holder : Authority(p) = NoScore
    BY <1>4 DEF Authority, Marked
  <2>3. \A p \in Holder : Reconciled(p) <= counted
    BY <1>0, <1>1, <2>1, <2>2, ReconciledIs, ScoresAreNumbers DEF Holder
  <2>4. ~unsaved => counted <= Reconciled("gateway")
    BY <1>0, <2>1, <2>2, ReconciledIs
  <2>5. counted <= Reconciled("runtime")
    BY <1>0, <2>1, <2>2, ReconciledIs
  <2>6. Served <= counted
    BY <1>0, <1>2, <2>1, <2>2, <2>3, ServedIs, ScoresAreNumbers
  <2>7. counted \in Nat /\ \A p \in Holder : Reconciled(p) \in Nat
    BY <1>0, <1>1, <1>2, ScoresAreNumbers DEF Holder
  <2>8. ~unsaved => Reconciled("gateway") = counted
    BY <1>0, <2>3, <2>4, <2>7
  <2>9. ~unsaved /\ Published => Served = counted
    BY <2>8, ServedIs
  <2>10. Reconciled("runtime") = counted
    BY <1>0, <2>3, <2>5, <2>7
  <2> QED  BY <1>0, <1>2, <1>4, <2>3, <2>6, <2>8, <2>9, <2>10
<1> QED  BY <1>3, <1>4

\* So the panel is shown the score.
LEMMA ShownRight == ASSUME ScoreInv PROVE ScoreShown
<1>1. ~late /\ ~mixed => ScoreTypeOK /\ CopiesRight
  BY DEF ScoreInv
<1>2. ~late /\ ~mixed => Served <= counted /\ (~unsaved /\ Published => Served = counted)
  BY <1>1, ReadingsRight
<1> QED  BY <1>2 DEF ScoreShown, Quiet

-----------------------------------------------------------------------------
(* The writes that wait.                                                   *)

\* Another write waits behind the others.
LEMMA SaveJoins ==
    ASSUME saves \in Seq(Saving), NEW e \in Saving, saves' = Append(saves, e)
    PROVE  /\ saves' \in Seq(Saving) /\ Len(saves') = Len(saves) + 1
           /\ Len(saves) \in Nat
           /\ \A i \in 1..Len(saves) : saves'[i] = saves[i]
           /\ saves'[Len(saves')] = e
  OBVIOUS

\* It is of what counts, or leaves the row alone: the row settles.
LEMMA SettlesWith ==
    ASSUME saves \in Seq(Saving), NEW e \in Saving, saves' = Append(saves, e),
           counted' \in Score
    PROVE  /\ e.score = counted' => Settles'
           /\ UNCHANGED <<scoreRow, counted>> /\ e.score \in {Keep, counted} /\ Settles
                => Settles'
           /\ UNCHANGED counted /\ e.score \in {Keep, counted} /\ SavesRight(1)
                => SavesRight(1)'
           /\ \A n \in Score : SavesBelow(n) /\ e.score <= n => SavesBelow(n)'
<1>1. /\ Len(saves') = Len(saves) + 1 /\ Len(saves) \in Nat
      /\ \A i \in 1..Len(saves) : saves'[i] = saves[i]
      /\ saves'[Len(saves')] = e
  BY SaveJoins
<1>2. \A i \in 1..Len(saves') : i \in 1..Len(saves) \/ saves'[i] = e
  BY <1>1
<1>3. e.score = counted' => Settles'
  <2>1. \A i \in Len(saves')..Len(saves') : saves'[i] = e
    BY <1>1
  <2>2. Len(saves') \in 1..Len(saves')
    BY <1>1
  <2> QED  BY <1>1, <2>1, <2>2 DEF Settles, SavesRight
<1>4. ASSUME UNCHANGED counted, e.score \in {Keep, counted},
             NEW k \in 1..(Len(saves) + 1), SavesRight(k)
      PROVE  SavesRight(k)'
  <2>1. \A i \in k..Len(saves') : saves'[i] = e \/ (i \in k..Len(saves) /\ saves'[i] = saves[i])
    BY <1>1, <1>4
  <2> QED  BY <1>4, <2>1 DEF SavesRight
<1>5. UNCHANGED counted /\ e.score \in {Keep, counted} /\ SavesRight(1) => SavesRight(1)'
  BY <1>1, <1>4
<1>6. ASSUME UNCHANGED <<scoreRow, counted>>, e.score \in {Keep, counted}, Settles
      PROVE  Settles'
  <2>1. CASE Doomed
    BY <1>1, <2>1 DEF Settles, Doomed
  <2>2. CASE scoreRow = counted /\ SavesRight(1)
    BY <1>5, <1>6, <2>2 DEF Settles
  <2>3. CASE \E k \in 1..Len(saves) : saves[k].score = counted /\ SavesRight(k)
    <3>1. PICK k \in 1..Len(saves) : saves[k].score = counted /\ SavesRight(k)
      BY <2>3
    <3>2. SavesRight(k)' /\ k \in 1..Len(saves') /\ saves'[k].score = counted'
      BY <1>1, <1>4, <1>6, <3>1
    <3> QED  BY <3>2 DEF Settles
  <2> QED  BY <1>6, <2>1, <2>2, <2>3 DEF Settles
<1>7. ASSUME NEW n \in Score, SavesBelow(n), e.score <= n PROVE SavesBelow(n)'
  BY <1>1, <1>2, <1>7 DEF SavesBelow
<1> QED  BY <1>3, <1>5, <1>6, <1>7

\* One of the writes is made, the i-th: those before it are overtaken.
Leaves(i) == [j \in 1..(Len(saves) - 1) |->
                 IF j < i THEN [saves[j] EXCEPT !.old = TRUE] ELSE saves[j + 1]]

\* What the others are then.
LEMMA SaveLeaves ==
    ASSUME saves \in Seq(Saving), NEW i \in 1..Len(saves), saves' = Leaves(i)
    PROVE  /\ saves' \in Seq(Saving) /\ Len(saves') = Len(saves) - 1
           /\ Len(saves) \in Nat /\ i \in Nat
           /\ \A j \in 1..Len(saves) : j < i =>
                /\ j \in 1..Len(saves') /\ saves'[j].old /\ saves'[j].score = saves[j].score
           /\ \A j \in 1..Len(saves) : j > i =>
                /\ j - 1 \in 1..Len(saves') /\ saves'[j - 1] = saves[j]
           /\ \A j \in 1..Len(saves') :
                \/ j < i /\ j \in 1..Len(saves) /\ saves'[j].score = saves[j].score
                \/ j >= i /\ j + 1 \in 1..Len(saves) /\ saves'[j] = saves[j + 1]
<1>1. Len(saves) \in Nat /\ \A j \in 1..Len(saves) : saves[j] \in Saving
  OBVIOUS
<1>2. \A e \in Saving : /\ [e EXCEPT !.old = TRUE] \in Saving
                        /\ [e EXCEPT !.old = TRUE].old
                        /\ [e EXCEPT !.old = TRUE].score = e.score
  BY DEF Saving
<1>3. Len(saves) - 1 \in Nat
  BY <1>1
<1>4. \A j \in 1..(Len(saves) - 1) :
          saves'[j] = IF j < i THEN [saves[j] EXCEPT !.old = TRUE] ELSE saves[j + 1]
  BY DEF Leaves
<1>5. ASSUME NEW j \in 1..(Len(saves) - 1) PROVE saves'[j] \in Saving
  <2>1. /\ j \in 1..Len(saves) /\ j + 1 \in 1..Len(saves)
        /\ saves[j] \in Saving /\ saves[j + 1] \in Saving
    BY <1>1
  <2>2. saves'[j] = IF j < i THEN [saves[j] EXCEPT !.old = TRUE] ELSE saves[j + 1]
    BY <1>4
  <2> QED  BY <1>2, <2>1, <2>2
<1>6. saves' \in [1..(Len(saves) - 1) -> Saving]
  BY <1>5 DEF Leaves
<1>7. saves' \in Seq(Saving) /\ Len(saves') = Len(saves) - 1
  BY <1>3, <1>6, LenProperties DEF Seq
<1>8. ASSUME NEW j \in 1..Len(saves), j < i
      PROVE  /\ j \in 1..Len(saves') /\ saves'[j].old
             /\ saves'[j].score = saves[j].score
  <2>1. j \in 1..(Len(saves) - 1) /\ saves[j] \in Saving
    BY <1>1, <1>8
  <2>2. saves'[j] = [saves[j] EXCEPT !.old = TRUE]
    BY <1>4, <1>8, <2>1
  <2> QED  BY <1>2, <1>7, <2>1, <2>2
<1>9. ASSUME NEW j \in 1..Len(saves), j > i
      PROVE  j - 1 \in 1..Len(saves') /\ saves'[j - 1] = saves[j]
  <2>1. j - 1 \in 1..(Len(saves) - 1) /\ ~(j - 1 < i) /\ (j - 1) + 1 = j
    BY <1>1, <1>9
  <2> QED  BY <1>4, <1>7, <2>1
<1>10. ASSUME NEW j \in 1..Len(saves')
       PROVE  \/ j < i /\ j \in 1..Len(saves) /\ saves'[j].score = saves[j].score
              \/ j >= i /\ j + 1 \in 1..Len(saves) /\ saves'[j] = saves[j + 1]
  <2>1. j \in 1..(Len(saves) - 1) /\ j \in 1..Len(saves) /\ j + 1 \in 1..Len(saves)
    BY <1>1, <1>7
  <2>2. saves'[j] = IF j < i THEN [saves[j] EXCEPT !.old = TRUE] ELSE saves[j + 1]
    BY <1>4, <2>1
  <2>3. CASE j < i
    BY <1>8, <2>1, <2>3
  <2>4. CASE ~(j < i)
    BY <2>1, <2>2, <2>4
  <2> QED  BY <2>3, <2>4
<1> QED  BY <1>1, <1>7, <1>8, <1>9, <1>10

\* Unless it comes out of order, the row still settles.
LEMMA RowGetsSave ==
    ASSUME ScoreTypeOK, NEW i \in 1..Len(saves), saves' = Leaves(i),
           scoreRow' = IF saves[i].score = Keep THEN scoreRow ELSE saves[i].score,
           counted' = counted
    PROVE  /\ saves' \in Seq(Saving) /\ scoreRow' \in Score
           /\ (saves[i].old => saves[i].score = Keep) /\ Settles => Settles'
           /\ scoreRow = counted /\ SavesRight(1) => (scoreRow = counted /\ SavesRight(1))'
           /\ \A n \in Score : scoreRow <= n /\ SavesBelow(n)
                    => scoreRow' <= n /\ SavesBelow(n)'
<1>1. saves \in Seq(Saving) /\ counted \in Score /\ scoreRow \in Score
  BY DEF ScoreTypeOK, Saving
<1>2. /\ saves' \in Seq(Saving) /\ Len(saves') = Len(saves) - 1
      /\ Len(saves) \in Nat /\ i \in Nat
      /\ \A j \in 1..Len(saves) : j < i =>
           /\ j \in 1..Len(saves') /\ saves'[j].old /\ saves'[j].score = saves[j].score
      /\ \A j \in 1..Len(saves) : j > i =>
           /\ j - 1 \in 1..Len(saves') /\ saves'[j - 1] = saves[j]
      /\ \A j \in 1..Len(saves') :
           \/ j < i /\ j \in 1..Len(saves) /\ saves'[j].score = saves[j].score
           \/ j >= i /\ j + 1 \in 1..Len(saves) /\ saves'[j] = saves[j + 1]
  BY <1>1, SaveLeaves
<1>3. \A j \in 1..Len(saves) : saves[j].score \in {Keep} \cup Score
  <2>1. \A j \in 1..Len(saves) : saves[j] \in Saving
    BY <1>1
  <2> QED  BY <2>1 DEF Saving
<1>4. scoreRow' \in Score
  BY <1>1, <1>3
<1>5. ASSUME scoreRow = counted, SavesRight(1)
      PROVE  (scoreRow = counted /\ SavesRight(1))'
  <2>1. \A j \in 1..Len(saves) : saves[j].score \in {Keep, counted}
    BY <1>5 DEF SavesRight
  <2>2. \A j \in 1..Len(saves') : saves'[j].score \in {Keep, counted}
    BY <1>2, <2>1
  <2> QED  BY <1>5, <2>1, <2>2 DEF SavesRight
<1>6. ASSUME NEW n \in Score, scoreRow <= n, SavesBelow(n)
      PROVE  scoreRow' <= n /\ SavesBelow(n)'
  <2>1. \A j \in 1..Len(saves') : saves'[j].score <= n
    BY <1>2, <1>6 DEF SavesBelow
  <2> QED  BY <1>6, <2>1 DEF SavesBelow
<1>7. ASSUME saves[i].old => saves[i].score = Keep, Settles PROVE Settles'
  <2>1. CASE Doomed
    <3>1. PICK d \in 1..Len(saves) : saves[d].old /\ saves[d].score # Keep
      BY <2>1 DEF Doomed
    <3>2. d # i
      BY <1>7, <3>1
    <3>3. CASE d < i
      <4>1. d \in 1..Len(saves') /\ saves'[d].old /\ saves'[d].score # Keep
        BY <1>2, <3>1, <3>3
      <4> QED  BY <4>1 DEF Settles, Doomed
    <3>4. CASE d > i
      <4>1. /\ d - 1 \in 1..Len(saves')
            /\ saves'[d - 1].old /\ saves'[d - 1].score # Keep
        BY <1>2, <3>1, <3>4
      <4> QED  BY <4>1 DEF Settles, Doomed
    <3>5. d \in Nat
      OBVIOUS
    <3> QED  BY <1>2, <3>2, <3>3, <3>4, <3>5
  <2>2. CASE scoreRow = counted /\ SavesRight(1)
    BY <1>5, <2>2 DEF Settles
  <2>3. CASE \E k \in 1..Len(saves) : saves[k].score = counted /\ SavesRight(k)
    <3>1. PICK k \in 1..Len(saves) : saves[k].score = counted /\ SavesRight(k)
      BY <2>3
    <3>2. counted # Keep
      BY <1>1, ScoresAreNumbers
    <3>3. CASE i = k
      <4>1. scoreRow' = counted'
        BY <3>1, <3>2, <3>3
      <4>2. CASE \E j \in 1..Len(saves) : j < i /\ saves[j].score # Keep
        <5>1. \E j \in 1..Len(saves') : saves'[j].old /\ saves'[j].score # Keep
          <6>1. PICK j \in 1..Len(saves) : j < i /\ saves[j].score # Keep
            BY <4>2
          <6>2. j \in 1..Len(saves') /\ saves'[j].old /\ saves'[j].score = saves[j].score
            BY <1>2, <6>1
          <6> QED
            BY <6>1, <6>2
        <5> QED  BY <5>1 DEF Settles, Doomed
      <4>3. CASE ~\E j \in 1..Len(saves) : j < i /\ saves[j].score # Keep
        <5>1. \A j \in k..Len(saves) : saves[j].score \in {Keep, counted}
          BY <3>1 DEF SavesRight
        <5>2. ASSUME NEW j \in 1..Len(saves') PROVE saves'[j].score \in {Keep, counted}
          <6>1. CASE j < i /\ j \in 1..Len(saves) /\ saves'[j].score = saves[j].score
            BY <4>3, <6>1
          <6>2. CASE j >= i /\ j + 1 \in 1..Len(saves) /\ saves'[j] = saves[j + 1]
            BY <1>2, <3>3, <5>1, <6>2
          <6> QED  BY <1>2, <6>1, <6>2
        <5>3. SavesRight(1)'
          BY <5>2 DEF SavesRight
        <5> QED  BY <4>1, <5>3 DEF Settles
      <4> QED  BY <4>2, <4>3
    <3>4. CASE i < k
      <4>1. k - 1 \in 1..Len(saves') /\ saves'[k - 1].score = counted'
        BY <1>2, <3>1, <3>4
      <4>2. \A j \in k..Len(saves) : saves[j].score \in {Keep, counted}
        BY <3>1 DEF SavesRight
      <4>3. ASSUME NEW j \in (k - 1)..Len(saves') PROVE saves'[j].score \in {Keep, counted}
        <5>1. j \in 1..Len(saves') /\ j >= i /\ j + 1 \in k..Len(saves)
          BY <1>2, <3>4, <4>1
        <5>2. saves'[j] = saves[j + 1]
          BY <1>2, <5>1
        <5> QED  BY <4>2, <5>1, <5>2
      <4>4. SavesRight(k - 1)'
        BY <4>3 DEF SavesRight
      <4> QED  BY <4>1, <4>4 DEF Settles
    <3>5. CASE i > k
      <4>1. k \in 1..Len(saves') /\ saves'[k].old /\ saves'[k].score # Keep
        BY <1>2, <3>1, <3>2, <3>5
      <4> QED  BY <4>1 DEF Settles, Doomed
    <3>6. k \in Nat
      OBVIOUS
    <3> QED  BY <1>2, <3>3, <3>4, <3>5, <3>6
  <2> QED  BY <1>7, <2>1, <2>2, <2>3 DEF Settles
<1> QED  BY <1>2, <1>4, <1>5, <1>6, <1>7

-----------------------------------------------------------------------------
(* The types.                                                              *)

\* What the sequences may take and give.
LEMMA QueueTypes ==
    ASSUME ScoreTypeOK
    PROVE  /\ \A n \in {Keep} \cup Score : Save(n) \in Seq(Saving)
           /\ \A c \in Command : Append(commands, c) \in Seq(Command)
           /\ commands # <<>> => /\ Tail(commands) \in Seq(Command)
                                 /\ Head(commands) \in Command
           /\ {"gateway", "runtime"} \subseteq Holder
           /\ \A k \in {"apply", "reset"}, n \in Score : [kind |-> k, score |-> n] \in Command
           /\ <<>> \in Seq(Command)
<1>1. saves \in Seq(Saving) /\ commands \in Seq(Command)
  BY DEF ScoreTypeOK, Saving
<1>2. \A n \in {Keep} \cup Score : [score |-> n, old |-> FALSE] \in Saving
  BY DEF Saving
<1>3. ASSUME NEW n \in {Keep} \cup Score PROVE Save(n) \in Seq(Saving)
  <2> DEFINE e == [score |-> n, old |-> FALSE]
  <2>1. e \in Saving
    BY <1>2
  <2> HIDE DEF e
  <2>2. Append(saves, e) \in Seq(Saving)
    BY <1>1, <2>1
  <2> QED  BY <2>2 DEF Save, e
<1>4. commands # <<>> => Tail(commands) \in Seq(Command) /\ Head(commands) \in Command
  BY <1>1
<1> QED  BY <1>1, <1>3, <1>4 DEF Holder, Command

\* What the processes may be told and may take off.
LEMMA ScoreTypes ==
    ASSUME ScoreTypeOK
    PROVE  /\ \A p \in Holder, n \in Score : [tally EXCEPT ![p] = n] \in [Holder -> Score]
           /\ \A p \in Holder, b \in BOOLEAN : [missed EXCEPT ![p] = b] \in [Holder -> BOOLEAN]
           /\ \A p \in Holder : AfterAsking(p) \in [Holder -> BOOLEAN]
           /\ Preferred({tally["runtime"], counted}) \in Score
           /\ \A n \in Score : Less(n) \in Score
                               /\ Less(n) = IF n = 0 THEN 0 ELSE n - 1
           /\ Protected \in {Keep} \cup Score
           /\ Adopts => posted[1] \in Score
<1>0. /\ {"gateway", "runtime"} \subseteq Holder /\ counted \in Score
      /\ \A p \in Holder : tally[p] \in Score
  BY DEF ScoreTypeOK, Holder
<1>1. \A p \in Holder, n \in Score : [tally EXCEPT ![p] = n] \in [Holder -> Score]
  BY DEF ScoreTypeOK
<1>2. \A p \in Holder, b \in BOOLEAN : [missed EXCEPT ![p] = b] \in [Holder -> BOOLEAN]
  BY DEF ScoreTypeOK
<1>3. \A p \in Holder : AfterAsking(p) \in [Holder -> BOOLEAN]
  BY DEF ScoreTypeOK, AfterAsking
<1>4. \A S \in SUBSET Score : S # {} => Max(S) \in S /\ \A x \in S : x <= Max(S)
  BY LargestScore
<1>5. Preferred({tally["runtime"], counted}) \in Score
  BY <1>0, <1>4 DEF Preferred
<1>6. ASSUME NEW n \in Score PROVE Less(n) \in Score /\ Less(n) = IF n = 0 THEN 0 ELSE n - 1
  <2>1. CASE n = 0
    <3>1. {0, n - 1} = {0, -1}
      BY <2>1
    <3>2. Max({0, -1}) \in {0, -1} /\ \A x \in {0, -1} : x <= Max({0, -1})
      <4>1. \E x \in {0, -1} : \A y \in {0, -1} : x >= y
        OBVIOUS
      <4>2. Max({0, -1}) \in {0, -1} /\ \A x \in {0, -1} : Max({0, -1}) >= x
        BY <4>1 DEF Max
      <4> QED  BY <4>2
    <3>3. Max({0, -1}) = 0
      BY <3>2
    <3> QED  BY <2>1, <3>1, <3>3, ScoresAreNumbers DEF Less
  <2>2. CASE n # 0
    <3>1. n - 1 \in Score /\ 0 \in Score /\ n \in Nat
      BY <2>2, ScoresAreNumbers DEF Score
    <3>2. Max({0, n - 1}) \in {0, n - 1} /\ \A x \in {0, n - 1} : x <= Max({0, n - 1})
      BY <1>4, <3>1
    <3>3. Max({0, n - 1}) = n - 1
      BY <2>2, <3>1, <3>2
    <3> QED  BY <2>2, <3>1, <3>3 DEF Less
  <2> QED  BY <2>1, <2>2
<1>7. Adopts => posted[1] \in Score
  BY PostedType DEF Adopts
<1>8. Published => Preferred({tally["gateway"], posted[1]}) \in Score
  BY <1>0, <1>4, PostedType DEF Preferred
<1>9. Protected \in {Keep} \cup Score
  BY <1>0, <1>7, <1>8 DEF Protected
<1> QED  BY <1>1, <1>2, <1>3, <1>5, <1>6, <1>7, <1>9

\* Every step of the score keeps the types.
LEMMA ScoreTypeStep == ASSUME ScoreTypeOK, [ScoreNext]_scoreVars PROVE ScoreTypeOK'
<1>0. /\ {"gateway", "runtime"} \subseteq Holder
      /\ \A p \in Holder : Reconciled(p) \in Score
      /\ Served \in Score /\ authority \in {NoScore} \cup Score
      /\ \A p \in Holder : tally[p] \in Score
      /\ 0 \in Score /\ \A n \in Score : n < MaxScore => n + 1 \in Score
      /\ \A n \in Score : n > 0 => n - 1 \in Score
      /\ \A n \in 0..MaxEvents : n < MaxEvents => n + 1 \in 0..MaxEvents
  <2>1. \A p \in Holder : Reconciled(p) \in Score
    BY ReconciledIs
  <2>2. Served \in Score /\ authority \in {NoScore} \cup Score
    BY ServedIs DEF ScoreTypeOK
  <2>3. \A p \in Holder : tally[p] \in Score
    BY DEF ScoreTypeOK
  <2>4. /\ 0 \in Score /\ \A n \in Score : n < MaxScore => n + 1 \in Score
        /\ \A n \in Score : n > 0 => n - 1 \in Score
    BY ScoreAssumption DEF Score
  <2>5. \A n \in 0..MaxEvents : n < MaxEvents => n + 1 \in 0..MaxEvents
    BY ScoreAssumption
  <2> QED
    BY <2>1, <2>2, <2>3, <2>4, <2>5 DEF Holder
<1>a. Event => events' \in 0..MaxEvents
  BY <1>0 DEF Event, ScoreTypeOK
<1>b. /\ \A n \in Score : GatewayLearns(n) =>
            tally' \in [Holder -> Score] /\ missed' \in [Holder -> BOOLEAN] /\ aligned' \in BOOLEAN
      /\ \A p \in Holder, n \in Score : Mark(p, n) =>
            authority' \in {NoScore} \cup Score /\ missed' \in [Holder -> BOOLEAN]
  <2>1. ASSUME NEW n \in Score, GatewayLearns(n)
        PROVE  /\ tally' \in [Holder -> Score] /\ missed' \in [Holder -> BOOLEAN]
               /\ aligned' \in BOOLEAN
    <3>1. aligned' \in BOOLEAN
      BY <2>1 DEF GatewayLearns, ScoreTypeOK, Stamped, Published
    <3> QED  BY <1>0, <2>1, <3>1, ScoreTypes DEF GatewayLearns
  <2>2. ASSUME NEW p \in Holder, NEW n \in Score, Mark(p, n)
        PROVE  authority' \in {NoScore} \cup Score /\ missed' \in [Holder -> BOOLEAN]
    BY <2>2, ScoreTypes DEF Mark
  <2> QED  BY <2>1, <2>2
<1>c. \A n \in Score, b \in BOOLEAN : <<n, b>> \in {NothingPosted} \cup (Score \X BOOLEAN)
  OBVIOUS
<1>d. \A n \in {Keep} \cup Score : Save(n) \in Seq([score : {Keep} \cup Score, old : BOOLEAN])
  BY QueueTypes DEF Saving
<1>1. CASE UNCHANGED scoreVars
  BY <1>1 DEF scoreVars, ScoreTypeOK
<1>2. CASE ResultCounts
  BY <1>0, <1>a, <1>2, ScoreTypes DEF ResultCounts, ScoreTypeOK
<1>3. CASE RuntimePersists
  BY <1>0, <1>c, <1>d, <1>3 DEF RuntimePersists, ScoreTypeOK
<1>4. CASE SnapshotLoop
  BY <1>0, <1>c, <1>4 DEF SnapshotLoop, ScoreTypeOK
<1>5. CASE RuntimeControls
  <2>1. /\ tally' \in [Holder -> Score] /\ missed' \in [Holder -> BOOLEAN]
        /\ posted' \in {NothingPosted} \cup (Score \X BOOLEAN)
    BY <1>0, <1>5, ScoreTypes DEF RuntimeControls
  <2> QED  BY <1>5, <2>1 DEF RuntimeControls, ScoreTypeOK
<1>6. CASE RuntimeHydrates
  <2>1. tally' \in [Holder -> Score] /\ missed' \in [Holder -> BOOLEAN]
    <3>1. tally' = [tally EXCEPT !["runtime"] =
                      IF Authority("runtime") # NoScore THEN Authority("runtime")
                      ELSE Preferred({tally["runtime"], counted})]
      BY <1>6 DEF RuntimeHydrates
    <3>2. Authority("runtime") \in {NoScore} \cup Score
      BY <1>0 DEF Authority
    <3> QED  BY <1>0, <1>6, <3>1, <3>2, ScoreTypes DEF RuntimeHydrates
  <2> QED  BY <1>6, <2>1 DEF RuntimeHydrates, ScoreTypeOK
<1>7. CASE HearsApply
  <2>1. Head(commands).score \in Score /\ Tail(commands) \in Seq(Command)
    BY <1>7, QueueTypes DEF HearsApply, Command
  <2>2. /\ tally' \in [Holder -> Score] /\ missed' \in [Holder -> BOOLEAN]
        /\ authority' \in {NoScore} \cup Score
    BY <1>0, <1>b, <1>7, <2>1, ScoreTypes DEF HearsApply
  <2> QED  BY <1>c, <1>d, <1>7, <2>1, <2>2 DEF HearsApply, ScoreTypeOK
<1>8. CASE HearsReset
  <2>1. Tail(commands) \in Seq(Command)
    BY <1>8, QueueTypes DEF HearsReset
  <2>2. /\ tally' \in [Holder -> Score] /\ missed' \in [Holder -> BOOLEAN]
        /\ authority' \in {NoScore} \cup Score
    BY <1>0, <1>b, <1>8, ScoreTypes DEF HearsReset
  <2> QED  BY <1>0, <1>c, <1>8, <2>1, <2>2 DEF HearsReset, ScoreTypeOK
<1>9. CASE RuntimeRestarts
  <2>1. /\ tally' \in [Holder -> Score] /\ missed' \in [Holder -> BOOLEAN]
        /\ posted' \in {NothingPosted} \cup (Score \X BOOLEAN)
    BY <1>0, <1>9, ScoreTypes DEF RuntimeRestarts, ScoreTypeOK
  <2> QED  BY <1>a, <1>9, <2>1, QueueTypes DEF RuntimeRestarts, ScoreTypeOK
<1>10. CASE StatePolled
  <2>1. tally' \in [Holder -> Score] /\ missed' \in [Holder -> BOOLEAN] /\ aligned' \in BOOLEAN
    BY <1>0, <1>b, <1>10 DEF StatePolled
  <2> QED  BY <1>10, <2>1 DEF StatePolled, ScoreTypeOK
<1>11. CASE GatewayControls
  <2>1. tally' \in [Holder -> Score] /\ missed' \in [Holder -> BOOLEAN] /\ aligned' \in BOOLEAN
    BY <1>0, <1>b, <1>11 DEF GatewayControls
  <2>2. posted' \in {NothingPosted} \cup (Score \X BOOLEAN)
    BY <1>0, <1>11, <2>1 DEF GatewayControls
  <2> QED  BY <1>11, <2>1, <2>2 DEF GatewayControls, ScoreTypeOK
<1>12. CASE GatewaySavesState
  <2>1. saves' \in Seq([score : {Keep} \cup Score, old : BOOLEAN])
    BY <1>d, <1>12, ScoreTypes DEF GatewaySavesState
  <2>2. tally' \in [Holder -> Score] /\ missed' \in [Holder -> BOOLEAN] /\ aligned' \in BOOLEAN
    <3> DEFINE n == IF Authority("gateway") = NoScore /\ Adopts THEN posted[1]
                    ELSE tally["gateway"]
    <3>1. n \in Score
      BY <1>0, ScoreTypes
    <3>2. GatewayLearns(n)
      BY <1>12 DEF GatewaySavesState
    <3> QED  BY <1>b, <3>1, <3>2
  <2> QED  BY <1>12, <2>1, <2>2 DEF GatewaySavesState, ScoreTypeOK
<1>13. CASE ResultDeleted
  <2> DEFINE n == Less(Reconciled("gateway"))
  <2>1. n \in Score
    BY <1>0, ScoreTypes
  <2>2. /\ Event /\ counted > 0 /\ counted' = counted - 1
        /\ tally' = [tally EXCEPT !["gateway"] = n] /\ Mark("gateway", n)
        /\ aligned' = (aligned \/ (Authority("gateway") = NoScore /\ Stamped))
        /\ saves' = Save(n) /\ posted' = <<n, FALSE>>
        /\ commands' = Append(commands, [kind |-> "apply", score |-> n])
        /\ mixed' = (mixed \/ unsaved \/ commands # <<>> \/ Reconciled("gateway") # counted)
        /\ UNCHANGED <<scoreRow, resetting, unsaved, late>>
    BY <1>13 DEF ResultDeleted
  <2> HIDE DEF n
  <2>3. /\ tally' \in [Holder -> Score] /\ missed' \in [Holder -> BOOLEAN]
        /\ authority' \in {NoScore} \cup Score /\ commands' \in Seq(Command)
    BY <1>0, <1>b, <2>1, <2>2, ScoreTypes, QueueTypes
  <2>4. aligned' \in BOOLEAN /\ mixed' \in BOOLEAN
    BY <2>2 DEF ScoreTypeOK, Stamped, Published
  <2>5. counted' \in Score /\ posted' \in {NothingPosted} \cup (Score \X BOOLEAN)
    BY <1>0, <2>1, <2>2 DEF ScoreTypeOK
  <2> QED  BY <1>a, <1>d, <2>1, <2>2, <2>3, <2>4, <2>5 DEF ScoreTypeOK
<1>14. CASE ResetBegins
  <2>1. /\ tally' \in [Holder -> Score] /\ missed' \in [Holder -> BOOLEAN]
        /\ authority' \in {NoScore} \cup Score
    BY <1>0, <1>b, <1>14, ScoreTypes DEF ResetBegins
  <2> QED  BY <1>0, <1>a, <1>d, <1>14, <2>1 DEF ResetBegins, ScoreTypeOK
<1>15. CASE ResetEnds
  <2>1. tally' \in [Holder -> Score] /\ missed' \in [Holder -> BOOLEAN] /\ aligned' \in BOOLEAN
    BY <1>0, <1>b, <1>15 DEF ResetEnds
  <2>2. posted' \in {NothingPosted} \cup (Score \X BOOLEAN) /\ commands' \in Seq(Command)
    BY <1>0, <1>15, <2>1, QueueTypes DEF ResetEnds
  <2> QED  BY <1>15, <2>1, <2>2 DEF ResetEnds, ScoreTypeOK
<1>16. CASE GatewayBoots
  <2>1. tally' \in [Holder -> Score] /\ missed' \in [Holder -> BOOLEAN]
    BY <1>0, <1>16, ScoreTypes DEF GatewayBoots, ScoreTypeOK
  <2> QED  BY <1>a, <1>16, <2>1 DEF GatewayBoots, ScoreTypeOK
<1>17. CASE RowSaved
  <2>1. PICK i \in 1..Len(saves) :
           /\ scoreRow' = IF saves[i].score = Keep THEN scoreRow ELSE saves[i].score
           /\ saves' = Leaves(i)
           /\ late' = (late \/ (saves[i].old /\ saves[i].score # Keep))
           /\ UNCHANGED <<counted, tally, posted, authority, missed, aligned,
                     commands, resetting, unsaved, events, mixed>>
    BY <1>17 DEF RowSaved, Leaves
  <2>2. saves' \in Seq([score : {Keep} \cup Score, old : BOOLEAN]) /\ scoreRow' \in Score
    BY <2>1, RowGetsSave DEF Saving
  <2>3. saves \in Seq(Saving)
    BY DEF ScoreTypeOK, Saving
  <2>4. saves[i] \in Saving
    BY <2>3
  <2>5. late' \in BOOLEAN
    BY <2>1, <2>4 DEF ScoreTypeOK, Saving
  <2> QED  BY <2>1, <2>2, <2>5 DEF ScoreTypeOK
<1>18. CASE AuthorityExpires
  BY <1>18 DEF AuthorityExpires, ScoreTypeOK
<1>19. CASE PostedExpires
  BY <1>19 DEF PostedExpires, ScoreTypeOK
<1>20. ASSUME NEW p \in Holder, AbsenceForgotten(p) PROVE ScoreTypeOK'
  BY <1>20, ScoreTypes DEF AbsenceForgotten, ScoreTypeOK
<1> QED
  BY <1>1, <1>2, <1>3, <1>4, <1>5, <1>6, <1>7, <1>8, <1>9, <1>10, <1>11, <1>12, <1>13,
     <1>14, <1>15, <1>16, <1>17, <1>18, <1>19, <1>20 DEF ScoreNext

-----------------------------------------------------------------------------
(* The copies stay right.                                                  *)

\* The values the copies have.
LEMMA ScoreValues ==
    ASSUME ScoreTypeOK
    PROVE  /\ counted \in Nat /\ counted \in Score /\ scoreRow \in Score
           /\ tally["gateway"] \in Score /\ tally["runtime"] \in Score
           /\ missed["gateway"] \in BOOLEAN /\ missed["runtime"] \in BOOLEAN
           /\ saves \in Seq(Saving) /\ commands \in Seq(Command)
           /\ unsaved \in BOOLEAN /\ resetting \in BOOLEAN
BY ScoresAreNumbers DEF ScoreTypeOK, Holder, Saving

\* Nothing but a copy changes: the writes stay right.
LEMMA SavesStay ==
    ASSUME UNCHANGED <<saves, counted>>
    PROVE  /\ SavesRight(1) => SavesRight(1)'
           /\ SavesBelow(counted) => SavesBelow(counted)'
           /\ UNCHANGED scoreRow /\ Settles => Settles'
BY DEF SavesRight, SavesBelow, Settles, Doomed

\* When no write waits the row has settled.
LEMMA RowHasSettled ==
    ASSUME saves = <<>>
    PROVE  /\ Settles => scoreRow = counted
           /\ SavesRight(1)
           /\ \A n : SavesBelow(n)
<1>1. Len(saves) = 0 /\ 1..Len(saves) = {}
  OBVIOUS
<1> QED  BY <1>1 DEF Settles, Doomed, SavesRight, SavesBelow

\* A score that was published is a copy.
LEMMA PublishedIs ==
    ASSUME NEW n \in Score, NEW b \in BOOLEAN, posted' = <<n, b>>
    PROVE  Published' /\ posted'[1] = n
<1>1. <<n, b>>[1] = n /\ NothingPosted[1] = NoScore /\ n # NoScore
  BY ScoresAreNumbers DEF NothingPosted
<1> QED  BY <1>1 DEF Published

\* What one process takes or remembers the other does not.
LEMMA OneHolder ==
    ASSUME ScoreTypeOK
    PROVE  /\ \A n : tally' = [tally EXCEPT !["gateway"] = n]
                        => tally'["gateway"] = n /\ tally'["runtime"] = tally["runtime"]
           /\ \A n : tally' = [tally EXCEPT !["runtime"] = n]
                        => tally'["runtime"] = n /\ tally'["gateway"] = tally["gateway"]
           /\ \A b : missed' = [missed EXCEPT !["gateway"] = b]
                        => missed'["gateway"] = b /\ missed'["runtime"] = missed["runtime"]
           /\ \A b : missed' = [missed EXCEPT !["runtime"] = b]
                        => missed'["runtime"] = b /\ missed'["gateway"] = missed["gateway"]
           /\ missed' = AfterAsking("gateway") =>
                 /\ missed'["gateway"] = (missed["gateway"] \/ ~Marked)
                 /\ missed'["runtime"] = missed["runtime"]
           /\ missed' = AfterAsking("runtime") =>
                 /\ missed'["runtime"] = (missed["runtime"] \/ ~Marked)
                 /\ missed'["gateway"] = missed["gateway"]
BY DEF ScoreTypeOK, Holder, AfterAsking, Marked

\* What the gateway learns.
LEMMA LearnsIs ==
    ASSUME ScoreTypeOK, NEW n, GatewayLearns(n)
    PROVE  /\ tally'["gateway"] = n /\ tally'["runtime"] = tally["runtime"]
           /\ missed'["gateway"] = (missed["gateway"] \/ ~Marked)
           /\ missed'["runtime"] = missed["runtime"]
BY OneHolder DEF GatewayLearns

\* A result counts: no copy had more, and the runtime is to publish it.
LEMMA ResultCountsStep ==
    ASSUME ScoreTypeOK, CopiesRight, ResultCounts, ~mixed' PROVE CopiesRight'
<1>1. /\ commands = <<>> /\ ~resetting /\ (Marked => saves = <<>>)
      /\ counted' = counted + 1 /\ unsaved' /\ authority' = NoScore
      /\ tally' = [tally EXCEPT !["runtime"] = tally["runtime"] + 1]
      /\ UNCHANGED <<posted, scoreRow, saves, commands, resetting>>
  BY ScoreValues DEF ResultCounts, Marked
<1>2. tally'["runtime"] = tally["runtime"] + 1 /\ tally'["gateway"] = tally["gateway"]
  BY <1>1, OneHolder
<1>3. ~Pending /\ ~Pending' /\ ~Marked'
  BY <1>1 DEF Pending, Marked
<1>4. /\ tally["runtime"] = counted /\ tally["gateway"] <= counted /\ scoreRow <= counted
      /\ SavesBelow(counted) /\ (Published => posted[1] <= counted)
  <2>1. CASE Marked
    <3>1. Settles /\ ~unsaved
      BY <2>1 DEF CopiesRight, MarkRight, RowSettles
    <3> QED  BY <1>1, <1>3, <2>1, <3>1, RowHasSettled, ScoreValues, PostedType
             DEF CopiesRight, MarkRight, RuntimeRight
  <2>2. CASE ~Marked
    BY <1>3, <2>2 DEF CopiesRight, RuntimeRight, CopiesBelow
  <2> QED  BY <2>1, <2>2
<1>5. SavesBelow(counted)'
  <2>1. \A i \in 1..Len(saves) : saves[i] \in Saving
    BY ScoreValues
  <2>2. \A n \in {Keep} \cup Score : n \in Int
    BY ScoresAreNumbers
  <2>3. \A i \in 1..Len(saves) : saves[i].score \in {Keep} \cup Score
    BY <2>1 DEF Saving
  <2>4. \A i \in 1..Len(saves) : saves[i].score \in Int
    BY <2>2, <2>3
  <2> QED  BY <1>1, <1>4, <2>4, ScoreValues DEF SavesBelow
<1>6. Published' <=> Published
  BY <1>1 DEF Published
<1>7. /\ tally'["gateway"] <= counted' /\ scoreRow' <= counted'
      /\ Published' => posted'[1] <= counted'
  <2>1. \A n \in Nat : n <= counted => n <= counted + 1
    BY ScoreValues
  <2>2. /\ tally["gateway"] \in Nat /\ scoreRow \in Nat
        /\ Published => posted[1] \in Nat
    BY ScoreValues, PostedType, ScoresAreNumbers
  <2> QED  BY <1>1, <1>2, <1>4, <1>6, <2>1, <2>2
<1> QED  BY <1>1, <1>2, <1>3, <1>4, <1>5, <1>7
         DEF CopiesRight, MarkRight, CommandRight, RuntimeRight, CopiesBelow, RowSettles

\* It is published, and the row is going to have it.
LEMMA RuntimePersistsStep ==
    ASSUME ScoreTypeOK, CopiesRight, RuntimePersists PROVE CopiesRight'
<1>1. /\ unsaved /\ ~unsaved' /\ posted' = <<tally["runtime"], TRUE>>
      /\ saves' = Append(saves, [score |-> tally["runtime"], old |-> FALSE])
      /\ UNCHANGED <<counted, tally, scoreRow, authority, missed, commands, resetting>>
  BY DEF RuntimePersists, Save
<1>2. ~Marked /\ ~Pending /\ tally["runtime"] = counted
  BY <1>1 DEF CopiesRight, MarkRight, CommandRight, RuntimeRight
<1>3. Published' /\ posted'[1] = counted
  BY <1>1, <1>2, PublishedIs, ScoreValues
<1> DEFINE e == [score |-> tally["runtime"], old |-> FALSE]
<1>4. e \in Saving /\ e.score = counted /\ saves' = Append(saves, e)
  BY <1>1, <1>2, ScoreValues DEF Saving
<1> HIDE DEF e
<1>5. Settles' /\ (SavesBelow(counted) => SavesBelow(counted)')
  <2>1. counted' \in Score /\ e.score = counted' /\ saves \in Seq(Saving)
    BY <1>1, <1>4, ScoreValues
  <2>2. Settles' /\ \A n \in Score : SavesBelow(n) /\ e.score <= n => SavesBelow(n)'
    BY <1>4, <2>1, SettlesWith
  <2>3. SavesBelow(counted) => \A i \in 1..Len(saves') : saves'[i].score <= counted
    BY <1>4, <2>2, ScoreValues DEF SavesBelow
  <2> QED  BY <1>1, <2>2, <2>3 DEF SavesBelow
<1>6. SavesBelow(counted) /\ tally["gateway"] <= counted /\ scoreRow <= counted
  BY <1>2 DEF CopiesRight, CopiesBelow
<1>7. ~Marked' /\ ~Pending'
  BY <1>1, <1>2 DEF Marked, Pending
<1>8. counted <= counted
  BY ScoreValues
<1> QED  BY <1>1, <1>2, <1>3, <1>5, <1>6, <1>7, <1>8
         DEF CopiesRight, MarkRight, CommandRight, RuntimeRight, CopiesBelow, RowSettles

\* What a step leaves that writes nothing, decreases nothing and only moves the
\* copies of the processes or the snapshot.
LEMMA MovesStep ==
    ASSUME ScoreTypeOK, CopiesRight,
           UNCHANGED <<counted, scoreRow, authority, saves, commands, resetting, unsaved>>,
           Marked => tally'["gateway"] = counted /\ ~missed'["gateway"],
           ~Marked => tally'["gateway"] <= counted,
           ~Pending => tally'["runtime"] = counted,
           ~Pending /\ Marked => ~missed'["runtime"],
           \/ UNCHANGED posted
           \/ /\ Published' /\ posted'[1] <= counted
              /\ Marked /\ ~Pending => posted'[1] = counted
              /\ ~unsaved => posted'[1] = counted
           \/ Published' /\ Pending
    PROVE  CopiesRight'
<1>1. (Pending <=> Pending') /\ (Marked <=> Marked')
  BY DEF Pending, Marked
<1>2. /\ Settles => Settles'
      /\ SavesRight(1) => SavesRight(1)'
      /\ SavesBelow(counted) => SavesBelow(counted)'
  BY SavesStay
<1>3. UNCHANGED posted => (Published <=> Published') /\ posted'[1] = posted[1]
  BY DEF Published
<1>4. MarkRight' /\ CommandRight' /\ RowSettles'
  BY <1>1, <1>2 DEF CopiesRight, MarkRight, CommandRight, RowSettles
<1>5. RuntimeRight'
  BY <1>1, <1>3 DEF CopiesRight, RuntimeRight
<1>6. CopiesBelow'
  <2>1. CASE Marked
    BY <1>1, <2>1 DEF CopiesBelow
  <2>2. CASE ~Marked
    <3>1. ~Pending
      BY <2>2 DEF CopiesRight, CommandRight
    <3> QED  BY <1>1, <1>2, <1>3, <2>2, <3>1 DEF CopiesRight, CopiesBelow
  <2> QED  BY <2>1, <2>2
<1> QED  BY <1>4, <1>5, <1>6 DEF CopiesRight

\* The runtime publishes what it has.
LEMMA SnapshotLoopStep ==
    ASSUME ScoreTypeOK, CopiesRight, SnapshotLoop PROVE CopiesRight'
<1>1. /\ posted' = <<tally["runtime"], TRUE>>
      /\ UNCHANGED <<counted, tally, scoreRow, authority, missed, saves, commands,
                     resetting, unsaved>>
  BY DEF SnapshotLoop
<1>2. Published' /\ posted'[1] = tally["runtime"]
  BY <1>1, PublishedIs, ScoreValues
<1>3. CASE Pending
  BY <1>1, <1>2, <1>3, MovesStep DEF CopiesRight, MarkRight, CopiesBelow
<1>4. CASE ~Pending
  <2>1. tally["runtime"] = counted /\ counted <= counted
    BY <1>4, ScoreValues DEF CopiesRight, RuntimeRight
  <2> QED  BY <1>1, <1>2, <1>4, <2>1, MovesStep
           DEF CopiesRight, MarkRight, CopiesBelow, RuntimeRight
<1> QED  BY <1>3, <1>4

\* The runtime reads the score before it publishes.
LEMMA RuntimeControlsStep ==
    ASSUME ScoreTypeOK, CopiesRight, RuntimeControls PROVE CopiesRight'
<1> DEFINE n == Reconciled("runtime")
<1>1. /\ tally' = [tally EXCEPT !["runtime"] = n]
      /\ missed' = AfterAsking("runtime")
      /\ posted' = <<tally'["runtime"], TRUE>>
      /\ UNCHANGED <<counted, scoreRow, authority, saves, commands, resetting, unsaved>>
  BY DEF RuntimeControls
<1>2. n \in Score /\ (~Pending => n = counted)
  BY ReadingsRight
<1> HIDE DEF n
<1>3. /\ tally'["runtime"] = n /\ tally'["gateway"] = tally["gateway"]
      /\ missed'["runtime"] = (missed["runtime"] \/ ~Marked)
      /\ missed'["gateway"] = missed["gateway"]
  BY <1>1, OneHolder
<1>4. Published' /\ posted'[1] = n
  BY <1>1, <1>2, <1>3, PublishedIs
<1>5. counted <= counted
  BY ScoreValues
<1> QED  BY <1>1, <1>2, <1>3, <1>4, <1>5, MovesStep
         DEF CopiesRight, MarkRight, CopiesBelow, RuntimeRight

\* A start takes the score from the history or the mark.
LEMMA RuntimeHydratesStep ==
    ASSUME ScoreTypeOK, CopiesRight, RuntimeHydrates PROVE CopiesRight'
<1> DEFINE n == IF Authority("runtime") # NoScore THEN Authority("runtime")
                ELSE Preferred({tally["runtime"], counted})
<1>1. /\ tally' = [tally EXCEPT !["runtime"] = n]
      /\ missed' = AfterAsking("runtime")
      /\ UNCHANGED <<counted, posted, scoreRow, authority, saves, commands, resetting, unsaved>>
  BY DEF RuntimeHydrates
<1>2. ~Pending => n = counted
  <2>1. SUFFICES ASSUME ~Pending PROVE n = counted
    OBVIOUS
  <2>2. tally["runtime"] = counted /\ (Marked => authority = counted)
    BY <2>1 DEF CopiesRight, RuntimeRight, MarkRight
  <2>3. Authority("runtime") # NoScore => Authority("runtime") = counted
    BY <2>2 DEF Authority, Marked
  <2>4. Preferred({tally["runtime"], counted}) = counted
    <3>1. {tally["runtime"], counted} = {counted}
      BY <2>2
    <3>2. Max({counted}) \in {counted}
      BY LargestScore, ScoreValues
    <3> QED  BY <3>1, <3>2 DEF Preferred
  <2> QED  BY <2>3, <2>4
<1> HIDE DEF n
<1>3. /\ tally'["runtime"] = n /\ tally'["gateway"] = tally["gateway"]
      /\ missed'["runtime"] = (missed["runtime"] \/ ~Marked)
      /\ missed'["gateway"] = missed["gateway"]
  BY <1>1, OneHolder
<1> QED  BY <1>1, <1>2, <1>3, MovesStep
         DEF CopiesRight, MarkRight, CopiesBelow, RuntimeRight

\* The panel asks.
LEMMA StatePolledStep ==
    ASSUME ScoreTypeOK, CopiesRight, StatePolled PROVE CopiesRight'
<1> DEFINE n == Served
<1>1. /\ GatewayLearns(n)
      /\ UNCHANGED <<counted, posted, scoreRow, authority, saves, commands, resetting, unsaved>>
  BY DEF StatePolled
<1>2. n <= counted /\ (Marked => n = counted)
  BY ReadingsRight
<1> HIDE DEF n
<1>3. /\ tally'["gateway"] = n /\ tally'["runtime"] = tally["runtime"]
      /\ missed'["gateway"] = (missed["gateway"] \/ ~Marked)
      /\ missed'["runtime"] = missed["runtime"]
  BY <1>1, LearnsIs
<1> QED  BY <1>1, <1>2, <1>3, MovesStep
         DEF CopiesRight, MarkRight, CopiesBelow, RuntimeRight

\* The gateway publishes what it reads.
LEMMA GatewayControlsStep ==
    ASSUME ScoreTypeOK, CopiesRight, GatewayControls PROVE CopiesRight'
<1> DEFINE n == Reconciled("gateway")
<1>1. /\ GatewayLearns(n)
      /\ posted' = <<tally'["gateway"], FALSE>>
      /\ UNCHANGED <<counted, scoreRow, authority, saves, commands, resetting, unsaved>>
  BY DEF GatewayControls
<1>2. /\ n \in Score /\ n <= counted /\ (Marked => n = counted)
      /\ ~unsaved => n = counted
  BY ReadingsRight
<1> HIDE DEF n
<1>3. /\ tally'["gateway"] = n /\ tally'["runtime"] = tally["runtime"]
      /\ missed'["gateway"] = (missed["gateway"] \/ ~Marked)
      /\ missed'["runtime"] = missed["runtime"]
  BY <1>1, LearnsIs
<1>4. Published' /\ posted'[1] = n
  BY <1>1, <1>2, <1>3, PublishedIs
<1> QED  BY <1>1, <1>2, <1>3, <1>4, MovesStep
         DEF CopiesRight, MarkRight, CopiesBelow, RuntimeRight

\* The gateway starts from the history.
LEMMA GatewayBootsStep ==
    ASSUME ScoreTypeOK, CopiesRight, GatewayBoots PROVE CopiesRight'
<1>1. /\ tally' = [tally EXCEPT !["gateway"] = counted]
      /\ missed' = [missed EXCEPT !["gateway"] = FALSE]
      /\ UNCHANGED <<counted, posted, scoreRow, authority, saves, commands, resetting, unsaved>>
  BY DEF GatewayBoots
<1>2. /\ tally'["gateway"] = counted /\ tally'["runtime"] = tally["runtime"]
      /\ ~missed'["gateway"] /\ missed'["runtime"] = missed["runtime"]
  BY <1>1, OneHolder
<1>3. counted <= counted
  BY ScoreValues
<1> QED  BY <1>1, <1>2, <1>3, MovesStep
         DEF CopiesRight, MarkRight, CopiesBelow, RuntimeRight

\* The absence of the mark is asked for again.
LEMMA AbsenceForgottenStep ==
    ASSUME ScoreTypeOK, CopiesRight, NEW p \in Holder, AbsenceForgotten(p)
    PROVE  CopiesRight'
<1>1. /\ missed' = [missed EXCEPT ![p] = FALSE]
      /\ UNCHANGED <<counted, tally, posted, scoreRow, authority, saves, commands,
                     resetting, unsaved>>
  BY DEF AbsenceForgotten
<1>2. \A q \in {"gateway", "runtime"} : ~missed[q] => ~missed'[q]
  BY <1>1 DEF ScoreTypeOK, Holder
<1> QED  BY <1>1, <1>2, MovesStep
         DEF CopiesRight, MarkRight, CopiesBelow, RuntimeRight

\* Nothing happens.
LEMMA RestStep ==
    ASSUME ScoreTypeOK, CopiesRight, UNCHANGED scoreVars PROVE CopiesRight'
BY MovesStep DEF scoreVars, CopiesRight, MarkRight, CopiesBelow, RuntimeRight

\* The runtime starts from the history or the mark.
LEMMA RuntimeRestartsStep ==
    ASSUME ScoreTypeOK, CopiesRight, RuntimeRestarts PROVE CopiesRight'
<1> DEFINE n == IF authority # NoScore THEN authority ELSE counted
<1>1. /\ ~unsaved /\ commands' = <<>>
      /\ tally' = [tally EXCEPT !["runtime"] = n]
      /\ missed' = [missed EXCEPT !["runtime"] = authority = NoScore]
      /\ posted' = <<tally'["runtime"], TRUE>>
      /\ UNCHANGED <<counted, scoreRow, authority, saves, resetting, unsaved>>
  BY DEF RuntimeRestarts
<1>2. n = counted
  BY DEF CopiesRight, MarkRight, Marked
<1> HIDE DEF n
<1>3. /\ tally'["runtime"] = counted /\ tally'["gateway"] = tally["gateway"]
      /\ missed'["runtime"] = ~Marked /\ missed'["gateway"] = missed["gateway"]
  BY <1>1, <1>2, OneHolder DEF Marked
<1>4. Published' /\ posted'[1] = counted
  BY <1>1, <1>3, PublishedIs, ScoreValues
<1>5. (Marked <=> Marked') /\ (Pending' => Pending)
  BY <1>1 DEF Marked, Pending
<1>6. /\ Settles => Settles'
      /\ SavesBelow(counted) => SavesBelow(counted)'
  BY <1>1, SavesStay
<1>7. MarkRight' /\ CommandRight' /\ RowSettles' /\ RuntimeRight'
  BY <1>1, <1>3, <1>4, <1>5, <1>6
  DEF CopiesRight, MarkRight, CommandRight, RowSettles, RuntimeRight
<1>8. CopiesBelow'
  <2>1. counted <= counted
    BY ScoreValues
  <2> QED  BY <1>1, <1>3, <1>4, <1>5, <1>6, <2>1 DEF CopiesRight, CopiesBelow
<1> QED  BY <1>7, <1>8 DEF CopiesRight

\* The command that decreases the score is the only one.
LEMMA CommandIs ==
    ASSUME ScoreTypeOK, CopiesRight, commands # <<>>
    PROVE  /\ Marked /\ Pending /\ authority = counted /\ ~unsaved /\ ~resetting
           /\ ~missed["gateway"] /\ tally["gateway"] = counted
           /\ Tail(commands) = <<>> /\ Head(commands).score = counted
           /\ Head(commands).kind = "reset" => counted = 0
<1>1. ASSUME Len(commands) = 1 PROVE Tail(commands) = <<>>
  <2>1. commands \in Seq(Command)
    BY ScoreValues
  <2>2. Tail(commands) \in Seq(Command) /\ Len(Tail(commands)) = 0
    BY <1>1, <2>1, HeadTailProperties
  <2> QED  BY <2>2, EmptySeq
<1> QED  BY <1>1, ScoreValues DEF CopiesRight, MarkRight, CommandRight, Pending

\* The runtime has heard of it.
LEMMA HeardStep ==
    ASSUME ScoreTypeOK, CopiesRight, commands # <<>>, commands' = Tail(commands),
           tally' = [tally EXCEPT !["runtime"] = counted], Mark("runtime", counted),
           posted' = <<counted, TRUE>>, Settles',
           UNCHANGED <<counted, scoreRow, resetting, unsaved>>
    PROVE  CopiesRight'
<1>1. /\ Marked /\ ~unsaved /\ ~resetting /\ ~missed["gateway"]
      /\ tally["gateway"] = counted /\ commands' = <<>>
  BY CommandIs
<1>2. /\ tally'["runtime"] = counted /\ tally'["gateway"] = counted
      /\ ~missed'["runtime"] /\ ~missed'["gateway"] /\ authority' = counted
  BY <1>1, OneHolder DEF Mark
<1>3. Published' /\ posted'[1] = counted
  BY PublishedIs, ScoreValues
<1>4. Marked' /\ ~Pending'
  BY <1>1, <1>2, ScoreValues, ScoresAreNumbers DEF Marked, Pending
<1> QED  BY <1>1, <1>2, <1>3, <1>4
         DEF CopiesRight, MarkRight, CommandRight, RowSettles, RuntimeRight, CopiesBelow

\* It hears of a result that was deleted.
LEMMA HearsApplyStep ==
    ASSUME ScoreTypeOK, CopiesRight, HearsApply PROVE CopiesRight'
<1>1. /\ commands # <<>> /\ commands' = Tail(commands)
      /\ tally' = [tally EXCEPT !["runtime"] = Head(commands).score]
      /\ Mark("runtime", Head(commands).score)
      /\ saves' = Append(saves, [score |-> Head(commands).score, old |-> FALSE])
      /\ posted' = <<Head(commands).score, TRUE>>
      /\ UNCHANGED <<counted, scoreRow, resetting, unsaved>>
  BY DEF HearsApply, Save
<1>2. Head(commands).score = counted
  BY <1>1, CommandIs
<1>3. Settles'
  <2> DEFINE e == [score |-> counted, old |-> FALSE]
  <2>1. e \in Saving /\ e.score = counted /\ saves' = Append(saves, e)
    BY <1>1, <1>2, ScoreValues DEF Saving
  <2> HIDE DEF e
  <2>2. counted' = counted /\ counted' \in Score /\ saves \in Seq(Saving)
    BY <1>1, ScoreValues
  <2> QED  BY <2>1, <2>2, SettlesWith
<1> QED  BY <1>1, <1>2, <1>3, HeardStep

\* It hears of a reset.
LEMMA HearsResetStep ==
    ASSUME ScoreTypeOK, CopiesRight, HearsReset PROVE CopiesRight'
<1>1. /\ commands # <<>> /\ commands' = Tail(commands) /\ Head(commands).kind = "reset"
      /\ tally' = [tally EXCEPT !["runtime"] = 0] /\ Mark("runtime", 0)
      /\ posted' = <<0, TRUE>>
      /\ UNCHANGED <<counted, scoreRow, saves, resetting, unsaved>>
  BY DEF HearsReset
<1>2. counted = 0 /\ ~unsaved
  BY <1>1, CommandIs
<1>3. Settles'
  BY <1>1, <1>2, SavesStay DEF CopiesRight, RowSettles
<1> QED  BY <1>1, <1>2, <1>3, HeardStep

\* What the gateway saves is what counts, what it has read so far, or nothing.
LEMMA ProtectedIs ==
    ASSUME ScoreTypeOK, CopiesRight
    PROVE  /\ Protected \in {Keep} \cup Score /\ Protected <= counted
           /\ ~unsaved => Protected \in {Keep, counted}
           /\ Authority("gateway") = NoScore /\ Adopts => ~Marked /\ Published
           /\ Authority("gateway") # NoScore => Marked
<1>1. Protected \in {Keep} \cup Score
  BY ScoreTypes
<1>2. /\ Authority("gateway") # NoScore => Marked
      /\ Authority("gateway") = NoScore => ~Marked
  BY DEF CopiesRight, MarkRight, Authority, Marked
<1>3. Adopts => Published
  BY PostedType DEF Adopts
<1>4. CASE Marked
  <2>1. Protected = counted
    BY <1>2, <1>4 DEF CopiesRight, MarkRight, Protected
  <2> QED  BY <1>2, <1>3, <1>4, <2>1, ScoreValues, ScoresAreNumbers
<1>5. CASE ~Marked
  <2>1. Authority("gateway") = NoScore
    BY <1>2, <1>5
  <2>2. CASE ~Published
    <3>1. Protected = Keep
      BY <2>1, <2>2 DEF Protected
    <3> QED  BY <1>1, <1>2, <1>3, <1>5, <3>1, ScoreValues, ScoresAreNumbers
  <2>3. CASE Published
    <3>1. /\ posted[1] \in Score /\ posted[1] <= counted /\ tally["gateway"] <= counted
          /\ ~unsaved => posted[1] = counted
      BY <1>5, <2>3, PostedType DEF CopiesRight, CopiesBelow
    <3>2. /\ Max({tally["gateway"], posted[1]}) \in {tally["gateway"], posted[1]}
          /\ posted[1] <= Max({tally["gateway"], posted[1]})
      BY <3>1, LargestScore, ScoreValues
    <3>3. Protected \in {posted[1], Max({tally["gateway"], posted[1]})}
      BY <2>1, <2>3 DEF Protected, Preferred
    <3>4. Protected <= counted /\ posted[1] <= Protected
      <4>1. posted[1] \in Nat
        BY <3>1, ScoresAreNumbers
      <4> QED  BY <3>1, <3>2, <3>3, <4>1
    <3>5. ~unsaved => Protected = counted
      <4>1. Protected \in Nat
        BY <3>1, <3>2, <3>3, ScoreValues, ScoresAreNumbers
      <4> QED  BY <3>1, <3>4, <4>1, ScoreValues
    <3> QED  BY <1>1, <1>2, <1>3, <1>5, <2>3, <3>4, <3>5
  <2> QED  BY <2>2, <2>3
<1> QED  BY <1>4, <1>5

\* The gateway saves.
LEMMA GatewaySavesStep ==
    ASSUME ScoreTypeOK, CopiesRight, GatewaySavesState PROVE CopiesRight'
<1> DEFINE n == IF Authority("gateway") = NoScore /\ Adopts THEN posted[1]
                ELSE tally["gateway"]
           e == [score |-> Protected, old |-> FALSE]
<1>1. /\ saves' = Append(saves, e) /\ GatewayLearns(n)
      /\ UNCHANGED <<counted, posted, scoreRow, authority, commands, resetting, unsaved>>
  BY DEF GatewaySavesState, Save
<1>2. /\ e \in Saving /\ e.score <= counted
      /\ ~unsaved => e.score \in {Keep, counted}
  BY ProtectedIs DEF Saving
<1>3. (Marked => n = counted) /\ (~Marked => n <= counted)
  BY ProtectedIs DEF CopiesRight, MarkRight, CopiesBelow
<1> HIDE DEF n, e
<1>4. /\ tally'["gateway"] = n /\ tally'["runtime"] = tally["runtime"]
      /\ missed'["gateway"] = (missed["gateway"] \/ ~Marked)
      /\ missed'["runtime"] = missed["runtime"]
  BY <1>1, LearnsIs
<1>5. saves \in Seq(Saving) /\ counted' \in Score /\ counted \in Score
  BY <1>1, ScoreValues
<1>6. /\ ~unsaved /\ Settles => Settles'
      /\ ~unsaved /\ SavesRight(1) => SavesRight(1)'
      /\ \A m \in Score : SavesBelow(m) /\ e.score <= m => SavesBelow(m)'
  BY <1>1, <1>2, <1>5, SettlesWith
<1>7. SavesBelow(counted) => SavesBelow(counted)'
  <2>1. SavesBelow(counted) => \A i \in 1..Len(saves') : saves'[i].score <= counted
    BY <1>2, <1>5, <1>6 DEF SavesBelow
  <2> QED  BY <1>1, <2>1 DEF SavesBelow
<1>8. (Pending <=> Pending') /\ (Marked <=> Marked') /\ (Published <=> Published')
  BY <1>1 DEF Pending, Marked, Published
<1>9. MarkRight' /\ CommandRight' /\ RuntimeRight' /\ RowSettles'
  BY <1>1, <1>3, <1>4, <1>6, <1>8
  DEF CopiesRight, MarkRight, CommandRight, RuntimeRight, RowSettles
<1>10. CopiesBelow'
  BY <1>1, <1>3, <1>4, <1>6, <1>7, <1>8 DEF CopiesRight, CopiesBelow
<1> QED  BY <1>9, <1>10 DEF CopiesRight

\* A result is deleted: one less counts, and the mark says so.
LEMMA ResultDeletedStep ==
    ASSUME ScoreTypeOK, CopiesRight, ResultDeleted, ~mixed' PROVE CopiesRight'
<1> DEFINE n == Less(Reconciled("gateway"))
           e == [score |-> n, old |-> FALSE]
           c == [kind |-> "apply", score |-> n]
<1>1. /\ counted > 0 /\ ~resetting /\ counted' = counted - 1
      /\ tally' = [tally EXCEPT !["gateway"] = n] /\ Mark("gateway", n)
      /\ saves' = Append(saves, e) /\ posted' = <<n, FALSE>>
      /\ commands' = Append(commands, c)
      /\ ~unsaved /\ commands = <<>> /\ Reconciled("gateway") = counted
      /\ UNCHANGED <<scoreRow, resetting, unsaved>>
  BY ScoreValues DEF ResultDeleted, Save
<1>2. n = counted' /\ n \in Score
  <2>1. n \in Score /\ n = IF counted = 0 THEN 0 ELSE counted - 1
    BY <1>1, ScoreTypes, ScoreValues
  <2> QED  BY <1>1, <2>1, ScoreValues
<1>3. e \in Saving /\ e.score = counted' /\ c.score = counted' /\ c.kind = "apply"
  BY <1>2 DEF Saving
<1> HIDE DEF n, e, c
<1>4. Settles'
  BY <1>1, <1>2, <1>3, SettlesWith, ScoreValues
<1>5. /\ tally'["gateway"] = counted' /\ authority' = counted'
      /\ ~missed'["gateway"] /\ ~unsaved'
  BY <1>1, <1>2, OneHolder DEF Mark
<1>6. Marked' /\ Pending'
  <2>1. commands' # <<>>
    BY <1>1
  <2> QED  BY <1>2, <1>5, <2>1, ScoresAreNumbers DEF Marked, Pending
<1>7. commands' # <<>> /\ Len(commands') = 1 /\ Head(commands') = c
  BY <1>1
<1> QED  BY <1>1, <1>3, <1>4, <1>5, <1>6, <1>7
         DEF CopiesRight, MarkRight, CommandRight, RowSettles, RuntimeRight, CopiesBelow

\* The score is reset: nothing counts.
LEMMA ResetBeginsStep ==
    ASSUME ScoreTypeOK, CopiesRight, ResetBegins, ~mixed' PROVE CopiesRight'
<1> DEFINE e == [score |-> 0, old |-> FALSE]
<1>1. /\ counted' = 0 /\ resetting' /\ commands = <<>> /\ ~unsaved
      /\ tally' = [tally EXCEPT !["gateway"] = 0] /\ Mark("gateway", 0)
      /\ saves' = Append(saves, e)
      /\ UNCHANGED <<scoreRow, commands, unsaved>>
  BY ScoreValues DEF ResetBegins, Save
<1>2. e \in Saving /\ e.score = counted' /\ counted' \in Score
  BY <1>1, ScoresAreNumbers DEF Saving
<1> HIDE DEF e
<1>3. Settles'
  BY <1>1, <1>2, SettlesWith, ScoreValues
<1>4. /\ tally'["gateway"] = counted' /\ authority' = counted'
      /\ ~missed'["gateway"] /\ ~unsaved'
  BY <1>1, OneHolder DEF Mark
<1>5. Marked' /\ Pending'
  BY <1>1, <1>4, ScoresAreNumbers DEF Marked, Pending
<1> QED  BY <1>1, <1>3, <1>4, <1>5
         DEF CopiesRight, MarkRight, CommandRight, RowSettles, RuntimeRight, CopiesBelow

\* The runtime is told.
LEMMA ResetEndsStep ==
    ASSUME ScoreTypeOK, CopiesRight, ResetEnds PROVE CopiesRight'
<1> DEFINE n == Reconciled("gateway")
           c == [kind |-> "reset", score |-> 0]
<1>1. /\ resetting /\ ~resetting' /\ GatewayLearns(n)
      /\ commands' = Append(commands, c)
      /\ UNCHANGED <<counted, scoreRow, authority, saves, unsaved>>
  BY DEF ResetEnds
<1>2. /\ commands = <<>> /\ counted = 0 /\ Marked /\ ~unsaved
      /\ authority = counted /\ ~missed["gateway"]
  BY <1>1 DEF CopiesRight, CommandRight, MarkRight, Pending
<1>3. n = counted
  BY <1>2, ReadingsRight
<1>4. c.score = 0 /\ c.kind = "reset"
  OBVIOUS
<1> HIDE DEF n, c
<1>5. tally'["gateway"] = counted /\ ~missed'["gateway"]
  BY <1>1, <1>2, <1>3, LearnsIs
<1>6. commands' # <<>> /\ Len(commands') = 1 /\ Head(commands') = c
  BY <1>1, <1>2
<1>7. Marked' /\ Pending'
  BY <1>1, <1>2, <1>6 DEF Marked, Pending
<1>8. Settles'
  BY <1>1, <1>2, SavesStay DEF CopiesRight, RowSettles
<1> QED  BY <1>1, <1>2, <1>4, <1>5, <1>6, <1>7, <1>8
         DEF CopiesRight, MarkRight, CommandRight, RowSettles, RuntimeRight, CopiesBelow

\* A write reaches the row.
LEMMA RowSavedStep ==
    ASSUME ScoreTypeOK, CopiesRight, RowSaved, ~late' PROVE CopiesRight'
<1>1. PICK i \in 1..Len(saves) :
         /\ scoreRow' = IF saves[i].score = Keep THEN scoreRow ELSE saves[i].score
         /\ saves' = Leaves(i)
         /\ late' = (late \/ (saves[i].old /\ saves[i].score # Keep))
         /\ UNCHANGED <<counted, tally, posted, authority, missed, aligned,
                   commands, resetting, unsaved, events, mixed>>
  BY DEF RowSaved, Leaves
<1>2. saves[i].old => saves[i].score = Keep
  BY <1>1
<1>3. /\ Settles => Settles'
      /\ scoreRow = counted /\ SavesRight(1) => (scoreRow = counted /\ SavesRight(1))'
      /\ \A n \in Score : scoreRow <= n /\ SavesBelow(n)
             => scoreRow' <= n /\ SavesBelow(n)'
  BY <1>1, <1>2, RowGetsSave
<1>4. scoreRow <= counted /\ SavesBelow(counted) =>
         scoreRow' <= counted' /\ SavesBelow(counted)'
  <2>1. scoreRow <= counted /\ SavesBelow(counted) =>
           scoreRow' <= counted /\ \A j \in 1..Len(saves') : saves'[j].score <= counted
    BY <1>3, ScoreValues DEF SavesBelow
  <2> QED  BY <1>1, <2>1 DEF SavesBelow
<1>5. (Pending <=> Pending') /\ (Marked <=> Marked') /\ (Published <=> Published')
  BY <1>1 DEF Pending, Marked, Published
<1>6. MarkRight' /\ CommandRight' /\ RuntimeRight' /\ RowSettles'
  BY <1>1, <1>3, <1>5
  DEF CopiesRight, MarkRight, CommandRight, RuntimeRight, RowSettles
<1>7. CopiesBelow'
  BY <1>1, <1>3, <1>4, <1>5 DEF CopiesRight, CopiesBelow
<1> QED  BY <1>6, <1>7 DEF CopiesRight

\* The mark expires: by then every copy is what counts.
LEMMA AuthorityExpiresStep ==
    ASSUME ScoreTypeOK, CopiesRight, AuthorityExpires PROVE CopiesRight'
<1>1. /\ commands = <<>> /\ saves = <<>> /\ ~resetting /\ ~unsaved /\ Marked
      /\ authority' = NoScore
      /\ UNCHANGED <<counted, tally, posted, scoreRow, missed, saves, commands,
                     resetting, unsaved>>
  BY DEF AuthorityExpires, Quiet, Marked
<1>2. ~Pending /\ ~Pending' /\ ~Marked' /\ (Published <=> Published')
  BY <1>1 DEF Pending, Marked, Published
<1>3. /\ tally["gateway"] = counted /\ tally["runtime"] = counted
      /\ Published => posted[1] = counted
      /\ Settles
  BY <1>1, <1>2 DEF CopiesRight, MarkRight, RuntimeRight, RowSettles
<1>4. scoreRow = counted /\ SavesRight(1) /\ SavesBelow(counted)
  BY <1>1, <1>3, RowHasSettled
<1>5. Settles' /\ SavesRight(1)' /\ SavesBelow(counted)'
  BY <1>1, <1>3, <1>4, SavesStay
<1>6. counted <= counted
  BY ScoreValues
<1> QED  BY <1>1, <1>2, <1>3, <1>4, <1>5, <1>6
         DEF CopiesRight, MarkRight, CommandRight, RowSettles, RuntimeRight, CopiesBelow

\* The snapshot expires: by then the row has what counts.
LEMMA PostedExpiresStep ==
    ASSUME ScoreTypeOK, CopiesRight, PostedExpires PROVE CopiesRight'
<1>1. /\ commands = <<>> /\ saves = <<>> /\ ~resetting /\ ~unsaved /\ ~Marked
      /\ posted' = NothingPosted
      /\ UNCHANGED <<counted, tally, scoreRow, authority, missed, saves, commands,
                     resetting, unsaved>>
  BY DEF PostedExpires, Quiet, Marked
<1>2. ~Pending /\ ~Pending' /\ ~Marked' /\ ~Published'
  BY <1>1 DEF Pending, Marked, Published
<1>3. /\ tally["gateway"] <= counted /\ tally["runtime"] = counted /\ Settles
  BY <1>1, <1>2 DEF CopiesRight, CopiesBelow, RuntimeRight, RowSettles
<1>4. scoreRow = counted /\ SavesRight(1) /\ SavesBelow(counted)
  BY <1>1, <1>3, RowHasSettled
<1>5. Settles' /\ SavesRight(1)' /\ SavesBelow(counted)'
  BY <1>1, <1>3, <1>4, SavesStay
<1>6. counted <= counted
  BY ScoreValues
<1> QED  BY <1>1, <1>2, <1>3, <1>4, <1>5, <1>6
         DEF CopiesRight, MarkRight, CommandRight, RowSettles, RuntimeRight, CopiesBelow

-----------------------------------------------------------------------------
(* All steps.                                                              *)

\* What was mixed or late once stays so.
LEMMA MarksLast ==
    ASSUME ScoreTypeOK, [ScoreNext]_scoreVars, ~mixed', ~late' PROVE ~mixed /\ ~late
<1> USE DEF ScoreTypeOK
<1>1. CASE UNCHANGED scoreVars
  BY <1>1 DEF scoreVars
<1>2. CASE ResultCounts
  BY <1>2 DEF ResultCounts
<1>3. CASE ResultDeleted
  BY <1>3 DEF ResultDeleted
<1>4. CASE ResetBegins
  BY <1>4 DEF ResetBegins
<1>5. CASE RowSaved
  BY <1>5 DEF RowSaved
<1>6. CASE RuntimePersists \/ SnapshotLoop \/ RuntimeControls \/ RuntimeHydrates
           \/ HearsApply \/ HearsReset \/ RuntimeRestarts
  BY <1>6 DEF RuntimePersists, SnapshotLoop, RuntimeControls, RuntimeHydrates,
              HearsApply, HearsReset, RuntimeRestarts
<1>7. CASE StatePolled \/ GatewayControls \/ GatewaySavesState \/ ResetEnds \/ GatewayBoots
           \/ AuthorityExpires \/ PostedExpires \/ \E p \in Holder : AbsenceForgotten(p)
  BY <1>7 DEF StatePolled, GatewayControls, GatewaySavesState, ResetEnds, GatewayBoots,
              AuthorityExpires, PostedExpires, AbsenceForgotten
<1> QED  BY <1>1, <1>2, <1>3, <1>4, <1>5, <1>6, <1>7 DEF ScoreNext

\* Every step keeps the invariant.
LEMMA ScoreStep == ASSUME ScoreInv, [ScoreNext]_scoreVars PROVE ScoreInv'
<1>1. ScoreTypeOK /\ ScoreTypeOK'
  BY ScoreTypeStep DEF ScoreInv
<1>2. SUFFICES ASSUME ~mixed', ~late' PROVE CopiesRight'
  BY <1>1 DEF ScoreInv
<1>3. CopiesRight
  BY <1>1, <1>2, MarksLast DEF ScoreInv
<1>4. CASE UNCHANGED scoreVars
  BY <1>1, <1>3, <1>4, RestStep
<1>5. CASE ResultCounts \/ RuntimePersists \/ SnapshotLoop \/ RuntimeControls
  BY <1>1, <1>2, <1>3, <1>5, ResultCountsStep, RuntimePersistsStep, SnapshotLoopStep,
     RuntimeControlsStep
<1>6. CASE RuntimeHydrates \/ HearsApply \/ HearsReset \/ RuntimeRestarts
  BY <1>1, <1>3, <1>6, RuntimeHydratesStep, HearsApplyStep, HearsResetStep,
     RuntimeRestartsStep
<1>7. CASE StatePolled \/ GatewayControls \/ GatewaySavesState \/ GatewayBoots
  BY <1>1, <1>3, <1>7, StatePolledStep, GatewayControlsStep, GatewaySavesStep,
     GatewayBootsStep
<1>8. CASE ResultDeleted \/ ResetBegins \/ ResetEnds
  BY <1>1, <1>2, <1>3, <1>8, ResultDeletedStep, ResetBeginsStep, ResetEndsStep
<1>9. CASE RowSaved \/ AuthorityExpires \/ PostedExpires
           \/ \E p \in Holder : AbsenceForgotten(p)
  BY <1>1, <1>2, <1>3, <1>9, RowSavedStep, AuthorityExpiresStep, PostedExpiresStep,
     AbsenceForgottenStep
<1> QED  BY <1>4, <1>5, <1>6, <1>7, <1>8, <1>9 DEF ScoreNext

\* Nothing counts at first.
LEMMA ScoreStart == ScoreInit => ScoreInv
<1> SUFFICES ASSUME ScoreInit PROVE ScoreInv
  OBVIOUS
<1>1. ScoreTypeOK
  <2>1. 0 \in Score /\ 0 \in 0..MaxEvents
    BY ScoresAreNumbers, ScoreAssumption
  <2>2. counted \in Score /\ scoreRow \in Score /\ tally \in [Holder -> Score]
    BY <2>1 DEF ScoreInit
  <2>3. /\ posted \in {NothingPosted} \cup (Score \X BOOLEAN)
        /\ authority \in {NoScore} \cup Score
        /\ missed \in [Holder -> BOOLEAN] /\ aligned \in BOOLEAN
    BY DEF ScoreInit
  <2>4. /\ saves \in Seq([score : {Keep} \cup Score, old : BOOLEAN])
        /\ commands \in Seq(Command)
    BY DEF ScoreInit
  <2>5. /\ resetting \in BOOLEAN /\ unsaved \in BOOLEAN
        /\ events \in 0..MaxEvents /\ mixed \in BOOLEAN /\ late \in BOOLEAN
    BY <2>1 DEF ScoreInit
  <2> QED  BY <2>2, <2>3, <2>4, <2>5 DEF ScoreTypeOK
<1>2. /\ counted = 0 /\ scoreRow = 0 /\ tally["gateway"] = 0 /\ tally["runtime"] = 0
      /\ saves = <<>> /\ commands = <<>> /\ ~resetting /\ ~Published /\ ~Marked
  BY DEF ScoreInit, Holder, Published, Marked
<1>3. SavesRight(1) /\ SavesBelow(counted)
  BY <1>2, RowHasSettled
<1>4. ~Pending /\ Settles
  BY <1>2, <1>3 DEF Pending, Settles
<1> QED  BY <1>1, <1>2, <1>3, <1>4
         DEF ScoreInv, CopiesRight, MarkRight, CommandRight, RowSettles, RuntimeRight,
             CopiesBelow

\* For any number of results, deletions, resets, restarts and waiting writes:
\* the panel is never served a result that was deleted or reset, and is served
\* all that count when nothing is under way.
THEOREM ScoresAreShown == ScoreSpec => []ScoreShown
<1>1. ScoreInv => ScoreShown
  BY ShownRight
<1> QED  BY ScoreStart, ScoreStep, <1>1, PTL DEF ScoreSpec

-----------------------------------------------------------------------------
(* DeletedTrade: a deleted order stays deleted.                            *)

\* From the mark on the tombstone stands, and the only write that may pass is
\* the one that had passed before.
TombstoneFirst ==
    /\ deletion \in {"marked", "mirror gone", "done"} => tombstone
    /\ tombstone => deletion \in {"marked", "mirror gone", "done"}
    /\ tombstone /\ writing[2] = "cleared" => slipped

TradeInv == TombstoneFirst /\ DeletedStays

\* No step of the runtime or of the deletion breaks the invariant.
LEMMA TradeStep ==
    ASSUME TradeInv, [TradeNext]_tradeVars
    PROVE  TradeInv'
<1> USE DEF TradeInv, TombstoneFirst, DeletedStays, Idle
<1>1. CASE UNCHANGED tradeVars
  BY <1>1 DEF tradeVars
<1>2. CASE JobQueued
  BY <1>2 DEF JobQueued
<1>3. ASSUME NEW l \in Last, StateSaved(l) PROVE TradeInv'
  <2>1. writing' = <<l, "state saved">> /\ writing'[2] # "cleared"
    BY <1>3 DEF StateSaved
  <2> QED  BY <1>3, <2>1 DEF StateSaved
<1>4. CASE TradeForMirror
  <2>1. CASE MirrorAllows(writing[1])
    <3>1. ~tombstone /\ writing' = <<writing[1], "cleared">>
      BY <1>4, <2>1 DEF TradeForMirror, MirrorAllows
    <3> QED  BY <1>4, <3>1 DEF TradeForMirror
  <2>2. CASE ~MirrorAllows(writing[1])
    <3>1. writing' = Idle /\ writing'[2] # "cleared"
      BY <1>4, <2>2 DEF TradeForMirror
    <3> QED  BY <1>4, <3>1 DEF TradeForMirror
  <2> QED  BY <2>1, <2>2
<1>5. CASE TradeSaved
  <2>1. writing'[2] # "cleared" /\ (tombstone => slipped)
    BY <1>5 DEF TradeSaved
  <2> QED  BY <1>5, <2>1 DEF TradeSaved
<1>6. CASE NextTrade
  BY <1>6 DEF NextTrade
<1>7. CASE RuntimeForgets
  BY <1>7 DEF RuntimeForgets
<1>8. CASE RuntimeRestartsFromRow
  BY <1>8 DEF RuntimeRestartsFromRow
<1>9. CASE ListingDeleted
  BY <1>9 DEF ListingDeleted
<1>10. CASE OrderMarked
  BY <1>10 DEF OrderMarked
<1>11. CASE MirrorDeleted
  BY <1>11 DEF MirrorDeleted
<1>12. CASE RemovalSent
  BY <1>12 DEF RemovalSent
<1> QED  BY <1>1, <1>2, <1>3, <1>4, <1>5, <1>6, <1>7, <1>8, <1>9, <1>10,
            <1>11, <1>12 DEF TradeNext

\* The tombstone that delete_marketing_robot_history_item writes before it
\* cleans the mirror keeps every later write out, for any backlog of writes.
THEOREM DeletedTradesStay == TradeSpec => []DeletedStays
<1>1. TradeInit => TradeInv
  BY DEF TradeInit, TradeInv, TombstoneFirst, DeletedStays, Idle
<1>2. TradeInv => DeletedStays
  BY DEF TradeInv
<1> QED  BY <1>1, <1>2, TradeStep, PTL DEF TradeSpec

-----------------------------------------------------------------------------
(* Purchase: access follows payment, and a purchase is whole.              *)

\* A handler's record.
Work == [step : Steps, event : CaktoEvent, known : Profile, link : BOOLEAN, fresh : BOOLEAN]

\* The types of what the invariants speak of, with no bound on the events.
BuyTypes ==
    /\ profile \in Profile
    /\ handling \in [Handler -> Work]
    /\ seen \in BOOLEAN /\ happened \subseteq CaktoEvent
    /\ downgraded \in BOOLEAN /\ regranted \in BOOLEAN

\* A handler at work, on an event; an event that was handled and answered.
Busy(h) == handling[h].step # "idle"
Of(h, e) == Busy(h) /\ handling[h].event = e
Done(e) == e \in happened /\ e \notin unanswered

\* An event that is handled has happened; who handles a purchase knows the
\* buyer once it is past the account; nobody knows a buyer without a profile.
RowFounded(q, all, buyer) ==
    /\ q.step # "idle" => q.event \in all
    /\ q.step \in {"account", "look again", "profile", "early access", "revenue"}
         => q.event = "bought"
    /\ q.event = "bought" /\ q.step \in {"early access", "ledger", "access", "revenue", "message"}
         => q.known # NoProfile
    /\ buyer = NoProfile => q.known = NoProfile

\* What every handler does is founded.
AllFounded ==
    /\ unanswered \subseteq happened
    /\ profile = NoProfile => ~seen
    /\ \A h \in Handler : RowFounded(handling[h], happened, profile)

\* The row of a payer is whole.
PayerIsClient ==
    ~downgraded /\ profile.pay = "paid" => profile.kind = "client" /\ profile.grant

\* A purchase that was applied shows in the row.
RowApplied(q) == q.event = "bought" /\ q.step \in {"revenue", "message"}

\* A purchase that was answered or applied shows in the row.
BoughtShows ==
    ~downgraded /\ "refunded" \notin happened /\ profile.pay # "paid" =>
        ~Done("bought") /\ \A h \in Handler : ~RowApplied(handling[h])

\* A refund on its way knows the payer it takes the access from.
RowTakes(q) ==
    q.step # "idle" /\ q.event = "refunded" =>
        q.known.pay = "paid" /\ q.step \in {"ledger", "access"}

\* A refund that was answered shows in the row, unless it was given again.
RefundShows ==
    ~regranted /\ profile.pay = "paid" =>
        ~Done("refunded") /\ \A h \in Handler : RowTakes(handling[h])

\* The inductive invariant behind AccessFollowsPayment.
BuyerInv == BuyTypes /\ AllFounded /\ PayerIsClient /\ BoughtShows /\ RefundShows

\* One handler at a time has the purchase.
Buys(q) == q.step # "idle" /\ q.event = "bought"
OneHandles == ~crowded => \A g, h \in Handler : Buys(handling[g]) /\ Buys(handling[h]) => g = h

\* A handler of the purchase: who has an account made is new; the ledger is
\* written before what rests on it.
RowBefore(q, new, written) ==
    /\ ~new => ~q.link
    /\ Buys(q) =>
         /\ q.step = "account" => new
         /\ q.step \in {"look again", "profile", "early access"} => new /\ q.link
         /\ q.step \in {"account", "look again", "profile", "early access", "ledger"} => ~q.fresh
         /\ q.step \in {"access", "revenue", "message"} => written # "none"
         /\ q.step = "revenue" => q.fresh

\* What the handlers of the purchase know until the ledger is written.
BeforeLedger ==
    /\ profile = NoProfile => newcomer
    /\ \A h \in Handler : RowBefore(handling[h], newcomer, ledger["bought"])

\* Until the ledger says so, a new buyer's profile is due to a handler that
\* still has the link;
NewBuyer ==
    ~broken /\ ~crowded /\ newcomer /\ ledger["bought"] = "none" =>
        \/ profile = NoProfile
        \/ \E h \in Handler : Buys(handling[h]) /\ handling[h].link

\* so has the one that writes it.
RowLink(q, written) ==
    Buys(q) /\ (q.fresh \/ (q.step = "ledger" /\ written = "none")) => q.link

\* Whoever writes the ledger of a new buyer has the link.
FreshLink ==
    ~broken /\ ~crowded /\ newcomer =>
        \A h \in Handler : RowLink(handling[h], ledger["bought"])

\* From the ledger on: all is written, or the handler that wrote the ledger
\* is still to write it.
RowWrites(q, message, money) ==
    /\ Buys(q) /\ q.fresh /\ message = "none"
    /\ q.step \in {"access", "revenue", "message"}
    /\ q.step = "message" => "bought" \in money

\* Revenue and message of the purchase are written.
Written == "bought" \in revenue
           /\ outbox = IF newcomer THEN "first access" ELSE "existing account"

AfterLedger ==
    ~broken /\ ~crowded /\ ledger["bought"] # "none" =>
        Written \/ \E h \in Handler : RowWrites(handling[h], outbox, revenue)

\* Before the ledger nothing is queued and nothing was answered.
LedgerFirst ==
    ledger["bought"] = "none" => outbox = "none" /\ ~Done("bought")

\* The types of what WholeInv adds.
WholeTypes ==
    /\ ledger \in [CaktoEvent -> {"none", "anonymous", "of the buyer"}]
    /\ newcomer \in BOOLEAN /\ broken \in BOOLEAN /\ crowded \in BOOLEAN

\* The inductive invariant behind PurchaseIsWhole, on top of BuyerInv.
WholeInv == WholeTypes /\ OneHandles /\ BeforeLedger /\ NewBuyer /\ FreshLink
            /\ AfterLedger /\ LedgerFirst

\* What a step does to the one handler it is about.
Becomes(h, r) ==
    /\ handling' \in [Handler -> Work]
    /\ handling'[h] = r
    /\ \A g \in Handler : g # h => handling'[g] = handling[g]

Has(r, step, event, known, link, fresh) ==
    /\ r \in Work
    /\ r.step = step /\ r.event = event /\ r.known = known /\ r.link = link /\ r.fresh = fresh

\* What a handler is after its record is replaced.
LEMMA HandlerPut ==
    ASSUME BuyTypes, NEW h \in Handler, NEW r \in Work, handling' = [handling EXCEPT ![h] = r]
    PROVE  Becomes(h, r)
BY DEF BuyTypes, Becomes

\* A record of a handler, from its fields.
LEMMA HandlerRow ==
    ASSUME BuyTypes, NEW h \in Handler
    PROVE  LET r == handling[h] IN Has(r, r.step, r.event, r.known, r.link, r.fresh)
BY DEF BuyTypes, Has, Work

\* A handler at rest.
LEMMA RestingRow == Has(Resting, "idle", "pix", NoProfile, FALSE, FALSE)
BY DEF Has, Work, Resting, NoProfile, Profile, Steps, CaktoEvent

\* A handler that goes one step on.
LEMMA GoesTo ==
    ASSUME BuyTypes, NEW h \in Handler, NEW step \in Steps, Goes(h, step)
    PROVE  \E r : /\ Becomes(h, r)
                  /\ LET q == handling[h] IN Has(r, step, q.event, q.known, q.link, q.fresh)
<1> DEFINE r == [handling[h] EXCEPT !.step = step]
<1>1. LET q == handling[h] IN Has(r, step, q.event, q.known, q.link, q.fresh)
  BY DEF BuyTypes, Has, Work
<1>2. handling' = [handling EXCEPT ![h] = r]
  BY DEF Goes
<1> HIDE DEF r
<1> QED  BY <1>1, <1>2, HandlerPut DEF Has

\* The row a handler writes, if it may, and what it knows then.
LEMMA MayChangeBought ==
    ASSUME NEW known \in Profile, known # NoProfile
    PROVE  MayChange(known, "bought")
BY DEF MayChange, Grants

\* What Applied makes of a row is a row.
LEMMA AppliedRow ==
    ASSUME NEW buyer \in Profile, NEW e \in CaktoEvent
    PROVE  /\ Applied(buyer, e) \in Profile /\ Applied(buyer, e) # NoProfile
           /\ Applied(buyer, e).pay = Pays(e)
           /\ e = "bought" => Applied(buyer, e) = [pay |-> "paid", kind |-> "client", grant |-> TRUE]
BY DEF Applied, Profile, NoProfile, Pays, Grants, CaktoEvent

\* What a handler knows after it looked for the buyer.
LEMMA Learned ==
    ASSUME BuyTypes, NEW h \in Handler
    PROVE  /\ Learns(h) \in Profile
           /\ handling[h].known # NoProfile => Learns(h) # NoProfile
           /\ handling[h].known = NoProfile => Learns(h) = NoProfile
<1> DEFINE known == handling[h].known
           e == handling[h].event
           new == [known EXCEPT !.pay = Pays(e), !.grant = Grants(e)]
<1>1. known \in Profile /\ e \in CaktoEvent
  BY DEF BuyTypes, Work
<1>2. new \in Profile /\ new # NoProfile
  <2> HIDE DEF known, e
  <2> QED  BY <1>1 DEF Profile, Pays, Grants, CaktoEvent, NoProfile
<1>3. Learns(h) = IF MayChange(known, e) THEN new ELSE known
  BY DEF Learns
<1>4. known = NoProfile => ~MayChange(known, e)
  BY DEF MayChange
<1> HIDE DEF known, e, new
<1>5. /\ Learns(h) \in Profile
      /\ known # NoProfile => Learns(h) # NoProfile
      /\ known = NoProfile => Learns(h) = NoProfile
  BY <1>1, <1>2, <1>3, <1>4
<1> QED  BY <1>5 DEF known

\* The steps of one handler, as replacements of its record: an event arrives,
LEMMA RowArrives ==
    ASSUME BuyTypes, NEW h \in Handler, NEW e \in CaktoEvent, EventArrives(h, e)
    PROVE  \E r : Becomes(h, r) /\ LET q == handling[h] IN Has(r, IF profile = NoProfile /\ e = "bought" THEN "account" ELSE "ledger", e, profile, FALSE, FALSE)
<1> DEFINE q == handling[h]
           r == [step |-> IF profile = NoProfile /\ e = "bought" THEN "account" ELSE "ledger",
                 event |-> e, known |-> profile, link |-> FALSE, fresh |-> FALSE]
<1>1. Has(r, IF profile = NoProfile /\ e = "bought" THEN "account" ELSE "ledger", e, profile, FALSE, FALSE)
  BY DEF BuyTypes, Has, Work, Steps
<1>2. handling' = [handling EXCEPT ![h] = r]
  BY DEF EventArrives, Resting
<1> HIDE DEF r
<1> QED  BY <1>1, <1>2, HandlerPut DEF Has

\* the account is created,
LEMMA RowOfAccount ==
    ASSUME BuyTypes, NEW h \in Handler, AccountCreated(h)
    PROVE  \E r : Becomes(h, r) /\ LET q == handling[h] IN Has(r, "look again", q.event, q.known, TRUE, q.fresh)
<1> DEFINE q == handling[h]
           r == [q EXCEPT !.step = "look again", !.link = TRUE]
<1>1. Has(r, "look again", q.event, q.known, TRUE, q.fresh)
  BY DEF BuyTypes, Has, Work, Steps
<1>2. handling' = [handling EXCEPT ![h] = r]
  BY DEF AccountCreated, Resting
<1> HIDE DEF r
<1> QED  BY <1>1, <1>2, HandlerPut DEF Has

\* the profile is looked for again,
LEMMA RowLooksAgain ==
    ASSUME BuyTypes, NEW h \in Handler, LooksAgain(h)
    PROVE  \E r : Becomes(h, r) /\ LET q == handling[h] IN Has(r, IF profile = NoProfile THEN "profile" ELSE "early access", q.event, profile, q.link, q.fresh)
<1> DEFINE q == handling[h]
           r == [q EXCEPT !.step = IF profile = NoProfile THEN "profile" ELSE "early access",
                      !.known = profile]
<1>1. Has(r, IF profile = NoProfile THEN "profile" ELSE "early access", q.event, profile, q.link, q.fresh)
  BY DEF BuyTypes, Has, Work, Steps
<1>2. handling' = [handling EXCEPT ![h] = r]
  BY DEF LooksAgain, Resting
<1> HIDE DEF r
<1> QED  BY <1>1, <1>2, HandlerPut DEF Has

\* the profile is created,
LEMMA RowOfProfile ==
    ASSUME BuyTypes, NEW h \in Handler, ProfileCreated(h)
    PROVE  \E r : Becomes(h, r) /\ LET q == handling[h] IN Has(r, "early access", q.event, NewClient, q.link, q.fresh)
<1> DEFINE q == handling[h]
           r == [q EXCEPT !.step = "early access", !.known = NewClient]
<1>1. Has(r, "early access", q.event, NewClient, q.link, q.fresh)
  <2>1. NewClient \in Profile
    BY DEF NewClient, Profile
  <2> QED
    BY <2>1 DEF BuyTypes, Has, Work, Steps
<1>2. handling' = [handling EXCEPT ![h] = r]
  BY DEF ProfileCreated, Resting
<1> HIDE DEF r
<1> QED  BY <1>1, <1>2, HandlerPut DEF Has

\* access is given before the ledger,
LEMMA RowOfEarlyAccess ==
    ASSUME BuyTypes, NEW h \in Handler, AccessGivenEarly(h)
    PROVE  \E r : Becomes(h, r) /\ LET q == handling[h] IN Has(r, "ledger", q.event, Learns(h), q.link, q.fresh)
<1> DEFINE q == handling[h]
           r == [q EXCEPT !.step = "ledger", !.known = Learns(h)]
<1>1. Has(r, "ledger", q.event, Learns(h), q.link, q.fresh)
  BY Learned DEF BuyTypes, Has, Work, Steps
<1>2. handling' = [handling EXCEPT ![h] = r]
  BY DEF AccessGivenEarly, Resting
<1> HIDE DEF r
<1> QED  BY <1>1, <1>2, HandlerPut DEF Has

\* the ledger is written,
LEMMA RowOfLedger ==
    ASSUME BuyTypes, NEW h \in Handler, LedgerWritten(h)
    PROVE  \E r : Becomes(h, r) /\ LET q == handling[h] IN Has(r, "access", q.event, q.known, q.link, ledger[q.event] = "none")
<1> DEFINE q == handling[h]
           r == [q EXCEPT !.step = "access", !.fresh = ledger[q.event] = "none"]
<1>1. Has(r, "access", q.event, q.known, q.link, ledger[q.event] = "none")
  BY DEF BuyTypes, Has, Work, Steps
<1>2. handling' = [handling EXCEPT ![h] = r]
  BY DEF LedgerWritten, Resting
<1> HIDE DEF r
<1> QED  BY <1>1, <1>2, HandlerPut DEF Has

\* the event is applied to the row,
LEMMA RowOfAccess ==
    ASSUME BuyTypes, NEW h \in Handler, AccessApplied(h)
    PROVE  \E r : Becomes(h, r) /\ LET q == handling[h] IN Has(r, IF q.fresh /\ Grants(q.event) THEN "revenue" ELSE "message", q.event, Learns(h), q.link, q.fresh)
<1> DEFINE q == handling[h]
           r == [q EXCEPT !.step = IF q.fresh /\ Grants(q.event) THEN "revenue" ELSE "message",
                      !.known = Learns(h)]
<1>1. Has(r, IF q.fresh /\ Grants(q.event) THEN "revenue" ELSE "message", q.event, Learns(h), q.link, q.fresh)
  BY Learned DEF BuyTypes, Has, Work, Steps
<1>2. handling' = [handling EXCEPT ![h] = r]
  BY DEF AccessApplied, Resting
<1> HIDE DEF r
<1> QED  BY <1>1, <1>2, HandlerPut DEF Has

\* and the handler is done, or fails.
LEMMA RowRests ==
    ASSUME BuyTypes, NEW h \in Handler, handling' = [handling EXCEPT ![h] = Resting]
    PROVE  Becomes(h, Resting)
BY HandlerPut, RestingRow DEF Has

\* What _ensure_customer_access_from_event leaves.
LEMMA Ensured ==
    ASSUME BuyTypes, PayerIsClient, NEW h \in Handler, EnsureAccess(h)
    PROVE  LET q == handling[h] IN
           /\ profile' \in Profile /\ downgraded' \in BOOLEAN /\ regranted' \in BOOLEAN
           /\ ~downgraded' => ~downgraded
           /\ ~regranted' => ~regranted
           /\ profile' = profile \/ (profile' # NoProfile /\ q.known # NoProfile)
           /\ PayerIsClient'
           /\ q.event = "bought" /\ q.known # NoProfile =>
                profile'.pay = "paid" /\ (~regranted' => ~RefundSeen)
           /\ q.event # "bought" /\ profile'.pay = "paid" => profile' = profile
           /\ q.event = "pix" /\ ~downgraded' /\ profile.pay = "paid" => profile' = profile
           /\ q.event = "refunded" /\ q.known.pay = "paid" => profile'.pay # "paid"
<1> DEFINE q == handling[h]
           e == q.event
           known == q.known
<1>1. known \in Profile /\ e \in CaktoEvent
  BY DEF BuyTypes, Work
<1>2. CASE MayChange(known, e)
  <2>1. profile' = Applied(profile, e) /\ known # NoProfile
    BY <1>2 DEF EnsureAccess, MayChange
  <2>2. /\ downgraded' = (downgraded \/ (e = "pix" /\ profile.pay = "paid" /\ known.pay # "paid"))
        /\ regranted' = (regranted \/ (Grants(e) /\ RefundSeen))
    BY <1>2 DEF EnsureAccess
  <2>3. /\ profile' \in Profile /\ profile' # NoProfile
        /\ profile'.pay = Pays(e)
        /\ e = "bought" => profile'.kind = "client" /\ profile'.grant
    BY <1>1, <2>1, AppliedRow DEF BuyTypes
  <2>4. /\ e = "bought" => Pays(e) = "paid" /\ Grants(e)
        /\ e # "bought" => Pays(e) # "paid" /\ ~Grants(e)
    BY <1>1 DEF Pays, Grants, CaktoEvent
  <2>5. e = "pix" => known.pay # "paid"
    BY <1>2 DEF MayChange
  <2>6. downgraded' \in BOOLEAN /\ regranted' \in BOOLEAN
    BY <2>2 DEF BuyTypes
  <2> HIDE DEF q, e, known
  <2>7. /\ ~downgraded' => ~downgraded /\ ~(e = "pix" /\ profile.pay = "paid")
        /\ ~regranted' => ~regranted /\ (e = "bought" => ~RefundSeen)
    BY <2>2, <2>4, <2>5
  <2>8. PayerIsClient'
    BY <2>3, <2>4 DEF PayerIsClient
  <2> QED  BY <2>1, <2>3, <2>4, <2>6, <2>7, <2>8 DEF q, e, known
<1>3. CASE ~MayChange(known, e)
  <2>1. profile' = profile /\ downgraded' = downgraded /\ regranted' = regranted
    BY <1>3 DEF EnsureAccess, undone
  <2>2. ~(e = "bought" /\ known # NoProfile) /\ ~(e = "refunded" /\ known.pay = "paid")
    BY <1>1, <1>3 DEF MayChange, Grants, NoProfile
  <2>3. PayerIsClient'
    BY <2>1 DEF PayerIsClient
  <2> QED  BY <2>1, <2>2, <2>3 DEF BuyTypes
<1> QED  BY <1>2, <1>3

\* The invariant after a step of one handler, from what the step leaves.
LEMMA HandlerMoves ==
    ASSUME BuyerInv, NEW h \in Handler, NEW r, Becomes(h, r),
           happened' = happened, unanswered' \subseteq happened, seen' = seen,
           profile' \in Profile, profile' = NoProfile => profile = NoProfile,
           downgraded' \in BOOLEAN, regranted' \in BOOLEAN,
           RowFounded(r, happened, profile'),
           PayerIsClient'
    PROVE  BuyTypes' /\ AllFounded' /\ PayerIsClient'
<1> USE DEF BuyerInv
<1>1. BuyTypes'
  BY DEF BuyTypes, Becomes
<1>2. \A g \in Handler : RowFounded(handling'[g], happened, profile')
  <2>1. \A g \in Handler : RowFounded(handling[g], happened, profile')
    BY DEF AllFounded, RowFounded
  <2> QED  BY <2>1 DEF Becomes
<1> QED  BY <1>1, <1>2 DEF AllFounded

\* One handler moves, and BoughtShows holds on if it does not hide the purchase.
LEMMA BoughtMoves ==
    ASSUME BoughtShows, NEW h \in Handler, NEW r, Becomes(h, r), happened' = happened,
           ~downgraded' /\ "refunded" \notin happened /\ profile'.pay # "paid" =>
             /\ ~downgraded /\ profile.pay # "paid" /\ ~RowApplied(r)
             /\ "bought" \in unanswered => "bought" \in unanswered'
    PROVE  BoughtShows'
<1> SUFFICES ASSUME ~downgraded', "refunded" \notin happened, profile'.pay # "paid"
             PROVE  ~Done("bought")' /\ \A g \in Handler : ~RowApplied(handling'[g])
  BY DEF BoughtShows
<1>1. ~Done("bought") /\ \A g \in Handler : ~RowApplied(handling[g])
  BY DEF BoughtShows
<1> QED  BY <1>1 DEF Becomes, Done

\* One handler moves, and RefundShows holds on if it gives nothing back.
LEMMA RefundMoves ==
    ASSUME RefundShows, NEW h \in Handler, NEW r, Becomes(h, r), happened' = happened,
           ~regranted' /\ profile'.pay = "paid" =>
             /\ \/ ~regranted /\ profile.pay = "paid"
                \/ ~Done("refunded") /\ \A g \in Handler : RowTakes(handling[g])
             /\ RowTakes(r)
             /\ "refunded" \in unanswered => "refunded" \in unanswered'
    PROVE  RefundShows'
<1> SUFFICES ASSUME ~regranted', profile'.pay = "paid"
             PROVE  ~Done("refunded")' /\ \A g \in Handler : RowTakes(handling'[g])
  BY DEF RefundShows
<1>1. ~Done("refunded") /\ \A g \in Handler : RowTakes(handling[g])
  BY DEF RefundShows
<1> QED  BY <1>1 DEF Becomes, Done

\* Every step keeps BuyerInv.
LEMMA AccessStep ==
    ASSUME BuyerInv, [BuyNext]_buyVars
    PROVE  BuyerInv'
<1> USE DEF Busy, Of, Done, At, operator, books, counts, undone
<1>0. BuyTypes /\ AllFounded /\ PayerIsClient /\ BoughtShows /\ RefundShows
  BY DEF BuyerInv
<1>a. profile \in Profile /\ downgraded \in BOOLEAN /\ regranted \in BOOLEAN /\ seen \in BOOLEAN
  BY <1>0 DEF BuyTypes
<1>b. unanswered \subseteq happened
  BY <1>0 DEF AllFounded
<1>1. CASE UNCHANGED buyVars
  <2>2. BuyTypes' /\ PayerIsClient'
    BY <1>1, <1>0, <1>a DEF buyVars, BuyTypes, PayerIsClient
  <2>3. AllFounded'
    BY <1>1, <1>0, <1>a DEF buyVars, AllFounded, RowFounded, NoProfile
  <2>4. BoughtShows'
    BY <1>1, <1>0, <1>a DEF buyVars, BoughtShows, RowApplied, AllFounded, RowFounded
  <2>5. RefundShows'
    BY <1>1, <1>0, <1>a DEF buyVars, RefundShows, RowTakes, AllFounded, RowFounded
  <2> QED  BY <2>2, <2>3, <2>4, <2>5 DEF BuyerInv
<1>2. ASSUME NEW e \in CaktoEvent, EventHappens(e) PROVE BuyerInv'
  <2>2. BuyTypes' /\ PayerIsClient'
    BY <1>2, <1>0, <1>a DEF EventHappens, BuyTypes, PayerIsClient
  <2>3. AllFounded'
    BY <1>2, <1>0, <1>a DEF EventHappens, AllFounded, RowFounded, NoProfile
  <2>4. BoughtShows'
    BY <1>2, <1>0, <1>a DEF EventHappens, BoughtShows, RowApplied, AllFounded, RowFounded
  <2>5. RefundShows'
    BY <1>2, <1>0, <1>a DEF EventHappens, RefundShows, RowTakes, AllFounded, RowFounded
  <2> QED  BY <2>2, <2>3, <2>4, <2>5 DEF BuyerInv
<1>3. CASE LeadListed
  <2>2. BuyTypes' /\ PayerIsClient'
    BY <1>3, <1>0, <1>a DEF LeadListed, BuyTypes, PayerIsClient
  <2>3. AllFounded'
    BY <1>3, <1>0, <1>a DEF LeadListed, AllFounded, NoProfile
  <2>4. BoughtShows'
    BY <1>3, <1>0, <1>a DEF LeadListed, BoughtShows, RowApplied, AllFounded, RowFounded
  <2>5. RefundShows'
    BY <1>3, <1>0, <1>a DEF LeadListed, RefundShows, RowTakes, AllFounded, RowFounded
  <2> QED  BY <2>2, <2>3, <2>4, <2>5 DEF BuyerInv
<1>4. CASE LeadApproved
  <2>1. profile' \in Profile /\ profile' # NoProfile /\ downgraded' \in BOOLEAN
    BY <1>4, <1>a DEF LeadApproved, Profile, NoProfile
  <2>2. BuyTypes' /\ PayerIsClient'
    BY <1>4, <1>0, <1>a, <2>1 DEF LeadApproved, BuyTypes, PayerIsClient
  <2>3. AllFounded'
    BY <1>4, <1>0, <2>1, <1>a DEF LeadApproved, AllFounded, RowFounded, NoProfile
  <2>4. BoughtShows'
    BY <1>4, <1>0, <2>1, <1>a DEF LeadApproved, BoughtShows, RowApplied, AllFounded, RowFounded
  <2>5. RefundShows'
    BY <1>4, <1>0, <2>1, <1>a DEF LeadApproved, RefundShows, RowTakes, AllFounded, RowFounded
  <2> QED  BY <2>2, <2>3, <2>4, <2>5 DEF BuyerInv
<1>5. CASE TrialRead
  <2>2. BuyTypes' /\ PayerIsClient'
    BY <1>5, <1>0, <1>a DEF TrialRead, BuyTypes, PayerIsClient
  <2>3. AllFounded'
    BY <1>5, <1>0, <1>a DEF TrialRead, AllFounded, RowFounded, NoProfile
  <2>4. BoughtShows'
    BY <1>5, <1>0, <1>a DEF TrialRead, BoughtShows, RowApplied, AllFounded, RowFounded
  <2>5. RefundShows'
    BY <1>5, <1>0, <1>a DEF TrialRead, RefundShows, RowTakes, AllFounded, RowFounded
  <2> QED  BY <2>2, <2>3, <2>4, <2>5 DEF BuyerInv
<1>6. CASE TrialEnded
  <2>1. /\ profile' \in Profile /\ profile'.pay = profile.pay
        /\ profile' = NoProfile => profile = NoProfile
        /\ profile.kind = "client" => profile' = profile
    BY <1>6, <1>a DEF TrialEnded, StillTrial, Profile, NoProfile
  <2>2. /\ UNCHANGED <<happened, unanswered, handling, seen, downgraded, regranted>>
    BY <1>6 DEF TrialEnded
  <2>3. BuyTypes' /\ PayerIsClient'
    BY <1>0, <1>a, <2>1, <2>2 DEF BuyTypes, PayerIsClient
  <2>4. AllFounded'
    BY <1>0, <2>1, <2>2 DEF AllFounded, RowFounded
  <2>5. BoughtShows' /\ RefundShows'
    BY <1>0, <2>1, <2>2 DEF BoughtShows, RefundShows
  <2> QED  BY <2>3, <2>4, <2>5 DEF BuyerInv
<1>7. ASSUME NEW h \in Handler, NEW e \in CaktoEvent, EventArrives(h, e) PROVE BuyerInv'
  <2> DEFINE q == handling[h]
  <2>1. PICK r : Becomes(h, r) /\ Has(r, IF profile = NoProfile /\ e = "bought" THEN "account" ELSE "ledger", e, profile, FALSE, FALSE)
    BY <1>7, <1>0, RowArrives
  <2>2. /\ e \in happened
        /\ profile' = profile /\ downgraded' = downgraded /\ regranted' = regranted
        /\ happened' = happened /\ seen' = seen
        /\ unanswered' = unanswered
    BY <1>7, Zenon DEF EventArrives, Goes
  <2>3. profile' \in Profile /\ downgraded' \in BOOLEAN
    BY <1>a, <2>2
  <2>4. RowFounded(q, happened, profile)
    BY <1>0 DEF AllFounded
  <2>5. RowFounded(r, happened, profile')
    BY <1>b, <2>1, <2>2, <2>3, <2>4 DEF RowFounded, Has
  <2>p. PayerIsClient'
    BY <1>0, <2>2, <2>3 DEF PayerIsClient
  <2>6. BuyTypes' /\ AllFounded' /\ PayerIsClient'
    <3>1. unanswered' \subseteq happened
      BY <1>b, <2>2, <2>4 DEF RowFounded
    <3>2. profile' = NoProfile => profile = NoProfile
      BY <2>2, <2>3
    <3> QED  BY <1>a, <2>1, <2>2, <2>3, <2>p, <2>5, <3>1, <3>2, HandlerMoves
  <2>7. BoughtShows'
    BY <1>0, <1>a, <2>1, <2>2, <2>3, <2>4, BoughtMoves DEF RowApplied, RowFounded, Has, PayerIsClient
  <2>8. RefundShows'
    BY <1>0, <1>a, <2>1, <2>2, <2>3, <2>4, RefundMoves DEF RefundShows, RowTakes, RowFounded, Has
  <2> QED  BY <2>6, <2>7, <2>8 DEF BuyerInv
<1>8. ASSUME NEW h \in Handler, AccountCreated(h) PROVE BuyerInv'
  <2> DEFINE q == handling[h]
  <2>1. PICK r : Becomes(h, r) /\ Has(r, "look again", q.event, q.known, TRUE, q.fresh)
    BY <1>8, <1>0, RowOfAccount
  <2>2. /\ q.step = "account"
        /\ profile' = profile /\ downgraded' = downgraded /\ regranted' = regranted
        /\ happened' = happened /\ seen' = seen
        /\ unanswered' = unanswered
    BY <1>8, Zenon DEF AccountCreated, Goes
  <2>3. profile' \in Profile /\ downgraded' \in BOOLEAN
    BY <1>a, <2>2
  <2>4. RowFounded(q, happened, profile)
    BY <1>0 DEF AllFounded
  <2>5. RowFounded(r, happened, profile')
    BY <1>b, <2>1, <2>2, <2>3, <2>4 DEF RowFounded, Has
  <2>p. PayerIsClient'
    BY <1>0, <2>2, <2>3 DEF PayerIsClient
  <2>6. BuyTypes' /\ AllFounded' /\ PayerIsClient'
    <3>1. unanswered' \subseteq happened
      BY <1>b, <2>2, <2>4 DEF RowFounded
    <3>2. profile' = NoProfile => profile = NoProfile
      BY <2>2, <2>3
    <3> QED  BY <1>a, <2>1, <2>2, <2>3, <2>p, <2>5, <3>1, <3>2, HandlerMoves
  <2>7. BoughtShows'
    BY <1>0, <1>a, <2>1, <2>2, <2>3, <2>4, BoughtMoves DEF RowApplied, RowFounded, Has, PayerIsClient
  <2>8. RefundShows'
    BY <1>0, <1>a, <2>1, <2>2, <2>3, <2>4, RefundMoves DEF RefundShows, RowTakes, RowFounded, Has
  <2> QED  BY <2>6, <2>7, <2>8 DEF BuyerInv
<1>9. ASSUME NEW h \in Handler, LooksAgain(h) PROVE BuyerInv'
  <2> DEFINE q == handling[h]
  <2>1. PICK r : Becomes(h, r) /\ Has(r, IF profile = NoProfile THEN "profile" ELSE "early access",
                  q.event, profile, q.link, q.fresh)
    BY <1>9, <1>0, RowLooksAgain
  <2>2. /\ q.step = "look again"
        /\ profile' = profile /\ downgraded' = downgraded /\ regranted' = regranted
        /\ happened' = happened /\ seen' = seen
        /\ unanswered' = unanswered
    BY <1>9, Zenon DEF LooksAgain, Goes
  <2>3. profile' \in Profile /\ downgraded' \in BOOLEAN
    BY <1>a, <2>2
  <2>4. RowFounded(q, happened, profile)
    BY <1>0 DEF AllFounded
  <2>5. RowFounded(r, happened, profile')
    BY <1>b, <2>1, <2>2, <2>3, <2>4 DEF RowFounded, Has
  <2>p. PayerIsClient'
    BY <1>0, <2>2, <2>3 DEF PayerIsClient
  <2>6. BuyTypes' /\ AllFounded' /\ PayerIsClient'
    <3>1. unanswered' \subseteq happened
      BY <1>b, <2>2, <2>4 DEF RowFounded
    <3>2. profile' = NoProfile => profile = NoProfile
      BY <2>2, <2>3
    <3> QED  BY <1>a, <2>1, <2>2, <2>3, <2>p, <2>5, <3>1, <3>2, HandlerMoves
  <2>7. BoughtShows'
    BY <1>0, <1>a, <2>1, <2>2, <2>3, <2>4, BoughtMoves DEF RowApplied, RowFounded, Has, PayerIsClient
  <2>8. RefundShows'
    BY <1>0, <1>a, <2>1, <2>2, <2>3, <2>4, RefundMoves DEF RefundShows, RowTakes, RowFounded, Has
  <2> QED  BY <2>6, <2>7, <2>8 DEF BuyerInv
<1>10. ASSUME NEW h \in Handler, ProfileCreated(h) PROVE BuyerInv'
  <2> DEFINE q == handling[h]
  <2>1. PICK r : Becomes(h, r) /\ Has(r, "early access", q.event, NewClient, q.link, q.fresh)
    BY <1>10, <1>0, RowOfProfile
  <2>2. /\ q.step = "profile"
        /\ profile' = NewClient /\ regranted' = regranted
        /\ downgraded' = (downgraded \/ profile.grant)
        /\ happened' = happened /\ seen' = seen
        /\ unanswered' = unanswered
    BY <1>10, Zenon DEF ProfileCreated, Goes
  <2>3. /\ profile' \in Profile /\ profile' # NoProfile /\ downgraded' \in BOOLEAN
        /\ profile'.pay = "pending" /\ (~downgraded' => ~downgraded /\ ~profile.grant)
        /\ profile' = NewClient
    BY <1>a, <2>2 DEF NewClient, Profile, NoProfile
  <2>4. RowFounded(q, happened, profile)
    BY <1>0 DEF AllFounded
  <2>5. RowFounded(r, happened, profile')
    BY <1>b, <2>1, <2>2, <2>3, <2>4 DEF RowFounded, Has
  <2>p. PayerIsClient'
    BY <1>0, <2>2, <2>3 DEF PayerIsClient
  <2>6. BuyTypes' /\ AllFounded' /\ PayerIsClient'
    <3>1. unanswered' \subseteq happened
      BY <1>b, <2>2, <2>4 DEF RowFounded
    <3>2. profile' = NoProfile => profile = NoProfile
      BY <2>2, <2>3
    <3> QED  BY <1>a, <2>1, <2>2, <2>3, <2>p, <2>5, <3>1, <3>2, HandlerMoves
  <2>7. BoughtShows'
    BY <1>0, <1>a, <2>1, <2>2, <2>3, <2>4, BoughtMoves DEF RowApplied, RowFounded, Has, PayerIsClient
  <2>8. RefundShows'
    BY <1>0, <1>a, <2>1, <2>2, <2>3, <2>4, RefundMoves DEF RefundShows, RowTakes, RowFounded, Has
  <2> QED  BY <2>6, <2>7, <2>8 DEF BuyerInv
<1>11. ASSUME NEW h \in Handler, AccessGivenEarly(h) PROVE BuyerInv'
  <2> DEFINE q == handling[h]
  <2>1. PICK r : Becomes(h, r) /\ Has(r, "ledger", q.event, Learns(h), q.link, q.fresh)
    BY <1>11, <1>0, RowOfEarlyAccess
  <2>2. /\ q.step = "early access"
        /\ EnsureAccess(h)
        /\ happened' = happened /\ seen' = seen
        /\ unanswered' = unanswered
    BY <1>11, Zenon DEF AccessGivenEarly, Goes
  <2>3. /\ profile' \in Profile /\ downgraded' \in BOOLEAN /\ regranted' \in BOOLEAN
        /\ ~downgraded' => ~downgraded
        /\ ~regranted' => ~regranted
        /\ profile' = profile \/ (profile' # NoProfile /\ q.known # NoProfile)
        /\ PayerIsClient'
        /\ q.event = "bought" /\ q.known # NoProfile =>
             profile'.pay = "paid" /\ (~regranted' => ~RefundSeen)
        /\ q.event # "bought" /\ profile'.pay = "paid" => profile' = profile
        /\ q.event = "pix" /\ ~downgraded' /\ profile.pay = "paid" => profile' = profile
        /\ q.event = "refunded" /\ q.known.pay = "paid" => profile'.pay # "paid"
    BY <1>0, <2>2, Ensured
  <2>4. /\ RowFounded(q, happened, profile) /\ q.event \in CaktoEvent
        /\ q.known # NoProfile => Learns(h) # NoProfile
        /\ q.known = NoProfile => Learns(h) = NoProfile
    BY <1>0, Learned DEF AllFounded, BuyTypes, Work
  <2>5. RowFounded(r, happened, profile')
    BY <1>b, <2>1, <2>2, <2>3, <2>4 DEF RowFounded, Has
  <2>6. BuyTypes' /\ AllFounded' /\ PayerIsClient'
    <3>1. unanswered' \subseteq happened
      BY <1>b, <2>2, <2>4 DEF RowFounded
    <3>2. profile' = NoProfile => profile = NoProfile
      BY <2>2, <2>3
    <3> QED  BY <1>a, <2>1, <2>2, <2>3, <2>5, <3>1, <3>2, HandlerMoves
  <2>7. BoughtShows'
    BY <1>0, <1>a, <2>1, <2>2, <2>3, <2>4, BoughtMoves DEF RowApplied, RowFounded, Has, PayerIsClient
  <2>8. RefundShows'
    BY <1>0, <1>a, <2>1, <2>2, <2>3, <2>4, RefundMoves DEF RefundShows, RowTakes, RowFounded, Has, RefundSeen, Handled
  <2> QED  BY <2>6, <2>7, <2>8 DEF BuyerInv
<1>12. ASSUME NEW h \in Handler, LedgerWritten(h) PROVE BuyerInv'
  <2> DEFINE q == handling[h]
  <2>1. PICK r : Becomes(h, r) /\ Has(r, "access", q.event, q.known, q.link, ledger[q.event] = "none")
    BY <1>12, <1>0, RowOfLedger
  <2>2. /\ q.step = "ledger"
        /\ profile' = profile /\ downgraded' = downgraded /\ regranted' = regranted
        /\ happened' = happened /\ seen' = seen
        /\ unanswered' = unanswered
    BY <1>12, Zenon DEF LedgerWritten, Goes
  <2>3. profile' \in Profile /\ downgraded' \in BOOLEAN
    BY <1>a, <2>2
  <2>4. RowFounded(q, happened, profile)
    BY <1>0 DEF AllFounded
  <2>5. RowFounded(r, happened, profile')
    BY <1>b, <2>1, <2>2, <2>3, <2>4 DEF RowFounded, Has
  <2>p. PayerIsClient'
    BY <1>0, <2>2, <2>3 DEF PayerIsClient
  <2>6. BuyTypes' /\ AllFounded' /\ PayerIsClient'
    <3>1. unanswered' \subseteq happened
      BY <1>b, <2>2, <2>4 DEF RowFounded
    <3>2. profile' = NoProfile => profile = NoProfile
      BY <2>2, <2>3
    <3> QED  BY <1>a, <2>1, <2>2, <2>3, <2>p, <2>5, <3>1, <3>2, HandlerMoves
  <2>7. BoughtShows'
    BY <1>0, <1>a, <2>1, <2>2, <2>3, <2>4, BoughtMoves DEF RowApplied, RowFounded, Has, PayerIsClient
  <2>8. RefundShows'
    BY <1>0, <1>a, <2>1, <2>2, <2>3, <2>4, RefundMoves DEF RefundShows, RowTakes, RowFounded, Has
  <2> QED  BY <2>6, <2>7, <2>8 DEF BuyerInv
<1>13. ASSUME NEW h \in Handler, AccessApplied(h) PROVE BuyerInv'
  <2> DEFINE q == handling[h]
  <2>1. PICK r : Becomes(h, r) /\ Has(r, IF q.fresh /\ Grants(q.event) THEN "revenue" ELSE "message",
                  q.event, Learns(h), q.link, q.fresh)
    BY <1>13, <1>0, RowOfAccess
  <2>2. /\ q.step = "access"
        /\ EnsureAccess(h)
        /\ happened' = happened /\ seen' = seen
        /\ unanswered' = unanswered
    BY <1>13, Zenon DEF AccessApplied, Goes
  <2>3. /\ profile' \in Profile /\ downgraded' \in BOOLEAN /\ regranted' \in BOOLEAN
        /\ ~downgraded' => ~downgraded
        /\ ~regranted' => ~regranted
        /\ profile' = profile \/ (profile' # NoProfile /\ q.known # NoProfile)
        /\ PayerIsClient'
        /\ q.event = "bought" /\ q.known # NoProfile =>
             profile'.pay = "paid" /\ (~regranted' => ~RefundSeen)
        /\ q.event # "bought" /\ profile'.pay = "paid" => profile' = profile
        /\ q.event = "pix" /\ ~downgraded' /\ profile.pay = "paid" => profile' = profile
        /\ q.event = "refunded" /\ q.known.pay = "paid" => profile'.pay # "paid"
    BY <1>0, <2>2, Ensured
  <2>4. /\ RowFounded(q, happened, profile) /\ q.event \in CaktoEvent
        /\ q.known # NoProfile => Learns(h) # NoProfile
        /\ q.known = NoProfile => Learns(h) = NoProfile
    BY <1>0, Learned DEF AllFounded, BuyTypes, Work
  <2>5. RowFounded(r, happened, profile')
    BY <1>b, <2>1, <2>2, <2>3, <2>4 DEF RowFounded, Has, Grants
  <2>6. BuyTypes' /\ AllFounded' /\ PayerIsClient'
    <3>1. unanswered' \subseteq happened
      BY <1>b, <2>2, <2>4 DEF RowFounded
    <3>2. profile' = NoProfile => profile = NoProfile
      BY <2>2, <2>3
    <3> QED  BY <1>a, <2>1, <2>2, <2>3, <2>5, <3>1, <3>2, HandlerMoves
  <2>7. BoughtShows'
    BY <1>0, <1>a, <2>1, <2>2, <2>3, <2>4, BoughtMoves DEF BoughtShows, RowApplied, RowFounded, Has, PayerIsClient, Grants, CaktoEvent
  <2>8. RefundShows'
    BY <1>0, <1>a, <2>1, <2>2, <2>3, <2>4, RefundMoves DEF RefundShows, RowTakes, RowFounded, Has, RefundSeen, Handled, Grants
  <2> QED  BY <2>6, <2>7, <2>8 DEF BuyerInv
<1>14. ASSUME NEW h \in Handler, RevenueWritten(h) PROVE BuyerInv'
  <2> DEFINE q == handling[h]
  <2>1. PICK r : Becomes(h, r) /\ Has(r, "message", q.event, q.known, q.link, q.fresh)
    BY <1>14, <1>0, GoesTo DEF RevenueWritten, Steps
  <2>2. /\ q.step = "revenue"
        /\ profile' = profile /\ downgraded' = downgraded /\ regranted' = regranted
        /\ happened' = happened /\ seen' = seen
        /\ unanswered' = unanswered
    BY <1>14, Zenon DEF RevenueWritten, Goes
  <2>3. profile' \in Profile /\ downgraded' \in BOOLEAN
    BY <1>a, <2>2
  <2>4. RowFounded(q, happened, profile)
    BY <1>0 DEF AllFounded
  <2>5. RowFounded(r, happened, profile')
    BY <1>b, <2>1, <2>2, <2>3, <2>4 DEF RowFounded, Has
  <2>p. PayerIsClient'
    BY <1>0, <2>2, <2>3 DEF PayerIsClient
  <2>6. BuyTypes' /\ AllFounded' /\ PayerIsClient'
    <3>1. unanswered' \subseteq happened
      BY <1>b, <2>2, <2>4 DEF RowFounded
    <3>2. profile' = NoProfile => profile = NoProfile
      BY <2>2, <2>3
    <3> QED  BY <1>a, <2>1, <2>2, <2>3, <2>p, <2>5, <3>1, <3>2, HandlerMoves
  <2>7. BoughtShows'
    BY <1>0, <1>a, <2>1, <2>2, <2>3, <2>4, BoughtMoves DEF BoughtShows, RowApplied, RowFounded, Has, PayerIsClient
  <2>8. RefundShows'
    BY <1>0, <1>a, <2>1, <2>2, <2>3, <2>4, RefundMoves DEF RefundShows, RowTakes, RowFounded, Has
  <2> QED  BY <2>6, <2>7, <2>8 DEF BuyerInv
<1>15. ASSUME NEW h \in Handler, MessageQueued(h) PROVE BuyerInv'
  <2> DEFINE q == handling[h]
  <2>1. PICK r : Becomes(h, r) /\ Has(r, "idle", "pix", NoProfile, FALSE, FALSE)
    BY <1>15, <1>0, RowRests, RestingRow DEF MessageQueued
  <2>2. /\ q.step = "message"
        /\ profile' = profile /\ downgraded' = downgraded /\ regranted' = regranted
        /\ happened' = happened /\ seen' = seen
        /\ unanswered' = unanswered \ {q.event}
    BY <1>15, Zenon DEF MessageQueued, Goes
  <2>3. profile' \in Profile /\ downgraded' \in BOOLEAN
    BY <1>a, <2>2
  <2>4. RowFounded(q, happened, profile)
    BY <1>0 DEF AllFounded
  <2>5. RowFounded(r, happened, profile')
    BY <1>b, <2>1, <2>2, <2>3, <2>4 DEF RowFounded, Has
  <2>p. PayerIsClient'
    BY <1>0, <2>2, <2>3 DEF PayerIsClient
  <2>6. BuyTypes' /\ AllFounded' /\ PayerIsClient'
    <3>1. unanswered' \subseteq happened
      BY <1>b, <2>2, <2>4 DEF RowFounded
    <3>2. profile' = NoProfile => profile = NoProfile
      BY <2>2, <2>3
    <3> QED  BY <1>a, <2>1, <2>2, <2>3, <2>p, <2>5, <3>1, <3>2, HandlerMoves
  <2>7. BoughtShows'
    BY <1>0, <1>a, <2>1, <2>2, <2>3, <2>4, BoughtMoves DEF BoughtShows, RowApplied, RowFounded, Has, PayerIsClient
  <2>8. RefundShows'
    BY <1>0, <1>a, <2>1, <2>2, <2>3, <2>4, RefundMoves DEF RefundShows, RowTakes, RowFounded, Has
  <2> QED  BY <2>6, <2>7, <2>8 DEF BuyerInv
<1>16. ASSUME NEW h \in Handler, HandlerFails(h) PROVE BuyerInv'
  <2> DEFINE q == handling[h]
  <2>1. PICK r : Becomes(h, r) /\ Has(r, "idle", "pix", NoProfile, FALSE, FALSE)
    BY <1>16, <1>0, RowRests, RestingRow DEF HandlerFails
  <2>2. /\ q.step # "idle"
        /\ profile' = profile /\ downgraded' = downgraded /\ regranted' = regranted
        /\ happened' = happened /\ seen' = seen
        /\ unanswered' = unanswered \cup {q.event}
    BY <1>16, Zenon DEF HandlerFails, Goes
  <2>3. profile' \in Profile /\ downgraded' \in BOOLEAN
    BY <1>a, <2>2
  <2>4. RowFounded(q, happened, profile)
    BY <1>0 DEF AllFounded
  <2>5. RowFounded(r, happened, profile')
    BY <1>b, <2>1, <2>2, <2>3, <2>4 DEF RowFounded, Has
  <2>p. PayerIsClient'
    BY <1>0, <2>2, <2>3 DEF PayerIsClient
  <2>6. BuyTypes' /\ AllFounded' /\ PayerIsClient'
    <3>1. unanswered' \subseteq happened
      BY <1>b, <2>2, <2>4 DEF RowFounded
    <3>2. profile' = NoProfile => profile = NoProfile
      BY <2>2, <2>3
    <3> QED  BY <1>a, <2>1, <2>2, <2>3, <2>p, <2>5, <3>1, <3>2, HandlerMoves
  <2>7. BoughtShows'
    BY <1>0, <1>a, <2>1, <2>2, <2>3, <2>4, BoughtMoves DEF RowApplied, RowFounded, Has, PayerIsClient
  <2>8. RefundShows'
    BY <1>0, <1>a, <2>1, <2>2, <2>3, <2>4, RefundMoves DEF RefundShows, RowTakes, RowFounded, Has
  <2> QED  BY <2>6, <2>7, <2>8 DEF BuyerInv
<1> QED  BY <1>1, <1>2, <1>3, <1>4, <1>5, <1>6, <1>7, <1>8, <1>9, <1>10, <1>11, <1>12, <1>13, <1>14, <1>15, <1>16 DEF BuyNext

\* A step that moves no handler and no record of the purchase keeps WholeInv.
LEMMA WholeRests ==
    ASSUME WholeInv,
           UNCHANGED <<handling, ledger, revenue, outbox, newcomer, broken, crowded>>,
           profile' = profile \/ (profile # NoProfile /\ profile' # NoProfile),
           Done("bought")' => Done("bought")
    PROVE  WholeInv'
<1> USE DEF WholeInv
<1>1. WholeTypes' /\ OneHandles'
  BY DEF WholeTypes, OneHandles
<1>2. BeforeLedger' /\ NewBuyer'
  BY DEF BeforeLedger, NewBuyer
<1>3. FreshLink' /\ AfterLedger' /\ LedgerFirst'
  BY DEF FreshLink, AfterLedger, Written, LedgerFirst
<1> QED  BY <1>1, <1>2, <1>3

\* The parts of the invariant that say one thing of every handler.
LEMMA WholeMoves ==
    ASSUME WholeInv, NEW h \in Handler, NEW r, Becomes(h, r), newcomer' = newcomer,
           profile' = profile \/ profile' # NoProfile,
           ledger["bought"] # "none" => ledger'["bought"] # "none",
           ~broken' => ~broken,
           ~crowded' => ~crowded /\ (Buys(r) => \A g \in Handler \ {h} : ~Buys(handling[g])),
           RowBefore(r, newcomer, ledger'["bought"]),
           ~broken' /\ ~crowded' /\ newcomer => RowLink(r, ledger'["bought"])
    PROVE  OneHandles' /\ BeforeLedger' /\ FreshLink'
<1>1. OneHandles'
  BY DEF WholeInv, OneHandles, Becomes
<1>2. \A g \in Handler : RowBefore(handling'[g], newcomer, ledger'["bought"])
  <2>1. \A g \in Handler : RowBefore(handling[g], newcomer, ledger'["bought"])
    BY DEF WholeInv, BeforeLedger, RowBefore
  <2> QED  BY <2>1 DEF Becomes
<1>3. ~broken' /\ ~crowded' /\ newcomer =>
         \A g \in Handler : RowLink(handling'[g], ledger'["bought"])
  <2> SUFFICES ASSUME ~broken', ~crowded', newcomer
               PROVE  \A g \in Handler : RowLink(handling'[g], ledger'["bought"])
    OBVIOUS
  <2>1. \A g \in Handler : RowLink(handling[g], ledger'["bought"])
    BY DEF WholeInv, FreshLink, RowLink
  <2> QED  BY <2>1 DEF Becomes
<1> QED  BY <1>1, <1>2, <1>3 DEF WholeInv, BeforeLedger, FreshLink

\* Every step keeps WholeInv.
LEMMA WholeStep ==
    ASSUME BuyerInv, WholeInv, [BuyNext]_buyVars
    PROVE  WholeInv'
<1> USE DEF Done, At, operator, books, counts, undone
<1>0. BuyTypes /\ AllFounded
  BY DEF BuyerInv
<1>a. WholeTypes /\ OneHandles /\ BeforeLedger /\ NewBuyer /\ FreshLink /\ AfterLedger /\ LedgerFirst
  BY DEF WholeInv
<1>b. "bought" \in CaktoEvent
  BY DEF CaktoEvent
<1>1. CASE UNCHANGED buyVars
  <2>1. /\ UNCHANGED <<handling, ledger, revenue, outbox, newcomer, broken, crowded>>
        /\ Done("bought")' => Done("bought")
    BY <1>1 DEF buyVars
  <2>2. profile' = profile \/ (profile # NoProfile /\ profile' # NoProfile)
    BY <1>1, <1>0 DEF buyVars, AllFounded
  <2> QED  BY <2>1, <2>2, WholeRests
<1>2. ASSUME NEW e \in CaktoEvent, EventHappens(e) PROVE WholeInv'
  <2>1. /\ UNCHANGED <<handling, ledger, revenue, outbox, newcomer, broken, crowded>>
        /\ Done("bought")' => Done("bought")
    BY <1>2 DEF EventHappens
  <2>2. profile' = profile \/ (profile # NoProfile /\ profile' # NoProfile)
    BY <1>2, <1>0 DEF EventHappens, AllFounded
  <2> QED  BY <2>1, <2>2, WholeRests
<1>3. CASE LeadListed
  <2>1. /\ UNCHANGED <<handling, ledger, revenue, outbox, newcomer, broken, crowded>>
        /\ Done("bought")' => Done("bought")
    BY <1>3 DEF LeadListed
  <2>2. profile' = profile \/ (profile # NoProfile /\ profile' # NoProfile)
    BY <1>3, <1>0 DEF LeadListed, AllFounded
  <2> QED  BY <2>1, <2>2, WholeRests
<1>4. CASE LeadApproved
  <2>1. /\ UNCHANGED <<handling, ledger, revenue, outbox, newcomer, broken, crowded>>
        /\ Done("bought")' => Done("bought")
    BY <1>4 DEF LeadApproved
  <2>2. profile' = profile \/ (profile # NoProfile /\ profile' # NoProfile)
    BY <1>4, <1>0 DEF LeadApproved, NoProfile, AllFounded
  <2> QED  BY <2>1, <2>2, WholeRests
<1>5. CASE TrialRead
  <2>1. /\ UNCHANGED <<handling, ledger, revenue, outbox, newcomer, broken, crowded>>
        /\ Done("bought")' => Done("bought")
    BY <1>5 DEF TrialRead
  <2>2. profile' = profile \/ (profile # NoProfile /\ profile' # NoProfile)
    BY <1>5, <1>0 DEF TrialRead, AllFounded
  <2> QED  BY <2>1, <2>2, WholeRests
<1>6. CASE TrialEnded
  <2>1. /\ UNCHANGED <<handling, ledger, revenue, outbox, newcomer, broken, crowded>>
        /\ Done("bought")' => Done("bought")
    BY <1>6 DEF TrialEnded
  <2>2. profile' = profile \/ (profile # NoProfile /\ profile' # NoProfile)
    BY <1>6, <1>0 DEF TrialEnded, StillTrial, NoProfile, BuyTypes, Profile, AllFounded
  <2> QED  BY <2>1, <2>2, WholeRests
<1>7. ASSUME NEW h \in Handler, NEW e \in CaktoEvent, EventArrives(h, e) PROVE WholeInv'
  <2> DEFINE q == handling[h]
  <2>1. PICK r : Becomes(h, r) /\ Has(r, IF profile = NoProfile /\ e = "bought" THEN "account" ELSE "ledger", e, profile, FALSE, FALSE)
    BY <1>7, <1>0, RowArrives
  <2>2. /\ q.step = "idle" /\ e \in happened
        /\ ledger' = ledger
        /\ revenue' = revenue
        /\ outbox' = outbox
        /\ broken' = broken
        /\ crowded' = (crowded \/ (e = "bought" /\ Handled(e)))
        /\ newcomer' = newcomer
        /\ happened' = happened /\ unanswered' = unanswered
    BY <1>7, Zenon DEF EventArrives, Goes
  <2>3. profile' = profile
    BY <1>7 DEF EventArrives
  <2>m. crowded' \in BOOLEAN /\ (~crowded' => ~crowded)
    BY <1>a, <2>2 DEF WholeTypes
  <2>x. ~crowded' /\ e = "bought" => \A g \in Handler : ~Buys(handling[g])
    BY <2>2 DEF Handled, Buys
  <2>4. RowFounded(q, happened, profile) /\ RowBefore(q, newcomer, ledger["bought"])
    BY <1>0, <1>a DEF AllFounded, BeforeLedger
  <2>5. RowBefore(r, newcomer, ledger'["bought"])
    BY <2>1, <2>2, <2>3, <2>4, <1>a, <2>m, <2>x DEF RowBefore, Has, Buys, BeforeLedger, Grants
  <2>6. ~broken' /\ ~crowded' /\ newcomer => RowLink(r, ledger'["bought"])
    BY <2>1, <2>2, <2>3, <2>4, <1>a, <2>m, <2>x DEF RowLink, Has, Buys, FreshLink, NewBuyer, RowBefore
  <2>7. OneHandles' /\ BeforeLedger' /\ FreshLink'
    <3>1. ~crowded' => ~crowded /\ (Buys(r) => \A g \in Handler \ {h} : ~Buys(handling[g]))
      BY <2>1, <2>2, <1>a, <2>m, <2>x DEF Has, Buys, OneHandles
    <3> QED  BY <2>1, <2>2, <2>3, <2>5, <2>6, <3>1, <2>m, <2>x, WholeMoves
  <2>8. WholeTypes' /\ LedgerFirst'
    BY <2>1, <2>2, <2>4, <1>a, <2>m, <2>x DEF WholeTypes, LedgerFirst, RowBefore, Buys
  <2>9. NewBuyer'
    BY <2>1, <2>2, <2>3, <2>4, <1>a, <2>m, <2>x DEF NewBuyer, Becomes, Has, Buys, RowBefore
  <2>10. AfterLedger'
    BY <2>1, <2>2, <2>4, <1>a, <2>m, <2>x DEF AfterLedger, Written, RowWrites, Becomes, Has, Buys, RowBefore, Grants
  <2> QED  BY <2>7, <2>8, <2>9, <2>10 DEF WholeInv
<1>8. ASSUME NEW h \in Handler, AccountCreated(h) PROVE WholeInv'
  <2> DEFINE q == handling[h]
  <2>1. PICK r : Becomes(h, r) /\ Has(r, "look again", q.event, q.known, TRUE, q.fresh)
    BY <1>8, <1>0, RowOfAccount
  <2>2. /\ q.step = "account"
        /\ ledger' = ledger
        /\ revenue' = revenue
        /\ outbox' = outbox
        /\ broken' = broken
        /\ crowded' = crowded
        /\ newcomer' = newcomer
        /\ happened' = happened /\ unanswered' = unanswered
    BY <1>8, Zenon DEF AccountCreated, Goes
  <2>3. profile' = profile
    BY <1>8 DEF AccountCreated
  <2>4. RowFounded(q, happened, profile) /\ RowBefore(q, newcomer, ledger["bought"])
    BY <1>0, <1>a DEF AllFounded, BeforeLedger
  <2>5. RowBefore(r, newcomer, ledger'["bought"])
    BY <2>1, <2>2, <2>3, <2>4, <1>a DEF RowFounded, RowBefore, Has, Buys, BeforeLedger, Grants
  <2>6. ~broken' /\ ~crowded' /\ newcomer => RowLink(r, ledger'["bought"])
    BY <2>1, <2>2, <2>3, <2>4, <1>a DEF RowLink, Has, Buys, FreshLink, NewBuyer, RowBefore
  <2>7. OneHandles' /\ BeforeLedger' /\ FreshLink'
    <3>1. ~crowded' => ~crowded /\ (Buys(r) => \A g \in Handler \ {h} : ~Buys(handling[g]))
      BY <2>1, <2>2, <1>a DEF Has, Buys, OneHandles
    <3> QED  BY <2>1, <2>2, <2>3, <2>5, <2>6, <3>1, WholeMoves
  <2>8. WholeTypes' /\ LedgerFirst'
    BY <2>1, <2>2, <2>4, <1>a DEF WholeTypes, LedgerFirst, RowBefore, Buys
  <2>9. NewBuyer'
    BY <2>1, <2>2, <2>3, <2>4, <1>a DEF NewBuyer, Becomes, Has, Buys, RowBefore
  <2>10. AfterLedger'
    BY <2>1, <2>2, <2>4, <1>a DEF AfterLedger, Written, RowWrites, Becomes, Has, Buys, RowBefore, Grants
  <2> QED  BY <2>7, <2>8, <2>9, <2>10 DEF WholeInv
<1>9. ASSUME NEW h \in Handler, LooksAgain(h) PROVE WholeInv'
  <2> DEFINE q == handling[h]
  <2>1. PICK r : Becomes(h, r) /\ Has(r, IF profile = NoProfile THEN "profile" ELSE "early access",
                  q.event, profile, q.link, q.fresh)
    BY <1>9, <1>0, RowLooksAgain
  <2>2. /\ q.step = "look again"
        /\ ledger' = ledger
        /\ revenue' = revenue
        /\ outbox' = outbox
        /\ broken' = broken
        /\ crowded' = crowded
        /\ newcomer' = newcomer
        /\ happened' = happened /\ unanswered' = unanswered
    BY <1>9, Zenon DEF LooksAgain, Goes
  <2>3. profile' = profile
    BY <1>9 DEF LooksAgain
  <2>4. RowFounded(q, happened, profile) /\ RowBefore(q, newcomer, ledger["bought"])
    BY <1>0, <1>a DEF AllFounded, BeforeLedger
  <2>5. RowBefore(r, newcomer, ledger'["bought"])
    BY <2>1, <2>2, <2>3, <2>4, <1>a DEF RowBefore, Has, Buys, BeforeLedger, Grants
  <2>6. ~broken' /\ ~crowded' /\ newcomer => RowLink(r, ledger'["bought"])
    BY <2>1, <2>2, <2>3, <2>4, <1>a DEF RowLink, Has, Buys, FreshLink, NewBuyer, RowBefore
  <2>7. OneHandles' /\ BeforeLedger' /\ FreshLink'
    <3>1. ~crowded' => ~crowded /\ (Buys(r) => \A g \in Handler \ {h} : ~Buys(handling[g]))
      BY <2>1, <2>2, <1>a DEF Has, Buys, OneHandles
    <3> QED  BY <2>1, <2>2, <2>3, <2>5, <2>6, <3>1, WholeMoves
  <2>8. WholeTypes' /\ LedgerFirst'
    BY <2>1, <2>2, <2>4, <1>a DEF WholeTypes, LedgerFirst, RowBefore, Buys
  <2>9. NewBuyer'
    BY <2>1, <2>2, <2>3, <2>4, <1>a DEF NewBuyer, Becomes, Has, Buys, RowBefore
  <2>10. AfterLedger'
    BY <2>1, <2>2, <2>4, <1>a DEF AfterLedger, Written, RowWrites, Becomes, Has, Buys, RowBefore, Grants
  <2> QED  BY <2>7, <2>8, <2>9, <2>10 DEF WholeInv
<1>10. ASSUME NEW h \in Handler, ProfileCreated(h) PROVE WholeInv'
  <2> DEFINE q == handling[h]
  <2>1. PICK r : Becomes(h, r) /\ Has(r, "early access", q.event, NewClient, q.link, q.fresh)
    BY <1>10, <1>0, RowOfProfile
  <2>2. /\ q.step = "profile"
        /\ ledger' = ledger
        /\ revenue' = revenue
        /\ outbox' = outbox
        /\ broken' = broken
        /\ crowded' = crowded
        /\ newcomer' = newcomer
        /\ happened' = happened /\ unanswered' = unanswered
    BY <1>10, Zenon DEF ProfileCreated, Goes
  <2>3. profile' # NoProfile
    BY <1>10 DEF ProfileCreated, NewClient, NoProfile
  <2>4. RowFounded(q, happened, profile) /\ RowBefore(q, newcomer, ledger["bought"])
    BY <1>0, <1>a DEF AllFounded, BeforeLedger
  <2>5. RowBefore(r, newcomer, ledger'["bought"])
    BY <2>1, <2>2, <2>3, <2>4, <1>a DEF RowBefore, Has, Buys, BeforeLedger, Grants
  <2>6. ~broken' /\ ~crowded' /\ newcomer => RowLink(r, ledger'["bought"])
    BY <2>1, <2>2, <2>3, <2>4, <1>a DEF RowLink, Has, Buys, FreshLink, NewBuyer, RowBefore
  <2>7. OneHandles' /\ BeforeLedger' /\ FreshLink'
    <3>1. ~crowded' => ~crowded /\ (Buys(r) => \A g \in Handler \ {h} : ~Buys(handling[g]))
      BY <2>1, <2>2, <1>a DEF Has, Buys, OneHandles
    <3> QED  BY <2>1, <2>2, <2>3, <2>5, <2>6, <3>1, WholeMoves
  <2>8. WholeTypes' /\ LedgerFirst'
    BY <2>1, <2>2, <2>4, <1>a DEF WholeTypes, LedgerFirst, RowBefore, Buys
  <2>9. NewBuyer'
    BY <2>1, <2>2, <2>3, <2>4, <1>a DEF RowFounded, NewBuyer, Becomes, Has, Buys, RowBefore
  <2>10. AfterLedger'
    BY <2>1, <2>2, <2>4, <1>a DEF AfterLedger, Written, RowWrites, Becomes, Has, Buys, RowBefore, Grants
  <2> QED  BY <2>7, <2>8, <2>9, <2>10 DEF WholeInv
<1>11. ASSUME NEW h \in Handler, AccessGivenEarly(h) PROVE WholeInv'
  <2> DEFINE q == handling[h]
  <2>1. PICK r : Becomes(h, r) /\ Has(r, "ledger", q.event, Learns(h), q.link, q.fresh)
    BY <1>11, <1>0, RowOfEarlyAccess
  <2>2. /\ q.step = "early access"
        /\ ledger' = ledger
        /\ revenue' = revenue
        /\ outbox' = outbox
        /\ broken' = broken
        /\ crowded' = crowded
        /\ newcomer' = newcomer
        /\ happened' = happened /\ unanswered' = unanswered
    BY <1>11, Zenon DEF AccessGivenEarly, Goes
  <2>3. profile' = profile \/ (profile # NoProfile /\ profile' # NoProfile)
    <3>1. EnsureAccess(h)
      BY <1>11 DEF AccessGivenEarly
    <3>2. profile' = profile \/ (profile' # NoProfile /\ q.known # NoProfile)
      BY <3>1, Ensured DEF BuyerInv
    <3> QED  BY <1>0, <3>2 DEF AllFounded, RowFounded
  <2>4. RowFounded(q, happened, profile) /\ RowBefore(q, newcomer, ledger["bought"])
    BY <1>0, <1>a DEF AllFounded, BeforeLedger
  <2>5. RowBefore(r, newcomer, ledger'["bought"])
    BY <2>1, <2>2, <2>3, <2>4, <1>a DEF RowBefore, Has, Buys, BeforeLedger, Grants
  <2>6. ~broken' /\ ~crowded' /\ newcomer => RowLink(r, ledger'["bought"])
    BY <2>1, <2>2, <2>3, <2>4, <1>a DEF RowLink, Has, Buys, FreshLink, NewBuyer, RowBefore
  <2>7. OneHandles' /\ BeforeLedger' /\ FreshLink'
    <3>1. ~crowded' => ~crowded /\ (Buys(r) => \A g \in Handler \ {h} : ~Buys(handling[g]))
      BY <2>1, <2>2, <1>a DEF Has, Buys, OneHandles
    <3> QED  BY <2>1, <2>2, <2>3, <2>5, <2>6, <3>1, WholeMoves
  <2>8. WholeTypes' /\ LedgerFirst'
    BY <2>1, <2>2, <2>4, <1>a DEF WholeTypes, LedgerFirst, RowBefore, Buys
  <2>9. NewBuyer'
    BY <2>1, <2>2, <2>3, <2>4, <1>a DEF NewBuyer, Becomes, Has, Buys, RowBefore
  <2>10. AfterLedger'
    BY <2>1, <2>2, <2>4, <1>a DEF AfterLedger, Written, RowWrites, Becomes, Has, Buys, RowBefore, Grants
  <2> QED  BY <2>7, <2>8, <2>9, <2>10 DEF WholeInv
<1>12. ASSUME NEW h \in Handler, LedgerWritten(h) PROVE WholeInv'
  <2> DEFINE q == handling[h]
  <2>1. PICK r : Becomes(h, r) /\ Has(r, "access", q.event, q.known, q.link, ledger[q.event] = "none")
    BY <1>12, <1>0, RowOfLedger
  <2>2. /\ q.step = "ledger"
        /\ ledger' = IF ledger[q.event] # "none" THEN ledger
                     ELSE [ledger EXCEPT ![q.event] = IF q.known = NoProfile
                                            THEN "anonymous" ELSE "of the buyer"]
        /\ revenue' = revenue
        /\ outbox' = outbox
        /\ broken' = broken
        /\ crowded' = crowded
        /\ newcomer' = newcomer
        /\ happened' = happened /\ unanswered' = unanswered
    BY <1>12, Zenon DEF LedgerWritten, Goes
  <2>3. profile' = profile
    BY <1>12 DEF LedgerWritten
  <2>l. /\ q.event = "bought" => ledger'["bought"] # "none"
        /\ q.event # "bought" => ledger'["bought"] = ledger["bought"]
        /\ ledger["bought"] # "none" => ledger'["bought"] # "none"
        /\ ledger' \in [CaktoEvent -> {"none", "anonymous", "of the buyer"}]
    BY <1>a, <1>b, <2>2 DEF WholeTypes
  <2>4. RowFounded(q, happened, profile) /\ RowBefore(q, newcomer, ledger["bought"])
    BY <1>0, <1>a DEF AllFounded, BeforeLedger
  <2>5. RowBefore(r, newcomer, ledger'["bought"])
    BY <2>1, <2>2, <2>3, <2>4, <1>a, <2>l DEF RowBefore, Has, Buys, BeforeLedger, Grants
  <2>6. ~broken' /\ ~crowded' /\ newcomer => RowLink(r, ledger'["bought"])
    <3> SUFFICES ASSUME ~broken', ~crowded', newcomer, Buys(r), r.fresh
                 PROVE  r.link
      BY <2>1 DEF RowLink, Has
    <3>1. /\ q.event = "bought" /\ r.link = q.link
          /\ ledger["bought"] = "none"
      BY <2>1 DEF Has, Buys
    <3>2. Buys(q) /\ q.step = "ledger"
      BY <2>2, <3>1 DEF Buys
    <3>3. RowLink(q, ledger["bought"])
      BY <2>2, <1>a DEF FreshLink
    <3> QED
      BY <3>1, <3>2, <3>3 DEF RowLink
  <2>c. crowded' = crowded /\ q.step # "idle"
    BY <2>2
  <2>7. OneHandles' /\ BeforeLedger' /\ FreshLink'
    <3>1. ~crowded' => ~crowded /\ (Buys(r) => \A g \in Handler \ {h} : ~Buys(handling[g]))
      BY <2>1, <2>c, <1>a DEF Has, Buys, OneHandles
    <3> QED  BY <2>1, <2>2, <2>3, <2>5, <2>6, <3>1, <2>l, WholeMoves
  <2>8. WholeTypes' /\ LedgerFirst'
    BY <2>1, <2>2, <2>4, <1>a, <2>l DEF WholeTypes, LedgerFirst, RowBefore, Buys
  <2>9. NewBuyer'
    BY <2>1, <2>2, <2>3, <2>4, <1>a, <2>l DEF NewBuyer, Becomes, Has, Buys, RowBefore
  <2>10. AfterLedger'
    <3>1. Written' = Written
      BY <2>2 DEF Written
    <3>2. \A g \in Handler : RowWrites(handling[g], outbox, revenue) =>
                              RowWrites(handling'[g], outbox', revenue')
      <4>1. \A g \in Handler : RowWrites(handling[g], outbox, revenue) => g # h
        BY <2>2 DEF RowWrites
      <4> QED  BY <2>1, <2>2, <4>1 DEF Becomes
    <3>3. CASE q.event = "bought" /\ ledger["bought"] = "none"
      <4>1. outbox' = "none"
        BY <1>a, <2>2, <3>3 DEF LedgerFirst
      <4>2. RowWrites(r, outbox', revenue')
        BY <2>1, <3>3, <4>1 DEF RowWrites, Buys, Has
      <4> QED  BY <2>1, <4>2 DEF AfterLedger, Becomes
    <3>4. CASE ~(q.event = "bought" /\ ledger["bought"] = "none")
      <4>1. ledger'["bought"] # "none" => ledger["bought"] # "none"
        BY <2>l, <3>4
      <4>2. ~broken' /\ ~crowded' /\ ledger'["bought"] # "none"
               => Written \/ \E g \in Handler : RowWrites(handling[g], outbox, revenue)
        BY <1>a, <2>2, <4>1 DEF AfterLedger
      <4> QED  BY <3>1, <3>2, <4>2 DEF AfterLedger
    <3> QED  BY <3>3, <3>4
  <2> QED  BY <2>7, <2>8, <2>9, <2>10 DEF WholeInv
<1>13. ASSUME NEW h \in Handler, AccessApplied(h) PROVE WholeInv'
  <2> DEFINE q == handling[h]
  <2>1. PICK r : Becomes(h, r) /\ Has(r, IF q.fresh /\ Grants(q.event) THEN "revenue" ELSE "message",
                  q.event, Learns(h), q.link, q.fresh)
    BY <1>13, <1>0, RowOfAccess
  <2>2. /\ q.step = "access"
        /\ ledger' = ledger
        /\ revenue' = revenue
        /\ outbox' = outbox
        /\ broken' = broken
        /\ crowded' = crowded
        /\ newcomer' = newcomer
        /\ happened' = happened /\ unanswered' = unanswered
    BY <1>13, Zenon DEF AccessApplied, Goes
  <2>3. profile' = profile \/ (profile # NoProfile /\ profile' # NoProfile)
    <3>1. EnsureAccess(h)
      BY <1>13 DEF AccessApplied
    <3>2. profile' = profile \/ (profile' # NoProfile /\ q.known # NoProfile)
      BY <3>1, Ensured DEF BuyerInv
    <3> QED  BY <1>0, <3>2 DEF AllFounded, RowFounded
  <2>4. RowFounded(q, happened, profile) /\ RowBefore(q, newcomer, ledger["bought"])
    BY <1>0, <1>a DEF AllFounded, BeforeLedger
  <2>5. RowBefore(r, newcomer, ledger'["bought"])
    BY <2>1, <2>2, <2>3, <2>4, <1>a DEF RowBefore, Has, Buys, BeforeLedger, Grants
  <2>6. ~broken' /\ ~crowded' /\ newcomer => RowLink(r, ledger'["bought"])
    BY <2>1, <2>2, <2>3, <2>4, <1>a DEF RowLink, Has, Buys, FreshLink, NewBuyer, RowBefore
  <2>7. OneHandles' /\ BeforeLedger' /\ FreshLink'
    <3>1. ~crowded' => ~crowded /\ (Buys(r) => \A g \in Handler \ {h} : ~Buys(handling[g]))
      BY <2>1, <2>2, <1>a DEF Has, Buys, OneHandles
    <3> QED  BY <2>1, <2>2, <2>3, <2>5, <2>6, <3>1, WholeMoves
  <2>8. WholeTypes' /\ LedgerFirst'
    BY <2>1, <2>2, <2>4, <1>a DEF WholeTypes, LedgerFirst, RowBefore, Buys
  <2>9. NewBuyer'
    BY <2>1, <2>2, <2>3, <2>4, <1>a DEF NewBuyer, Becomes, Has, Buys, RowBefore
  <2>10. AfterLedger'
    BY <2>1, <2>2, <2>4, <1>a DEF AfterLedger, Written, RowWrites, Becomes, Has, Buys, RowBefore, Grants
  <2> QED  BY <2>7, <2>8, <2>9, <2>10 DEF WholeInv
<1>14. ASSUME NEW h \in Handler, RevenueWritten(h) PROVE WholeInv'
  <2> DEFINE q == handling[h]
  <2>1. PICK r : Becomes(h, r) /\ Has(r, "message", q.event, q.known, q.link, q.fresh)
    BY <1>14, <1>0, GoesTo DEF RevenueWritten, Steps
  <2>2. /\ q.step = "revenue"
        /\ ledger' = ledger
        /\ revenue' = (IF q.known = NoProfile THEN revenue ELSE revenue \cup {q.event})
        /\ outbox' = outbox
        /\ broken' = broken
        /\ crowded' = crowded
        /\ newcomer' = newcomer
        /\ happened' = happened /\ unanswered' = unanswered
    BY <1>14, Zenon DEF RevenueWritten, Goes
  <2>3. profile' = profile
    BY <1>14 DEF RevenueWritten
  <2>4. RowFounded(q, happened, profile) /\ RowBefore(q, newcomer, ledger["bought"])
    BY <1>0, <1>a DEF AllFounded, BeforeLedger
  <2>5. RowBefore(r, newcomer, ledger'["bought"])
    BY <2>1, <2>2, <2>3, <2>4, <1>a DEF RowBefore, Has, Buys, BeforeLedger, Grants
  <2>6. ~broken' /\ ~crowded' /\ newcomer => RowLink(r, ledger'["bought"])
    BY <2>1, <2>2, <2>3, <2>4, <1>a DEF RowLink, Has, Buys, FreshLink, NewBuyer, RowBefore
  <2>7. OneHandles' /\ BeforeLedger' /\ FreshLink'
    <3>1. ~crowded' => ~crowded /\ (Buys(r) => \A g \in Handler \ {h} : ~Buys(handling[g]))
      BY <2>1, <2>2, <1>a DEF Has, Buys, OneHandles
    <3> QED  BY <2>1, <2>2, <2>3, <2>5, <2>6, <3>1, WholeMoves
  <2>8. WholeTypes' /\ LedgerFirst'
    BY <2>1, <2>2, <2>4, <1>a DEF WholeTypes, LedgerFirst, RowBefore, Buys
  <2>9. NewBuyer'
    BY <2>1, <2>2, <2>3, <2>4, <1>a DEF NewBuyer, Becomes, Has, Buys, RowBefore
  <2>10. AfterLedger'
    BY <2>1, <2>2, <2>4, <1>a DEF RowFounded, AfterLedger, Written, RowWrites, Becomes, Has, Buys, RowBefore, Grants
  <2> QED  BY <2>7, <2>8, <2>9, <2>10 DEF WholeInv
<1>15. ASSUME NEW h \in Handler, MessageQueued(h) PROVE WholeInv'
  <2> DEFINE q == handling[h]
  <2>1. PICK r : Becomes(h, r) /\ Has(r, "idle", "pix", NoProfile, FALSE, FALSE)
    BY <1>15, <1>0, RowRests, RestingRow DEF MessageQueued
  <2>2. /\ q.step = "message"
        /\ ledger' = ledger
        /\ revenue' = revenue
        /\ outbox' = (IF q.event = "bought" /\ outbox = "none" THEN Message(h) ELSE outbox)
        /\ broken' = broken
        /\ crowded' = crowded
        /\ newcomer' = newcomer
        /\ happened' = happened /\ unanswered' = unanswered \ {q.event}
    BY <1>15, Zenon DEF MessageQueued, Goes
  <2>3. profile' = profile
    BY <1>15 DEF MessageQueued
  <2>4. RowFounded(q, happened, profile) /\ RowBefore(q, newcomer, ledger["bought"])
    BY <1>0, <1>a DEF AllFounded, BeforeLedger
  <2>5. RowBefore(r, newcomer, ledger'["bought"])
    BY <2>1, <2>2, <2>3, <2>4, <1>a DEF RowBefore, Has, Buys, BeforeLedger, Grants
  <2>6. ~broken' /\ ~crowded' /\ newcomer => RowLink(r, ledger'["bought"])
    BY <2>1, <2>2, <2>3, <2>4, <1>a DEF RowLink, Has, Buys, FreshLink, NewBuyer, RowBefore
  <2>7. OneHandles' /\ BeforeLedger' /\ FreshLink'
    <3>1. ~crowded' => ~crowded /\ (Buys(r) => \A g \in Handler \ {h} : ~Buys(handling[g]))
      BY <2>1, <2>2, <1>a DEF Has, Buys, OneHandles
    <3> QED  BY <2>1, <2>2, <2>3, <2>5, <2>6, <3>1, WholeMoves
  <2>8. WholeTypes' /\ LedgerFirst'
    BY <2>1, <2>2, <2>4, <1>a DEF WholeTypes, LedgerFirst, RowBefore, Buys
  <2>9. NewBuyer'
    BY <2>1, <2>2, <2>3, <2>4, <1>a DEF NewBuyer, Becomes, Has, Buys, RowBefore
  <2>10. AfterLedger'
    <3> SUFFICES ASSUME ~broken, ~crowded, ledger["bought"] # "none"
                 PROVE  Written' \/ \E g \in Handler : RowWrites(handling'[g], outbox', revenue')
      BY <2>2 DEF AfterLedger
    <3>1. CASE RowWrites(q, outbox, revenue)
      <4>1. newcomer <=> q.link
        BY <2>4, <3>1, <1>a DEF RowWrites, RowBefore, FreshLink, RowLink, WholeTypes
      <4> QED  BY <2>2, <3>1, <4>1 DEF RowWrites, Buys, Written, Message
    <3>2. CASE Written
      <4>1. outbox # "none"
        BY <3>2 DEF Written
      <4> QED  BY <2>2, <3>2, <4>1 DEF Written
    <3>3. CASE \E g \in Handler : g # h /\ RowWrites(handling[g], outbox, revenue)
      <4>1. ~Buys(q)
        BY <3>3, <1>a DEF OneHandles, RowWrites
      <4>2. outbox' = outbox
        BY <2>2, <4>1 DEF Buys
      <4> QED  BY <2>1, <2>2, <3>3, <4>2 DEF Becomes
    <3> QED  BY <1>a, <3>1, <3>2, <3>3 DEF AfterLedger
  <2> QED  BY <2>7, <2>8, <2>9, <2>10 DEF WholeInv
<1>16. ASSUME NEW h \in Handler, HandlerFails(h) PROVE WholeInv'
  <2> DEFINE q == handling[h]
  <2>1. PICK r : Becomes(h, r) /\ Has(r, "idle", "pix", NoProfile, FALSE, FALSE)
    BY <1>16, <1>0, RowRests, RestingRow DEF HandlerFails
  <2>2. /\ q.step # "idle"
        /\ ledger' = ledger
        /\ revenue' = revenue
        /\ outbox' = outbox
        /\ broken' = (broken \/ (/\ q.event = "bought"
                                /\ \/ q.link /\ profile # NoProfile
                                   \/ q.fresh))
        /\ crowded' = crowded
        /\ newcomer' = newcomer
        /\ happened' = happened /\ unanswered' = unanswered \cup {q.event}
    BY <1>16, Zenon DEF HandlerFails, Goes
  <2>3. profile' = profile
    BY <1>16 DEF HandlerFails
  <2>m. broken' \in BOOLEAN /\ (~broken' => ~broken)
    BY <1>a, <2>2 DEF WholeTypes
  <2>4. RowFounded(q, happened, profile) /\ RowBefore(q, newcomer, ledger["bought"])
    BY <1>0, <1>a DEF AllFounded, BeforeLedger
  <2>5. RowBefore(r, newcomer, ledger'["bought"])
    BY <2>1, <2>2, <2>3, <2>4, <1>a, <2>m DEF RowBefore, Has, Buys, BeforeLedger, Grants
  <2>6. ~broken' /\ ~crowded' /\ newcomer => RowLink(r, ledger'["bought"])
    BY <2>1, <2>2, <2>3, <2>4, <1>a, <2>m DEF RowLink, Has, Buys, FreshLink, NewBuyer, RowBefore
  <2>7. OneHandles' /\ BeforeLedger' /\ FreshLink'
    <3>1. ~crowded' => ~crowded /\ (Buys(r) => \A g \in Handler \ {h} : ~Buys(handling[g]))
      BY <2>1, <2>2, <1>a, <2>m DEF Has, Buys, OneHandles
    <3> QED  BY <2>1, <2>2, <2>3, <2>5, <2>6, <3>1, <2>m, WholeMoves
  <2>8. WholeTypes' /\ LedgerFirst'
    BY <2>1, <2>2, <2>4, <1>a, <2>m DEF WholeTypes, LedgerFirst, RowBefore, Buys
  <2>9. NewBuyer'
    BY <2>1, <2>2, <2>3, <2>4, <1>a, <2>m DEF NewBuyer, Becomes, Has, Buys, RowBefore
  <2>10. AfterLedger'
    BY <2>1, <2>2, <2>4, <1>a, <2>m DEF AfterLedger, Written, RowWrites, Becomes, Has, Buys, RowBefore, Grants
  <2> QED  BY <2>7, <2>8, <2>9, <2>10 DEF WholeInv
<1> QED  BY <1>1, <1>2, <1>3, <1>4, <1>5, <1>6, <1>7, <1>8, <1>9, <1>10, <1>11, <1>12, <1>13, <1>14, <1>15, <1>16 DEF BuyNext

\* Nothing happened at first.
LEMMA PurchaseStart == BuyInit => BuyerInv /\ WholeInv
<1> SUFFICES ASSUME BuyInit PROVE BuyerInv /\ WholeInv
  OBVIOUS
<1>1. /\ \A h \in Handler : handling[h] = Resting
      /\ handling \in [Handler -> Work]
  BY RestingRow DEF BuyInit, Has
<1>n. newcomer \in BOOLEAN /\ (newcomer <=> profile = NoProfile)
  BY Zenon DEF BuyInit
<1>2. profile \in Profile /\ profile.pay # "paid"
  <2>1. profile = NoProfile \/ profile = NewClient
    BY Zenon DEF BuyInit
  <2>2. NoProfile \in Profile /\ NoProfile.pay # "paid"
    BY DEF Profile, NoProfile
  <2>3. NewClient \in Profile /\ NewClient.pay # "paid"
    BY DEF Profile, NewClient
  <2> QED  BY <2>1, <2>2, <2>3
<1>3. happened = {} /\ unanswered = {} /\ ledger["bought"] = "none" /\ outbox = "none" /\ ~seen
  BY DEF BuyInit, CaktoEvent
<1>4. BuyTypes /\ WholeTypes
  BY <1>n, <1>1, <1>2 DEF BuyTypes, WholeTypes, BuyInit
<1>5. AllFounded /\ PayerIsClient /\ BoughtShows /\ RefundShows
  BY <1>1, <1>2, <1>3, RestingRow DEF AllFounded, RowFounded, PayerIsClient, BoughtShows, RefundShows,
     RowApplied, Done, Has
<1>6. OneHandles /\ BeforeLedger /\ NewBuyer /\ FreshLink /\ AfterLedger /\ LedgerFirst
  BY <1>n, <1>1, <1>2, <1>3, RestingRow DEF OneHandles, BeforeLedger, RowBefore, Buys, NewBuyer, FreshLink,
     RowLink, AfterLedger, LedgerFirst, Done, Has
<1> QED  BY <1>4, <1>5, <1>6 DEF BuyerInv, WholeInv

\* For any set of handlers, repetitions and failures: once the provider has its
\* answers, who paid has access as a client and who was refunded is no payer, unless
\* a write decided on an older row or the purchase came after its refund.
THEOREM AccessFollows == BuySpec => []AccessFollowsPayment
<1>1. BuyerInv => AccessFollowsPayment
  <2> SUFFICES ASSUME BuyerInv, Answered, "bought" \in happened
               PROVE  IF "refunded" \in happened THEN profile.pay # "paid" \/ regranted
                      ELSE profile = [pay |-> "paid", kind |-> "client", grant |-> TRUE] \/ downgraded
    BY DEF AccessFollowsPayment
  <2>1. "refunded" \in happened => profile.pay # "paid" \/ regranted
    BY DEF BuyerInv, RefundShows, Done, Answered
  <2>2. "refunded" \notin happened /\ ~downgraded => profile.pay = "paid"
    BY DEF BuyerInv, BoughtShows, Done, Answered
  <2>3. ~downgraded /\ profile.pay = "paid" =>
           profile = [pay |-> "paid", kind |-> "client", grant |-> TRUE]
    BY DEF BuyerInv, BuyTypes, PayerIsClient, Profile
  <2> QED  BY <2>1, <2>2, <2>3
<1> QED  BY <1>1, PurchaseStart, AccessStep, PTL DEF BuySpec

\* And an answered purchase that no two handlers shared, and none left half written,
\* is in the revenue and has its message.
THEOREM PurchasesAreWhole == BuySpec => []PurchaseIsWhole
<1>1. BuyerInv /\ WholeInv => PurchaseIsWhole
  <2> SUFFICES ASSUME WholeInv, Answered, "bought" \in happened, ~broken, ~crowded
               PROVE  Written
    BY DEF PurchaseIsWhole, Written
  <2>1. ledger["bought"] # "none"
    BY DEF WholeInv, LedgerFirst, Done, Answered
  <2>2. ~\E h \in Handler : RowWrites(handling[h], outbox, revenue)
    BY DEF Answered, At, RowWrites
  <2> QED  BY <2>1, <2>2 DEF WholeInv, AfterLedger
<1>2. BuyerInv /\ WholeInv /\ [BuyNext]_buyVars => BuyerInv' /\ WholeInv'
  BY AccessStep, WholeStep
<1> QED  BY <1>1, <1>2, PurchaseStart, PTL DEF BuySpec

-----------------------------------------------------------------------------
(* ClientAccess: a change of the row arrives.                              *)

\* A request's record.
Fill == [step : {"idle", "asked", "loaded"}, age : 0..AuthTTL, saw : BOOLEAN,
         late : BOOLEAN]

\* The copy, its fills and the clock have their types.
CopyTypes ==
    /\ key \in Key
    /\ entry \in [left : 0..TTL[key], saw : BOOLEAN, late : BOOLEAN]
    /\ fill \in [Filler -> Fill]
    /\ lostFor \in 0..AuthTTL

\* A request that read the client while it was let in, and is still to store
\* what it read, was called before the client lost its access.
CalledBefore(f) ==
    key = "auth" /\ fill[f].step = "loaded" /\ fill[f].saw /\ ~LetsIn(row)
        => lostFor <= fill[f].age

\* What such a request holds is the row as it is, unless a change is not
\* announced yet or was announced while the request was under way.
HoldsTheRow(f) ==
    fill[f].step = "loaded" /\ fill[f].saw # View(key, row) => owed \/ fill[f].late

\* The inductive invariant behind ChangesArrive.
AccessInv ==
    /\ CopyTypes
    /\ \A f \in Filler : CalledBefore(f) /\ HoldsTheRow(f)
    /\ ChangesArrive

\* What a copy shows of a row is yes or no.
LEMMA ViewIsBoolean == ASSUME NEW k \in Key, NEW r PROVE View(k, r) \in BOOLEAN
  BY DEF View, Key, Segment, LetsIn, OnPage

\* Every copy has a time to live.
LEMMA TTLType == ASSUME NEW k \in Key PROVE TTL[k] \in Nat
  BY TTLAssumption DEF TTL, Key, Segment

\* No copy is held at first.
LEMMA AccessAtFirst == AccessInit => AccessInv
<1> SUFFICES ASSUME AccessInit PROVE AccessInv
  OBVIOUS
<1>1. key \in Key /\ TTL[key] \in Nat /\ AuthTTL \in Nat
  BY TTLType, TTLAssumption DEF AccessInit
<1>2. CopyTypes
  BY <1>1 DEF AccessInit, CopyTypes, Fill, NoEntry, IdleFill
<1>3. \A f \in Filler : fill[f].step = "idle"
  BY DEF AccessInit, IdleFill
<1>4. \A f \in Filler : CalledBefore(f) /\ HoldsTheRow(f)
  BY <1>3 DEF CalledBefore, HoldsTheRow
<1>5. ~Fresh
  BY DEF AccessInit, NoEntry, Fresh
<1>6. ChangesArrive
  BY <1>5 DEF ChangesArrive
<1> QED
  BY <1>2, <1>4, <1>6 DEF AccessInv

\* Whoever writes the row announces what it changes, or owes it; and a loss of
\* access sets its clock.
LEMMA WritesKeep ==
  ASSUME AccessInv, NEW r, Writes(r), UNCHANGED copies
  PROVE  AccessInv'
<1>1. key' = key /\ entry' = entry /\ fill' = fill
  BY DEF copies
<1>2. row' = r /\ owed' = (owed \/ View(key, r) # View(key, row))
      /\ lostFor' = IF LetsIn(row) /\ ~LetsIn(r) THEN 0 ELSE lostFor
  BY DEF Writes
<1>3. CopyTypes /\ AuthTTL \in Nat /\ TTL[key] \in Nat
  BY TTLType, TTLAssumption DEF AccessInv, CopyTypes, Fill
<1>4. lostFor' \in 0..AuthTTL
  BY <1>2, <1>3 DEF CopyTypes, Fill
<1>5. CopyTypes'
  BY <1>1, <1>3, <1>4 DEF CopyTypes, Fill
<1>6. ASSUME NEW f \in Filler PROVE CalledBefore(f)'
  <2>1. CalledBefore(f) /\ fill[f].age \in Nat
    BY <1>3 DEF AccessInv, CopyTypes, Fill
  <2>2. LetsIn(row)' <=> LetsIn(r)
    BY <1>2 DEF LetsIn
  <2>3. fill[f]' = fill[f]
    BY <1>1
  <2> QED
    BY <1>1, <1>2, <1>3, <2>1, <2>2, <2>3 DEF CalledBefore, CopyTypes, Fill
<1>7. ASSUME NEW f \in Filler PROVE HoldsTheRow(f)'
  <2>1. HoldsTheRow(f)
    BY DEF AccessInv
  <2>2. View(key, row)' = View(key, r)
    BY <1>1, <1>2
  <2> QED
    BY <1>1, <1>2, <2>1, <2>2 DEF HoldsTheRow
<1>8. ChangesArrive'
  <2>1. ChangesArrive /\ (Fresh' <=> Fresh)
    BY <1>1 DEF AccessInv, Fresh
  <2>2. LetsIn(row)' <=> LetsIn(r)
    BY <1>2 DEF LetsIn
  <2>3. View(key, row)' = View(key, r)
    BY <1>1, <1>2
  <2>4. (key = "auth" /\ Fresh /\ entry.saw /\ ~LetsIn(row))'
            => (lostFor + entry.left <= AuthTTL)'
    <3>1. key = "auth" => entry.left \in 0..AuthTTL
      BY <1>3 DEF CopyTypes, Fill, TTL, Key, Segment
    <3> QED
      BY <1>1, <1>2, <1>3, <2>1, <2>2, <3>1 DEF ChangesArrive, CopyTypes, Fill
  <2>5. (Fresh /\ entry.saw # View(key, row))' => (owed \/ entry.late)'
    BY <1>1, <1>2, <2>1, <2>3 DEF ChangesArrive
  <2> QED
    BY <2>4, <2>5 DEF ChangesArrive
<1> QED
  BY <1>5, <1>6, <1>7, <1>8 DEF AccessInv

\* A step that leaves the row, the copy and the clock alone.
LEMMA RestKeeps ==
  ASSUME AccessInv, UNCHANGED <<row, key, lostFor, entry, fill>>, owed' <=> owed
  PROVE  AccessInv'
  BY DEF AccessInv, CopyTypes, Fill, CalledBefore, HoldsTheRow, ChangesArrive, Fresh

\* The end of an operator route, which clears copies.
LEMMA RouteEndsKeeps == ASSUME AccessInv, NEW d, RouteEnds(d) PROVE AccessInv'
<1> DEFINE clears == key \in Cleared(desk[d].op, desk[d].route)
<1>1. row' = row /\ key' = key /\ lostFor' = lostFor
      /\ entry' = (IF clears THEN NoEntry ELSE entry)
      /\ owed' = (owed /\ ~clears)
      /\ fill' = [f \in Filler |->
                     [fill[f] EXCEPT !.late = @ \/ (clears /\ fill[f].step = "loaded")]]
  BY DEF RouteEnds, Emptied
<1> HIDE DEF clears
<1>3. CopyTypes /\ AuthTTL \in Nat /\ TTL[key] \in Nat
  BY TTLType, TTLAssumption DEF AccessInv, CopyTypes, Fill
<1>4. CASE ~clears
  <2>1. entry' = entry /\ (owed' <=> owed)
    BY <1>1, <1>4
  <2>2. \A f \in Filler : fill'[f] = [fill[f] EXCEPT !.late = @ \/ FALSE]
    BY <1>1, <1>4
  <2>3. \A f \in Filler : fill'[f] = fill[f]
    BY <2>2, <1>3 DEF CopyTypes, Fill
  <2>4. fill' = fill
    BY <2>3, <1>1, <1>3 DEF CopyTypes, Fill
  <2> QED
    BY <1>1, <2>1, <2>4, RestKeeps
<1>5. CASE clears
  <2>1. entry' = NoEntry /\ owed' = FALSE
    BY <1>1, <1>5
  <2>2. ASSUME NEW f \in Filler
        PROVE  /\ fill'[f].step = fill[f].step /\ fill'[f].age = fill[f].age
               /\ fill'[f].saw = fill[f].saw
               /\ fill[f].step = "loaded" => fill'[f].late
               /\ fill'[f] \in Fill
    BY <1>1, <1>3, <1>5 DEF CopyTypes, Fill
  <2>3. CopyTypes'
    <3>1. fill' \in [Filler -> Fill]
      BY <1>1, <2>2
    <3>2. NoEntry \in [left : 0..TTL[key], saw : BOOLEAN, late : BOOLEAN]
      BY <1>3 DEF NoEntry
    <3> QED
      BY <1>1, <1>3, <2>1, <3>1, <3>2 DEF CopyTypes
  <2>4. ~Fresh'
    BY <2>1 DEF NoEntry, Fresh
  <2>5. \A f \in Filler : CalledBefore(f)'
    BY <1>1, <2>2 DEF AccessInv, CalledBefore, LetsIn
  <2>6. \A f \in Filler : HoldsTheRow(f)'
    BY <2>2 DEF HoldsTheRow
  <2> QED
    BY <2>3, <2>4, <2>5, <2>6 DEF AccessInv, ChangesArrive
<1> QED
  BY <1>4, <1>5

\* A request begins to look;
LEMMA AsksKeeps == ASSUME AccessInv, NEW f \in Filler, Asks(f) PROVE AccessInv'
<1> DEFINE asked == [IdleFill EXCEPT !.step = "asked"]
<1>1. row' = row /\ key' = key /\ lostFor' = lostFor /\ owed' = owed /\ entry' = entry
      /\ fill' = [fill EXCEPT ![f] = asked]
  BY Zenon DEF Asks, Filling
<1>2. CopyTypes /\ asked \in Fill /\ asked.step = "asked"
  <2>1. IdleFill \in Fill
    BY TTLAssumption DEF IdleFill, Fill
  <2> QED
    BY <2>1 DEF AccessInv, Fill
<1> HIDE DEF asked
<1>3. fill'[f].step = "asked" /\ \A g \in Filler \ {f} : fill'[g] = fill[g]
  BY <1>1, <1>2 DEF CopyTypes
<1>4. CopyTypes'
  <2>1. fill' \in [Filler -> Fill]
    BY <1>1, <1>2 DEF CopyTypes
  <2> QED
    BY <1>1, <1>2, <2>1 DEF CopyTypes
<1>5. \A g \in Filler : CalledBefore(g)'
  BY <1>1, <1>3 DEF AccessInv, CalledBefore
<1>6. \A g \in Filler : HoldsTheRow(g)'
  BY <1>1, <1>3 DEF AccessInv, HoldsTheRow
<1>7. ChangesArrive'
  BY <1>1 DEF AccessInv, ChangesArrive, Fresh
<1> QED
  BY <1>4, <1>5, <1>6, <1>7 DEF AccessInv

\* it reads the row;
LEMMA LoadsKeeps == ASSUME AccessInv, NEW f \in Filler, Loads(f) PROVE AccessInv'
<1>1. row' = row /\ key' = key /\ lostFor' = lostFor /\ owed' = owed /\ entry' = entry
  BY DEF Loads
<1>2. CopyTypes /\ AuthTTL \in Nat /\ View(key, row) \in BOOLEAN
  BY TTLAssumption, ViewIsBoolean DEF AccessInv, CopyTypes, Fill
<1>3. \/ fill' = [fill EXCEPT ![f] = IdleFill]
      \/ fill' = [fill EXCEPT ![f] = [fill[f] EXCEPT !.step = "loaded",
                                                     !.saw = View(key, row)]]
  BY DEF Loads, Filling
<1>4. \A g \in Filler \ {f} : fill'[g] = fill[g]
  BY <1>2, <1>3 DEF CopyTypes, Fill
<1>5. fill'[f] \in Fill /\ (fill'[f].step = "loaded" => fill'[f].saw = View(key, row))
  <2>1. CASE fill' = [fill EXCEPT ![f] = IdleFill]
    <3>1. fill'[f] = IdleFill
      BY <1>2, <2>1 DEF CopyTypes
    <3> QED
      BY <1>2, <3>1 DEF IdleFill, Fill
  <2>2. CASE fill' = [fill EXCEPT ![f] = [fill[f] EXCEPT !.step = "loaded",
                                                         !.saw = View(key, row)]]
    <3>1. fill'[f] = [fill[f] EXCEPT !.step = "loaded", !.saw = View(key, row)]
      BY <1>2, <2>2 DEF CopyTypes
    <3>2. fill[f] \in Fill
      BY <1>2 DEF CopyTypes
    <3> DEFINE v == View(key, row)
    <3>3. v \in BOOLEAN /\ fill'[f] = [fill[f] EXCEPT !.step = "loaded", !.saw = v]
      BY <1>2, <3>1
    <3> HIDE DEF v
    <3>4. fill'[f] \in Fill /\ fill'[f].saw = v
      BY <3>2, <3>3 DEF Fill
    <3> QED
      BY <3>4 DEF v
  <2> QED
    BY <1>3, <2>1, <2>2
<1>6. CopyTypes'
  <2>1. \A g \in Filler : fill'[g] \in Fill
    BY <1>2, <1>4, <1>5 DEF CopyTypes
  <2>2. fill' \in [Filler -> Fill]
    BY <1>2, <1>3, <2>1 DEF CopyTypes
  <2> QED
    BY <1>1, <1>2, <2>2 DEF CopyTypes
<1>7. \A g \in Filler : CalledBefore(g)'
  <2>1. key = "auth" => (View(key, row) <=> LetsIn(row))
    BY DEF View, Segment
  <2>2. CalledBefore(f)'
    BY <1>1, <1>5, <2>1 DEF CalledBefore
  <2> QED
    BY <1>1, <1>4, <2>2 DEF AccessInv, CalledBefore
<1>8. \A g \in Filler : HoldsTheRow(g)'
  BY <1>1, <1>4, <1>5 DEF AccessInv, HoldsTheRow
<1>9. ChangesArrive'
  BY <1>1 DEF AccessInv, ChangesArrive, Fresh
<1> QED
  BY <1>6, <1>7, <1>8, <1>9 DEF AccessInv

\* it stores what it read.
LEMMA StoresKeeps == ASSUME AccessInv, NEW f \in Filler, Stores(f) PROVE AccessInv'
<1> DEFINE left == Left(key, fill[f].age)
<1>1. row' = row /\ key' = key /\ lostFor' = lostFor /\ owed' = owed
      /\ fill' = [fill EXCEPT ![f] = IdleFill]
      /\ fill[f].step = "loaded"
      /\ entry' = IF left = 0 THEN NoEntry
                  ELSE [left |-> left, saw |-> fill[f].saw, late |-> fill[f].late]
  BY DEF Stores, Filling
<1>2. CopyTypes /\ AuthTTL \in Nat /\ TTL[key] \in Nat
  BY TTLAssumption, TTLType DEF AccessInv, CopyTypes, Fill
<1>3. fill'[f].step = "idle" /\ \A g \in Filler \ {f} : fill'[g] = fill[g]
  BY <1>1, <1>2 DEF CopyTypes, Fill, IdleFill
<1>4. left \in 0..TTL[key] /\ (key = "auth" => left = AuthTTL - fill[f].age)
  BY <1>2 DEF CopyTypes, Fill, Left, TTL, Key, Segment
<1> HIDE DEF left
<1>5. CopyTypes'
  <2>1. entry' \in [left : 0..TTL[key], saw : BOOLEAN, late : BOOLEAN]
    BY <1>1, <1>2, <1>4 DEF CopyTypes, Fill, NoEntry
  <2>2. fill' \in [Filler -> Fill]
    BY <1>1, <1>2 DEF CopyTypes, Fill, IdleFill
  <2> QED
    BY <1>1, <1>2, <2>1, <2>2 DEF CopyTypes, Fill
<1>6. \A g \in Filler : CalledBefore(g)' /\ HoldsTheRow(g)'
  BY <1>1, <1>3 DEF AccessInv, CalledBefore, HoldsTheRow
<1>7. ChangesArrive'
  <2>1. CASE left = 0
    BY <1>1, <2>1 DEF ChangesArrive, Fresh, NoEntry
  <2>2. CASE left # 0
    <3>1. entry' = [left |-> left, saw |-> fill[f].saw, late |-> fill[f].late]
      BY <1>1, <2>2
    <3>2. CalledBefore(f) /\ HoldsTheRow(f)
      BY DEF AccessInv
    <3>3. (key = "auth" /\ Fresh /\ entry.saw /\ ~LetsIn(row))'
              => (lostFor + entry.left <= AuthTTL)'
      BY <1>1, <1>2, <1>4, <3>1, <3>2 DEF CalledBefore, CopyTypes, Fill
    <3>4. (Fresh /\ entry.saw # View(key, row))' => (owed \/ entry.late)'
      BY <1>1, <3>1, <3>2 DEF HoldsTheRow
    <3> QED
      BY <3>3, <3>4 DEF ChangesArrive
  <2> QED
    BY <2>1, <2>2
<1> QED
  BY <1>5, <1>6, <1>7 DEF AccessInv

\* A copy is dropped.
LEMMA DroppedKeeps == ASSUME AccessInv, Dropped PROVE AccessInv'
<1>1. row' = row /\ key' = key /\ lostFor' = lostFor /\ owed' = owed /\ fill' = fill
      /\ entry' = NoEntry
  BY DEF Dropped
<1>2. CopyTypes /\ TTL[key] \in Nat
  BY TTLType DEF AccessInv, CopyTypes, Fill
<1>3. CopyTypes'
  BY <1>1, <1>2 DEF CopyTypes, Fill, NoEntry
<1> QED
  BY <1>1, <1>3 DEF AccessInv, CalledBefore, HoldsTheRow, ChangesArrive, Fresh, NoEntry

\* Time passes for the copy and the requests under way.
LEMMA TimePassesKeeps == ASSUME AccessInv, TimePasses PROVE AccessInv'
<1>1. row' = row /\ key' = key /\ owed' = owed /\ lostFor' = Older(lostFor)
      /\ entry' = (IF entry.left > 1 THEN [entry EXCEPT !.left = @ - 1] ELSE NoEntry)
      /\ fill' = [f \in Filler |-> IF key = "auth" /\ fill[f].step # "idle"
                                   THEN [fill[f] EXCEPT !.age = Older(@)] ELSE fill[f]]
  BY DEF TimePasses
<1>2. CopyTypes /\ AuthTTL \in Nat /\ TTL[key] \in Nat
  BY TTLAssumption, TTLType DEF AccessInv, CopyTypes, Fill
<1>3. ASSUME NEW f \in Filler
      PROVE  /\ fill'[f].step = fill[f].step /\ fill'[f].saw = fill[f].saw
             /\ fill'[f].late = fill[f].late
             /\ key = "auth" /\ fill[f].step # "idle" => fill'[f].age = Older(fill[f].age)
             /\ fill'[f] \in Fill
  <2>1. fill[f] \in Fill
    BY <1>2 DEF CopyTypes, Fill
  <2>2. Older(fill[f].age) \in 0..AuthTTL
    BY <1>2, <2>1 DEF Older, Fill
  <2>3. fill'[f] = IF key = "auth" /\ fill[f].step # "idle"
                   THEN [fill[f] EXCEPT !.age = Older(@)] ELSE fill[f]
    BY <1>1
  <2> QED
    BY <2>1, <2>2, <2>3 DEF Fill
<1>4. Older(lostFor) \in 0..AuthTTL
      /\ (Older(lostFor) = lostFor + 1 \/ Older(lostFor) = lostFor)
  BY <1>2 DEF CopyTypes, Fill, Older
<1>5. CopyTypes'
  <2>1. entry' \in [left : 0..TTL[key], saw : BOOLEAN, late : BOOLEAN]
    BY <1>1, <1>2 DEF CopyTypes, Fill, NoEntry
  <2> QED
    BY <1>1, <1>2, <1>3, <1>4, <2>1 DEF CopyTypes, Fill
<1>6. ASSUME NEW f \in Filler PROVE CalledBefore(f)'
  <2>1. CalledBefore(f) /\ lostFor \in 0..AuthTTL /\ fill[f].age \in 0..AuthTTL
    BY <1>2 DEF AccessInv, CopyTypes, Fill
  <2>2. lostFor <= fill[f].age => Older(lostFor) <= Older(fill[f].age)
    BY <1>2, <2>1 DEF Older
  <2>3. LetsIn(row)' <=> LetsIn(row)
    BY <1>1
  <2> QED
    BY <1>1, <1>3, <2>1, <2>2, <2>3 DEF CalledBefore
<1>7. \A f \in Filler : HoldsTheRow(f)'
  BY <1>1, <1>3 DEF AccessInv, HoldsTheRow
<1>8. ChangesArrive'
  <2>1. CASE entry.left > 1
    <3>1. entry'.left = entry.left - 1 /\ entry'.saw = entry.saw
          /\ entry'.late = entry.late /\ Fresh
      BY <1>1, <1>2, <2>1 DEF CopyTypes, Fill, Fresh
    <3>2. ChangesArrive /\ lostFor \in Nat /\ entry.left \in Nat
      BY <1>2 DEF AccessInv, CopyTypes, Fill
    <3>3. (key = "auth" /\ Fresh /\ entry.saw /\ ~LetsIn(row))'
              => (lostFor + entry.left <= AuthTTL)'
      BY <1>1, <1>2, <1>4, <3>1, <3>2 DEF ChangesArrive
    <3>4. (Fresh /\ entry.saw # View(key, row))' => (owed \/ entry.late)'
      BY <1>1, <3>1, <3>2 DEF ChangesArrive
    <3> QED
      BY <3>3, <3>4 DEF ChangesArrive
  <2>2. CASE ~(entry.left > 1)
    BY <1>1, <2>2 DEF ChangesArrive, Fresh, NoEntry
  <2> QED
    BY <2>1, <2>2
<1> QED
  BY <1>5, <1>6, <1>7, <1>8 DEF AccessInv

\* Every step keeps AccessInv.
LEMMA AccessKept == AccessInv /\ [AccessNext]_accessVars => AccessInv'
<1> SUFFICES ASSUME AccessInv, [AccessNext]_accessVars PROVE AccessInv'
  OBVIOUS
<1>1. ASSUME NEW d \in Desk, CreatesUser(d) PROVE AccessInv'
  BY <1>1, RestKeeps DEF CreatesUser, copies
<1>2. ASSUME NEW d \in Desk, InsertsRow(d) PROVE AccessInv'
  BY <1>2, WritesKeep DEF InsertsRow
<1>3. ASSUME NEW d \in Desk, UpdateReads(d) PROVE AccessInv'
  BY <1>3, RestKeeps DEF UpdateReads, copies
<1>4. ASSUME NEW d \in Desk, UpdatePatches(d) PROVE AccessInv'
  <2>1. \E r : Writes(r) /\ UNCHANGED copies
    BY <1>4 DEF UpdatePatches, copies
  <2> QED
    BY <2>1, WritesKeep
<1>5. ASSUME NEW d \in Desk, Approves(d) PROVE AccessInv'
  BY <1>5, RestKeeps DEF Approves, copies
<1>6. ASSUME NEW d \in Desk, Deletes(d) PROVE AccessInv'
  BY <1>6, RestKeeps DEF Deletes, copies
<1>7. ASSUME NEW d \in Desk, SavesClient(d) PROVE AccessInv'
  BY <1>7, WritesKeep DEF SavesClient
<1>8. ASSUME NEW d \in Desk, Bans(d) PROVE AccessInv'
  BY <1>8, RestKeeps DEF Bans, copies
<1>9. ASSUME NEW d \in Desk, RouteEnds(d) PROVE AccessInv'
  BY <1>9, RouteEndsKeeps
<1>10. ASSUME NEW d \in Desk, RouteBreaks(d) PROVE AccessInv'
  BY <1>10, RestKeeps DEF RouteBreaks, copies
<1>11. ASSUME NEW f \in Filler, Asks(f) \/ Loads(f) \/ Stores(f) PROVE AccessInv'
  BY <1>11, AsksKeeps, LoadsKeeps, StoresKeeps
<1>12. CASE PaymentApplied
  <2>1. \E r : Writes(r) /\ UNCHANGED copies
    BY <1>12 DEF PaymentApplied, copies
  <2> QED
    BY <2>1, WritesKeep
<1>13. CASE TrialEnds
  BY <1>13, WritesKeep DEF TrialEnds
<1>14. CASE Dropped
  BY <1>14, DroppedKeeps
<1>15. CASE TimePasses
  BY <1>15, TimePassesKeeps
<1>16. CASE UNCHANGED accessVars
  BY <1>16, RestKeeps DEF accessVars
<1> QED
  BY <1>1, <1>2, <1>3, <1>4, <1>5, <1>6, <1>7, <1>8, <1>9, <1>10, <1>11, <1>12,
     <1>13, <1>14, <1>15, <1>16 DEF AccessNext, DeskSteps

\* For any times to live and any number of requests and operators: who lost access
\* is let in no longer than the copy of authenticate lives, from the loss on, and
\* what a route announced is what the copies show, but for requests under way.
THEOREM LostAccessEnds == AccessSpec => []ChangesArrive
<1>1. AccessInv => ChangesArrive
  BY DEF AccessInv
<1> QED
  BY <1>1, AccessAtFirst, AccessKept, PTL DEF AccessSpec

-----------------------------------------------------------------------------
(* Sums over the clients, and the invariant of the pattern memory.         *)

\* The sum as the folds of the library compute it: take a client, add its count
\* to the sum of the others.
Pick(s) == CHOOSE t \in s : TRUE
\* g sums c: with nobody it is 0, and with one more client that one is added.
Adds(g, c) ==
    [s \in SUBSET Trader |-> IF s = {} THEN 0 ELSE c[Pick(s)] + g[s \ {Pick(s)}]]
\* The sum of c over any set of clients.
SumOf(c) == CHOOSE g : g = Adds(g, c)
\* A count of each client.
Counts(c) == \A t \in Trader : c[t] \in Int

\* The total of the model is that sum over all clients.
LEMMA TotalIsTheFold == ASSUME NEW c PROVE Total(c) = SumOf(c)[Trader]
  BY DEF Total, MapThenSumSet, MapThenFoldSet, Adds, Pick, SumOf

\* A client picked from a set is in it.
LEMMA PickIsIn == ASSUME NEW s, s # {} PROVE Pick(s) \in s
  BY DEF Pick

\* What holds of nobody, and of a set of clients when it holds of the set without
\* the one that is added first, holds of all.
LEMMA ClientInduction ==
  ASSUME NEW B \in SUBSET (SUBSET Trader), {} \in B,
         \A s \in SUBSET Trader : s # {} /\ s \ {Pick(s)} \in B => s \in B
  PROVE  Trader \in B
<1> DEFINE bad == {n \in Nat : \E s \in SUBSET Trader : Cardinality(s) = n /\ s \notin B}
<1>1. \A s \in SUBSET Trader : IsFiniteSet(s) /\ Cardinality(s) \in Nat
  BY TraderAssumption, FS_Subset, FS_CardinalityType
<1>2. SUFFICES ASSUME bad # {} PROVE FALSE
  BY <1>1
<1>3. PICK n \in bad : \A m \in bad : n <= m
  BY <1>2, LeastNatural
<1>4. PICK s \in SUBSET Trader : Cardinality(s) = n /\ s \notin B
  BY <1>3
<1>5. s # {} /\ Pick(s) \in s
  BY <1>4, PickIsIn
<1>6. Cardinality(s \ {Pick(s)}) = n - 1 /\ n \in Nat
  BY <1>1, <1>3, <1>4, <1>5, FS_RemoveElement
<1>7. Cardinality(s \ {Pick(s)}) \in Nat
  BY <1>1
<1>8. s \ {Pick(s)} \in B
  BY <1>3, <1>6, <1>7
<1> QED
  BY <1>4, <1>5, <1>8

\* The recursion of the fold has a solution.
LEMMA SumExists == ASSUME NEW c, Counts(c) PROVE \E g : g = Adds(g, c)
<1> DEFINE Up(n) == {s \in SUBSET Trader : Cardinality(s) <= n}
           Next1(g, s) == IF s = {} THEN 0 ELSE c[Pick(s)] + g[s \ {Pick(s)}]
           Part(g, n) == g = [s \in Up(n) |-> Next1(g, s)]
           bad == {n \in Nat : \A g : ~Part(g, n)}
<1>1. \A s \in SUBSET Trader : IsFiniteSet(s) /\ Cardinality(s) \in Nat
  BY TraderAssumption, FS_Subset, FS_CardinalityType
<1>2. ASSUME NEW n \in Nat, n \in bad, \A m \in bad : n <= m PROVE FALSE
  <2>1. CASE n = 0
    <3> DEFINE g == [s \in Up(0) |-> 0]
    <3>1. \A s \in Up(0) : s = {}
      BY <1>1, FS_EmptySet
    <3>2. Part(g, 0)
      BY <3>1
    <3> QED
      BY <1>2, <2>1, <3>2
  <2>2. CASE n # 0
    <3>1. n - 1 \in Nat /\ n - 1 \notin bad
      <4>1. n \in Nat
        BY <1>2
      <4>2. n - 1 \in Nat /\ ~(n <= n - 1)
        BY <2>2, <4>1
      <4> HIDE DEF bad
      <4> QED
        BY <1>2, <4>2
    <3>2. PICK g : Part(g, n - 1)
      <4> HIDE DEF Part
      <4> QED
        BY <3>1
    <3> DEFINE h == [s \in Up(n) |-> Next1(g, s)]
    <3>3. ASSUME NEW s \in Up(n), s # {} PROVE h[s \ {Pick(s)}] = g[s \ {Pick(s)}]
      <4> DEFINE r == s \ {Pick(s)}
      <4>1. Pick(s) \in s
        BY <3>3, PickIsIn
      <4>2. Cardinality(r) = Cardinality(s) - 1 /\ r \in SUBSET Trader
        BY <1>1, <4>1, FS_RemoveElement
      <4>3. r \in Up(n - 1) /\ r \in Up(n)
        BY <1>1, <4>2
      <4> HIDE DEF r
      <4>4. h[r] = Next1(g, r)
        BY <4>3
      <4>5. g[r] = Next1(g, r)
        BY <3>2, <4>3
      <4> QED
        BY <4>4, <4>5 DEF r
    <3>4. ASSUME NEW s \in Up(n) PROVE Next1(h, s) = Next1(g, s)
      <4> HIDE DEF h, Up
      <4>1. CASE s = {}
        BY <4>1
      <4>2. CASE s # {}
        BY <3>3, <4>2
      <4> QED
        BY <4>1, <4>2
    <3>5. Part(h, n)
      BY <3>4
    <3> QED
      BY <1>2, <3>5
  <2> QED
    BY <2>1, <2>2
<1>3. bad = {}
  <2>1. bad \in SUBSET Nat
    OBVIOUS
  <2> HIDE DEF bad
  <2> QED
    BY <1>2, <2>1, LeastNatural
<1>4. Cardinality(Trader) \in Nat
  BY <1>1
<1>5. PICK g : Part(g, Cardinality(Trader))
  <2> HIDE DEF Part
  <2> QED
    BY <1>3, <1>4
<1>6. Up(Cardinality(Trader)) = SUBSET Trader
  BY TraderAssumption, FS_Subset
<1>7. g = Adds(g, c)
  BY <1>5, <1>6 DEF Adds
<1> QED
  BY <1>7

\* So the sum of nobody is nothing, and that of a set is one count more.
LEMMA SumSteps ==
  ASSUME NEW c, Counts(c)
  PROVE  /\ SumOf(c)[{}] = 0
         /\ \A s \in SUBSET Trader : s # {} =>
                SumOf(c)[s] = c[Pick(s)] + SumOf(c)[s \ {Pick(s)}]
<1>1. SumOf(c) = Adds(SumOf(c), c)
  BY SumExists DEF SumOf
<1> DEFINE g == SumOf(c)
<1>2. g = [s \in SUBSET Trader |-> IF s = {} THEN 0 ELSE c[Pick(s)] + g[s \ {Pick(s)}]]
  BY <1>1 DEF Adds
<1> HIDE DEF g
<1>3. g[{}] = 0
  BY <1>2
<1>4. \A s \in SUBSET Trader : s # {} => g[s] = c[Pick(s)] + g[s \ {Pick(s)}]
  BY <1>2
<1> QED
  BY <1>3, <1>4 DEF g

\* A total is a number.
LEMMA TotalType == ASSUME NEW c, Counts(c) PROVE Total(c) \in Int
<1> DEFINE B == {s \in SUBSET Trader : SumOf(c)[s] \in Int}
<1>1. {} \in B
  BY SumSteps
<1>2. ASSUME NEW s \in SUBSET Trader, s # {}, s \ {Pick(s)} \in B PROVE s \in B
  <2>1. c[Pick(s)] \in Int
    BY <1>2, PickIsIn DEF Counts
  <2>2. SumOf(c)[s] = c[Pick(s)] + SumOf(c)[s \ {Pick(s)}]
    BY <1>2, SumSteps
  <2> QED
    BY <1>2, <2>1, <2>2
<1> HIDE DEF B
<1>3. Trader \in B
  <2>1. B \in SUBSET (SUBSET Trader)
    BY DEF B
  <2> QED
    BY <1>1, <1>2, <2>1, ClientInduction
<1> QED
  BY <1>3, TotalIsTheFold DEF B

\* A total of larger counts is larger.
LEMMA TotalGrows ==
  ASSUME NEW c, NEW d, Counts(c), Counts(d), \A t \in Trader : c[t] <= d[t]
  PROVE  Total(c) <= Total(d)
<1> DEFINE B == {s \in SUBSET Trader : /\ SumOf(c)[s] \in Int /\ SumOf(d)[s] \in Int
                                       /\ SumOf(c)[s] <= SumOf(d)[s]}
<1>1. {} \in B
  BY SumSteps
<1>2. ASSUME NEW s \in SUBSET Trader, s # {}, s \ {Pick(s)} \in B PROVE s \in B
  <2>1. c[Pick(s)] \in Int /\ d[Pick(s)] \in Int /\ c[Pick(s)] <= d[Pick(s)]
    BY <1>2, PickIsIn DEF Counts
  <2>2. /\ SumOf(c)[s] = c[Pick(s)] + SumOf(c)[s \ {Pick(s)}]
        /\ SumOf(d)[s] = d[Pick(s)] + SumOf(d)[s \ {Pick(s)}]
    BY <1>2, SumSteps
  <2> QED
    BY <1>2, <2>1, <2>2
<1> HIDE DEF B
<1>3. Trader \in B
  <2>1. B \in SUBSET (SUBSET Trader)
    BY DEF B
  <2> QED
    BY <1>1, <1>2, <2>1, ClientInduction
<1> QED
  BY <1>3, TotalIsTheFold DEF B

\* A total changes by what one client's count changes.
LEMMA TotalChanges ==
  ASSUME NEW c, NEW d, Counts(c), Counts(d), NEW t \in Trader,
         \A o \in Trader \ {t} : d[o] = c[o]
  PROVE  Total(d) = Total(c) + d[t] - c[t]
<1> DEFINE B == {s \in SUBSET Trader :
                     /\ SumOf(c)[s] \in Int /\ SumOf(d)[s] \in Int
                     /\ SumOf(d)[s] = SumOf(c)[s] + IF t \in s THEN d[t] - c[t] ELSE 0}
<1>1. {} \in B
  BY SumSteps
<1>2. ASSUME NEW s \in SUBSET Trader, s # {}, s \ {Pick(s)} \in B PROVE s \in B
  <2>1. c[Pick(s)] \in Int /\ d[Pick(s)] \in Int /\ Pick(s) \in s
        /\ c[t] \in Int /\ d[t] \in Int
        /\ (Pick(s) # t => d[Pick(s)] = c[Pick(s)])
    BY <1>2, PickIsIn DEF Counts
  <2>2. /\ SumOf(c)[s] = c[Pick(s)] + SumOf(c)[s \ {Pick(s)}]
        /\ SumOf(d)[s] = d[Pick(s)] + SumOf(d)[s \ {Pick(s)}]
    BY <1>2, SumSteps
  <2> QED
    BY <1>2, <2>1, <2>2
<1> HIDE DEF B
<1>3. Trader \in B
  <2>1. B \in SUBSET (SUBSET Trader)
    BY DEF B
  <2> QED
    BY <1>1, <1>2, <2>1, ClientInduction
<1>4. c[t] \in Int /\ d[t] \in Int
  BY DEF Counts
<1> QED
  BY <1>3, <1>4, TotalIsTheFold DEF B

----------------------------------------------------------------------------
(* The memory of patterns *)

\* An upsert on its way.
Upserts == [owner : Owner, count : Nat, undoes : BOOLEAN]

\* The types of what the invariant speaks of, with no bound on the losses.
MemoryTypes ==
    /\ lost \in [Trader -> Nat] /\ deleted \in [Trader -> Nat]
    /\ page \in [Owner -> Nat] /\ book \in [Where -> [Owner -> Nat]]
    /\ up \in [Where -> {"summing", "clearing", "posting", "running"}]
    /\ sends \in Seq(Upserts) /\ stuck \in Nat

\* What the row of a client has or its page in the runtime's book is to give it.
HeldOf(p, b) == [t \in Trader |-> IF p[t] > b["runtime"][t] THEN p[t]
                                  ELSE b["runtime"][t]]
\* What is held of an owner on the page and in the books.
Held == HeldOf(page, book)

\* The results that are there, and those whose deletion no page undid.
Founded == Total(lost) - Total(deleted) + stuck

\* A client's row is still to be written with a result less.
Undoes == /\ sends # <<>>
          /\ Head(sends).owner \in Trader /\ Head(sends).undoes
          /\ page[Head(sends).owner] > Head(sends).count
\* What the runtime has still to take back.
ToUndo == IF Undoes THEN 1 ELSE 0

\* The runtime's upserts carry what its book has; a client's is the first.
SendsOfTheBook ==
    /\ up["runtime"] # "running" => sends = <<>>
    /\ sends # <<>> /\ Head(sends).owner \in Trader
           => Head(sends).count = book["runtime"][Head(sends).owner]
    /\ sends # <<>> => Tail(sends) = <<>> \/ Head(Tail(sends)).owner = All
    /\ sends # <<>> /\ Tail(sends) # <<>> => Tail(Tail(sends)) = <<>>

\* The inductive invariant behind VetoFounded.
MemoryInv ==
    /\ MemoryTypes
    /\ \A t \in Trader : deleted[t] <= lost[t]
    /\ SendsOfTheBook
    /\ Total(Held) <= Founded + ToUndo
    /\ book["runtime"][All] <= Founded

\* The totals of pages, rows and results are numbers.
LEMMA SumsType ==
  ASSUME NEW p \in [Owner -> Nat], NEW b \in [Where -> [Owner -> Nat]],
         NEW l \in [Trader -> Nat]
  PROVE  /\ Counts(HeldOf(p, b)) /\ Counts(p) /\ Counts(l)
         /\ Total(HeldOf(p, b)) \in Int /\ Total(p) \in Int /\ Total(l) \in Int
         /\ b["runtime"][All] \in Nat
         /\ \A t \in Trader : p[t] \in Nat /\ b["runtime"][t] \in Nat
                             /\ HeldOf(p, b)[t] \in Nat /\ l[t] \in Nat
<1>1. \A t \in Trader : p[t] \in Nat /\ b["runtime"][t] \in Nat /\ l[t] \in Nat
  BY DEF Owner, Where
<1>2. \A t \in Trader : HeldOf(p, b)[t] \in Nat
  BY <1>1 DEF HeldOf
<1>3. Counts(HeldOf(p, b)) /\ Counts(p) /\ Counts(l)
  BY <1>1, <1>2 DEF Counts
<1>4. Total(HeldOf(p, b)) \in Int /\ Total(p) \in Int /\ Total(l) \in Int
  BY <1>3, TotalType
<1>5. b["runtime"][All] \in Nat
  BY DEF Owner, Where
<1> QED
  BY <1>1, <1>2, <1>3, <1>4, <1>5

\* The founded counts are naturals.
LEMMA FoundedType ==
  ASSUME MemoryTypes
  PROVE  Founded \in Int /\ Total(Held) \in Int /\ book["runtime"][All] \in Nat
<1>1. /\ page \in [Owner -> Nat] /\ book \in [Where -> [Owner -> Nat]]
      /\ lost \in [Trader -> Nat] /\ deleted \in [Trader -> Nat] /\ stuck \in Nat
  BY DEF MemoryTypes
<1>2. Total(lost) \in Int /\ Total(deleted) \in Int
      /\ Total(HeldOf(page, book)) \in Int /\ book["runtime"][All] \in Nat
  BY <1>1, SumsType
<1> QED
  BY <1>1, <1>2 DEF Founded, Held

\* Deletions are of results that were there.
LEMMA DeletedWereLost ==
  ASSUME NEW l \in [Trader -> Nat], NEW d \in [Trader -> Nat],
         \A t \in Trader : d[t] <= l[t]
  PROVE  Total(d) <= Total(l)
  BY TotalGrows DEF Counts

\* A total of nothing is nothing.
LEMMA TotalOfNothing == ASSUME NEW c, \A t \in Trader : c[t] = 0 PROVE Total(c) = 0
<1> DEFINE B == {s \in SUBSET Trader : SumOf(c)[s] = 0}
<1>0. Counts(c)
  BY DEF Counts
<1>1. {} \in B
  BY <1>0, SumSteps
<1>2. ASSUME NEW s \in SUBSET Trader, s # {}, s \ {Pick(s)} \in B PROVE s \in B
  <2>1. c[Pick(s)] = 0
    BY <1>2, PickIsIn
  <2>2. SumOf(c)[s] = c[Pick(s)] + SumOf(c)[s \ {Pick(s)}]
    BY <1>0, <1>2, SumSteps
  <2> QED
    BY <1>2, <2>1, <2>2
<1> HIDE DEF B
<1>3. Trader \in B
  <2>1. B \in SUBSET (SUBSET Trader)
    BY DEF B
  <2> QED
    BY <1>1, <1>2, <2>1, ClientInduction
<1> QED
  BY <1>3, TotalIsTheFold DEF B

\* Nothing is remembered at first.
LEMMA MemoryAtFirst == MemoryInit => MemoryInv
<1> SUFFICES ASSUME MemoryInit PROVE MemoryInv
  OBVIOUS
<1>1. MemoryTypes
  BY DEF MemoryInit, MemoryTypes, Blank
<1>2. \A t \in Trader : deleted[t] = 0 /\ Held[t] = 0 /\ lost[t] = 0
  BY DEF MemoryInit, Blank, Held, HeldOf, Owner, Where
<1>3. Total(Held) = 0 /\ Total(lost) = 0 /\ Total(deleted) = 0
  BY <1>2, TotalOfNothing
<1>4. sends = <<>> /\ stuck = 0 /\ book["runtime"][All] = 0
  BY DEF MemoryInit, Blank, Owner, Where
<1>5. SendsOfTheBook
  BY <1>4 DEF SendsOfTheBook
<1> QED
  BY <1>1, <1>2, <1>3, <1>4, <1>5 DEF MemoryInv, Founded, ToUndo, Undoes

\* A step that touches no client's pages and no upsert keeps the invariant.
LEMMA RestKeepsMemory ==
  ASSUME MemoryInv, MemoryTypes', UNCHANGED <<lost, deleted, sends, stuck>>,
         \A t \in Trader : page'[t] = page[t],
         book'["runtime"] = book["runtime"],
         up'["runtime"] # "running" => sends = <<>>
  PROVE  MemoryInv'
<1>1. Held' = Held
  BY DEF Held, HeldOf
<1>2. Total(lost)' = Total(lost) /\ Total(deleted)' = Total(deleted)
      /\ Total(Held)' = Total(Held)
  BY <1>1
<1>3. Founded' = Founded
  BY <1>2 DEF Founded
<1>4. ToUndo' = ToUndo
  BY DEF ToUndo, Undoes
<1>5. SendsOfTheBook'
  BY DEF MemoryInv, SendsOfTheBook
<1> QED
  BY <1>2, <1>3, <1>4, <1>5 DEF MemoryInv

\* How the totals move when the pages and the results of one client do.
LEMMA SumsMove ==
  ASSUME MemoryTypes, MemoryTypes', NEW t \in Trader,
         \A o \in Trader \ {t} : /\ page'[o] = page[o] /\ lost'[o] = lost[o]
                                 /\ deleted'[o] = deleted[o]
                                 /\ book'["runtime"][o] = book["runtime"][o]
  PROVE  /\ Total(lost') = Total(lost) + lost'[t] - lost[t]
         /\ Total(deleted') = Total(deleted) + deleted'[t] - deleted[t]
         /\ Total(Held') = Total(Held) + Held'[t] - Held[t]
         /\ Total(Held) \in Int /\ Total(lost) \in Int /\ Total(deleted) \in Int
         /\ Held[t] = (IF page[t] > book["runtime"][t] THEN page[t]
                       ELSE book["runtime"][t])
         /\ Held'[t] = (IF page'[t] > book'["runtime"][t] THEN page'[t]
                        ELSE book'["runtime"][t])
         /\ lost[t] \in Nat /\ deleted[t] \in Nat /\ lost'[t] \in Nat
         /\ deleted'[t] \in Nat /\ page[t] \in Nat /\ page'[t] \in Nat
         /\ book["runtime"][t] \in Nat /\ book'["runtime"][t] \in Nat
         /\ book["runtime"][All] \in Nat /\ book'["runtime"][All] \in Nat
         /\ stuck \in Nat /\ stuck' \in Nat
<1>1. /\ page \in [Owner -> Nat] /\ book \in [Where -> [Owner -> Nat]]
      /\ lost \in [Trader -> Nat] /\ deleted \in [Trader -> Nat] /\ stuck \in Nat
      /\ page' \in [Owner -> Nat] /\ book' \in [Where -> [Owner -> Nat]]
      /\ lost' \in [Trader -> Nat] /\ deleted' \in [Trader -> Nat] /\ stuck' \in Nat
  BY DEF MemoryTypes
<1>2. Held = HeldOf(page, book) /\ Held' = HeldOf(page', book')
  BY DEF Held
<1>3. /\ Counts(lost) /\ Counts(lost') /\ Counts(deleted) /\ Counts(deleted')
      /\ Counts(Held) /\ Counts(Held')
      /\ Total(Held) \in Int /\ Total(lost) \in Int /\ Total(deleted) \in Int
  BY <1>1, <1>2, SumsType
<1>4. \A o \in Trader \ {t} : Held'[o] = Held[o]
  BY <1>2 DEF HeldOf
<1>5. /\ Total(lost') = Total(lost) + lost'[t] - lost[t]
      /\ Total(deleted') = Total(deleted) + deleted'[t] - deleted[t]
      /\ Total(Held') = Total(Held) + Held'[t] - Held[t]
  BY <1>3, <1>4, TotalChanges
<1>6. /\ Held[t] = (IF page[t] > book["runtime"][t] THEN page[t]
                    ELSE book["runtime"][t])
      /\ Held'[t] = (IF page'[t] > book'["runtime"][t] THEN page'[t]
                     ELSE book'["runtime"][t])
  BY <1>2 DEF HeldOf
<1>7. /\ lost[t] \in Nat /\ deleted[t] \in Nat /\ lost'[t] \in Nat
      /\ deleted'[t] \in Nat /\ page[t] \in Nat /\ page'[t] \in Nat
      /\ book["runtime"][t] \in Nat /\ book'["runtime"][t] \in Nat
      /\ book["runtime"][All] \in Nat /\ book'["runtime"][All] \in Nat
  BY <1>1, SumsType
<1> QED
  BY <1>1, <1>3, <1>5, <1>6, <1>7

\* A loss is recorded.
LEMMA RecordsKeeps == ASSUME MemoryInv, NEW t \in Trader, Records(t) PROVE MemoryInv'
<1> DEFINE mine == book["runtime"][t] + 1
           ours == book["runtime"][All] + 1
           first == Upsert(t, mine, FALSE)
           second == Upsert(All, ours, FALSE)
<1>1. /\ up["runtime"] = "running" /\ sends = <<>>
      /\ lost' = [lost EXCEPT ![t] = @ + 1]
      /\ book' = [book EXCEPT !["runtime"][t] = mine, !["runtime"][All] = ours]
      /\ sends' = <<first, second>>
      /\ deleted' = deleted /\ page' = page /\ up' = up /\ stuck' = stuck
  BY DEF Records, Ready
<1>2. MemoryTypes /\ All \notin Trader /\ t \in Owner /\ All \in Owner
  BY TraderAssumption DEF MemoryInv, Owner
<1>3. mine \in Nat /\ ours \in Nat
  BY <1>2 DEF MemoryTypes, Where
<1>4. first \in Upserts /\ second \in Upserts /\ first.owner = t /\ first.count = mine
      /\ second.owner = All /\ ~first.undoes
  BY <1>2, <1>3 DEF Upsert, Upserts
<1> HIDE DEF mine, ours, first, second
<1>5. /\ book'["runtime"][t] = mine /\ book'["runtime"][All] = ours
      /\ \A o \in Trader \ {t} : book'["runtime"][o] = book["runtime"][o]
      /\ book' \in [Where -> [Owner -> Nat]]
  BY <1>1, <1>2, <1>3 DEF MemoryTypes, Where, Owner
<1>6. sends' \in Seq(Upserts) /\ sends' # <<>> /\ Head(sends') = first
      /\ Tail(sends') = <<second>>
  BY <1>1, <1>4
<1>7. lost' \in [Trader -> Nat] /\ lost'[t] = lost[t] + 1
      /\ \A o \in Trader \ {t} : lost'[o] = lost[o]
  BY <1>1, <1>2 DEF MemoryTypes
<1>8. MemoryTypes'
  BY <1>1, <1>2, <1>5, <1>6, <1>7 DEF MemoryTypes
<1>9. /\ Total(lost') = Total(lost) + 1 /\ Total(deleted') = Total(deleted)
      /\ Total(Held') <= Total(Held) + 1
      /\ Total(Held) \in Int /\ Total(lost) \in Int /\ Total(deleted) \in Int
      /\ Total(Held') \in Int
  <2>1. \A o \in Trader \ {t} : /\ page'[o] = page[o] /\ lost'[o] = lost[o]
                                 /\ deleted'[o] = deleted[o]
                                 /\ book'["runtime"][o] = book["runtime"][o]
    BY <1>1, <1>5, <1>7
  <2>2. /\ Total(lost') = Total(lost) + lost'[t] - lost[t]
        /\ Total(Held') = Total(Held) + Held'[t] - Held[t]
        /\ Total(Held) \in Int /\ Total(lost) \in Int /\ Total(deleted) \in Int
        /\ Held[t] = (IF page[t] > book["runtime"][t] THEN page[t]
                      ELSE book["runtime"][t])
        /\ Held'[t] = (IF page'[t] > book'["runtime"][t] THEN page'[t]
                       ELSE book'["runtime"][t])
        /\ lost[t] \in Nat /\ page[t] \in Nat /\ book["runtime"][t] \in Nat
    BY <1>2, <1>8, <2>1, SumsMove
  <2>3. Held[t] \in Nat /\ Held'[t] \in Nat /\ Held'[t] <= Held[t] + 1
    <3>1. page'[t] = page[t] /\ book'["runtime"][t] = book["runtime"][t] + 1
      BY <1>1, <1>5 DEF mine
    <3> QED
      BY <2>2, <3>1
  <2>4. Total(lost') = Total(lost) + 1
    BY <1>7, <2>2
  <2>5. Total(Held') \in Int /\ Total(Held') <= Total(Held) + 1
    BY <2>2, <2>3
  <2>6. Total(deleted') = Total(deleted)
    BY <1>1
  <2> QED
    BY <2>2, <2>4, <2>5, <2>6
<1>10. ToUndo = 0 /\ ToUndo' = 0
  BY <1>1, <1>4, <1>6 DEF ToUndo, Undoes
<1>11. Founded' = Founded + 1 /\ Founded \in Int
  <2>1. stuck \in Nat
    BY <1>2 DEF MemoryTypes
  <2>2. Founded = Total(lost) - Total(deleted) + stuck
        /\ Founded' = Total(lost') - Total(deleted') + stuck'
    BY DEF Founded
  <2> QED
    BY <1>1, <1>9, <2>1, <2>2
<1>12. SendsOfTheBook'
  <2>1. Tail(<<second>>) = <<>> /\ Head(<<second>>) = second
    OBVIOUS
  <2> QED
    BY <1>1, <1>4, <1>5, <1>6, <2>1 DEF SendsOfTheBook
<1>13. \A o \in Trader : deleted'[o] <= lost'[o]
  BY <1>1, <1>2, <1>7 DEF MemoryInv, MemoryTypes
<1>14. book'["runtime"][All] <= Founded'
  <2>1. book["runtime"][All] <= Founded
    BY DEF MemoryInv
  <2>2. book["runtime"][All] \in Nat
    BY <1>2 DEF MemoryTypes, Where
  <2>3. book'["runtime"][All] = book["runtime"][All] + 1
    BY <1>5 DEF ours
  <2> HIDE DEF Founded
  <2> QED
    BY <1>11, <2>1, <2>2, <2>3
<1>15. Total(Held') <= Founded' + ToUndo'
  BY <1>9, <1>10, <1>11 DEF MemoryInv
<1> QED
  BY <1>8, <1>12, <1>13, <1>14, <1>15 DEF MemoryInv

\* One upsert after another.
LEMMA OneAndOne == ASSUME NEW S, NEW a \in S, NEW b \in S PROVE <<a>> \o <<b>> = <<a, b>>
<1> DEFINE s == <<a>>  t == <<b>>  u == <<a, b>>
<1>1. /\ s \in Seq(S) /\ t \in Seq(S) /\ u \in Seq(S)
      /\ Len(s) = 1 /\ Len(t) = 1 /\ Len(u) = 2
      /\ s[1] = a /\ t[1] = b /\ u[1] = a /\ u[2] = b
  OBVIOUS
<1> HIDE DEF s, t, u
<1>2. s \o t \in Seq(S) /\ Len(s \o t) = 2 /\ (s \o t)[1] = a /\ (s \o t)[2] = b
  BY <1>1, ConcatProperties
<1>3. s \o t = u
  BY <1>1, <1>2, SeqEqual
<1> QED
  BY <1>3 DEF s, t, u

\* A deleted loss is forgotten.
LEMMA ForgetsKeeps == ASSUME MemoryInv, NEW t \in Trader, Forgets(t) PROVE MemoryInv'
<1> DEFINE mine == book["runtime"][t]
           ours == book["runtime"][All]
           undo(o) == IF TakesBack(o)
                      THEN <<Upsert(o, book["runtime"][o] - 1, TRUE)>> ELSE <<>>
<1>1. /\ up["runtime"] = "running" /\ sends = <<>> /\ deleted[t] < lost[t]
      /\ deleted' = [deleted EXCEPT ![t] = @ + 1]
      /\ book' = [book EXCEPT !["runtime"] =
                      [o \in Owner |-> IF o \in {t, All} /\ TakesBack(o)
                                       THEN book["runtime"][o] - 1 ELSE @[o]]]
      /\ sends' = undo(t) \o undo(All)
      /\ stuck' = (IF TakesBack(t) THEN stuck ELSE stuck + 1)
      /\ lost' = lost /\ page' = page /\ up' = up
  BY DEF Forgets, Ready
<1>2. MemoryTypes /\ All \notin Trader /\ t \in Owner /\ All \in Owner
  BY TraderAssumption DEF MemoryInv, Owner
<1>3. mine \in Nat /\ ours \in Nat /\ (TakesBack(t) <=> mine > 0)
      /\ (TakesBack(All) <=> ours > 0)
  BY <1>2 DEF MemoryTypes, Where, TakesBack
<1>4. /\ book'["runtime"][t] = (IF mine > 0 THEN mine - 1 ELSE mine)
      /\ book'["runtime"][All] = (IF ours > 0 THEN ours - 1 ELSE ours)
      /\ \A o \in Trader \ {t} : book'["runtime"][o] = book["runtime"][o]
      /\ book' \in [Where -> [Owner -> Nat]]
  <2> DEFINE new == [o \in Owner |-> IF o \in {t, All} /\ TakesBack(o)
                                     THEN book["runtime"][o] - 1 ELSE book["runtime"][o]]
  <2>1. book \in [Where -> [Owner -> Nat]] /\ "runtime" \in Where
    BY <1>2 DEF MemoryTypes, Where
  <2>2. new \in [Owner -> Nat]
    BY <2>1 DEF TakesBack
  <2>3. book' = [book EXCEPT !["runtime"] = new]
    BY <1>1, <2>1
  <2>4. /\ new[t] = (IF mine > 0 THEN mine - 1 ELSE mine)
        /\ new[All] = (IF ours > 0 THEN ours - 1 ELSE ours)
        /\ \A o \in Trader \ {t} : new[o] = book["runtime"][o]
    BY <1>2, <1>3 DEF Owner
  <2> HIDE DEF new
  <2> QED
    BY <2>1, <2>2, <2>3, <2>4
<1>5. /\ sends' \in Seq(Upserts)
      /\ mine > 0 => /\ sends' # <<>> /\ Head(sends') = Upsert(t, mine - 1, TRUE)
                     /\ Tail(sends') = <<>> \/ /\ Head(Tail(sends')).owner = All
                                               /\ Tail(Tail(sends')) = <<>>
      /\ ~(mine > 0) => sends' = <<>> \/ /\ Head(sends').owner = All
                                          /\ Tail(sends') = <<>>
  <2> DEFINE first == Upsert(t, mine - 1, TRUE)
             second == Upsert(All, ours - 1, TRUE)
  <2>1. undo(t) = IF mine > 0 THEN <<first>> ELSE <<>>
    BY <1>3
  <2>2. undo(All) = IF ours > 0 THEN <<second>> ELSE <<>>
    BY <1>3
  <2>3. (mine > 0 => first \in Upserts) /\ (ours > 0 => second \in Upserts)
        /\ second.owner = All
    BY <1>2, <1>3 DEF Upsert, Upserts
  <2> HIDE DEF first, second, undo, mine, ours
  <2>4. CASE mine > 0 /\ ours > 0
    <3>1. sends' = <<first, second>>
      BY <1>1, <2>1, <2>2, <2>3, <2>4, OneAndOne
    <3>2. /\ sends' \in Seq(Upserts) /\ sends' # <<>> /\ Head(sends') = first
          /\ Head(Tail(sends')) = second /\ Tail(Tail(sends')) = <<>>
      BY <2>3, <2>4, <3>1
    <3> QED
      BY <2>3, <2>4, <3>2 DEF first
  <2>5. CASE mine > 0 /\ ~(ours > 0)
    <3>1. sends' = <<first>>
      BY <1>1, <2>1, <2>2, <2>5
    <3>2. /\ sends' \in Seq(Upserts) /\ sends' # <<>> /\ Head(sends') = first
          /\ Tail(sends') = <<>>
      BY <2>3, <2>5, <3>1
    <3> QED
      BY <2>5, <3>2 DEF first
  <2>6. CASE ~(mine > 0) /\ ours > 0
    <3>1. sends' = <<second>>
      BY <1>1, <2>1, <2>2, <2>6
    <3>2. /\ sends' \in Seq(Upserts) /\ Head(sends') = second /\ Tail(sends') = <<>>
      BY <2>3, <2>6, <3>1
    <3> QED
      BY <2>3, <2>6, <3>2
  <2>7. CASE ~(mine > 0) /\ ~(ours > 0)
    <3>1. sends' = <<>>
      BY <1>1, <2>1, <2>2, <2>7
    <3> QED
      BY <2>7, <3>1
  <2> QED
    BY <2>4, <2>5, <2>6, <2>7
<1>6. deleted' \in [Trader -> Nat] /\ deleted'[t] = deleted[t] + 1
      /\ \A o \in Trader \ {t} : deleted'[o] = deleted[o]
  BY <1>1, <1>2 DEF MemoryTypes
<1>7. stuck' = (IF mine > 0 THEN stuck ELSE stuck + 1) /\ stuck \in Nat
      /\ stuck' \in Nat
  BY <1>1, <1>2, <1>3 DEF MemoryTypes
<1>8. MemoryTypes'
  BY <1>1, <1>2, <1>4, <1>5, <1>6, <1>7 DEF MemoryTypes
<1> HIDE DEF mine, ours, undo
<1>9. /\ Total(deleted') = Total(deleted) + 1
      /\ Total(Held') = Total(Held) + Held'[t] - Held[t]
      /\ Total(Held) \in Int /\ Total(lost) \in Int /\ Total(deleted) \in Int
      /\ Held[t] = (IF page[t] > mine THEN page[t] ELSE mine)
      /\ Held'[t] = (IF page[t] > book'["runtime"][t] THEN page[t]
                     ELSE book'["runtime"][t])
      /\ page[t] \in Nat
  <2>1. \A o \in Trader \ {t} : /\ page'[o] = page[o] /\ lost'[o] = lost[o]
                                 /\ deleted'[o] = deleted[o]
                                 /\ book'["runtime"][o] = book["runtime"][o]
    BY <1>1, <1>4, <1>6
  <2>2. /\ Total(deleted') = Total(deleted) + deleted'[t] - deleted[t]
        /\ Total(Held') = Total(Held) + Held'[t] - Held[t]
        /\ Total(Held) \in Int /\ Total(lost) \in Int /\ Total(deleted) \in Int
        /\ Held[t] = (IF page[t] > book["runtime"][t] THEN page[t]
                      ELSE book["runtime"][t])
        /\ Held'[t] = (IF page'[t] > book'["runtime"][t] THEN page'[t]
                       ELSE book'["runtime"][t])
        /\ deleted[t] \in Nat /\ page[t] \in Nat
    BY <1>2, <1>8, <2>1, SumsMove
  <2> QED
    BY <1>1, <1>6, <2>2 DEF mine
<1>10. Founded = Total(lost) - Total(deleted) + stuck
       /\ Founded' = Total(lost) - Total(deleted') + stuck'
  BY <1>1 DEF Founded
<1>11. \A o \in Trader : deleted'[o] <= lost'[o]
  BY <1>1, <1>2, <1>6 DEF MemoryInv, MemoryTypes
<1>12. Founded' \in Nat
  <2>1. lost' \in [Trader -> Nat] /\ lost' = lost
    BY <1>1, <1>8 DEF MemoryTypes
  <2>2. Total(deleted') <= Total(lost)
    BY <1>6, <1>11, <2>1, DeletedWereLost
  <2> QED
    BY <1>7, <1>9, <1>10, <2>2
<1>13. book'["runtime"][All] <= Founded'
  <2>1. ours <= Founded
    BY DEF MemoryInv, ours
  <2> QED
    BY <1>3, <1>4, <1>7, <1>9, <1>10, <1>12, <2>1
<1>14. Total(Held') <= Founded' + ToUndo'
  <2>1. ToUndo = 0 /\ Total(Held) <= Founded
    <3>1. ToUndo = 0
      BY <1>1 DEF ToUndo, Undoes
    <3> QED
      BY <1>7, <1>9, <1>10, <3>1 DEF MemoryInv
  <2>2. ToUndo' \in {0, 1}
    BY DEF ToUndo
  <2>3. CASE mine > 0 /\ page[t] > mine - 1
    <3>1. Head(sends').owner = t /\ Head(sends').undoes /\ Head(sends').count = mine - 1
      BY <1>5, <2>3 DEF Upsert
    <3>2. ToUndo' = 1
      BY <1>1, <1>5, <2>3, <3>1 DEF ToUndo, Undoes
    <3>3. Held'[t] = page[t] /\ Held[t] = page[t]
      BY <1>3, <1>4, <1>9, <2>3
    <3> QED
      BY <1>7, <1>9, <1>10, <2>1, <2>3, <3>2, <3>3
  <2>4. CASE mine > 0 /\ ~(page[t] > mine - 1)
    <3>1. Held'[t] = mine - 1 /\ Held[t] = mine
      BY <1>3, <1>4, <1>9, <2>4
    <3> QED
      BY <1>3, <1>7, <1>9, <1>10, <2>1, <2>2, <2>4, <3>1
  <2>5. CASE ~(mine > 0)
    <3>1. Held'[t] = Held[t] /\ Held[t] \in Nat
      BY <1>3, <1>4, <1>9, <2>5
    <3> QED
      BY <1>7, <1>9, <1>10, <2>1, <2>2, <2>5, <3>1
  <2> QED
    BY <2>3, <2>4, <2>5
<1>15. SendsOfTheBook'
  <2>1. CASE mine > 0
    <3>1. Head(sends').owner = t /\ Head(sends').count = mine - 1
      BY <1>5, <2>1 DEF Upsert
    <3> QED
      BY <1>1, <1>4, <1>5, <2>1, <3>1 DEF SendsOfTheBook
  <2>2. CASE ~(mine > 0)
    BY <1>1, <1>2, <1>5, <2>2 DEF SendsOfTheBook
  <2> QED
    BY <2>1, <2>2
<1> QED
  BY <1>8, <1>11, <1>13, <1>14, <1>15 DEF MemoryInv

\* An upsert reaches the page.
LEMMA SendsKeeps == ASSUME MemoryInv, Sends PROVE MemoryInv'
<1> DEFINE owner == Head(sends).owner
           count == Head(sends).count
<1>1. /\ up["runtime"] = "running" /\ sends # <<>> /\ sends' = Tail(sends)
      /\ page' = [page EXCEPT ![owner] = count]
      /\ lost' = lost /\ deleted' = deleted /\ book' = book /\ up' = up
      /\ stuck' = stuck
  BY DEF Sends
<1>2. MemoryTypes /\ All \notin Trader /\ SendsOfTheBook
  BY TraderAssumption DEF MemoryInv
<1>3. Head(sends) \in Upserts /\ sends' \in Seq(Upserts)
  BY <1>1, <1>2 DEF MemoryTypes
<1>4. owner \in Owner /\ count \in Nat
  BY <1>3 DEF Upserts
<1>5. MemoryTypes'
  <2> HIDE DEF owner, count
  <2> QED
    BY <1>1, <1>2, <1>3, <1>4 DEF MemoryTypes
<1>6. SendsOfTheBook' /\ ToUndo' = 0
  <2>1. sends' = <<>> \/ (Head(sends').owner = All /\ Tail(sends') = <<>>)
    BY <1>1, <1>2 DEF SendsOfTheBook
  <2>2. SendsOfTheBook'
    BY <1>1, <1>2, <2>1 DEF SendsOfTheBook
  <2>3. ToUndo' = 0
    BY <1>2, <2>1 DEF ToUndo, Undoes
  <2> QED
    BY <2>2, <2>3
<1>7. Founded' = Founded
  BY <1>1 DEF Founded
<1>8. book'["runtime"][All] <= Founded' /\ \A o \in Trader : deleted'[o] <= lost'[o]
  BY <1>1, <1>7 DEF MemoryInv
<1>9. Founded \in Int /\ Total(Held) \in Int
  BY <1>2, FoundedType
<1>10. Total(Held') <= Founded' + ToUndo'
  <2>1. CASE owner \in Trader
    <3>1. count = book["runtime"][owner]
      BY <1>1, <1>2, <2>1 DEF SendsOfTheBook
    <3>2. page'[owner] = count /\ \A o \in Trader \ {owner} : page'[o] = page[o]
      BY <1>1, <1>2, <1>4 DEF MemoryTypes
    <3> HIDE DEF owner, count
    <3>3. \A o \in Trader \ {owner} : /\ page'[o] = page[o] /\ lost'[o] = lost[o]
                                      /\ deleted'[o] = deleted[o]
                                      /\ book'["runtime"][o] = book["runtime"][o]
      BY <1>1, <3>2
    <3>4. /\ Total(Held') = Total(Held) + Held'[owner] - Held[owner]
          /\ Held[owner] = (IF page[owner] > book["runtime"][owner] THEN page[owner]
                            ELSE book["runtime"][owner])
          /\ Held'[owner] = (IF page'[owner] > book'["runtime"][owner] THEN page'[owner]
                             ELSE book'["runtime"][owner])
          /\ page[owner] \in Nat /\ book["runtime"][owner] \in Nat
      BY <1>2, <1>5, <2>1, <3>3, SumsMove
    <3>5. Held'[owner] = count
      BY <1>1, <3>1, <3>2, <3>4
    <3>6. Total(Held) <= Founded + ToUndo
      BY DEF MemoryInv
    <3>7. CASE page[owner] > count
      <4>1. Held[owner] >= count + 1 /\ Held[owner] \in Nat
        BY <1>4, <3>1, <3>4, <3>7
      <4>2. ToUndo \in {0, 1}
        BY DEF ToUndo
      <4> QED
        BY <1>4, <1>6, <1>7, <1>9, <3>4, <3>5, <3>6, <4>1, <4>2
    <3>8. CASE ~(page[owner] > count)
      <4>1. Held[owner] = count
        BY <3>1, <3>4, <3>8
      <4>2. ToUndo = 0
        BY <3>8 DEF ToUndo, Undoes, owner, count
      <4> QED
        BY <1>4, <1>6, <1>7, <1>9, <3>4, <3>5, <3>6, <4>1, <4>2
    <3> QED
      BY <3>7, <3>8
  <2>2. CASE owner \notin Trader
    <3>1. ToUndo = 0
      BY <2>2 DEF ToUndo, Undoes
    <3>2. \A o \in Trader : page'[o] = page[o]
      BY <1>1, <1>2, <2>2 DEF MemoryTypes, Owner
    <3>3. Held' = Held
      BY <1>1, <3>2 DEF Held, HeldOf
    <3> QED
      BY <1>6, <1>7, <3>1, <3>3 DEF MemoryInv
  <2> QED
    BY <2>1, <2>2
<1> QED
  BY <1>5, <1>6, <1>8, <1>10 DEF MemoryInv

\* An upsert is lost.
LEMMA SendFailsKeeps == ASSUME MemoryInv, SendFails PROVE MemoryInv'
<1>1. /\ up["runtime"] = "running" /\ sends # <<>> /\ sends' = Tail(sends)
      /\ page' = page /\ lost' = lost /\ deleted' = deleted /\ book' = book /\ up' = up
      /\ stuck' = (IF 1 \in Undoing(sends) THEN stuck + 1 ELSE stuck)
  BY DEF SendFails
<1>2. MemoryTypes /\ All \notin Trader /\ SendsOfTheBook
  BY TraderAssumption DEF MemoryInv
<1>3. MemoryTypes'
  BY <1>1, <1>2 DEF MemoryTypes
<1>4. SendsOfTheBook' /\ ToUndo' = 0
  <2>1. sends' = <<>> \/ (Head(sends').owner = All /\ Tail(sends') = <<>>)
    BY <1>1, <1>2 DEF SendsOfTheBook
  <2>2. SendsOfTheBook'
    BY <1>1, <1>2, <2>1 DEF SendsOfTheBook
  <2>3. ToUndo' = 0
    BY <1>2, <2>1 DEF ToUndo, Undoes
  <2> QED
    BY <2>2, <2>3
<1>5. Undoes => 1 \in Undoing(sends)
  BY <1>1, <1>2 DEF Undoes, Undoing, MemoryTypes
<1>6. stuck \in Nat /\ stuck' >= stuck + ToUndo /\ stuck' >= stuck /\ stuck' \in Nat
  BY <1>1, <1>2, <1>5 DEF MemoryTypes, ToUndo
<1>7. Total(Held) \in Int /\ Total(lost) \in Int /\ Total(deleted) \in Int
      /\ book["runtime"][All] \in Nat
  <2>1. Held = HeldOf(page, book)
    BY DEF Held
  <2> QED
    BY <1>2, <2>1, SumsType DEF MemoryTypes
<1>8. Founded = Total(lost) - Total(deleted) + stuck
      /\ Founded' = Total(lost) - Total(deleted) + stuck'
  BY <1>1 DEF Founded
<1>9. Held' = Held /\ ToUndo \in {0, 1}
  BY <1>1 DEF Held, ToUndo
<1>10. Total(Held') <= Founded' + ToUndo'
  <2>1. Total(Held) <= Founded + ToUndo
    BY DEF MemoryInv
  <2> QED
    BY <1>4, <1>6, <1>7, <1>8, <1>9, <2>1
<1>11. book'["runtime"][All] <= Founded'
  <2>1. book["runtime"][All] <= Founded
    BY DEF MemoryInv
  <2>2. book' = book /\ stuck' >= stuck /\ stuck \in Nat /\ stuck' \in Nat
    BY <1>1, <1>6
  <2> HIDE DEF Founded
  <2>3. Founded' >= Founded /\ Founded \in Int /\ Founded' \in Int
    BY <1>7, <1>8, <2>2
  <2> QED
    BY <1>7, <2>1, <2>2, <2>3
<1>12. \A o \in Trader : deleted'[o] <= lost'[o]
  BY <1>1 DEF MemoryInv
<1> QED
  BY <1>3, <1>4, <1>10, <1>11, <1>12 DEF MemoryInv

\* A process starts and reads the page.
LEMMA StartsKeeps == ASSUME MemoryInv, NEW w \in Where, Starts(w) PROVE MemoryInv'
<1>1. /\ up' = [up EXCEPT ![w] = "summing"] /\ book' = [book EXCEPT ![w] = Blank]
      /\ sends' = (IF w = "runtime" THEN <<>> ELSE sends)
      /\ stuck' = (IF w = "runtime" /\ Undoing(sends) # {} THEN stuck + 1 ELSE stuck)
      /\ page' = page /\ lost' = lost /\ deleted' = deleted
  BY DEF Starts
<1>2. MemoryTypes /\ All \notin Trader /\ SendsOfTheBook
  BY TraderAssumption DEF MemoryInv
<1>3. Blank \in [Owner -> Nat] /\ book' \in [Where -> [Owner -> Nat]]
  <2>1. Blank \in [Owner -> Nat]
    BY DEF Blank
  <2> QED
    BY <1>1, <1>2, <2>1 DEF MemoryTypes
<1>4. up' \in [Where -> {"summing", "clearing", "posting", "running"}]
      /\ sends' \in Seq(Upserts) /\ stuck' \in Nat
  BY <1>1, <1>2 DEF MemoryTypes
<1>5. MemoryTypes'
  BY <1>1, <1>2, <1>3, <1>4 DEF MemoryTypes
<1>6. CASE w # "runtime"
  <2>1. book'["runtime"] = book["runtime"] /\ up'["runtime"] = up["runtime"]
    BY <1>1, <1>2, <1>6 DEF MemoryTypes, Where
  <2> QED
    BY <1>1, <1>2, <1>5, <1>6, <2>1, RestKeepsMemory DEF SendsOfTheBook
<1>7. CASE w = "runtime"
  <2>1. sends' = <<>> /\ ToUndo' = 0 /\ SendsOfTheBook'
    BY <1>1, <1>7 DEF ToUndo, Undoes, SendsOfTheBook
  <2>2. book'["runtime"] = Blank
    BY <1>1, <1>2, <1>7 DEF MemoryTypes, Where
  <2>3. Undoes => Undoing(sends) # {}
    <3>1. Undoes => 1 \in Undoing(sends)
      BY <1>2 DEF Undoes, Undoing, MemoryTypes
    <3> QED
      BY <3>1
  <2>4. stuck \in Nat /\ stuck' >= stuck + ToUndo /\ stuck' >= stuck /\ ToUndo \in {0, 1}
    BY <1>1, <1>2, <1>7, <2>3 DEF MemoryTypes, ToUndo
  <2>5. /\ Total(Held) \in Int /\ Total(lost) \in Int /\ Total(deleted) \in Int
        /\ Total(Held') \in Int /\ Counts(Held) /\ Counts(Held')
        /\ book["runtime"][All] \in Nat
        /\ \A t \in Trader : page[t] \in Nat /\ book["runtime"][t] \in Nat
    <3>1. Held = HeldOf(page, book) /\ Held' = HeldOf(page', book')
      BY DEF Held
    <3> QED
      BY <1>2, <1>5, <3>1, SumsType DEF MemoryTypes
  <2>6. ASSUME NEW t \in Trader PROVE Held'[t] <= Held[t]
    <3>1. book'["runtime"][t] = 0
      BY <2>2 DEF Blank, Owner
    <3> QED
      BY <1>1, <2>5, <3>1 DEF Held, HeldOf
  <2>7. Total(Held') <= Total(Held)
    BY <2>5, <2>6, TotalGrows
  <2>8. Founded = Total(lost) - Total(deleted) + stuck
        /\ Founded' = Total(lost) - Total(deleted) + stuck'
    BY <1>1 DEF Founded
  <2>9. Total(Held') <= Founded' + ToUndo'
    <3>1. Total(Held) <= Founded + ToUndo
      BY DEF MemoryInv
    <3> QED
      BY <1>4, <2>1, <2>4, <2>5, <2>7, <2>8, <3>1
  <2>10. book'["runtime"][All] <= Founded'
    <3>1. book["runtime"][All] <= Founded
      BY DEF MemoryInv
    <3>2. book'["runtime"][All] = 0
      BY <2>2 DEF Blank, Owner
    <3> QED
      BY <1>4, <2>4, <2>5, <2>8, <3>1, <3>2
  <2>11. \A o \in Trader : deleted'[o] <= lost'[o]
    BY <1>1 DEF MemoryInv
  <2> QED
    BY <1>5, <2>1, <2>9, <2>10, <2>11 DEF MemoryInv
<1> QED
  BY <1>6, <1>7

\* A process sums the pages of the clients.
LEMMA UnifiesKeeps == ASSUME MemoryInv, NEW w \in Where, Unifies(w) PROVE MemoryInv'
<1>1. /\ up[w] = "summing" /\ book' = [book EXCEPT ![w][All] = Total(page)]
      /\ up' = [up EXCEPT ![w] = "clearing"]
      /\ page' = page /\ lost' = lost /\ deleted' = deleted /\ sends' = sends
      /\ stuck' = stuck
  BY DEF Unifies, Sum
<1>2. MemoryTypes /\ All \notin Trader /\ SendsOfTheBook
  BY TraderAssumption DEF MemoryInv
<1>3. Total(page) \in Nat
  <2> DEFINE none == [t \in Trader |-> 0]
  <2>1. Counts(page) /\ Total(page) \in Int /\ \A t \in Trader : page[t] \in Nat
    BY <1>2, SumsType DEF MemoryTypes
  <2>2. Total(none) = 0
    BY TotalOfNothing
  <2>3. Total(none) <= Total(page)
    BY <2>1, TotalGrows DEF Counts
  <2> QED
    BY <2>1, <2>2, <2>3
<1>4. book' \in [Where -> [Owner -> Nat]] /\ All \in Owner
      /\ \A t \in Trader : book'["runtime"][t] = book["runtime"][t]
  BY <1>1, <1>2, <1>3 DEF MemoryTypes, Owner, Where
<1>5. up' \in [Where -> {"summing", "clearing", "posting", "running"}]
  BY <1>1, <1>2 DEF MemoryTypes
<1>6. MemoryTypes'
  BY <1>1, <1>2, <1>4, <1>5 DEF MemoryTypes
<1>7. CASE w # "runtime"
  <2>1. book'["runtime"] = book["runtime"] /\ up'["runtime"] = up["runtime"]
    BY <1>1, <1>2, <1>7 DEF MemoryTypes, Where
  <2> QED
    BY <1>1, <1>2, <1>6, <2>1, RestKeepsMemory DEF SendsOfTheBook
<1>8. CASE w = "runtime"
  <2>1. sends = <<>> /\ ToUndo = 0 /\ ToUndo' = 0 /\ SendsOfTheBook'
    BY <1>1, <1>2, <1>8 DEF ToUndo, Undoes, SendsOfTheBook
  <2>2. Held' = Held
    BY <1>1, <1>4 DEF Held, HeldOf
  <2>3. Founded' = Founded
    BY <1>1 DEF Founded
  <2>4. book'["runtime"][All] = Total(page)
    BY <1>1, <1>2, <1>4, <1>8 DEF MemoryTypes, Where
  <2>5. /\ Counts(page) /\ Counts(Held) /\ Total(Held) \in Int /\ Total(page) \in Int
        /\ Founded \in Int
        /\ \A t \in Trader : page[t] \in Nat /\ book["runtime"][t] \in Nat
    <3>1. Held = HeldOf(page, book)
      BY DEF Held
    <3> QED
      BY <1>2, <3>1, SumsType, FoundedType DEF MemoryTypes
  <2>6. \A t \in Trader : page[t] <= Held[t]
    BY <2>5 DEF Held, HeldOf
  <2>7. Total(page) <= Total(Held)
    BY <2>5, <2>6, TotalGrows
  <2>8. Total(Held) <= Founded
    <3>1. Total(Held) <= Founded + ToUndo
      BY DEF MemoryInv
    <3> QED
      BY <2>1, <2>5, <3>1
  <2>9. book'["runtime"][All] <= Founded'
    BY <2>3, <2>4, <2>5, <2>7, <2>8
  <2>10. Total(Held') <= Founded' + ToUndo'
    BY <2>1, <2>2, <2>3, <2>5, <2>8
  <2>11. \A o \in Trader : deleted'[o] <= lost'[o]
    BY <1>1 DEF MemoryInv
  <2> QED
    BY <1>6, <2>1, <2>9, <2>10, <2>11 DEF MemoryInv
<1> QED
  BY <1>7, <1>8

\* The common page's row, and how far a process is, concern no client's page.
LEMMA ReplacesKeep ==
  ASSUME MemoryInv, NEW w \in Where,
         UnifiesNothing(w) \/ Clears(w) \/ Posts(w) \/ ReplaceFails(w)
  PROVE  MemoryInv'
<1>1. /\ up[w] # "running"
      /\ \E n \in Nat, u \in {"summing", "clearing", "posting", "running"} :
             /\ page' = page \/ page' = [page EXCEPT ![All] = n]
             /\ up' = [up EXCEPT ![w] = u]
      /\ lost' = lost /\ deleted' = deleted /\ book' = book /\ sends' = sends
      /\ stuck' = stuck
  <2>1. book[w][All] \in Nat
    BY DEF MemoryInv, MemoryTypes, Owner
  <2>2. CASE UnifiesNothing(w)
    BY <2>2 DEF UnifiesNothing
  <2>3. CASE Clears(w)
    BY <2>3 DEF Clears
  <2>4. CASE Posts(w)
    BY <2>1, <2>4 DEF Posts
  <2>5. CASE ReplaceFails(w)
    BY <2>5 DEF ReplaceFails
  <2> QED
    BY <2>2, <2>3, <2>4, <2>5
<1>2. MemoryTypes /\ All \notin Trader /\ SendsOfTheBook
  BY TraderAssumption DEF MemoryInv
<1>3. page' \in [Owner -> Nat] /\ \A t \in Trader : page'[t] = page[t]
  BY <1>1, <1>2 DEF MemoryTypes, Owner
<1>4. up' \in [Where -> {"summing", "clearing", "posting", "running"}]
      /\ (w # "runtime" => up'["runtime"] = up["runtime"])
  BY <1>1, <1>2 DEF MemoryTypes, Where
<1>5. MemoryTypes'
  BY <1>1, <1>2, <1>3, <1>4 DEF MemoryTypes
<1>6. up'["runtime"] # "running" => sends = <<>>
  BY <1>1, <1>2, <1>4 DEF SendsOfTheBook
<1> QED
  BY <1>1, <1>3, <1>5, <1>6, RestKeepsMemory

\* Every step keeps MemoryInv.
LEMMA MemoryKept == MemoryInv /\ [MemoryNext]_memoryVars => MemoryInv'
<1> SUFFICES ASSUME MemoryInv, [MemoryNext]_memoryVars PROVE MemoryInv'
  OBVIOUS
<1>1. ASSUME NEW t \in Trader, Records(t) \/ Forgets(t) PROVE MemoryInv'
  BY <1>1, RecordsKeeps, ForgetsKeeps
<1>2. CASE Sends \/ SendFails
  BY <1>2, SendsKeeps, SendFailsKeeps
<1>3. ASSUME NEW w \in Where, Starts(w) \/ Unifies(w) PROVE MemoryInv'
  BY <1>3, StartsKeeps, UnifiesKeeps
<1>4. ASSUME NEW w \in Where,
             UnifiesNothing(w) \/ Clears(w) \/ Posts(w) \/ ReplaceFails(w)
      PROVE  MemoryInv'
  BY <1>4, ReplacesKeep
<1>5. CASE UNCHANGED memoryVars
  <2>1. /\ page' = page /\ up' = up /\ lost' = lost /\ deleted' = deleted
        /\ book' = book /\ sends' = sends /\ stuck' = stuck
    BY <1>5 DEF memoryVars
  <2>2. MemoryTypes' /\ (up'["runtime"] # "running" => sends = <<>>)
    BY <2>1 DEF MemoryInv, MemoryTypes, SendsOfTheBook
  <2> QED
    BY <2>1, <2>2, RestKeepsMemory
<1> QED
  BY <1>1, <1>2, <1>3, <1>4, <1>5 DEF MemoryNext

\* For any number of clients, losses, deletions, restarts and failures: a pattern is
\* vetoed on results that happened and are still there, each counted once, but for
\* the deletions that could not be undone.
THEOREM VetoesAreFounded == MemorySpec => []VetoFounded
<1>1. MemoryInv => VetoFounded
  <2> SUFFICES ASSUME MemoryInv, Vetoes
               PROVE  Total(lost) - Total(deleted) + stuck >= MinSamples
    BY DEF VetoFounded
  <2>1. book["runtime"][All] >= MinSamples /\ book["runtime"][All] <= Founded
    BY DEF Vetoes, MemoryInv
  <2>2. book["runtime"][All] \in Nat /\ Founded \in Int /\ MinSamples \in Nat
    BY FoundedType, TraderAssumption DEF MemoryInv
  <2> QED
    BY <2>1, <2>2 DEF Founded
<1> QED
  BY <1>1, MemoryAtFirst, MemoryKept, PTL DEF MemorySpec

-----------------------------------------------------------------------------
(* Every part keeps its types, whichever of them moves.                    *)

\* The runtime queues, saves and drops its writes within their bounds.
LEMMA TradeTypeStep == ASSUME TradeTypeOK, [TradeNext]_tradeVars PROVE TradeTypeOK'
<1>0. /\ jobs \in [Last -> 0..MaxJobs] /\ MaxJobs \in Nat /\ MaxRestart \in Nat
      /\ last \in Last /\ stateRow \in Last /\ "removed" \in Last /\ "other" \in Last
      /\ Idle \in {Idle} \cup (Last \X {"state saved", "cleared"})
  BY JobAssumption DEF TradeTypeOK, Last
<1>a. \A l \in Last, n \in 0..MaxJobs : [jobs EXCEPT ![l] = n] \in [Last -> 0..MaxJobs]
  BY <1>0
<1>b. \A l \in Last : /\ jobs[l] < MaxJobs => jobs[l] + 1 \in 0..MaxJobs
                      /\ jobs[l] > 0 => jobs[l] - 1 \in 0..MaxJobs
  BY <1>0
<1>1. CASE UNCHANGED tradeVars
  BY <1>1 DEF tradeVars, TradeTypeOK
<1>2. CASE JobQueued
  <2>1. jobs' \in [Last -> 0..MaxJobs]
    BY <1>2, <1>0, <1>a, <1>b DEF JobQueued
  <2> QED  BY <1>2, <2>1 DEF JobQueued, TradeTypeOK
<1>3. ASSUME NEW l \in Last, StateSaved(l) PROVE TradeTypeOK'
  <2>1. jobs' \in [Last -> 0..MaxJobs]
    BY <1>3, <1>a, <1>b DEF StateSaved
  <2>2. writing' \in Last \X {"state saved", "cleared"} /\ stateRow' \in Last
    BY <1>3 DEF StateSaved
  <2> QED  BY <1>3, <2>1, <2>2 DEF StateSaved, TradeTypeOK
<1>4. CASE TradeForMirror
  <2>0. Idle[2] = "idle"
    BY DEF Idle
  <2>1. writing # Idle
    BY <1>4, <2>0 DEF TradeForMirror
  <2>2. writing[1] \in Last
    BY <2>1 DEF TradeTypeOK
  <2>3. writing' \in {Idle} \cup (Last \X {"state saved", "cleared"})
    BY <1>4, <2>2 DEF TradeForMirror
  <2> QED  BY <1>4, <2>3 DEF TradeForMirror, TradeTypeOK
<1>5. CASE TradeSaved
  BY <1>0, <1>5 DEF TradeSaved, TradeTypeOK
<1>6. CASE NextTrade
  BY <1>0, <1>6 DEF NextTrade, TradeTypeOK
<1>7. CASE RuntimeForgets
  <2>1. last' \in Last /\ told' = FALSE
    BY <1>0, <1>7 DEF RuntimeForgets
  <2>2. jobs' = [jobs EXCEPT ![last'] = jobs[last'] + 1] /\ jobs[last'] < MaxJobs
    BY <1>7 DEF RuntimeForgets
  <2>3. jobs' \in [Last -> 0..MaxJobs]
    BY <1>a, <1>b, <2>1, <2>2
  <2> QED  BY <1>7, <2>1, <2>3 DEF RuntimeForgets, TradeTypeOK
<1>8. CASE RuntimeRestartsFromRow
  <2>1. restarts' \in 0..MaxRestart
    <3>1. restarts \in 0..MaxRestart /\ restarts < MaxRestart /\ restarts' = restarts + 1
      BY <1>8 DEF RuntimeRestartsFromRow, TradeTypeOK
    <3> QED  BY <1>0, <3>1
  <2>2. jobs' \in [Last -> 0..MaxJobs]
    BY <1>0, <1>8 DEF RuntimeRestartsFromRow
  <2> QED  BY <1>0, <1>8, <2>1, <2>2 DEF RuntimeRestartsFromRow, TradeTypeOK
<1>9. CASE ListingDeleted
  BY <1>9 DEF ListingDeleted, TradeTypeOK
<1>10. CASE OrderMarked
  BY <1>10 DEF OrderMarked, TradeTypeOK
<1>11. CASE MirrorDeleted
  BY <1>11 DEF MirrorDeleted, TradeTypeOK
<1>12. CASE RemovalSent
  BY <1>12 DEF RemovalSent, TradeTypeOK
<1> QED  BY <1>1, <1>2, <1>3, <1>4, <1>5, <1>6, <1>7, <1>8, <1>9, <1>10,
            <1>11, <1>12 DEF TradeNext

\* What BuyTypeOK says and the invariants of a purchase do not need.
SlipTypes ==
    /\ revenue \subseteq CaktoEvent
    /\ outbox \in {"none", "first access", "existing account"}
    /\ trial \in {"none", "scheduled", "read"}
    /\ resends \in Nat /\ fails \in Nat /\ resends + fails <= MaxSlip

\* Repetitions and failures stay within their common bound.
LEMMA SlipTypeStep ==
    ASSUME BuyTypes, SlipTypes, [BuyNext]_buyVars
    PROVE  SlipTypes'
<1> USE DEF operator, books, counts
<1>0. MaxSlip \in Nat /\ resends \in Nat /\ fails \in Nat /\ resends + fails <= MaxSlip
  BY SlipAssumption DEF SlipTypes
<1>1. CASE UNCHANGED buyVars
  BY <1>1 DEF buyVars, SlipTypes
<1>2. ASSUME NEW e \in CaktoEvent, EventHappens(e) PROVE SlipTypes'
  BY <1>2 DEF EventHappens, SlipTypes
<1>3. ASSUME NEW h \in Handler, NEW e \in CaktoEvent, EventArrives(h, e) PROVE SlipTypes'
  <2>1. /\ resends' = resends \/ (resends + fails < MaxSlip /\ resends' = resends + 1)
        /\ UNCHANGED <<revenue, outbox, trial, fails>>
    BY <1>3 DEF EventArrives
  <2>2. resends' \in Nat /\ fails' \in Nat /\ resends' + fails' <= MaxSlip
    BY <1>0, <2>1
  <2> QED  BY <2>1, <2>2 DEF SlipTypes
<1>4. ASSUME NEW h \in Handler, AccountCreated(h) PROVE SlipTypes'
  BY <1>4 DEF AccountCreated, SlipTypes
<1>5. ASSUME NEW h \in Handler, LooksAgain(h) PROVE SlipTypes'
  BY <1>5 DEF LooksAgain, SlipTypes
<1>6. ASSUME NEW h \in Handler, ProfileCreated(h) PROVE SlipTypes'
  BY <1>6 DEF ProfileCreated, SlipTypes
<1>7. ASSUME NEW h \in Handler, AccessGivenEarly(h) PROVE SlipTypes'
  BY <1>7 DEF AccessGivenEarly, SlipTypes
<1>8. ASSUME NEW h \in Handler, LedgerWritten(h) PROVE SlipTypes'
  BY <1>8 DEF LedgerWritten, SlipTypes
<1>9. ASSUME NEW h \in Handler, AccessApplied(h) PROVE SlipTypes'
  BY <1>9 DEF AccessApplied, SlipTypes
<1>10. ASSUME NEW h \in Handler, RevenueWritten(h) PROVE SlipTypes'
  <2>1. handling[h].event \in CaktoEvent
    BY DEF BuyTypes, Work
  <2>2. revenue' \subseteq CaktoEvent
    BY <1>10, <2>1 DEF RevenueWritten, SlipTypes
  <2> QED  BY <1>10, <2>2 DEF RevenueWritten, SlipTypes
<1>11. ASSUME NEW h \in Handler, MessageQueued(h) PROVE SlipTypes'
  <2>1. outbox' \in {"none", "first access", "existing account"}
    BY <1>11 DEF MessageQueued, Message, SlipTypes
  <2> QED  BY <1>11, <2>1 DEF MessageQueued, SlipTypes
<1>12. ASSUME NEW h \in Handler, HandlerFails(h) PROVE SlipTypes'
  <2>1. /\ resends + fails < MaxSlip /\ fails' = fails + 1
        /\ UNCHANGED <<revenue, outbox, trial, resends>>
    BY <1>12 DEF HandlerFails
  <2>2. resends' \in Nat /\ fails' \in Nat /\ resends' + fails' <= MaxSlip
    BY <1>0, <2>1
  <2> QED  BY <2>1, <2>2 DEF SlipTypes
<1>13. CASE LeadListed
  BY <1>13 DEF LeadListed, SlipTypes
<1>14. CASE LeadApproved
  BY <1>14 DEF LeadApproved, SlipTypes
<1>15. CASE TrialRead
  BY <1>15 DEF TrialRead, SlipTypes
<1>16. CASE TrialEnded
  BY <1>16 DEF TrialEnded, SlipTypes
<1> QED
  BY <1>1, <1>2, <1>3, <1>4, <1>5, <1>6, <1>7, <1>8, <1>9, <1>10, <1>11, <1>12,
     <1>13, <1>14, <1>15, <1>16 DEF BuyNext

\* The types of a purchase, from its invariants.
LEMMA BuyTypesHold == ASSUME BuyerInv, WholeInv, SlipTypes PROVE BuyTypeOK
<1>1. BuyTypes /\ WholeTypes /\ unanswered \subseteq happened
  BY DEF BuyerInv, WholeInv, AllFounded
<1>2. resends \in 0..MaxSlip /\ fails \in 0..MaxSlip
  <2>1. MaxSlip \in Nat /\ resends \in Nat /\ fails \in Nat /\ resends + fails <= MaxSlip
    BY SlipAssumption DEF SlipTypes
  <2> QED  BY <2>1
<1>3. profile \in Profile /\ handling \in [Handler -> Work] /\ seen \in BOOLEAN
      /\ happened \subseteq CaktoEvent
      /\ {newcomer, downgraded, regranted, broken, crowded} \subseteq BOOLEAN
  BY <1>1 DEF BuyTypes, WholeTypes
<1>4. ledger \in [CaktoEvent -> {"none", "anonymous", "of the buyer"}]
  BY <1>1 DEF WholeTypes
<1> QED  BY <1>1, <1>2, <1>3, <1>4 DEF BuyTypeOK, SlipTypes, Work

\* The sets that the fields of a record at a desk are from.
DeskStep == {"idle", "account", "read", "save", "ban", "saved"}
DeskOp == {"create", "register", "update", "approve", "delete"}
DeskRoute == {"clients", "users", "public"}
Asked == [kind : AccountKind \cup {Same}, pay : Pay \cup {Same}, days : BOOLEAN]

\* A row, over any sets of its values.
RowOver(flags, kinds, pays, terms, approvals) ==
    [there : flags, kind : kinds, pay : pays, ends : terms, granted : flags,
     approval : approvals, deleted : flags]

\* What is at a desk, over any sets of its values.
DeskOver(steps, ops1, routes, recs, asks) ==
    [step : steps, op : ops1, route : routes, rec : recs, ask : asks]

\* What is to be saved is a row; what is to be computed from is complete.
Carries(at) ==
    /\ at.step \in {"account", "save"} => at.rec \in Record({})
    /\ at.step = "read" => at.ask.kind \in AccountKind /\ at.ask.pay \in Pay

\* The types of the row, of the requests at the desks and of their bounds.
DeskTypes ==
    /\ row \in Record({}) /\ user \in {"none", "known", "banned"}
    /\ desk \in [Desk -> AtDesk] /\ \A d \in Desk : Carries(desk[d])
    /\ ops \in 0..MaxOps /\ others \in 0..MaxOther /\ owed \in BOOLEAN

\* The rows of the model are such rows.
LEMMA RowsAre ==
    ASSUME NEW m
    PROVE  Record(m) = RowOver(BOOLEAN, AccountKind \cup m, Pay \cup m,
                               {"none", "ahead", "past"}, {"pending", "approved"})
BY DEF Record, RowOver

\* A desk whose record is replaced.
LEMMA DeskPut ==
    ASSUME desk \in [Desk -> AtDesk], \A d \in Desk : Carries(desk[d]),
           NEW d \in Desk, NEW at \in AtDesk, Carries(at),
           desk' = [desk EXCEPT ![d] = at]
    PROVE  desk' \in [Desk -> AtDesk] /\ \A o \in Desk : Carries(desk'[o])
<1>1. desk' \in [Desk -> AtDesk]
  OBVIOUS
<1>2. \A o \in Desk : desk'[o] = IF o = d THEN at ELSE desk[o]
  OBVIOUS
<1> QED  BY <1>1, <1>2

\* A change of what is asked.
LEMMA AskChanges ==
    ASSUME NEW kinds, NEW pays, NEW flags, NEW a \in [kind : kinds, pay : pays, days : flags],
           NEW k \in kinds, NEW p \in pays, NEW b \in flags
    PROVE  /\ [a EXCEPT !.pay = p] \in [kind : kinds, pay : pays, days : flags]
           /\ [a EXCEPT !.kind = k, !.pay = p] \in [kind : kinds, pay : pays, days : flags]
           /\ [a EXCEPT !.days = b] \in [kind : kinds, pay : pays, days : flags]
OBVIOUS

\* Such a record.
LEMMA DeskIs ==
    /\ AtDesk = DeskOver(DeskStep, DeskOp, DeskRoute, Record({Same}), Asked)
    /\ Record({}) \subseteq Record({Same})
    /\ NoRow \in Record({}) /\ NoAsk \in Asked /\ Ask \subseteq Asked
    /\ IdleDesk \in AtDesk /\ Carries(IdleDesk)
<1>1. AtDesk = DeskOver(DeskStep, DeskOp, DeskRoute, Record({Same}), Asked)
  BY DEF AtDesk, DeskOver, DeskStep, DeskOp, DeskRoute, Asked
<1>2. Record({}) \subseteq Record({Same})
  BY DEF Record
<1>3. NoRow \in Record({})
  BY DEF Record, NoRow, AccountKind, Pay
<1>4. NoAsk \in Asked
  BY DEF NoAsk, Asked
<1>5. Ask \subseteq Asked
  <2>1. ASSUME NEW k \in AccountKind \cup {Same}, NEW p \in Pay \cup {Same}, NEW b \in BOOLEAN
        PROVE  [kind |-> k, pay |-> p, days |-> b] \in Asked
    BY <2>1 DEF Asked
  <2>2. "trial" \in AccountKind /\ "client" \in AccountKind /\ {"paid", "revoked", "free"} \subseteq Pay
    BY DEF AccountKind, Pay
  <2>3. \A k \in AccountKind \cup {Same}, p \in Pay \cup {Same} :
           [NoAsk EXCEPT !.pay = p] \in Asked /\ [NoAsk EXCEPT !.kind = k, !.pay = p] \in Asked
    BY <1>4, AskChanges DEF Asked
  <2>4. [kind |-> "trial", pay |-> "free", days |-> TRUE] \in Asked
    BY <2>1, <2>2
  <2> HIDE DEF Asked
  <2>5. /\ [NoAsk EXCEPT !.pay = "paid"] \in Asked
        /\ [NoAsk EXCEPT !.pay = "revoked"] \in Asked
        /\ [NoAsk EXCEPT !.kind = "client", !.pay = "paid"] \in Asked
    BY <2>2, <2>3
  <2> QED  BY <1>4, <2>4, <2>5, Zenon DEF Ask
<1>6. IdleDesk \in AtDesk
  BY <1>1, <1>2, <1>3, <1>4 DEF IdleDesk, DeskOver, DeskStep, DeskOp, DeskRoute
<1>7. Carries(IdleDesk)
  BY DEF Carries, IdleDesk
<1> QED  BY <1>1, <1>2, <1>3, <1>4, <1>5, <1>6, <1>7

\* What a request makes of its record: what it is to save next, or has saved.
ToSave(at, rec) == [at EXCEPT !.step = "save", !.ask = NoAsk, !.rec = rec]
Saved(at, s) == [at EXCEPT !.step = s, !.rec = NoRow]
Banned(at) == [at EXCEPT !.step = "saved"]

\* They are records of a desk.
LEMMA DeskMoves ==
    ASSUME NEW at \in AtDesk
    PROVE  /\ \A rec \in Record({}) : ToSave(at, rec) \in AtDesk /\ Carries(ToSave(at, rec))
           /\ \A s \in {"ban", "saved"} : Saved(at, s) \in AtDesk /\ Carries(Saved(at, s))
           /\ Banned(at) \in AtDesk /\ Carries(Banned(at))
<1> DEFINE recs == Record({Same})
<1>1. /\ AtDesk = DeskOver(DeskStep, DeskOp, DeskRoute, recs, Asked)
      /\ NoRow \in recs /\ NoAsk \in Asked /\ {"save", "ban", "saved"} \subseteq DeskStep
      /\ Record({}) \subseteq recs
  BY DeskIs DEF DeskStep
<1> HIDE DEF recs
<1>2. at \in DeskOver(DeskStep, DeskOp, DeskRoute, recs, Asked)
  BY <1>1
<1>3. ASSUME NEW rec \in Record({})
      PROVE  ToSave(at, rec) \in AtDesk /\ Carries(ToSave(at, rec))
  <2>1. rec \in recs
    BY <1>1
  <2>2. /\ ToSave(at, rec) \in DeskOver(DeskStep, DeskOp, DeskRoute, recs, Asked)
        /\ ToSave(at, rec).step = "save" /\ ToSave(at, rec).rec = rec
    BY <1>1, <1>2, <2>1 DEF DeskOver, ToSave
  <2> QED  BY <1>1, <2>2 DEF Carries
<1>4. ASSUME NEW s \in {"ban", "saved"}
      PROVE  Saved(at, s) \in AtDesk /\ Carries(Saved(at, s))
  <2>1. s \in DeskStep
    BY <1>1
  <2>2. /\ Saved(at, s) \in DeskOver(DeskStep, DeskOp, DeskRoute, recs, Asked)
        /\ Saved(at, s).step = s
    BY <1>1, <1>2, <2>1 DEF DeskOver, Saved
  <2> QED  BY <1>1, <2>2 DEF Carries
<1>5. Banned(at) \in AtDesk /\ Carries(Banned(at))
  <2>1. /\ Banned(at) \in DeskOver(DeskStep, DeskOp, DeskRoute, recs, Asked)
        /\ Banned(at).step = "saved"
    BY <1>1, <1>2 DEF DeskOver, Banned
  <2> QED  BY <1>1, <2>1 DEF Carries
<1> QED  BY <1>3, <1>4, <1>5

\* What Configured makes of a row is a row.
LEMMA ConfiguredRow ==
    ASSUME NEW r \in Record({}), NEW k \in AccountKind, NEW p \in Pay, NEW days \in BOOLEAN
    PROVE  Configured(r, k, p, days) \in Record({})
<1> DEFINE e == CASE k = "client" -> "none"
                  [] k = "trial" /\ days -> "ahead"
                  [] OTHER -> r.ends
           g == IF k = "trial" THEN e = "ahead" ELSE p = "paid"
           terms == {"none", "ahead", "past"}
           approvals == {"pending", "approved"}
           flags == BOOLEAN
           kinds == AccountKind \cup {}
           pays == Pay \cup {}
<1>1. Record({}) = RowOver(flags, kinds, pays, terms, approvals) /\ k \in kinds /\ p \in pays
  BY RowsAre
<1>2. g \in flags
  OBVIOUS
<1>3. r.ends \in terms
  BY DEF Record
<1>4. e \in terms
  BY <1>3
<1>5. Configured(r, k, p, days) = [r EXCEPT !.kind = k, !.pay = p, !.ends = e, !.granted = g]
  BY DEF Configured
<1> HIDE DEF e, g, terms, approvals, flags, kinds, pays
<1> DEFINE rows == Record({})
           c == Configured(r, k, p, days)
<1>h. /\ r \in rows /\ rows = RowOver(flags, kinds, pays, terms, approvals)
      /\ c = [r EXCEPT !.kind = k, !.pay = p, !.ends = e, !.granted = g]
  BY <1>1, <1>5
<1> HIDE DEF rows, c
<1>6. c \in rows
  BY <1>h, <1>1, <1>2, <1>4 DEF RowOver
<1> QED  BY <1>6 DEF rows, c

\* The changes the requests and the payments make of a row.
LEMMA RowTypes ==
    ASSUME NEW r \in Record({}), NEW k \in AccountKind, NEW p \in Pay, NEW g \in BOOLEAN
    PROVE  /\ [r EXCEPT !.kind = k, !.pay = p] \in Record({})
           /\ [r EXCEPT !.approval = "pending"] \in Record({})
           /\ [r EXCEPT !.approval = "approved", !.kind = "trial", !.pay = "free",
                        !.ends = "ahead", !.granted = TRUE] \in Record({})
           /\ [r EXCEPT !.deleted = TRUE, !.granted = FALSE] \in Record({})
           /\ [r EXCEPT !.pay = "paid", !.granted = TRUE, !.approval = "approved",
                        !.kind = "client"] \in Record({})
           /\ [r EXCEPT !.pay = "revoked", !.granted = FALSE] \in Record({})
           /\ [r EXCEPT !.ends = "past", !.granted = FALSE] \in Record({})
           /\ [r EXCEPT !.there = TRUE, !.kind = k, !.pay = p, !.granted = g] \in Record({})
           /\ [r EXCEPT !.there = TRUE] \in Record({})
           /\ [r EXCEPT !.there = TRUE, !.pay = "paid", !.granted = TRUE] \in Record({})
           /\ [r EXCEPT !.there = TRUE, !.kind = "trial", !.pay = "free", !.ends = "ahead",
                        !.granted = TRUE] \in Record({})
           /\ r.kind \in AccountKind /\ r.pay \in Pay /\ r.ends \in {"none", "ahead", "past"}
<1> DEFINE terms == {"none", "ahead", "past"}
           approvals == {"pending", "approved"}
           flags == BOOLEAN
           kinds == AccountKind \cup {}
           pays == Pay \cup {}
<1>1. Record({}) = RowOver(flags, kinds, pays, terms, approvals) /\ k \in kinds /\ p \in pays
  BY RowsAre
<1> DEFINE yes == TRUE
           no == FALSE
<1>2. /\ yes \in flags /\ no \in flags /\ g \in flags
      /\ "none" \in terms /\ "ahead" \in terms /\ "past" \in terms
      /\ "pending" \in approvals /\ "approved" \in approvals
      /\ "client" \in kinds /\ "trial" \in kinds
      /\ "paid" \in pays /\ "free" \in pays /\ "revoked" \in pays
  BY DEF AccountKind, Pay
<1>3. kinds = AccountKind /\ pays = Pay
  OBVIOUS
<1> HIDE DEF terms, approvals, flags, kinds, pays, yes, no
<1> DEFINE rows == Record({})
<1>h. r \in rows /\ rows = RowOver(flags, kinds, pays, terms, approvals)
  BY <1>1
<1> HIDE DEF rows
<1>4. [r EXCEPT !.kind = k, !.pay = p] \in rows
  BY <1>h, <1>1, <1>2 DEF RowOver
<1>5. [r EXCEPT !.approval = "pending"] \in rows
  BY <1>h, <1>1, <1>2 DEF RowOver
<1>6. [r EXCEPT !.approval = "approved", !.kind = "trial", !.pay = "free", !.ends = "ahead", !.granted = yes] \in rows
  BY <1>h, <1>1, <1>2 DEF RowOver
<1>8. [r EXCEPT !.deleted = yes, !.granted = no] \in rows
  BY <1>h, <1>1, <1>2 DEF RowOver
<1>9. [r EXCEPT !.pay = "paid", !.granted = yes, !.approval = "approved", !.kind = "client"] \in rows
  BY <1>h, <1>1, <1>2 DEF RowOver
<1>10. [r EXCEPT !.pay = "revoked", !.granted = no] \in rows
  BY <1>h, <1>1, <1>2 DEF RowOver
<1>11. [r EXCEPT !.ends = "past", !.granted = no] \in rows
  BY <1>h, <1>1, <1>2 DEF RowOver
<1>12. [r EXCEPT !.there = yes, !.kind = k, !.pay = p, !.granted = g] \in rows
  BY <1>h, <1>1, <1>2 DEF RowOver
<1>13. [r EXCEPT !.there = yes] \in rows
  BY <1>h, <1>1, <1>2 DEF RowOver
<1>14. [r EXCEPT !.there = yes, !.pay = "paid", !.granted = yes] \in rows
  BY <1>h, <1>1, <1>2 DEF RowOver
<1>15. [r EXCEPT !.there = yes, !.kind = "trial", !.pay = "free", !.ends = "ahead", !.granted = yes] \in rows
  BY <1>h, <1>1, <1>2 DEF RowOver
<1>7. r.kind \in kinds /\ r.pay \in pays /\ r.ends \in terms
  BY <1>h DEF RowOver
<1> QED
  BY <1>3, <1>7, <1>4, <1>5, <1>6, <1>8, <1>9, <1>10, <1>11, <1>12, <1>13, <1>14, <1>15
  DEF rows, terms, yes, no

\* What is at a desk, in its sets.
LEMMA DeskFields ==
    ASSUME NEW at \in AtDesk
    PROVE  /\ at.step \in DeskStep /\ at.op \in DeskOp /\ at.route \in DeskRoute
           /\ at.rec \in Record({Same}) /\ at.ask \in Asked /\ at.ask.days \in BOOLEAN
BY DEF AtDesk, DeskStep, DeskOp, DeskRoute, Asked

\* A write of a row, beside a desk that moves.
LEMMA DesksWrite ==
    ASSUME DeskTypes, NEW r \in Record({}), Writes(r), NEW d \in Desk, NEW at \in AtDesk,
           Carries(at), desk' = [desk EXCEPT ![d] = at],
           UNCHANGED <<user, ops, others>>
    PROVE  DeskTypes'
<1>1. desk' \in [Desk -> AtDesk] /\ \A o \in Desk : Carries(desk'[o])
  BY DeskPut DEF DeskTypes
<1>2. row' = r /\ owed' \in BOOLEAN
  BY DEF Writes, DeskTypes
<1> QED  BY <1>1, <1>2 DEF DeskTypes

\* A request begins, and has its record.
LEMMA DeskBegins ==
    ASSUME DeskTypes, NEW d \in Desk, NEW op \in DeskOp, NEW route \in DeskRoute,
           NEW step \in DeskStep, NEW ask \in Asked, NEW rec \in Record({Same}),
           Begins(d, op, route, step, ask, rec),
           Carries([step |-> step, op |-> op, route |-> route, ask |-> ask, rec |-> rec])
    PROVE  /\ desk' \in [Desk -> AtDesk] /\ \A o \in Desk : Carries(desk'[o])
           /\ ops' \in 0..MaxOps
<1> DEFINE at == [step |-> step, op |-> op, route |-> route, ask |-> ask, rec |-> rec]
<1>1. at \in AtDesk
  BY DeskIs DEF DeskOver
<1>2. desk' = [desk EXCEPT ![d] = at] /\ ops < MaxOps /\ ops' = ops + 1
  BY DEF Begins
<1> HIDE DEF at
<1>3. desk' \in [Desk -> AtDesk] /\ \A o \in Desk : Carries(desk'[o])
  BY <1>1, <1>2, DeskPut DEF DeskTypes, at
<1>4. ops' \in 0..MaxOps
  BY <1>2, OpsAssumption DEF DeskTypes
<1> QED  BY <1>3, <1>4
\* A user is created and its request begins.
LEMMA CreatesUserTypes ==
    ASSUME DeskTypes, NEW d \in Desk, CreatesUser(d) PROVE DeskTypes'
<1>1. /\ user' = "known" /\ row' = row /\ others' = others /\ owed' = owed
  BY DEF CreatesUser
<1>2. ASSUME NEW k \in AccountKind, NEW p \in Pay, NEW route \in {"clients", "users"},
             Begins(d, "create", route, "account", [NoAsk EXCEPT !.days = (k = "trial")],
                    [NoRow EXCEPT !.there = TRUE, !.kind = k, !.pay = p,
                                  !.granted = (p # "pending")])
      PROVE  DeskTypes'
  <2> DEFINE rec == [NoRow EXCEPT !.there = TRUE, !.kind = k, !.pay = p,
                                  !.granted = (p # "pending")]
             ask == [NoAsk EXCEPT !.days = (k = "trial")]
  <2>2. rec \in Record({})
    BY RowTypes, DeskIs
  <2>3. ask \in Asked
    BY DeskIs, AskChanges DEF Asked
  <2> HIDE DEF rec, ask
  <2>4. Carries([step |-> "account", op |-> "create", route |-> route, ask |-> ask, rec |-> rec])
    BY <2>2 DEF Carries
  <2>5. Begins(d, "create", route, "account", ask, rec)
    BY <1>2 DEF rec, ask
  <2>6. "create" \in DeskOp /\ route \in DeskRoute /\ "account" \in DeskStep
        /\ rec \in Record({Same})
    BY <2>2, DeskIs DEF DeskOp, DeskRoute, DeskStep
  <2>7. /\ desk' \in [Desk -> AtDesk] /\ \A o \in Desk : Carries(desk'[o])
        /\ ops' \in 0..MaxOps
    BY <2>3, <2>4, <2>5, <2>6, DeskBegins
  <2> QED  BY <1>1, <2>7 DEF DeskTypes
<1>3. CASE Begins(d, "register", "public", "account", NoAsk, [NoRow EXCEPT !.there = TRUE])
  <2> DEFINE rec == [NoRow EXCEPT !.there = TRUE]
  <2>2. rec \in Record({})
    <3>1. \E k \in AccountKind, p \in Pay, g \in BOOLEAN : TRUE
      BY DEF AccountKind, Pay
    <3> QED  BY <3>1, RowTypes, DeskIs
  <2> HIDE DEF rec
  <2>4. Carries([step |-> "account", op |-> "register", route |-> "public", ask |-> NoAsk, rec |-> rec])
    BY <2>2 DEF Carries
  <2>5. Begins(d, "register", "public", "account", NoAsk, rec)
    BY <1>3 DEF rec
  <2>6. "register" \in DeskOp /\ "public" \in DeskRoute /\ "account" \in DeskStep
        /\ rec \in Record({Same}) /\ NoAsk \in Asked
    BY <2>2, DeskIs DEF DeskOp, DeskRoute, DeskStep
  <2>7. /\ desk' \in [Desk -> AtDesk] /\ \A o \in Desk : Carries(desk'[o])
        /\ ops' \in 0..MaxOps
    BY <2>4, <2>5, <2>6, DeskBegins
  <2> QED  BY <1>1, <2>7 DEF DeskTypes
<1> DEFINE Creation(k, p, route) ==
             Begins(d, "create", route, "account", [NoAsk EXCEPT !.days = (k = "trial")],
                    [NoRow EXCEPT !.there = TRUE, !.kind = k, !.pay = p,
                                  !.granted = (p # "pending")])
           Registration ==
             Begins(d, "register", "public", "account", NoAsk, [NoRow EXCEPT !.there = TRUE])
<1>4. \/ \E k \in AccountKind, p \in Pay, route \in {"clients", "users"} :
            Valid(k, p, k = "trial", "none") /\ p # "revoked" /\ Creation(k, p, route)
      \/ Registration
  BY DEF CreatesUser
<1>5. \A k \in AccountKind, p \in Pay, route \in {"clients", "users"} :
         Creation(k, p, route) => DeskTypes'
  BY <1>2, Zenon
<1>6. Registration => DeskTypes'
  BY <1>3
<1> HIDE DEF Creation, Registration
<1> QED  BY <1>4, <1>5, <1>6

\* The row is inserted, and the access computed from the record.
LEMMA InsertsRowTypes ==
    ASSUME DeskTypes, NEW d \in Desk, InsertsRow(d) PROVE DeskTypes'
<1> DEFINE at == desk[d]
           rec == IF at.op = "register" THEN [at.rec EXCEPT !.approval = "pending"]
                  ELSE Configured(at.rec, at.rec.kind, at.rec.pay, at.ask.days)
           new == ToSave(at, rec)
<1>1. at.step = "account" /\ Writes(at.rec) /\ UNCHANGED <<user, ops, others>>
      /\ desk' = [desk EXCEPT ![d].step = "save", ![d].ask = NoAsk, ![d].rec = rec]
  BY DEF InsertsRow, copies
<1>2. at \in AtDesk /\ Carries(at) /\ at.ask.days \in BOOLEAN
  BY DeskFields DEF DeskTypes
<1>3. at.rec \in Record({})
  BY <1>1, <1>2 DEF Carries
<1>4. at.rec.kind \in AccountKind /\ at.rec.pay \in Pay
      /\ [at.rec EXCEPT !.approval = "pending"] \in Record({})
  <2>1. \E k \in AccountKind, p \in Pay, g \in BOOLEAN : TRUE
    BY DEF AccountKind, Pay
  <2> QED  BY <1>3, <2>1, RowTypes
<1>5. rec \in Record({})
  BY <1>2, <1>3, <1>4, ConfiguredRow
<1> HIDE DEF rec
<1>6. new \in AtDesk /\ Carries(new)
  BY <1>2, <1>5, DeskMoves
<1>7. desk' = [desk EXCEPT ![d] = new]
  BY <1>1 DEF ToSave
<1> HIDE DEF new, at
<1> QED  BY <1>1, <1>3, <1>6, <1>7, DesksWrite

\* An edit reads the row: its record may leave fields out.
LEMMA UpdateReadsTypes ==
    ASSUME DeskTypes, NEW d \in Desk, UpdateReads(d) PROVE DeskTypes'
<1>1. PICK ask \in Ask, route \in {"clients", "users"} :
         Begins(d, "update", route, "read",
                [kind |-> IF ask.kind = Same THEN row.kind ELSE ask.kind,
                 pay |-> IF ask.pay = Same THEN row.pay ELSE ask.pay, days |-> ask.days],
                [row EXCEPT !.kind = ask.kind, !.pay = ask.pay])
  BY DEF UpdateReads
<1> DEFINE kind == IF ask.kind = Same THEN row.kind ELSE ask.kind
           pay == IF ask.pay = Same THEN row.pay ELSE ask.pay
           new == [kind |-> kind, pay |-> pay, days |-> ask.days]
           rec == [row EXCEPT !.kind = ask.kind, !.pay = ask.pay]
<1>2. row \in Record({}) /\ row.kind \in AccountKind /\ row.pay \in Pay
  <2>1. \E k \in AccountKind, p \in Pay, g \in BOOLEAN : TRUE
    BY DEF AccountKind, Pay
  <2> QED  BY <2>1, RowTypes DEF DeskTypes
<1>3. /\ ask.kind \in AccountKind \cup {Same} /\ ask.pay \in Pay \cup {Same}
      /\ ask.days \in BOOLEAN
  BY DeskIs DEF Asked
<1>4. kind \in AccountKind /\ pay \in Pay
  BY <1>2, <1>3
<1>5. rec \in Record({Same})
  <2> DEFINE terms == {"none", "ahead", "past"}
             approvals == {"pending", "approved"}
             flags == BOOLEAN
             kinds == AccountKind \cup {Same}
             pays == Pay \cup {Same}
             rows == Record({Same})
  <2>1. rows = RowOver(flags, kinds, pays, terms, approvals)
    BY RowsAre
  <2>2. row \in rows /\ ask.kind \in kinds /\ ask.pay \in pays
    BY <1>2, <1>3, DeskIs
  <2> HIDE DEF terms, approvals, flags, kinds, pays, rows
  <2>3. rec \in rows
    BY <2>1, <2>2 DEF RowOver
  <2> QED  BY <2>3 DEF rows
<1> HIDE DEF kind, pay, rec
<1>6. new \in Asked /\ new.kind = kind /\ new.pay = pay
  BY <1>3, <1>4 DEF Asked
<1> HIDE DEF new
<1>7. Begins(d, "update", route, "read", new, rec)
  BY <1>1 DEF new, kind, pay, rec
<1>8. Carries([step |-> "read", op |-> "update", route |-> route, ask |-> new, rec |-> rec])
  BY <1>4, <1>6 DEF Carries
<1>9. "update" \in DeskOp /\ route \in DeskRoute /\ "read" \in DeskStep
  BY DEF DeskOp, DeskRoute, DeskStep
<1>10. /\ desk' \in [Desk -> AtDesk] /\ \A o \in Desk : Carries(desk'[o])
       /\ ops' \in 0..MaxOps
  BY <1>5, <1>6, <1>7, <1>8, <1>9, DeskBegins
<1> QED  BY <1>10 DEF UpdateReads, DeskTypes

\* It writes the fields it was given, and has what it computes to save.
LEMMA UpdatePatchesTypes ==
    ASSUME DeskTypes, NEW d \in Desk, UpdatePatches(d) PROVE DeskTypes'
<1> DEFINE at == desk[d]
           kind == IF at.rec.kind = Same THEN row.kind ELSE at.rec.kind
           pay == IF at.rec.pay = Same THEN row.pay ELSE at.rec.pay
           patched == [row EXCEPT !.kind = kind, !.pay = pay]
           rec == Configured(patched, at.ask.kind, at.ask.pay, at.ask.days)
           new == ToSave(at, rec)
<1>1. at.step = "read" /\ Writes(patched) /\ UNCHANGED <<user, ops, others>>
      /\ desk' = [desk EXCEPT ![d].step = "save", ![d].ask = NoAsk, ![d].rec = rec]
  BY DEF UpdatePatches, copies
<1>2. at \in AtDesk /\ Carries(at) /\ at.ask.days \in BOOLEAN /\ at.rec \in Record({Same})
  BY DeskFields DEF DeskTypes
<1>3. at.ask.kind \in AccountKind /\ at.ask.pay \in Pay
  BY <1>1, <1>2 DEF Carries
<1>4. at.rec.kind \in AccountKind \cup {Same} /\ at.rec.pay \in Pay \cup {Same}
  BY <1>2 DEF Record
<1>5. row.kind \in AccountKind /\ row.pay \in Pay /\ row \in Record({})
  <2>1. \E k \in AccountKind, p \in Pay, g \in BOOLEAN : TRUE
    BY DEF AccountKind, Pay
  <2> QED  BY <2>1, RowTypes DEF DeskTypes
<1>6. kind \in AccountKind /\ pay \in Pay
  BY <1>4, <1>5
<1> HIDE DEF kind, pay
<1>7. patched \in Record({})
  BY <1>5, <1>6, RowTypes
<1> HIDE DEF patched
<1>8. rec \in Record({})
  BY <1>2, <1>3, <1>7, ConfiguredRow
<1> HIDE DEF rec
<1>9. new \in AtDesk /\ Carries(new)
  BY <1>2, <1>8, DeskMoves
<1>10. desk' = [desk EXCEPT ![d] = new]
  BY <1>1 DEF ToSave
<1> HIDE DEF new, at
<1> QED  BY <1>1, <1>7, <1>9, <1>10, DesksWrite
\* The requests that read the row and write it back as a whole.
LEMMA WholeRowTypes ==
    ASSUME DeskTypes, NEW d \in Desk, Approves(d) \/ Deletes(d) PROVE DeskTypes'
<1>0. row \in Record({}) /\ NoAsk \in Asked /\ Record({}) \subseteq Record({Same})
      /\ "save" \in DeskStep /\ {"approve", "delete"} \subseteq DeskOp
      /\ {"clients", "users"} \subseteq DeskRoute
      /\ \E k \in AccountKind, p \in Pay, g \in BOOLEAN : TRUE
  BY DeskIs DEF DeskTypes, DeskStep, DeskOp, DeskRoute, AccountKind, Pay
<1>1. PICK op \in {"approve", "delete"}, route \in {"clients", "users"}, rec \in Record({}) :
         Begins(d, op, route, "save", NoAsk, rec)
  <2>1. CASE Approves(d)
    <3> DEFINE rec == [row EXCEPT !.approval = "approved", !.kind = "trial", !.pay = "free",
                                  !.ends = "ahead", !.granted = TRUE]
    <3>1. rec \in Record({})
      BY <1>0, RowTypes
    <3>2. Begins(d, "approve", "clients", "save", NoAsk, rec)
      BY <2>1 DEF Approves
    <3> HIDE DEF rec
    <3> QED  BY <3>1, <3>2
  <2>2. CASE Deletes(d)
    <3> DEFINE rec == [row EXCEPT !.deleted = TRUE, !.granted = FALSE]
    <3>1. rec \in Record({})
      BY <1>0, RowTypes
    <3>2. \E route \in {"clients", "users"} : Begins(d, "delete", route, "save", NoAsk, rec)
      BY <2>2 DEF Deletes
    <3> HIDE DEF rec
    <3> QED  BY <3>1, <3>2
  <2> QED  BY <2>1, <2>2
<1>2. Carries([step |-> "save", op |-> op, route |-> route, ask |-> NoAsk, rec |-> rec])
  BY DEF Carries
<1>3. /\ desk' \in [Desk -> AtDesk] /\ \A o \in Desk : Carries(desk'[o])
      /\ ops' \in 0..MaxOps
  BY <1>0, <1>1, <1>2, DeskBegins
<1> QED  BY <1>3 DEF Approves, Deletes, DeskTypes

\* The record is saved; a deleted client's user is banned.
LEMMA SavesTypes ==
    ASSUME DeskTypes, NEW d \in Desk, SavesClient(d) \/ Bans(d) PROVE DeskTypes'
<1> DEFINE at == desk[d]
<1>1. at \in AtDesk /\ Carries(at) /\ {"ban", "saved"} \subseteq DeskStep
  BY DEF DeskTypes, DeskStep
<1>2. CASE SavesClient(d)
  <2> DEFINE step == IF at.rec.deleted THEN "ban" ELSE "saved"
             new == Saved(at, step)
  <2>1. at.step = "save" /\ Writes(at.rec) /\ UNCHANGED <<user, ops, others>>
        /\ desk' = [desk EXCEPT ![d].step = step, ![d].rec = NoRow]
    BY <1>2 DEF SavesClient, copies
  <2>2. step \in {"ban", "saved"} /\ at.rec \in Record({})
    BY <1>1, <2>1 DEF Carries
  <2> HIDE DEF step
  <2>3. new \in AtDesk /\ Carries(new)
    BY <1>1, <2>2, DeskMoves
  <2>4. desk' = [desk EXCEPT ![d] = new]
    BY <2>1 DEF Saved
  <2> HIDE DEF new, at
  <2> QED  BY <2>1, <2>2, <2>3, <2>4, DesksWrite
<1>3. CASE Bans(d)
  <2> DEFINE new == Banned(at)
  <2>1. user' = "banned" /\ desk' = [desk EXCEPT ![d].step = "saved"]
        /\ UNCHANGED <<row, ops, others, owed>>
    BY <1>3 DEF Bans
  <2>2. new \in AtDesk /\ Carries(new)
    BY <1>1, DeskMoves
  <2>3. desk' = [desk EXCEPT ![d] = new]
    BY <2>1 DEF Banned
  <2> HIDE DEF new, at
  <2>5. desk' \in [Desk -> AtDesk] /\ \A o \in Desk : Carries(desk'[o])
    BY <2>2, <2>3, DeskPut DEF DeskTypes
  <2> QED  BY <2>1, <2>5 DEF DeskTypes
<1> QED  BY <1>2, <1>3

\* A route ends, or breaks.
LEMMA RouteTypes ==
    ASSUME DeskTypes, NEW d \in Desk, RouteEnds(d) \/ RouteBreaks(d) PROVE DeskTypes'
<1>1. /\ desk' = [desk EXCEPT ![d] = IdleDesk] /\ UNCHANGED <<row, user, ops>>
      /\ owed' \in BOOLEAN
      /\ others' = others \/ (others < MaxOther /\ others' = others + 1)
  BY DEF RouteEnds, RouteBreaks, DeskTypes
<1>2. desk' \in [Desk -> AtDesk] /\ \A o \in Desk : Carries(desk'[o])
  <2>1. IdleDesk \in AtDesk /\ Carries(IdleDesk)
    BY DeskIs
  <2> QED  BY <1>1, <2>1, DeskPut DEF DeskTypes
<1>3. others' \in 0..MaxOther
  <2>1. others \in 0..MaxOther /\ MaxOther \in Nat
    BY OpsAssumption DEF DeskTypes
  <2> QED  BY <1>1, <2>1
<1>4. /\ row \in Record({}) /\ user \in {"none", "known", "banned"} /\ ops \in 0..MaxOps
  BY DEF DeskTypes
<1> QED  BY <1>1, <1>2, <1>3, <1>4 DEF DeskTypes

\* What payments and trials write is a row.
LEMMA PaidTypes ==
    ASSUME DeskTypes, PaymentApplied \/ TrialEnds PROVE DeskTypes'
<1>0. row \in Record({}) /\ \E k \in AccountKind, p \in Pay, g \in BOOLEAN : TRUE
  BY DEF DeskTypes, AccountKind, Pay
<1>1. /\ others < MaxOther /\ others' = others + 1
      /\ UNCHANGED <<user, desk, ops>> /\ \E r \in Record({}) : Writes(r)
  BY <1>0, RowTypes DEF PaymentApplied, TrialEnds, copies
<1>2. row' \in Record({}) /\ owed' \in BOOLEAN
  BY <1>1 DEF Writes, DeskTypes
<1>3. others' \in 0..MaxOther
  BY <1>1, OpsAssumption DEF DeskTypes
<1> QED  BY <1>1, <1>2, <1>3 DEF DeskTypes

\* Every step keeps these types.
LEMMA DeskTypeStep ==
    ASSUME DeskTypes, [AccessNext]_accessVars PROVE DeskTypes'
<1>1. ASSUME UNCHANGED <<row, user, desk, ops, others, owed>> PROVE DeskTypes'
  BY <1>1 DEF DeskTypes
<1>2. CASE UNCHANGED accessVars
  BY <1>1, <1>2 DEF accessVars
<1>3. ASSUME NEW d \in Desk, DeskSteps(d) PROVE DeskTypes'
  BY <1>3, CreatesUserTypes, InsertsRowTypes, UpdateReadsTypes, UpdatePatchesTypes,
     WholeRowTypes, SavesTypes, RouteTypes DEF DeskSteps
<1>4. ASSUME NEW f \in Filler, Asks(f) \/ Loads(f) \/ Stores(f) PROVE DeskTypes'
  BY <1>1, <1>4 DEF Asks, Loads, Stores
<1>5. CASE PaymentApplied \/ TrialEnds
  BY <1>5, PaidTypes
<1>6. CASE Dropped \/ TimePasses
  BY <1>1, <1>6 DEF Dropped, TimePasses
<1> QED  BY <1>2, <1>3, <1>4, <1>5, <1>6 DEF AccessNext

\* They hold at first.
LEMMA DeskTypesAtFirst == AccessInit => DeskTypes
<1> SUFFICES ASSUME AccessInit PROVE DeskTypes
  OBVIOUS
<1>1. NoRow \in Record({}) /\ \E k \in AccountKind, p \in Pay, g \in BOOLEAN : TRUE
  BY DeskIs DEF AccountKind, Pay
<1>2. \A r \in AtFirst : r \in Record({})
  BY <1>1, RowTypes DEF AtFirst
<1>3. row \in Record({}) /\ user \in {"none", "known", "banned"}
  BY <1>1, <1>2 DEF AccessInit
<1>4. desk \in [Desk -> AtDesk] /\ \A d \in Desk : Carries(desk[d])
  BY DeskIs DEF AccessInit
<1>5. ops \in 0..MaxOps /\ others \in 0..MaxOther /\ owed \in BOOLEAN
  <2>1. MaxOps \in Nat /\ MaxOther \in Nat
    BY OpsAssumption
  <2>2. ops = 0 /\ others = 0 /\ owed = FALSE
    BY DEF AccessInit
  <2>3. \A n \in Nat : 0 \in 0..n
    OBVIOUS
  <2>4. ops \in 0..MaxOps
    BY <2>1, <2>2, <2>3
  <2>5. others \in 0..MaxOther
    BY <2>1, <2>2, <2>3
  <2> QED  BY <2>2, <2>4, <2>5
<1> QED  BY <1>3, <1>4, <1>5 DEF DeskTypes

\* The types of a client's access, from them and the copies'.
LEMMA AccessTypesHold == ASSUME AccessInv, DeskTypes PROVE AccessTypeOK
BY DEF AccessInv, CopyTypes, Fill, DeskTypes, AccessTypeOK

\* A client has no more losses than all of them together.
LEMMA CountBelowTotal ==
    ASSUME NEW c \in [Trader -> Nat], NEW t \in Trader
    PROVE  c[t] <= Total(c) /\ Total(c) \in Int
<1> DEFINE d == [o \in Trader |-> IF o = t THEN 0 ELSE c[o]]
           z == [o \in Trader |-> 0]
<1>1. Counts(c) /\ Counts(d) /\ Counts(z) /\ \A o \in Trader : z[o] <= d[o]
  BY DEF Counts
<1>2. Total(z) = 0
  BY TotalOfNothing
<1>3. Total(z) <= Total(d) /\ Total(d) \in Int /\ Total(c) \in Int
  BY <1>1, TotalGrows, TotalType
<1>4. \A o \in Trader \ {t} : d[o] = c[o]
  OBVIOUS
<1>5. Total(d) = Total(c) + d[t] - c[t]
  BY <1>1, <1>4, TotalChanges
<1>6. d[t] = 0 /\ c[t] \in Nat
  OBVIOUS
<1> HIDE DEF d, z
<1> QED  BY <1>2, <1>3, <1>5, <1>6

\* What MemoryTypeOK says and the invariant of the memory does not need.
MemoryBounds ==
    /\ \A t \in Trader : lost[t] <= MaxLosses
    /\ starts \in 0..MaxStart /\ failures \in 0..MaxFailure

\* Losses, restarts and failures stay within their bounds.
LEMMA MemoryBoundsStep ==
    ASSUME MemoryInv, MemoryBounds, [MemoryNext]_memoryVars
    PROVE  MemoryBounds'
<1>0. /\ lost \in [Trader -> Nat]
      /\ {MaxLosses, MaxStart, MaxFailure} \subseteq Nat
      /\ starts \in 0..MaxStart /\ failures \in 0..MaxFailure
  BY TraderAssumption DEF MemoryInv, MemoryTypes, MemoryBounds
<1>f. Fails => failures' \in 0..MaxFailure
  BY <1>0 DEF Fails
<1>1. ASSUME UNCHANGED lost, starts' \in 0..MaxStart, failures' \in 0..MaxFailure
      PROVE  MemoryBounds'
  BY <1>1 DEF MemoryBounds
<1>2. CASE UNCHANGED memoryVars
  BY <1>0, <1>1, <1>2 DEF memoryVars
<1>3. ASSUME NEW t \in Trader, Records(t) PROVE MemoryBounds'
  <2>1. /\ Total(lost) < MaxLosses /\ lost' = [lost EXCEPT ![t] = @ + 1]
        /\ UNCHANGED <<starts, failures>>
    BY <1>3 DEF Records
  <2>2. lost[t] <= Total(lost) /\ Total(lost) \in Int /\ lost[t] \in Nat
    BY <1>0, CountBelowTotal
  <2>3. lost'[t] <= MaxLosses
    BY <1>0, <2>1, <2>2
  <2>4. \A o \in Trader : o # t => lost'[o] = lost[o]
    BY <1>0, <2>1
  <2> QED  BY <1>0, <2>1, <2>3, <2>4 DEF MemoryBounds
<1>4. ASSUME NEW t \in Trader, Forgets(t) PROVE MemoryBounds'
  BY <1>0, <1>1, <1>4 DEF Forgets
<1>5. CASE Sends
  BY <1>0, <1>1, <1>5 DEF Sends
<1>6. CASE SendFails
  BY <1>0, <1>1, <1>f, <1>6 DEF SendFails
<1>7. ASSUME NEW w \in Where, Starts(w) PROVE MemoryBounds'
  <2>1. starts' \in 0..MaxStart
    BY <1>0, <1>7 DEF Starts
  <2> QED  BY <1>0, <1>1, <1>7, <2>1 DEF Starts
<1>8. ASSUME NEW w \in Where, Unifies(w) \/ Clears(w) \/ Posts(w) PROVE MemoryBounds'
  BY <1>0, <1>1, <1>8 DEF Unifies, Clears, Posts
<1>9. ASSUME NEW w \in Where, UnifiesNothing(w) \/ ReplaceFails(w) PROVE MemoryBounds'
  BY <1>0, <1>1, <1>f, <1>9 DEF UnifiesNothing, ReplaceFails
<1> QED
  BY <1>2, <1>3, <1>4, <1>5, <1>6, <1>7, <1>8, <1>9 DEF MemoryNext

\* The types of the memory, from its invariant and these bounds.
LEMMA MemoryTypesHold == ASSUME MemoryInv, MemoryBounds PROVE MemoryTypeOK
<1>1. MemoryTypes
  BY DEF MemoryInv
<1>2. Len(sends) <= 2
  <2>1. sends \in Seq(Upserts)
    BY <1>1 DEF MemoryTypes
  <2>2. \A s \in Seq(Upserts) : s # <<>> => Tail(s) \in Seq(Upserts) /\ Len(Tail(s)) = Len(s) - 1
    OBVIOUS
  <2>3. sends # <<>> /\ Tail(sends) # <<>> => Tail(Tail(sends)) = <<>>
    BY DEF MemoryInv, SendsOfTheBook
  <2>4. Len(<<>>) = 0 /\ Len(sends) \in Nat
    BY <2>1
  <2>5. sends # <<>> => Tail(sends) \in Seq(Upserts) /\ Len(Tail(sends)) = Len(sends) - 1
    BY <2>1, <2>2
  <2>6. sends # <<>> /\ Tail(sends) # <<>> =>
           Tail(Tail(sends)) = <<>> /\ Len(Tail(Tail(sends))) = Len(Tail(sends)) - 1
    BY <2>2, <2>3, <2>5
  <2>7. CASE sends = <<>>
    BY <2>4, <2>7
  <2>8. CASE sends # <<>> /\ Tail(sends) = <<>>
    <3>1. Len(Tail(sends)) = 0
      BY <2>4, <2>8
    <3>2. Len(sends) - 1 = 0
      BY <2>5, <2>8, <3>1
    <3> HIDE <2>8
    <3> QED  BY <2>4, <3>2
  <2>9. CASE sends # <<>> /\ Tail(sends) # <<>>
    <3>1. Len(Tail(Tail(sends))) = 0
      BY <2>4, <2>6, <2>9
    <3> DEFINE n == Len(sends)  m == Len(Tail(sends))
    <3>2. m = n - 1 /\ 0 = m - 1 /\ n \in Nat
      BY <2>4, <2>5, <2>6, <2>9, <3>1
    <3> HIDE DEF n, m
    <3>3. n <= 2
      BY <3>2
    <3> QED  BY <3>3 DEF n
  <2> QED  BY <2>7, <2>8, <2>9
<1>3. \A i \in 1..Len(sends) : sends[i] \in Upserts
  BY <1>1 DEF MemoryTypes
<1>4. lost \in [Trader -> 0..MaxLosses] /\ deleted \in [Trader -> 0..MaxLosses]
  <2>1. \A t \in Trader : /\ lost[t] \in Nat /\ deleted[t] \in Nat
                          /\ deleted[t] <= lost[t] /\ lost[t] <= MaxLosses
    BY <1>1 DEF MemoryTypes, MemoryInv, MemoryBounds
  <2>2. MaxLosses \in Nat
    BY TraderAssumption
  <2>3. \A t \in Trader : lost[t] \in 0..MaxLosses /\ deleted[t] \in 0..MaxLosses
    BY <2>1, <2>2
  <2> QED  BY <1>1, <2>3 DEF MemoryTypes
<1> QED  BY <1>1, <1>2, <1>3, <1>4 DEF MemoryTypeOK, MemoryTypes, MemoryBounds, Upserts

\* The parts of a behaviour: one moves, the others rest.
RowsInv ==
    /\ ScoreTypeOK /\ TradeTypeOK
    /\ BuyerInv /\ WholeInv /\ SlipTypes
    /\ AccessInv /\ DeskTypes
    /\ MemoryInv /\ MemoryBounds

\* Every step of a part keeps the types of all.
LEMMA RowsStep == ASSUME RowsInv, [Next]_vars PROVE RowsInv'
<1>1. /\ [ScoreNext]_scoreVars /\ [TradeNext]_tradeVars /\ [BuyNext]_buyVars
      /\ [AccessNext]_accessVars /\ [MemoryNext]_memoryVars
  BY DEF Next, vars, Count, Trade, Buy, Access, Memory
<1>2. ScoreTypeOK' /\ TradeTypeOK'
  BY <1>1, ScoreTypeStep, TradeTypeStep DEF RowsInv
<1>3. BuyerInv' /\ WholeInv' /\ SlipTypes'
  BY <1>1, AccessStep, WholeStep, SlipTypeStep DEF RowsInv, BuyerInv
<1>4. AccessInv' /\ DeskTypes'
  BY <1>1, AccessKept, DeskTypeStep DEF RowsInv
<1>5. MemoryInv' /\ MemoryBounds'
  BY <1>1, MemoryKept, MemoryBoundsStep DEF RowsInv
<1> QED  BY <1>2, <1>3, <1>4, <1>5 DEF RowsInv

\* All types hold at first.
LEMMA RowsAtFirst == Init => RowsInv
<1> SUFFICES ASSUME Init PROVE RowsInv
  OBVIOUS
<1>0. ScoreInit /\ TradeInit /\ BuyInit /\ AccessInit /\ MemoryInit
  BY DEF Init
<1>1. ScoreTypeOK
  BY <1>0, ScoreStart DEF ScoreInv
<1>2. TradeTypeOK
  <2>1. 0 \in 0..MaxJobs /\ 0 \in 0..MaxRestart
    BY JobAssumption
  <2> QED  BY <1>0, <2>1 DEF TradeInit, TradeTypeOK, Last
<1>3. SlipTypes
  <2>1. MaxSlip \in Nat
    BY SlipAssumption
  <2>2. /\ revenue = {} /\ outbox = "none" /\ trial = "none" /\ resends = 0 /\ fails = 0
    BY <1>0 DEF BuyInit
  <2> QED  BY <2>1, <2>2 DEF SlipTypes
<1>4. MemoryBounds
  <2>1. {MaxLosses, MaxStart, MaxFailure} \subseteq Nat
    BY TraderAssumption
  <2>2. (\A t \in Trader : lost[t] = 0) /\ starts = 0 /\ failures = 0
    BY <1>0 DEF MemoryInit
  <2> QED  BY <2>1, <2>2 DEF MemoryBounds
<1> QED
  BY <1>0, <1>1, <1>2, <1>3, <1>4, PurchaseStart, AccessAtFirst, DeskTypesAtFirst, MemoryAtFirst
  DEF RowsInv

\* For any bounds, handlers, desks and clients: no step of the score, of a
\* deletion, of a purchase, of a client's access or of the memory leaves the
\* values they are written for, whatever the others' rows hold meanwhile.
THEOREM RowsTypeCorrect == Spec => []RowsTypeOK
<1>1. RowsInv => RowsTypeOK
  BY BuyTypesHold, AccessTypesHold, MemoryTypesHold DEF RowsInv, RowsTypeOK
<1> QED  BY <1>1, RowsAtFirst, RowsStep, PTL DEF Spec
==============================================================================
