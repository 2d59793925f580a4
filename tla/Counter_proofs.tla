---------------------------- MODULE Counter_proofs ----------------------------
(* The counter's tables, with what waits applied to them, are the robot's    *)
(* score: for any number of orders, resets, attempts and processes, and any   *)
(* length of the queue. What the database will be is a fold over the waiting  *)
(* writes; its induction goes over the naturals, from least members of sets.  *)
EXTENDS ScoreCounter, TLAPS, FiniteSetTheorems, WellFoundedInduction, FunctionTheorems,
        SequenceTheorems

\* A set of naturals that is not empty has a least member.
LEMMA LeastNatural ==
  ASSUME NEW S \in SUBSET Nat, S # {}
  PROVE  \E n \in S : \A m \in S : n <= m
<1>1. IsWellFoundedOn(OpToRel(<, Nat), Nat)
  BY NatLessThanWellFounded
<1>2. \E n \in S : \A m \in S : ~(<<m, n>> \in OpToRel(<, Nat))
  BY <1>1, WFMin
<1>3. ASSUME NEW m \in Nat, NEW n \in Nat, m < n PROVE <<m, n>> \in OpToRel(<, Nat)
  BY <1>3 DEF OpToRel
<1>4. \A m, n \in Nat : ~(m < n) => n <= m
  OBVIOUS
<1> QED
  BY <1>2, <1>3, <1>4

\* Induction over the naturals, for a set of them.
LEMMA Induction ==
  ASSUME NEW B, 0 \in B, \A n \in Nat : n \in B => n + 1 \in B
  PROVE  Nat \subseteq B
<1> DEFINE bad == {n \in Nat : n \notin B}
<1>1. SUFFICES ASSUME bad # {} PROVE FALSE
  OBVIOUS
<1>2. PICK n \in bad : \A m \in bad : n <= m
  BY <1>1, LeastNatural
<1>3. n # 0 /\ n - 1 \in Nat
  BY <1>2
<1>4. n - 1 \in B
  <2>1. ~(n <= n - 1)
    BY <1>2
  <2> QED  BY <1>2, <1>3, <2>1
<1>5. (n - 1) + 1 = n
  BY <1>2
<1> QED  BY <1>2, <1>3, <1>4, <1>5

-----------------------------------------------------------------------------
(* The fold.                                                               *)

\* The tables when the writes of s have been applied to d.
After(d, s) == FoldLeft(Apply, d, s)

\* g is what the fold computes for any set of positions: the last one is applied last.
Folds(g, d, s) ==
    [t \in SUBSET DOMAIN s |-> IF t = {} THEN d ELSE Apply(g[t \ {Max(t)}], s[Max(t)])]
\* The fold's function.
Folded(d, s) == CHOOSE g : g = Folds(g, d, s)

\* The tables after s are the fold over all positions.
LEMMA AfterIsTheFold == ASSUME NEW d, NEW s PROVE After(d, s) = Folded(d, s)[DOMAIN s]
  BY DEF After, FoldLeft, MapThenFoldSet, Folded, Folds

\* A set of positions has a last one.
LEMMA LastPosition ==
  ASSUME NEW n \in Nat, NEW t \in SUBSET (1..n), t # {}
  PROVE  Max(t) \in t /\ \A y \in t : Max(t) >= y
<1> DEFINE S == {n - x : x \in t}
<1>1. S \in SUBSET Nat /\ S # {}
  <2>1. \A x \in t : n - x \in Nat
    OBVIOUS
  <2>2. PICK x \in t : TRUE
    OBVIOUS
  <2> QED  BY <2>1, <2>2
<1>2. PICK m \in S : \A k \in S : m <= k
  BY <1>1, LeastNatural
<1>3. PICK x \in t : m = n - x
  BY <1>2
<1>4. \A y \in t : x >= y
  <2> TAKE y \in t
  <2>1. n - x <= n - y
    BY <1>2, <1>3
  <2> QED  BY <2>1
<1> QED  BY <1>3, <1>4 DEF Max

\* The fold's recursion has a solution.
LEMMA FoldExists ==
  ASSUME NEW d, NEW s, NEW L \in Nat, DOMAIN s = 1..L
  PROVE  \E g : g = Folds(g, d, s)
<1> DEFINE Up(n) == {t \in SUBSET (1..L) : Cardinality(t) <= n}
           Step(g, t) == IF t = {} THEN d ELSE Apply(g[t \ {Max(t)}], s[Max(t)])
           Part(g, n) == g = [t \in Up(n) |-> Step(g, t)]
           B == {n \in Nat : \E g : Part(g, n)}
<1>1. \A t \in SUBSET (1..L) : IsFiniteSet(t) /\ Cardinality(t) \in Nat
  <2>1. IsFiniteSet(1..L)
    BY FS_Interval
  <2> QED  BY <2>1, FS_Subset, FS_CardinalityType
<1>2. 0 \in B
  <2> DEFINE g == [t \in Up(0) |-> d]
  <2>1. \A t \in Up(0) : t = {}
    BY <1>1, FS_EmptySet
  <2>2. Part(g, 0)
    BY <2>1
  <2> QED  BY <2>2
<1>3. ASSUME NEW n \in Nat, n \in B PROVE n + 1 \in B
  <2>1. PICK g : Part(g, n)
    BY <1>3
  <2> DEFINE h == [t \in Up(n + 1) |-> Step(g, t)]
  <2>2. ASSUME NEW t \in Up(n + 1), t # {} PROVE h[t \ {Max(t)}] = g[t \ {Max(t)}]
    <3> DEFINE r == t \ {Max(t)}
    <3>1. Max(t) \in t
      BY <2>2, LastPosition
    <3>2. Cardinality(r) = Cardinality(t) - 1 /\ r \in SUBSET (1..L)
      BY <1>1, <3>1, FS_RemoveElement
    <3>3. r \in Up(n) /\ r \in Up(n + 1)
      BY <1>1, <3>2
    <3> HIDE DEF r
    <3>4. h[r] = Step(g, r)
      BY <3>3
    <3>5. g[r] = Step(g, r)
      BY <2>1, <3>3
    <3> QED  BY <3>4, <3>5 DEF r
  <2>3. ASSUME NEW t \in Up(n + 1) PROVE Step(h, t) = Step(g, t)
    <3> HIDE DEF h, Up
    <3>1. CASE t = {}
      BY <3>1
    <3>2. CASE t # {}
      BY <2>2, <3>2
    <3> QED  BY <3>1, <3>2
  <2>4. Part(h, n + 1)
    BY <2>3
  <2> HIDE DEF Part, h
  <2> QED  BY <2>4
<1>4. L \in B
  <2> HIDE DEF B
  <2> QED  BY <1>2, <1>3, Induction
<1>5. PICK g : Part(g, L)
  BY <1>4
<1>6. Up(L) = SUBSET (1..L)
  <2>1. IsFiniteSet(1..L) /\ Cardinality(1..L) = L
    BY FS_Interval
  <2> QED  BY <2>1, FS_Subset
<1>7. g = Folds(g, d, s)
  BY <1>5, <1>6 DEF Folds
<1> QED  BY <1>7

\* f tells the tables after each prefix of s.
Trace(f, d, s) == f[0] = d /\ \A n \in 1..Len(s) : f[n] = Apply(f[n - 1], s[n])

\* The fold has such a trace, and ends where it ends.
LEMMA TraceExists ==
  ASSUME NEW d, NEW S, NEW s \in Seq(S)
  PROVE  \E f : Trace(f, d, s) /\ After(d, s) = f[Len(s)]
<1>1. Len(s) \in Nat /\ DOMAIN s = 1..Len(s)
  BY LenProperties
<1> DEFINE L == Len(s)
           g == Folded(d, s)
           f == [n \in 0..L |-> g[1..n]]
<1>2. g = Folds(g, d, s)
  BY <1>1, FoldExists DEF Folded
<1>3. g = [t \in SUBSET (1..L) |-> IF t = {} THEN d ELSE Apply(g[t \ {Max(t)}], s[Max(t)])]
  BY <1>1, <1>2 DEF Folds
<1> HIDE DEF g
<1>4. g[{}] = d
  BY <1>3
<1>5. \A t \in SUBSET (1..L) : t # {} => g[t] = Apply(g[t \ {Max(t)}], s[Max(t)])
  BY <1>3
<1>6. 1..0 = {} /\ f[0] = d
  BY <1>1, <1>4
<1>7. ASSUME NEW n \in 1..L PROVE f[n] = Apply(f[n - 1], s[n])
  <2>0. L \in Nat /\ n \in Nat /\ n >= 1 /\ n <= L
    BY <1>1
  <2>1. n \in Nat /\ 1..n \subseteq 1..L /\ n \in 1..n /\ n - 1 \in 0..L
    BY <2>0
  <2>2. Max(1..n) \in 1..n /\ \A y \in 1..n : Max(1..n) >= y
    BY <2>1, LastPosition
  <2>3. Max(1..n) = n
    BY <2>1, <2>2
  <2>4. (1..n) \ {n} = 1..(n - 1)
    BY <2>1
  <2>5. g[1..n] = Apply(g[1..(n - 1)], s[n])
    <3>1. 1..n \in SUBSET (1..L) /\ 1..n # {}
      BY <2>1
    <3> QED  BY <1>5, <2>3, <2>4, <3>1
  <2> QED  BY <1>1, <2>1, <2>5
<1>8. After(d, s) = f[L]
  <2>1. After(d, s) = g[DOMAIN s]
    BY AfterIsTheFold DEF g
  <2> QED  BY <1>1, <2>1
<1> QED  BY <1>6, <1>7, <1>8 DEF Trace

\* There is one trace.
LEMMA TraceIsOne ==
  ASSUME NEW d, NEW S, NEW s \in Seq(S), NEW f, Trace(f, d, s)
  PROVE  After(d, s) = f[Len(s)]
<1>1. PICK g : Trace(g, d, s) /\ After(d, s) = g[Len(s)]
  BY TraceExists
<1> DEFINE B == {n \in Nat : n <= Len(s) => f[n] = g[n]}
<1>2. 0 \in B
  BY <1>1 DEF Trace
<1>3. ASSUME NEW n \in Nat, n \in B PROVE n + 1 \in B
  <2>1. ASSUME n + 1 <= Len(s) PROVE f[n + 1] = g[n + 1]
    <3>1. n + 1 \in 1..Len(s) /\ (n + 1) - 1 = n
      BY <2>1, LenProperties
    <3>2. f[n] = g[n]
      BY <1>3, <2>1, LenProperties
    <3> QED  BY <1>1, <3>1, <3>2 DEF Trace
  <2> QED  BY <2>1
<1>4. Len(s) \in Nat
  BY LenProperties
<1>5. Len(s) \in B
  <2> HIDE DEF B
  <2> QED  BY <1>2, <1>3, <1>4, Induction
<1> QED  BY <1>1, <1>4, <1>5

\* No write, no change.
LEMMA AfterNothing == ASSUME NEW d PROVE After(d, <<>>) = d
<1>1. <<>> \in Seq({0}) /\ Len(<<>>) = 0
  BY EmptySeq
<1>2. PICK f : Trace(f, d, <<>>) /\ After(d, <<>>) = f[0]
  BY <1>1, TraceExists
<1> QED  BY <1>2 DEF Trace

\* A write at the end is applied to what the others make.
LEMMA AfterAppend ==
  ASSUME NEW d, NEW S, NEW s \in Seq(S), NEW w \in S
  PROVE  After(d, Append(s, w)) = Apply(After(d, s), w)
<1>1. PICK f : Trace(f, d, s) /\ After(d, s) = f[Len(s)]
  BY TraceExists
<1> DEFINE L == Len(s)
           g == [n \in 0..(L + 1) |-> IF n = L + 1 THEN Apply(f[L], w) ELSE f[n]]
<1>2. L \in Nat
  BY LenProperties
<1>3. /\ Append(s, w) \in Seq(S) /\ Len(Append(s, w)) = L + 1
      /\ \A i \in 1..L : Append(s, w)[i] = s[i]
      /\ Append(s, w)[L + 1] = w
  BY AppendProperties
<1> DEFINE a == Append(s, w)
<1>4. a \in Seq(S) /\ Len(a) = L + 1 /\ (\A i \in 1..L : a[i] = s[i]) /\ a[L + 1] = w
  BY <1>3
<1> HIDE DEF a
<1>5. g[0] = d
  BY <1>1, <1>2 DEF Trace
<1>6. ASSUME NEW n \in 1..(L + 1) PROVE g[n] = Apply(g[n - 1], a[n])
  <2>1. CASE n = L + 1
    <3>1. g[n] = Apply(f[L], w) /\ g[n - 1] = f[L]
      BY <1>2, <2>1
    <3> QED  BY <1>4, <2>1, <3>1
  <2>2. CASE n # L + 1
    <3>1. n \in 1..L /\ n \in 0..(L + 1) /\ n - 1 \in 0..(L + 1) /\ n - 1 # L + 1
      BY <1>2, <2>2
    <3>2. g[n] = f[n] /\ g[n - 1] = f[n - 1]
      BY <3>1
    <3> QED  BY <1>1, <1>4, <3>1, <3>2 DEF Trace
  <2> QED  BY <2>1, <2>2
<1>7. Trace(g, d, a)
  BY <1>4, <1>5, <1>6 DEF Trace
<1>8. After(d, a) = g[L + 1]
  BY <1>4, <1>7, TraceIsOne
<1> QED  BY <1>1, <1>2, <1>8 DEF a

\* The first write is applied first.
LEMMA AfterFirst ==
  ASSUME NEW d, NEW S, NEW s \in Seq(S), s # <<>>
  PROVE  After(d, s) = After(Apply(d, s[1]), Tail(s))
<1>1. PICK f : Trace(f, d, s) /\ After(d, s) = f[Len(s)]
  BY TraceExists
<1> DEFINE t == Tail(s)
           L == Len(s)
           g == [n \in 0..(L - 1) |-> f[n + 1]]
<1>2. L \in Nat \ {0}
  BY EmptySeq
<1>3. t \in Seq(S) /\ Len(t) = L - 1 /\ \A i \in 1..(L - 1) : t[i] = s[i + 1]
  BY HeadTailProperties
<1> HIDE DEF t
<1>4. \A n \in 1..L : f[n] = Apply(f[n - 1], s[n])
  BY <1>1 DEF Trace
<1>5. g[0] = Apply(d, s[1])
  <2>1. f[1] = Apply(f[0], s[1])
    BY <1>2, <1>4
  <2> QED  BY <1>1, <1>2, <2>1 DEF Trace
<1>6. ASSUME NEW n \in 1..(L - 1) PROVE g[n] = Apply(g[n - 1], t[n])
  <2>1. n + 1 \in 1..L /\ (n + 1) - 1 = n /\ n \in 0..(L - 1) /\ n - 1 \in 0..(L - 1)
    BY <1>2
  <2>2. f[n + 1] = Apply(f[n], s[n + 1])
    BY <1>4, <2>1
  <2>3. g[n] = f[n + 1] /\ g[n - 1] = f[n]
    BY <2>1
  <2> QED  BY <1>3, <2>2, <2>3
<1>7. Trace(g, Apply(d, s[1]), t)
  BY <1>3, <1>5, <1>6 DEF Trace
<1>8. After(Apply(d, s[1]), t) = g[L - 1]
  BY <1>3, <1>7, TraceIsOne
<1> QED  BY <1>1, <1>2, <1>8 DEF t

-----------------------------------------------------------------------------
(* What the entries add up to.                                             *)

\* The sum as the library computes it: take an entry, add its count to the rest.
Chosen(s) == CHOOSE x \in s : TRUE
\* g sums c over any of the entries.
Sums(g, c, es) ==
    [s \in SUBSET es |-> IF s = {} THEN 0 ELSE c[Chosen(s)] + g[s \ {Chosen(s)}]]

\* An entry chosen from a set is in it.
LEMMA ChosenIsIn == ASSUME NEW s, s # {} PROVE Chosen(s) \in s
  BY DEF Chosen

\* The sum's recursion has a solution.
LEMMA SumExists ==
  ASSUME NEW es, IsFiniteSet(es), NEW c
  PROVE  \E g : g = Sums(g, c, es)
<1> DEFINE Up(n) == {t \in SUBSET es : Cardinality(t) <= n}
           Step(g, t) == IF t = {} THEN 0 ELSE c[Chosen(t)] + g[t \ {Chosen(t)}]
           Part(g, n) == g = [t \in Up(n) |-> Step(g, t)]
           B == {n \in Nat : \E g : Part(g, n)}
<1>1. \A t \in SUBSET es : IsFiniteSet(t) /\ Cardinality(t) \in Nat
  BY FS_Subset, FS_CardinalityType
<1>2. 0 \in B
  <2> DEFINE g == [t \in Up(0) |-> 0]
  <2>1. \A t \in Up(0) : t = {}
    BY <1>1, FS_EmptySet
  <2>2. Part(g, 0)
    BY <2>1
  <2> QED  BY <2>2
<1>3. ASSUME NEW n \in Nat, n \in B PROVE n + 1 \in B
  <2>1. PICK g : Part(g, n)
    BY <1>3
  <2> DEFINE h == [t \in Up(n + 1) |-> Step(g, t)]
  <2>2. ASSUME NEW t \in Up(n + 1), t # {} PROVE h[t \ {Chosen(t)}] = g[t \ {Chosen(t)}]
    <3> DEFINE r == t \ {Chosen(t)}
    <3>1. Chosen(t) \in t
      BY <2>2, ChosenIsIn
    <3>2. Cardinality(r) = Cardinality(t) - 1 /\ r \in SUBSET es
      BY <1>1, <3>1, FS_RemoveElement
    <3>3. r \in Up(n) /\ r \in Up(n + 1)
      BY <1>1, <3>2
    <3> HIDE DEF r
    <3>4. h[r] = Step(g, r)
      BY <3>3
    <3>5. g[r] = Step(g, r)
      BY <2>1, <3>3
    <3> QED  BY <3>4, <3>5 DEF r
  <2>3. ASSUME NEW t \in Up(n + 1) PROVE Step(h, t) = Step(g, t)
    <3> HIDE DEF h, Up
    <3>1. CASE t = {}
      BY <3>1
    <3>2. CASE t # {}
      BY <2>2, <3>2
    <3> QED  BY <3>1, <3>2
  <2>4. Part(h, n + 1)
    BY <2>3
  <2> HIDE DEF Part, h
  <2> QED  BY <2>4
<1>4. Cardinality(es) \in B
  <2> HIDE DEF B
  <2> QED  BY <1>1, <1>2, <1>3, Induction
<1>5. PICK g : Part(g, Cardinality(es))
  BY <1>4
<1>6. Up(Cardinality(es)) = SUBSET es
  BY FS_Subset
<1>7. g = Sums(g, c, es)
  BY <1>5, <1>6 DEF Sums
<1> QED  BY <1>7

\* A sum of noughts and ones counts the ones.
LEMMA SumCounts ==
  ASSUME NEW es, IsFiniteSet(es), NEW c, \A x \in es : c[x] \in {0, 1},
         NEW g, g = Sums(g, c, es)
  PROVE  g[es] = Cardinality({x \in es : c[x] = 1})
<1> DEFINE Ones(s) == {x \in s : c[x] = 1}
           B == {n \in Nat : \A s \in SUBSET es :
                    Cardinality(s) = n => g[s] = Cardinality(Ones(s))}
<1>1. \A t \in SUBSET es : IsFiniteSet(t) /\ Cardinality(t) \in Nat
  BY FS_Subset, FS_CardinalityType
<1>2. g = [s \in SUBSET es |-> IF s = {} THEN 0 ELSE c[Chosen(s)] + g[s \ {Chosen(s)}]]
  BY DEF Sums
<1>3. g[{}] = 0 /\ \A s \in SUBSET es : s # {} => g[s] = c[Chosen(s)] + g[s \ {Chosen(s)}]
  BY <1>2
<1>4. 0 \in B
  <2> SUFFICES ASSUME NEW s \in SUBSET es, Cardinality(s) = 0 PROVE g[s] = Cardinality(Ones(s))
    OBVIOUS
  <2>1. s = {} /\ Ones(s) = {}
    BY <1>1, FS_EmptySet
  <2> QED  BY <1>3, <2>1, FS_EmptySet
<1>5. ASSUME NEW n \in Nat, n \in B PROVE n + 1 \in B
  <2> SUFFICES ASSUME NEW s \in SUBSET es, Cardinality(s) = n + 1
               PROVE  g[s] = Cardinality(Ones(s))
    OBVIOUS
  <2>1. s # {}
    BY FS_EmptySet
  <2>2. Chosen(s) \in s
    BY <2>1, ChosenIsIn
  <2> DEFINE r == s \ {Chosen(s)}
  <2>3. r \in SUBSET es /\ Cardinality(r) = n
    <3>1. Cardinality(r) = Cardinality(s) - 1
      BY <1>1, <2>2, FS_RemoveElement
    <3> QED  BY <3>1
  <2>4. g[r] = Cardinality(Ones(r))
    BY <1>5, <2>3
  <2>5. g[s] = c[Chosen(s)] + g[r]
    BY <1>3, <2>1
  <2>6. Ones(r) = Ones(s) \ {Chosen(s)} /\ Ones(s) \in SUBSET es /\ Ones(r) \in SUBSET es
    OBVIOUS
  <2>7. IsFiniteSet(Ones(s)) /\ Cardinality(Ones(s)) \in Nat
    BY <1>1, <2>6
  <2>8. c[Chosen(s)] = IF Chosen(s) \in Ones(s) THEN 1 ELSE 0
    BY <2>2
  <2> HIDE DEF r, Ones
  <2>9. Cardinality(Ones(r)) = IF Chosen(s) \in Ones(s) THEN Cardinality(Ones(s)) - 1
                                                        ELSE Cardinality(Ones(s))
    <3>1. PICK S, x : S = Ones(s) /\ x = Chosen(s) /\ Ones(r) = S \ {x} /\ IsFiniteSet(S)
      BY <2>6, <2>7
    <3>2. Cardinality(S \ {x}) = IF x \in S THEN Cardinality(S) - 1 ELSE Cardinality(S)
      BY <3>1, FS_RemoveElement
    <3> QED  BY <3>1, <3>2
  <2> QED  BY <2>4, <2>5, <2>7, <2>8, <2>9
<1>6. Cardinality(es) \in B
  <2> HIDE DEF B
  <2> QED  BY <1>1, <1>4, <1>5, Induction
<1> QED  BY <1>6

\* What entries add to the wins.
LEMMA WinsCount ==
  ASSUME NEW es, IsFiniteSet(es), \A e \in es : e.wins \in {0, 1}
  PROVE  Wins(es) = Cardinality({e \in es : e.wins = 1})
<1> DEFINE c == [e \in es |-> e.wins]
           Turn(g) == [s \in SUBSET es |-> IF s = {} THEN 0
                                           ELSE Chosen(s).wins + g[s \ {Chosen(s)}]]
           f == CHOOSE g : g = Turn(g)
<1>1. Wins(es) = f[es]
  BY DEF Wins, MapThenSumSet, MapThenFoldSet, Chosen
<1>2. ASSUME NEW g PROVE Turn(g) = Sums(g, c, es)
  <2>1. \A s \in SUBSET es : s # {} => c[Chosen(s)] = Chosen(s).wins
    BY ChosenIsIn
  <2> HIDE DEF c
  <2> QED  BY <2>1 DEF Sums
<1>3. \E g : g = Turn(g)
  BY <1>2, SumExists
<1>4. f = Turn(f)
  <2> HIDE DEF Turn
  <2> QED  BY <1>3
<1>5. f = Sums(f, c, es)
  <2> HIDE DEF Turn, f, c
  <2> QED  BY <1>2, <1>4
<1>6. f[es] = Cardinality({e \in es : c[e] = 1})
  <2>1. \A e \in es : c[e] \in {0, 1}
    OBVIOUS
  <2> HIDE DEF f, c
  <2> QED  BY <1>5, <2>1, SumCounts
<1>7. {e \in es : c[e] = 1} = {e \in es : e.wins = 1}
  OBVIOUS
<1> QED  BY <1>1, <1>6, <1>7

\* What entries add to the losses.
LEMMA LossesCount ==
  ASSUME NEW es, IsFiniteSet(es), \A e \in es : e.losses \in {0, 1}
  PROVE  Losses(es) = Cardinality({e \in es : e.losses = 1})
<1> DEFINE c == [e \in es |-> e.losses]
           Turn(g) == [s \in SUBSET es |-> IF s = {} THEN 0
                                           ELSE Chosen(s).losses + g[s \ {Chosen(s)}]]
           f == CHOOSE g : g = Turn(g)
<1>1. Losses(es) = f[es]
  BY DEF Losses, MapThenSumSet, MapThenFoldSet, Chosen
<1>2. ASSUME NEW g PROVE Turn(g) = Sums(g, c, es)
  <2>1. \A s \in SUBSET es : s # {} => c[Chosen(s)] = Chosen(s).losses
    BY ChosenIsIn
  <2> HIDE DEF c
  <2> QED  BY <2>1 DEF Sums
<1>3. \E g : g = Turn(g)
  BY <1>2, SumExists
<1>4. f = Turn(f)
  <2> HIDE DEF Turn
  <2> QED  BY <1>3
<1>5. f = Sums(f, c, es)
  <2> HIDE DEF Turn, f, c
  <2> QED  BY <1>2, <1>4
<1>6. f[es] = Cardinality({e \in es : c[e] = 1})
  <2>1. \A e \in es : c[e] \in {0, 1}
    OBVIOUS
  <2> HIDE DEF f, c
  <2> QED  BY <1>5, <2>1, SumCounts
<1>7. {e \in es : c[e] = 1} = {e \in es : e.losses = 1}
  OBVIOUS
<1> QED  BY <1>1, <1>6, <1>7

-----------------------------------------------------------------------------
(* The tables, and what a write does to them.                              *)

\* The keys of launches, and what a launch counts.
Keys == Order \X {0, 1}
Values == [Keys -> [wins : {0, 1}, losses : {0, 1}]]
\* The types of entries, of the tables and of writes, whatever the bounds.
Entries == [since : Nat, key : Keys, wins : {0, 1}, losses : {0, 1}]
Tables == [row : [exists : BOOLEAN, since : Nat, wins : Int, losses : Int],
           entries : SUBSET Entries, base : [wins : Nat, losses : Nat]]
Writes == [kind : Kind, key : (Order \cup {NoOrder}) \X {0, 1},
           wins : Nat, losses : Nat, since : Nat]

\* An entry or a launch counts what its key is worth.
Fits(V, e) == e.key \in Keys /\ e.wins = V[e.key].wins /\ e.losses = V[e.key].losses
\* The entries of the period that count a win, or a loss.
WinSet(d) == {e \in Current(d) : e.wins = 1}
LossSet(d) == {e \in Current(d) : e.losses = 1}

\* The row is what the period started from and what its entries count.
Sound(V, d) ==
    /\ d \in Tables /\ IsFiniteSet(d.entries)
    /\ \A e \in d.entries : Fits(V, e) /\ e.since <= d.row.since
    /\ ~d.row.exists => d.entries = {} /\ d.base = Zero
    /\ d.row.wins = d.base.wins + Cardinality(WinSet(d))
    /\ d.row.losses = d.base.losses + Cardinality(LossSet(d))

\* A write that a process sends.
Legal(V, w) == w \in Writes /\ (w.kind = "lancar" => Fits(V, w))
\* A reset is newer than the period, or the database has done it already.
Due(d, w) == w.kind = "reiniciar" => \/ w.since > d.row.since
                                     \/ w.since = d.row.since /\ Current(d) = {}

\* The period has the key.
Has(d, k) == \E e \in Current(d) : e.key = k

\* Sound tables are finite and counted in naturals.
LEMMA SoundFinite ==
  ASSUME NEW V, NEW d, Sound(V, d)
  PROVE  /\ IsFiniteSet(Current(d)) /\ IsFiniteSet(WinSet(d)) /\ IsFiniteSet(LossSet(d))
         /\ Cardinality(WinSet(d)) \in Nat /\ Cardinality(LossSet(d)) \in Nat
         /\ Current(d) \subseteq d.entries /\ d.entries \subseteq Entries
         /\ d.row.since \in Nat /\ d.base.wins \in Nat /\ d.base.losses \in Nat
         /\ d.row.wins \in Nat /\ d.row.losses \in Nat
<1>1. d \in Tables /\ IsFiniteSet(d.entries)
  BY DEF Sound
<1>2. Current(d) \subseteq d.entries /\ WinSet(d) \subseteq d.entries /\ LossSet(d) \subseteq d.entries
  BY DEF Current, WinSet, LossSet
<1>3. IsFiniteSet(Current(d)) /\ IsFiniteSet(WinSet(d)) /\ IsFiniteSet(LossSet(d))
  BY <1>1, <1>2, FS_Subset
<1>4. Cardinality(WinSet(d)) \in Nat /\ Cardinality(LossSet(d)) \in Nat
  BY <1>3, FS_CardinalityType
<1>5. d.row.since \in Nat /\ d.base.wins \in Nat /\ d.base.losses \in Nat /\ d.entries \subseteq Entries
  BY <1>1 DEF Tables
<1>6. d.row.wins \in Nat /\ d.row.losses \in Nat
  BY <1>4, <1>5 DEF Sound
<1> QED  BY <1>2, <1>3, <1>4, <1>5, <1>6

\* What each kind of write calls.
LEMMA ApplyIs ==
  ASSUME NEW d, NEW w
  PROVE  /\ w.kind = "lancar" => Apply(d, w) = PlacarLancar(d, w)
         /\ w.kind = "apagar" => Apply(d, w) = PlacarApagar(d, w)
         /\ w.kind = "reiniciar" => Apply(d, w) = PlacarReiniciar(d, w)
         /\ w.kind = "semear" => Apply(d, w) = PlacarSemear(d, w)
  BY DEF Apply

\* Tables a are d with the entry of a launch.
Added(V, d, w, a) ==
    /\ a \in Tables /\ a.entries = d.entries \cup {Entry(d, w)} /\ a.base = d.base
    /\ a.row = Row(TRUE, d.row.since, d.row.wins + w.wins, d.row.losses + w.losses)
    /\ Current(a) = Current(d) \cup {Entry(d, w)} /\ Entry(d, w) \notin Current(d)
    /\ Entry(d, w) \in Entries /\ Fits(V, Entry(d, w))
\* Tables a are d with a period that begins.
Emptied(d, w, a) ==
    /\ a.entries = d.entries /\ a.base = Zero /\ a.row = Row(TRUE, w.since, 0, 0)
    /\ Current(a) = {}

\* A launch whose key is new adds its entry to the period.
LEMMA LaunchIs ==
  ASSUME NEW V \in Values, NEW d \in Tables, NEW w, Legal(V, w), w.kind = "lancar",
         ~Has(d, w.key)
  PROVE  Added(V, d, w, Apply(d, w))
<1>1. Apply(d, w) = [d EXCEPT !.entries = @ \cup {Entry(d, w)},
                             !.row = Row(TRUE, @.since, @.wins + w.wins, @.losses + w.losses)]
  BY ApplyIs DEF PlacarLancar, Has
<1>2. w \in Writes /\ w.key \in Keys /\ w.wins = V[w.key].wins /\ w.losses = V[w.key].losses
  BY DEF Legal, Fits
<1>3. w.wins \in {0, 1} /\ w.losses \in {0, 1}
  BY <1>2 DEF Values
<1>4. d.row.since \in Nat /\ d.row.wins \in Int /\ d.row.losses \in Int
  BY DEF Tables
<1>5. Entry(d, w) \in Entries /\ Fits(V, Entry(d, w)) /\ Entry(d, w).key = w.key
      /\ Entry(d, w).since = d.row.since
  BY <1>2, <1>3, <1>4 DEF Entry, Entries, Fits
<1> DEFINE a == Apply(d, w)
<1>6. /\ a.entries = d.entries \cup {Entry(d, w)} /\ a.base = d.base
      /\ a.row = Row(TRUE, d.row.since, d.row.wins + w.wins, d.row.losses + w.losses)
      /\ a = [row |-> a.row, entries |-> a.entries, base |-> a.base]
  BY <1>1 DEF Tables
<1>7. a.row \in [exists : BOOLEAN, since : Nat, wins : Int, losses : Int] /\ a.row.since = d.row.since
  BY <1>3, <1>4, <1>6 DEF Row
<1> HIDE DEF a
<1>8. a \in Tables
  BY <1>5, <1>6, <1>7 DEF Tables
<1>9. Current(a) = Current(d) \cup {Entry(d, w)}
  BY <1>5, <1>6, <1>7 DEF Current
<1>10. Entry(d, w) \notin Current(d)
  BY <1>5 DEF Has
<1>11. Added(V, d, w, a)
  BY <1>5, <1>6, <1>8, <1>9, <1>10 DEF Added
<1> QED  BY <1>11 DEF a

\* A launch keeps the tables sound.
LEMMA LaunchSound ==
  ASSUME NEW V \in Values, NEW d, Sound(V, d), NEW w, Legal(V, w), w.kind = "lancar"
  PROVE  Sound(V, Apply(d, w))
<1>1. CASE Has(d, w.key)
  <2>1. Apply(d, w) = d
    BY <1>1, ApplyIs DEF PlacarLancar, Has
  <2> QED  BY <2>1
<1>2. CASE ~Has(d, w.key)
  <2>1. d \in Tables /\ IsFiniteSet(d.entries)
    BY DEF Sound
  <2> DEFINE a == Apply(d, w)
             x == Entry(d, w)
  <2>2. /\ a \in Tables /\ a.entries = d.entries \cup {x} /\ a.base = d.base
        /\ a.row = Row(TRUE, d.row.since, d.row.wins + w.wins, d.row.losses + w.losses)
        /\ Current(a) = Current(d) \cup {x} /\ x \notin Current(d) /\ x \in Entries /\ Fits(V, x)
    <3>1. Added(V, d, w, a)
      BY <1>2, <2>1, LaunchIs
    <3> HIDE DEF a
    <3> QED  BY <3>1 DEF Added
  <2>3. x.since = d.row.since /\ x.wins = w.wins /\ x.losses = w.losses
    BY DEF Entry
  <2>4. w.wins \in {0, 1} /\ w.losses \in {0, 1}
    BY <2>2, <2>3 DEF Entries
  <2> HIDE DEF a, x
  <2>5. IsFiniteSet(a.entries)
    BY <2>1, <2>2, FS_AddElement
  <2>6. /\ a.row.exists /\ a.row.since = d.row.since /\ a.row.wins = d.row.wins + w.wins
        /\ a.row.losses = d.row.losses + w.losses
    BY <2>2 DEF Row
  <2>7. \A e \in a.entries : Fits(V, e) /\ e.since <= a.row.since
    <3>1. d.row.since <= d.row.since
      BY SoundFinite
    <3> QED  BY <2>2, <2>3, <2>6, <3>1 DEF Sound
  <2>8. Cardinality(WinSet(a)) = Cardinality(WinSet(d)) + w.wins
    <3>1. WinSet(a) = IF w.wins = 1 THEN WinSet(d) \cup {x} ELSE WinSet(d)
      BY <2>2, <2>3 DEF WinSet
    <3>2. x \notin WinSet(d)
      BY <2>2 DEF WinSet
    <3>3. Cardinality(WinSet(d) \cup {x}) = Cardinality(WinSet(d)) + 1
      BY <3>2, SoundFinite, FS_AddElement
    <3> QED  BY <2>4, <3>1, <3>3, SoundFinite
  <2>9. Cardinality(LossSet(a)) = Cardinality(LossSet(d)) + w.losses
    <3>1. LossSet(a) = IF w.losses = 1 THEN LossSet(d) \cup {x} ELSE LossSet(d)
      BY <2>2, <2>3 DEF LossSet
    <3>2. x \notin LossSet(d)
      BY <2>2 DEF LossSet
    <3>3. Cardinality(LossSet(d) \cup {x}) = Cardinality(LossSet(d)) + 1
      BY <3>2, SoundFinite, FS_AddElement
    <3> QED  BY <2>4, <3>1, <3>3, SoundFinite
  <2>10. a.row.wins = a.base.wins + Cardinality(WinSet(a))
    <3>1. d.row.wins = d.base.wins + Cardinality(WinSet(d))
      BY DEF Sound
    <3>2. a.row.wins = d.row.wins + w.wins /\ a.base.wins = d.base.wins
      BY <2>2, <2>6
    <3>3. /\ d.base.wins \in Nat /\ Cardinality(WinSet(d)) \in Nat /\ w.wins \in Nat
      BY <2>4, SoundFinite
    <3> QED  BY <2>8, <3>1, <3>2, <3>3
  <2>11. a.row.losses = a.base.losses + Cardinality(LossSet(a))
    <3>1. d.row.losses = d.base.losses + Cardinality(LossSet(d))
      BY DEF Sound
    <3>2. a.row.losses = d.row.losses + w.losses /\ a.base.losses = d.base.losses
      BY <2>2, <2>6
    <3>3. /\ d.base.losses \in Nat /\ Cardinality(LossSet(d)) \in Nat /\ w.losses \in Nat
      BY <2>4, SoundFinite
    <3> QED  BY <2>9, <3>1, <3>2, <3>3
  <2>12. Sound(V, a)
    BY <2>2, <2>5, <2>6, <2>7, <2>10, <2>11 DEF Sound
  <2> QED  BY <2>12 DEF a
<1> QED  BY <1>1, <1>2

\* The entries of an order in the period.
Gone(d, w) == {e \in Current(d) : e.key[1] = w.key[1]}

\* A deletion takes an order's entries out, and what they count.
LEMMA EraseIs ==
  ASSUME NEW V \in Values, NEW d, Sound(V, d), NEW w, w.kind = "apagar"
  PROVE  /\ Apply(d, w).entries = d.entries \ Gone(d, w) /\ Apply(d, w).base = d.base
         /\ Apply(d, w).row.exists = d.row.exists /\ Apply(d, w).row.since = d.row.since
         /\ Current(Apply(d, w)) = Current(d) \ Gone(d, w)
         /\ Sound(V, Apply(d, w))
<1> DEFINE a == Apply(d, w)
           gone == Gone(d, w)
<1>1. a = [d EXCEPT !.entries = @ \ gone,
                    !.row.wins = @ - Wins(gone), !.row.losses = @ - Losses(gone)]
  <2>1. a = PlacarApagar(d, w)
    BY ApplyIs
  <2> HIDE DEF a
  <2> QED  BY <2>1 DEF PlacarApagar, Gone
<1>2. d \in Tables /\ IsFiniteSet(d.entries)
  BY DEF Sound
<1>3. /\ a.entries = d.entries \ gone /\ a.base = d.base
      /\ a.row.exists = d.row.exists /\ a.row.since = d.row.since
      /\ a.row.wins = d.row.wins - Wins(gone) /\ a.row.losses = d.row.losses - Losses(gone)
      /\ a = [row |-> a.row, entries |-> a.entries, base |-> a.base]
      /\ a.row = [exists |-> a.row.exists, since |-> a.row.since, wins |-> a.row.wins,
                  losses |-> a.row.losses]
  <2>1. PICK x, y : x = Wins(gone) /\ y = Losses(gone)
    OBVIOUS
  <2>2. PICK u : u = gone
    OBVIOUS
  <2>3. a = [d EXCEPT !.entries = @ \ u, !.row.wins = @ - x, !.row.losses = @ - y]
    BY <1>1, <2>1, <2>2
  <2> HIDE DEF a, gone
  <2>4. d = [row |-> d.row, entries |-> d.entries, base |-> d.base]
        /\ d.row = [exists |-> d.row.exists, since |-> d.row.since, wins |-> d.row.wins,
                    losses |-> d.row.losses]
    BY <1>2 DEF Tables
  <2>5. /\ a.entries = d.entries \ u /\ a.base = d.base
        /\ a.row = [d.row EXCEPT !.wins = @ - x, !.losses = @ - y]
        /\ a = [row |-> a.row, entries |-> a.entries, base |-> a.base]
    BY <2>3, <2>4
  <2>6. a.row = [exists |-> d.row.exists, since |-> d.row.since, wins |-> d.row.wins - x,
                losses |-> d.row.losses - y]
    BY <2>4, <2>5
  <2> QED  BY <2>1, <2>2, <2>5, <2>6
<1> HIDE DEF a
<1>4. gone \subseteq Current(d) /\ gone \subseteq d.entries /\ gone \subseteq Entries /\ IsFiniteSet(gone)
  <2>1. gone \subseteq Current(d)
    BY DEF Gone
  <2> QED  BY <2>1, SoundFinite, FS_Subset
<1>5. Current(a) = Current(d) \ gone
  BY <1>3 DEF Current
<1> DEFINE wins == {e \in gone : e.wins = 1}
           losses == {e \in gone : e.losses = 1}
<1>6. Wins(gone) = Cardinality(wins) /\ Losses(gone) = Cardinality(losses)
  <2>1. \A e \in gone : e.wins \in {0, 1} /\ e.losses \in {0, 1}
    BY <1>4 DEF Entries
  <2> HIDE DEF gone
  <2> QED  BY <1>4, <2>1, WinsCount, LossesCount
<1>7. /\ WinSet(a) = WinSet(d) \ wins /\ wins \subseteq WinSet(d)
      /\ LossSet(a) = LossSet(d) \ losses /\ losses \subseteq LossSet(d)
  BY <1>4, <1>5 DEF WinSet, LossSet
<1> HIDE DEF gone, wins, losses
<1>8. /\ IsFiniteSet(wins) /\ IsFiniteSet(losses)
      /\ Cardinality(wins) \in Nat /\ Cardinality(losses) \in Nat
      /\ wins = WinSet(d) \cap wins /\ losses = LossSet(d) \cap losses
  BY <1>7, SoundFinite, FS_Subset, FS_CardinalityType
<1>9. /\ Cardinality(WinSet(a)) = Cardinality(WinSet(d)) - Cardinality(wins)
      /\ Cardinality(LossSet(a)) = Cardinality(LossSet(d)) - Cardinality(losses)
  <2>1. IsFiniteSet(WinSet(d)) /\ IsFiniteSet(LossSet(d))
    BY SoundFinite
  <2>2. /\ Cardinality(WinSet(d) \ wins) = Cardinality(WinSet(d)) - Cardinality(WinSet(d) \cap wins)
        /\ Cardinality(LossSet(d) \ losses) = Cardinality(LossSet(d)) - Cardinality(LossSet(d) \cap losses)
    BY <1>8, <2>1, FS_Difference
  <2> QED  BY <1>7, <1>8, <2>2
<1>10. a.row.wins = a.base.wins + Cardinality(WinSet(a))
  <2>1. d.row.wins = d.base.wins + Cardinality(WinSet(d))
    BY DEF Sound
  <2> QED  BY <1>3, <1>6, <1>8, <1>9, <2>1, SoundFinite
<1>11. a.row.losses = a.base.losses + Cardinality(LossSet(a))
  <2>1. d.row.losses = d.base.losses + Cardinality(LossSet(d))
    BY DEF Sound
  <2> QED  BY <1>3, <1>6, <1>8, <1>9, <2>1, SoundFinite
<1>12. a \in Tables
  <2>1. a.row.wins \in Int /\ a.row.losses \in Int
    BY <1>3, <1>6, <1>8, SoundFinite
  <2>2. a.row \in [exists : BOOLEAN, since : Nat, wins : Int, losses : Int]
    BY <1>2, <1>3, <2>1 DEF Tables
  <2>3. a.entries \in SUBSET Entries /\ a.base \in [wins : Nat, losses : Nat]
    BY <1>2, <1>3 DEF Tables
  <2> QED  BY <1>3, <2>2, <2>3 DEF Tables
<1>13. IsFiniteSet(a.entries)
  BY <1>2, <1>3, FS_Subset
<1>14. Sound(V, a)
  <2>1. \A e \in a.entries : Fits(V, e) /\ e.since <= a.row.since
    BY <1>3 DEF Sound
  <2>2. ~a.row.exists => a.entries = {} /\ a.base = Zero
    BY <1>3 DEF Sound
  <2> QED  BY <1>10, <1>11, <1>12, <1>13, <2>1, <2>2 DEF Sound
<1> QED  BY <1>3, <1>5, <1>14 DEF a, gone

\* A reset begins a period without entries.
LEMMA ResetIs ==
  ASSUME NEW V \in Values, NEW d, Sound(V, d), NEW w, Legal(V, w), Due(d, w), w.kind = "reiniciar"
  PROVE  Emptied(d, w, Apply(d, w)) /\ Sound(V, Apply(d, w))
<1> DEFINE a == Apply(d, w)
<1>1. a = [d EXCEPT !.row = Row(TRUE, w.since, 0, 0), !.base = Zero]
  BY ApplyIs DEF PlacarReiniciar
<1>2. d \in Tables /\ IsFiniteSet(d.entries) /\ w.since \in Nat
  BY DEF Sound, Legal, Writes
<1>3. /\ a.entries = d.entries /\ a.base = Zero /\ a.row = Row(TRUE, w.since, 0, 0)
      /\ a = [row |-> a.row, entries |-> a.entries, base |-> a.base]
  BY <1>1, <1>2 DEF Tables
<1> HIDE DEF a
<1>4. a.row.exists /\ a.row.since = w.since /\ a.row.wins = 0 /\ a.row.losses = 0
      /\ a.row \in [exists : BOOLEAN, since : Nat, wins : Int, losses : Int]
  BY <1>2, <1>3 DEF Row
<1>5. a.base.wins = 0 /\ a.base.losses = 0 /\ a.base \in [wins : Nat, losses : Nat]
  BY <1>3 DEF Zero
<1>6. \A e \in d.entries : e.since \in Nat /\ e.since <= d.row.since
  BY SoundFinite DEF Sound, Entries
<1>7. w.since >= d.row.since
  BY <1>2, SoundFinite DEF Due
<1>8. Current(a) = {}
  <2>1. CASE w.since > d.row.since
    <3>1. \A e \in d.entries : e.since # w.since
      BY <1>2, <1>6, <2>1, SoundFinite
    <3> QED  BY <1>3, <1>4, <3>1 DEF Current
  <2>2. CASE w.since = d.row.since /\ Current(d) = {}
    BY <1>3, <1>4, <2>2 DEF Current
  <2> QED  BY <2>1, <2>2 DEF Due
<1>9. WinSet(a) = {} /\ LossSet(a) = {}
  BY <1>8 DEF WinSet, LossSet
<1>10. a \in Tables
  BY <1>2, <1>3, <1>4, <1>5 DEF Tables
<1>11. \A e \in a.entries : Fits(V, e) /\ e.since <= a.row.since
  <2>1. \A e \in d.entries : Fits(V, e)
    BY DEF Sound
  <2>2. d.row.since \in Nat
    BY SoundFinite
  <2>3. \A e \in d.entries : e.since <= w.since
    BY <1>2, <1>6, <1>7, <2>2
  <2> QED  BY <1>3, <1>4, <2>1, <2>3
<1>12. Cardinality(WinSet(a)) = 0 /\ Cardinality(LossSet(a)) = 0
  BY <1>9, FS_EmptySet
<1>13. Sound(V, a)
  <2>1. /\ a.row.wins = a.base.wins + Cardinality(WinSet(a))
        /\ a.row.losses = a.base.losses + Cardinality(LossSet(a))
    BY <1>4, <1>5, <1>12
  <2> QED  BY <1>2, <1>3, <1>4, <1>10, <1>11, <2>1 DEF Sound
<1>14. Emptied(d, w, a)
  BY <1>3, <1>8 DEF Emptied
<1> QED  BY <1>13, <1>14 DEF a

\* A seed fills tables that have no row.
LEMMA SeedIs ==
  ASSUME NEW V \in Values, NEW d, Sound(V, d), NEW w, Legal(V, w), w.kind = "semear"
  PROVE  /\ d.row.exists => Apply(d, w) = d
         /\ ~d.row.exists =>
              /\ Apply(d, w).base = [wins |-> w.wins, losses |-> w.losses]
              /\ Apply(d, w).row = Row(TRUE, d.row.since, w.wins, w.losses)
              /\ Current(d) = {} /\ Current(Apply(d, w)) = {} /\ Apply(d, w).entries = d.entries
         /\ Apply(d, w).row.exists /\ Apply(d, w).row.since = d.row.since
         /\ Sound(V, Apply(d, w))
<1> DEFINE a == Apply(d, w)
<1>0. d \in Tables /\ d.row.exists \in BOOLEAN
  BY DEF Sound, Tables
<1>1. CASE d.row.exists
  <2>1. a = d
    BY <1>1, ApplyIs DEF PlacarSemear
  <2> QED  BY <1>1, <2>1
<1>2. CASE ~d.row.exists
  <2>1. a = [d EXCEPT !.row = Row(TRUE, @.since, w.wins, w.losses),
                      !.base = [wins |-> w.wins, losses |-> w.losses]]
    BY <1>2, ApplyIs DEF PlacarSemear
  <2>2. w.wins \in Nat /\ w.losses \in Nat /\ d.row.since \in Nat /\ d.entries = {}
    BY <1>2, SoundFinite DEF Sound, Legal, Writes
  <2>3. /\ a.entries = d.entries /\ a.base = [wins |-> w.wins, losses |-> w.losses]
        /\ a.row = Row(TRUE, d.row.since, w.wins, w.losses)
        /\ a = [row |-> a.row, entries |-> a.entries, base |-> a.base]
    BY <1>0, <2>1 DEF Tables
  <2> HIDE DEF a
  <2>4. /\ a.row.exists /\ a.row.since = d.row.since /\ a.row.wins = w.wins /\ a.row.losses = w.losses
        /\ a.row \in [exists : BOOLEAN, since : Nat, wins : Int, losses : Int]
        /\ a.base.wins = w.wins /\ a.base.losses = w.losses /\ a.base \in [wins : Nat, losses : Nat]
    BY <2>2, <2>3 DEF Row
  <2>5. Current(a) = {} /\ Current(d) = {} /\ WinSet(a) = {} /\ LossSet(a) = {}
    BY <2>2, <2>3 DEF Current, WinSet, LossSet
  <2>6. Cardinality(WinSet(a)) = 0 /\ Cardinality(LossSet(a)) = 0 /\ IsFiniteSet(a.entries)
    BY <2>2, <2>3, <2>5, FS_EmptySet
  <2>7. a \in Tables
    BY <1>0, <2>3, <2>4 DEF Tables
  <2>8. Sound(V, a)
    <3>1. /\ a.row.wins = a.base.wins + Cardinality(WinSet(a))
          /\ a.row.losses = a.base.losses + Cardinality(LossSet(a))
      BY <2>2, <2>4, <2>6
    <3> QED  BY <2>2, <2>3, <2>4, <2>6, <2>7, <3>1 DEF Sound
  <2> QED  BY <1>2, <2>3, <2>4, <2>5, <2>8 DEF a
<1> QED  BY <1>0, <1>1, <1>2

\* Every write keeps the tables sound, and only a reset changes the period.
LEMMA ApplySound ==
  ASSUME NEW V \in Values, NEW d, Sound(V, d), NEW w, Legal(V, w), Due(d, w)
  PROVE  /\ Sound(V, Apply(d, w))
         /\ w.kind # "reiniciar" => Apply(d, w).row.since = d.row.since
         /\ w.kind = "reiniciar" => Apply(d, w).row.since = w.since
<1>0. w.kind \in Kind
  BY DEF Legal, Writes
<1>1. CASE w.kind = "lancar"
  <2>1. Apply(d, w).row.since = d.row.since
    <3>1. CASE Has(d, w.key)
      BY <1>1, <3>1, ApplyIs DEF PlacarLancar, Has
    <3>2. CASE ~Has(d, w.key)
      <4>1. d \in Tables
        BY DEF Sound
      <4>2. Apply(d, w).row = Row(TRUE, d.row.since, d.row.wins + w.wins, d.row.losses + w.losses)
        <5>1. Added(V, d, w, Apply(d, w))
          BY <1>1, <3>2, <4>1, LaunchIs
        <5> QED  BY <5>1 DEF Added
      <4> QED  BY <4>2 DEF Row
    <3> QED  BY <3>1, <3>2
  <2> QED  BY <1>1, <2>1, LaunchSound
<1>2. CASE w.kind = "apagar"
  BY <1>2, EraseIs
<1>3. CASE w.kind = "reiniciar"
  <2>1. Apply(d, w).row = Row(TRUE, w.since, 0, 0) /\ Sound(V, Apply(d, w))
    <3>1. Emptied(d, w, Apply(d, w)) /\ Sound(V, Apply(d, w))
      BY <1>3, ResetIs
    <3> QED  BY <3>1 DEF Emptied
  <2> QED  BY <1>3, <2>1 DEF Row
<1>4. CASE w.kind = "semear"
  <2>1. Sound(V, Apply(d, w))
    BY <1>4, SeedIs
  <2>2. Apply(d, w).row.since = d.row.since
    <3>1. d \in Tables
      BY DEF Sound
    <3>2. Apply(d, w) = PlacarSemear(d, w)
      BY <1>4, ApplyIs
    <3> QED  BY <3>1, <3>2 DEF PlacarSemear, Row, Tables
  <2> QED  BY <1>4, <2>1, <2>2
<1> QED  BY <1>0, <1>1, <1>2, <1>3, <1>4 DEF Kind

\* A write that is repeated changes nothing.
LEMMA ApplyTwice ==
  ASSUME NEW V \in Values, NEW d, Sound(V, d), NEW w, Legal(V, w), Due(d, w)
  PROVE  Apply(Apply(d, w), w) = Apply(d, w)
<1> DEFINE a == Apply(d, w)
<1>0. w.kind \in Kind /\ Sound(V, a)
  BY ApplySound DEF Legal, Writes
<1>1. CASE w.kind = "lancar"
  <2>1. CASE Has(d, w.key)
    <3>1. a = d
      BY <1>1, <2>1, ApplyIs DEF PlacarLancar, Has
    <3> QED  BY <3>1
  <2>2. CASE ~Has(d, w.key)
    <3>1. d \in Tables
      BY DEF Sound
    <3>2. Current(a) = Current(d) \cup {Entry(d, w)}
      <4>1. Added(V, d, w, Apply(d, w))
        BY <1>1, <2>2, <3>1, LaunchIs
      <4> QED  BY <4>1 DEF Added
    <3>3. Entry(d, w).key = w.key
      BY DEF Entry
    <3> HIDE DEF a
    <3>4. Has(a, w.key)
      BY <3>2, <3>3 DEF Has
    <3>5. Apply(a, w) = a
      BY <1>1, <3>4, ApplyIs DEF PlacarLancar, Has
    <3> QED  BY <3>5 DEF a
  <2> QED  BY <2>1, <2>2
<1>2. CASE w.kind = "apagar"
  <2>1. Current(a) = Current(d) \ Gone(d, w)
    BY <1>2, EraseIs
  <2> HIDE DEF a
  <2>2. Gone(a, w) = {}
    BY <2>1 DEF Gone
  <2>3. Wins({}) = 0 /\ Losses({}) = 0
    <3> DEFINE none == {}
    <3>0. none = {}
      OBVIOUS
    <3>1. IsFiniteSet(none) /\ {e \in none : e.wins = 1} = {} /\ {e \in none : e.losses = 1} = {}
      BY FS_EmptySet
    <3>2. (\A e \in none : e.wins \in {0, 1}) /\ (\A e \in none : e.losses \in {0, 1})
      OBVIOUS
    <3> HIDE DEF none
    <3>3. Wins(none) = 0 /\ Losses(none) = 0
      BY <3>1, <3>2, WinsCount, LossesCount, FS_EmptySet
    <3> QED  BY <3>0, <3>3
  <2>4. Apply(a, w) = PlacarApagar(a, w)
    BY <1>2, ApplyIs
  <2>5. PlacarApagar(a, w) = [a EXCEPT !.entries = @ \ {}, !.row.wins = @ - 0, !.row.losses = @ - 0]
    BY <2>2, <2>3 DEF PlacarApagar, Gone
  <2>6. a \in Tables
    BY <1>0 DEF Sound
  <2>7. [a EXCEPT !.entries = @ \ {}, !.row.wins = @ - 0, !.row.losses = @ - 0] = a
    <3>1. /\ a = [row |-> a.row, entries |-> a.entries, base |-> a.base]
          /\ a.row = [exists |-> a.row.exists, since |-> a.row.since, wins |-> a.row.wins,
                      losses |-> a.row.losses]
          /\ a.row.wins \in Int /\ a.row.losses \in Int
      BY <2>6 DEF Tables
    <3>2. PICK z : z = [a EXCEPT !.entries = @ \ {}, !.row.wins = @ - 0, !.row.losses = @ - 0]
      OBVIOUS
    <3>3. /\ z.entries = a.entries /\ z.base = a.base
          /\ z.row = [a.row EXCEPT !.wins = @ - 0, !.losses = @ - 0]
          /\ z = [row |-> z.row, entries |-> z.entries, base |-> z.base]
      BY <3>1, <3>2
    <3>4. z.row = [exists |-> a.row.exists, since |-> a.row.since, wins |-> a.row.wins - 0,
                   losses |-> a.row.losses - 0]
      BY <3>1, <3>3
    <3>5. a.row.wins - 0 = a.row.wins /\ a.row.losses - 0 = a.row.losses
      BY <3>1
    <3>6. z.row = a.row
      BY <3>1, <3>4, <3>5
    <3>7. z = a
      BY <3>1, <3>3, <3>6
    <3> QED  BY <3>2, <3>7
  <2> QED  BY <2>4, <2>5, <2>7 DEF a
<1>3. CASE w.kind = "reiniciar"
  <2>1. a \in Tables /\ d \in Tables
    BY <1>0 DEF Sound
  <2>2. /\ a = [d EXCEPT !.row = Row(TRUE, w.since, 0, 0), !.base = Zero]
        /\ Apply(a, w) = [a EXCEPT !.row = Row(TRUE, w.since, 0, 0), !.base = Zero]
    BY <1>3, ApplyIs DEF PlacarReiniciar
  <2> HIDE DEF a
  <2>3. Apply(a, w) = a
    BY <2>1, <2>2 DEF Tables
  <2> QED  BY <2>3 DEF a
<1>4. CASE w.kind = "semear"
  <2>1. a.row.exists
    BY <1>4, SeedIs
  <2> HIDE DEF a
  <2>2. Apply(a, w) = a
    BY <1>4, <2>1, ApplyIs DEF PlacarSemear
  <2> QED  BY <2>2 DEF a
<1> QED  BY <1>0, <1>1, <1>2, <1>3, <1>4 DEF Kind

\* What a write leaves in the period.
LEMMA ApplyCurrent ==
  ASSUME NEW V \in Values, NEW d, Sound(V, d), NEW w, Legal(V, w), Due(d, w)
  PROVE  /\ w.kind = "lancar" => \/ Has(d, w.key) /\ Apply(d, w) = d
                                 \/ /\ ~Has(d, w.key) /\ Apply(d, w).base = d.base
                                    /\ Current(Apply(d, w)) = Current(d) \cup {Entry(d, w)}
                                    /\ Apply(d, w).row.exists
         /\ w.kind = "apagar" => /\ Current(Apply(d, w)) = Current(d) \ Gone(d, w)
                                 /\ Apply(d, w).base = d.base
                                 /\ Apply(d, w).row.exists = d.row.exists
         /\ w.kind = "reiniciar" => /\ Current(Apply(d, w)) = {} /\ Apply(d, w).base = Zero
                                    /\ Apply(d, w).row.exists
         /\ w.kind = "semear" => /\ Current(Apply(d, w)) = Current(d) /\ Apply(d, w).row.exists
                                 /\ d.row.exists => Apply(d, w) = d
<1>0. d \in Tables
  BY DEF Sound
<1>1. CASE w.kind = "lancar"
  <2>1. CASE Has(d, w.key)
    BY <1>1, <2>1, ApplyIs DEF PlacarLancar, Has
  <2>2. CASE ~Has(d, w.key)
    <3>1. Added(V, d, w, Apply(d, w))
      BY <1>0, <1>1, <2>2, LaunchIs
    <3>2. /\ Current(Apply(d, w)) = Current(d) \cup {Entry(d, w)} /\ Apply(d, w).base = d.base
          /\ Apply(d, w).row = Row(TRUE, d.row.since, d.row.wins + w.wins, d.row.losses + w.losses)
      BY <3>1 DEF Added
    <3>3. Apply(d, w).row.exists
      BY <3>2 DEF Row
    <3> QED  BY <1>1, <2>2, <3>2, <3>3
  <2> QED  BY <2>1, <2>2
<1>2. CASE w.kind = "apagar"
  <2>1. Current(Apply(d, w)) = Current(d) \ Gone(d, w)
    BY <1>2, EraseIs
  <2>2. Apply(d, w).base = d.base /\ Apply(d, w).row.exists = d.row.exists
    BY <1>2, EraseIs
  <2> QED  BY <1>2, <2>1, <2>2
<1>3. CASE w.kind = "reiniciar"
  <2>1. Emptied(d, w, Apply(d, w))
    BY <1>3, ResetIs
  <2>2. Apply(d, w).row.exists
    BY <2>1 DEF Emptied, Row
  <2> QED  BY <1>3, <2>1, <2>2 DEF Emptied
<1>4. CASE w.kind = "semear"
  <2>1. CASE d.row.exists
    <3>1. Apply(d, w) = d
      BY <1>4, <2>1, ApplyIs DEF PlacarSemear
    <3> QED  BY <1>4, <2>1, <3>1
  <2>2. CASE ~d.row.exists
    <3>1. d.entries = {}
      BY <2>2 DEF Sound
    <3>2. Apply(d, w) = PlacarSemear(d, w)
      BY <1>4, ApplyIs
    <3>3. Apply(d, w).entries = d.entries /\ Apply(d, w).row.exists
      BY <1>0, <2>2, <3>2 DEF PlacarSemear, Tables, Row
    <3>4. Current(d) = {} /\ Current(Apply(d, w)) = {}
      BY <3>1, <3>3 DEF Current
    <3> QED  BY <1>4, <2>2, <3>3, <3>4
  <2> QED  BY <2>1, <2>2
<1>5. w.kind \in Kind
  BY DEF Legal, Writes
<1> QED  BY <1>1, <1>2, <1>3, <1>4, <1>5 DEF Kind

-----------------------------------------------------------------------------
(* Tables that have less.                                                  *)

\* c is what d is, or lacks some of it.
Under(c, d) ==
    /\ c.row.since = d.row.since /\ Current(c) \subseteq Current(d)
    /\ c.base.wins <= d.base.wins /\ c.base.losses <= d.base.losses
    /\ c.row.exists => d.row.exists

\* It has no more wins.
LEMMA UnderWins ==
  ASSUME NEW V, NEW c, NEW d, Sound(V, c), Sound(V, d), Under(c, d)
  PROVE  c.row.wins <= d.row.wins
<1>1. WinSet(c) \subseteq WinSet(d)
  BY DEF Under, WinSet
<1>2. Cardinality(WinSet(c)) <= Cardinality(WinSet(d))
  BY <1>1, SoundFinite, FS_Subset
<1>3. /\ Cardinality(WinSet(c)) \in Nat /\ Cardinality(WinSet(d)) \in Nat
      /\ c.base.wins \in Nat /\ d.base.wins \in Nat
  BY SoundFinite
<1>4. /\ c.row.wins = c.base.wins + Cardinality(WinSet(c))
      /\ d.row.wins = d.base.wins + Cardinality(WinSet(d)) /\ c.base.wins <= d.base.wins
  BY DEF Sound, Under
<1> QED  BY <1>2, <1>3, <1>4

\* An entry of the period is told by its key.
LEMMA SameEntry ==
  ASSUME NEW V \in Values, NEW d, Sound(V, d), NEW e \in Current(d), NEW w, Legal(V, w),
         w.kind = "lancar", e.key = w.key
  PROVE  e = Entry(d, w)
<1>1. e \in Entries /\ e.since = d.row.since
  BY SoundFinite DEF Current
<1>2. Fits(V, e) /\ Fits(V, w)
  BY SoundFinite DEF Sound, Legal
<1>3. e = [since |-> e.since, key |-> e.key, wins |-> e.wins, losses |-> e.losses]
  BY <1>1 DEF Entries
<1>4. e.wins = w.wins /\ e.losses = w.losses
  BY <1>2 DEF Fits
<1> QED  BY <1>1, <1>3, <1>4 DEF Entry

\* A write, other than a seed, does no more to what is less.
LEMMA ApplyUnder ==
  ASSUME NEW V \in Values, NEW c, NEW d, Sound(V, c), Sound(V, d), Under(c, d),
         NEW w, Legal(V, w), Due(c, w), Due(d, w), w.kind # "semear"
  PROVE  Under(Apply(c, w), Apply(d, w))
<1> DEFINE p == Apply(c, w)
           q == Apply(d, w)
<1>0. /\ c.row.since = d.row.since /\ Current(c) \subseteq Current(d)
      /\ c.base.wins <= d.base.wins /\ c.base.losses <= d.base.losses
      /\ c.row.exists => d.row.exists
  BY DEF Under
<1>1. /\ w.kind # "reiniciar" => p.row.since = c.row.since /\ q.row.since = d.row.since
      /\ w.kind = "reiniciar" => p.row.since = w.since /\ q.row.since = w.since
  BY ApplySound
<1>2. p.row.since = q.row.since
  BY <1>0, <1>1
<1>3. CASE w.kind = "lancar"
  <2>1. \/ Has(c, w.key) /\ p = c
        \/ /\ ~Has(c, w.key) /\ p.base = c.base /\ p.row.exists
           /\ Current(p) = Current(c) \cup {Entry(c, w)}
    BY <1>3, ApplyCurrent
  <2>2. \/ Has(d, w.key) /\ q = d
        \/ /\ ~Has(d, w.key) /\ q.base = d.base /\ q.row.exists
           /\ Current(q) = Current(d) \cup {Entry(d, w)}
    BY <1>3, ApplyCurrent
  <2>3. Has(c, w.key) => Has(d, w.key)
    BY <1>0 DEF Has
  <2>4. Entry(c, w) = Entry(d, w)
    BY <1>0 DEF Entry
  <2>5. Has(d, w.key) => Entry(d, w) \in Current(d) /\ d.row.exists
    <3> SUFFICES ASSUME Has(d, w.key) PROVE Entry(d, w) \in Current(d) /\ d.row.exists
      OBVIOUS
    <3>1. PICK e \in Current(d) : e.key = w.key
      BY DEF Has
    <3>2. e = Entry(d, w)
      BY <1>3, <3>1, SameEntry
    <3>3. d.row.exists \in BOOLEAN /\ d.entries # {}
      BY <3>1, SoundFinite DEF Sound, Tables
    <3> QED  BY <3>1, <3>2, <3>3 DEF Sound
  <2> HIDE DEF p, q
  <2>6. Current(p) \subseteq Current(q) /\ p.base = c.base /\ q.base = d.base
        /\ (p.row.exists => q.row.exists)
    <3>1. CASE Has(d, w.key)
      BY <1>0, <2>1, <2>2, <2>4, <2>5, <3>1
    <3>2. CASE ~Has(d, w.key)
      BY <1>0, <2>1, <2>2, <2>3, <2>4, <3>2
    <3> QED  BY <3>1, <3>2
  <2>7. Under(p, q)
    BY <1>0, <1>2, <2>6 DEF Under
  <2> QED  BY <2>7 DEF p, q
<1>4. CASE w.kind = "apagar"
  <2>1. /\ Current(p) = Current(c) \ Gone(c, w) /\ p.base = c.base /\ p.row.exists = c.row.exists
        /\ Current(q) = Current(d) \ Gone(d, w) /\ q.base = d.base /\ q.row.exists = d.row.exists
    BY <1>4, ApplyCurrent
  <2> HIDE DEF p, q
  <2>2. Current(p) \subseteq Current(q)
    BY <1>0, <2>1 DEF Gone
  <2>3. Under(p, q)
    BY <1>0, <1>2, <2>1, <2>2 DEF Under
  <2> QED  BY <2>3 DEF p, q
<1>5. CASE w.kind = "reiniciar"
  <2>1. /\ Current(p) = {} /\ p.base = Zero /\ Current(q) = {} /\ q.base = Zero /\ q.row.exists
    BY <1>5, ApplyCurrent
  <2> HIDE DEF p, q
  <2>2. Under(p, q)
    BY <1>2, <2>1 DEF Under, Zero
  <2> QED  BY <2>2 DEF p, q
<1>6. w.kind \in Kind
  BY DEF Legal, Writes
<1> QED  BY <1>3, <1>4, <1>5, <1>6 DEF Kind

\* A launch or a seed takes nothing away.
LEMMA ApplyGrows ==
  ASSUME NEW V \in Values, NEW d, Sound(V, d), NEW w, Legal(V, w), w.kind \in {"lancar", "semear"}
  PROVE  Under(d, Apply(d, w))
<1> DEFINE q == Apply(d, w)
<1>1. Due(d, w) /\ w.kind # "reiniciar"
  BY DEF Due
<1>2. q.row.since = d.row.since /\ Sound(V, q)
  BY <1>1, ApplySound
<1>3. d.base.wins \in Nat /\ d.base.losses \in Nat /\ q.base.wins \in Nat /\ q.base.losses \in Nat
  BY <1>2, SoundFinite
<1>4. CASE w.kind = "lancar"
  <2>1. \/ q = d
        \/ q.base = d.base /\ q.row.exists /\ Current(q) = Current(d) \cup {Entry(d, w)}
    BY <1>1, <1>4, ApplyCurrent
  <2> HIDE DEF q
  <2>2. Under(d, q)
    BY <1>2, <1>3, <2>1 DEF Under
  <2> QED  BY <2>2 DEF q
<1>5. CASE w.kind = "semear"
  <2>1. Current(q) = Current(d) /\ q.row.exists /\ (d.row.exists => q = d)
    BY <1>1, <1>5, ApplyCurrent
  <2>2. ~d.row.exists => d.base = Zero
    BY DEF Sound
  <2>3. d.row.exists \in BOOLEAN
    BY DEF Sound, Tables
  <2> HIDE DEF q
  <2>4. d.base.wins <= q.base.wins /\ d.base.losses <= q.base.losses
    BY <1>3, <2>1, <2>2, <2>3 DEF Zero
  <2>5. Under(d, q)
    BY <1>2, <2>1, <2>4 DEF Under
  <2> QED  BY <2>5 DEF q
<1> QED  BY <1>4, <1>5

-----------------------------------------------------------------------------
(* The writes that wait.                                                   *)

\* The resets of s are in the order they were made.
Resets(s) == \A i \in 1..Len(s) : \A j \in 1..(i - 1) :
    s[i].kind = "reiniciar" /\ s[j].kind = "reiniciar" => s[j].since < s[i].since
\* Those from the k-th on are newer than the period of the tables, and nothing
\* from there on is a seed.
Behind(d, s, k) == \A i \in k..Len(s) :
    s[i].kind # "semear" /\ (s[i].kind = "reiniciar" => s[i].since > d.row.since)

\* Writes the tables have seen nothing of.
Fresh(V, d, s) ==
    /\ Sound(V, d) /\ s \in Seq(Writes) /\ \A i \in 1..Len(s) : Legal(V, s[i])
    /\ Resets(s) /\ Behind(d, s, 1)
\* Writes of which the first may be a seed, or have been done already.
Ready(V, d, s) ==
    /\ Sound(V, d) /\ s \in Seq(Writes) /\ \A i \in 1..Len(s) : Legal(V, s[i])
    /\ Resets(s) /\ Behind(d, s, 2) /\ (s # <<>> => Due(d, s[1]))

\* Fresh writes are ready.
LEMMA FreshReady == ASSUME NEW V, NEW d, NEW s, Fresh(V, d, s) PROVE Ready(V, d, s)
<1>1. Len(s) \in Nat /\ (s # <<>> => 1 \in 1..Len(s))
  <2>1. s \in Seq(Writes)
    BY DEF Fresh
  <2> QED  BY <2>1, EmptySeq, LenProperties
<1>2. Behind(d, s, 2)
  BY <1>1 DEF Fresh, Behind
<1>3. s # <<>> => Due(d, s[1])
  BY <1>1 DEF Fresh, Behind, Due
<1> QED  BY <1>2, <1>3 DEF Fresh, Ready

\* The rest of writes that are ready.
LEMMA RestIs ==
  ASSUME NEW V, NEW d, NEW s, Ready(V, d, s), s # <<>>
  PROVE  /\ Len(s) \in Nat \ {0} /\ Tail(s) \in Seq(Writes) /\ Len(Tail(s)) = Len(s) - 1
         /\ \A i \in 1..Len(Tail(s)) : Tail(s)[i] = s[i + 1] /\ i + 1 \in 2..Len(s)
         /\ Legal(V, s[1]) /\ Due(d, s[1])
         /\ \A i \in 1..Len(Tail(s)) : Legal(V, Tail(s)[i])
         /\ Resets(Tail(s))
<1>1. s \in Seq(Writes) /\ (\A i \in 1..Len(s) : Legal(V, s[i])) /\ Resets(s) /\ Due(d, s[1])
  BY DEF Ready
<1>2. Len(s) \in Nat \ {0}
  BY <1>1, EmptySeq
<1>3. Tail(s) \in Seq(Writes) /\ Len(Tail(s)) = Len(s) - 1
      /\ \A i \in 1..Len(Tail(s)) : Tail(s)[i] = s[i + 1]
  BY <1>1, HeadTailProperties
<1> DEFINE t == Tail(s)
<1>4. t \in Seq(Writes) /\ Len(t) = Len(s) - 1 /\ \A i \in 1..Len(t) : t[i] = s[i + 1]
  BY <1>3
<1> HIDE DEF t
<1>5. \A i \in 1..Len(t) : i + 1 \in 2..Len(s) /\ i + 1 \in 1..Len(s) /\ Legal(V, t[i])
  BY <1>1, <1>2, <1>4
<1>6. Resets(t)
  <2> SUFFICES ASSUME NEW i \in 1..Len(t), NEW j \in 1..(i - 1),
                      t[i].kind = "reiniciar", t[j].kind = "reiniciar"
               PROVE  t[j].since < t[i].since
    BY DEF Resets
  <2>1. i + 1 \in 1..Len(s) /\ j + 1 \in 1..((i + 1) - 1) /\ j \in 1..Len(t)
    BY <1>2, <1>4
  <2>2. t[i] = s[i + 1] /\ t[j] = s[j + 1]
    BY <1>4, <2>1
  <2> QED  BY <1>1, <2>1, <2>2 DEF Resets
<1> QED  BY <1>1, <1>2, <1>4, <1>5, <1>6 DEF t

\* The first write may be done, or be done again, or be dropped if it is no reset.
LEMMA ReadyNext ==
  ASSUME NEW V \in Values, NEW d, NEW s, Ready(V, d, s), s # <<>>
  PROVE  /\ Fresh(V, Apply(d, s[1]), Tail(s))
         /\ s[1].kind # "reiniciar" => Fresh(V, d, Tail(s))
         /\ Ready(V, Apply(d, s[1]), s)
<1> DEFINE t == Tail(s)
           a == Apply(d, s[1])
<1>1. /\ Len(s) \in Nat \ {0} /\ t \in Seq(Writes) /\ Len(t) = Len(s) - 1
      /\ \A i \in 1..Len(t) : t[i] = s[i + 1] /\ i + 1 \in 2..Len(s)
      /\ Legal(V, s[1]) /\ Due(d, s[1]) /\ (\A i \in 1..Len(t) : Legal(V, t[i])) /\ Resets(t)
  BY RestIs
<1>2. /\ Sound(V, d) /\ s \in Seq(Writes) /\ (\A i \in 1..Len(s) : Legal(V, s[i]))
      /\ Resets(s) /\ Behind(d, s, 2)
  BY DEF Ready
<1>3. /\ Sound(V, a) /\ (s[1].kind # "reiniciar" => a.row.since = d.row.since)
      /\ (s[1].kind = "reiniciar" => a.row.since = s[1].since)
  BY <1>1, <1>2, ApplySound
<1>4. s[1].kind = "reiniciar" => Current(a) = {}
  BY <1>1, <1>2, ApplyCurrent
<1> HIDE DEF t, a
<1>5. Behind(a, s, 2)
  <2> SUFFICES ASSUME NEW i \in 2..Len(s)
               PROVE  s[i].kind # "semear" /\ (s[i].kind = "reiniciar" => s[i].since > a.row.since)
    BY DEF Behind
  <2>1. i \in 1..Len(s) /\ 1 \in 1..(i - 1)
    BY <1>1
  <2>2. s[i].kind # "semear" /\ (s[i].kind = "reiniciar" => s[i].since > d.row.since)
    BY <1>2 DEF Behind
  <2>3. s[i].kind = "reiniciar" /\ s[1].kind = "reiniciar" => s[1].since < s[i].since
    BY <1>2, <2>1 DEF Resets
  <2>4. s[i].since \in Nat /\ s[1].since \in Nat
    BY <1>1, <1>2, <2>1 DEF Legal, Writes
  <2> QED  BY <1>3, <2>2, <2>3, <2>4
<1>6. ASSUME NEW c, Behind(c, s, 2) PROVE Behind(c, t, 1)
  BY <1>1, <1>6 DEF Behind
<1>7. Fresh(V, a, t) /\ (s[1].kind # "reiniciar" => Fresh(V, d, t))
  BY <1>1, <1>2, <1>3, <1>5, <1>6 DEF Fresh
<1>8. Due(a, s[1])
  BY <1>3, <1>4 DEF Due
<1>9. Ready(V, a, s)
  BY <1>2, <1>3, <1>5, <1>8 DEF Ready
<1> QED  BY <1>7, <1>9 DEF t, a

\* A write that a process adds is ready too, unless it is a seed.
LEMMA ReadyAppend ==
  ASSUME NEW V, NEW d, NEW s, Ready(V, d, s), NEW w, Legal(V, w), w.kind # "semear",
         w.kind = "reiniciar" =>
            /\ w.since > d.row.since
            /\ \A i \in 1..Len(s) : s[i].kind = "reiniciar" => s[i].since < w.since
  PROVE  Ready(V, d, Append(s, w))
<1>1. /\ Sound(V, d) /\ s \in Seq(Writes) /\ (\A i \in 1..Len(s) : Legal(V, s[i]))
      /\ Resets(s) /\ Behind(d, s, 2) /\ (s # <<>> => Due(d, s[1]))
  BY DEF Ready
<1> DEFINE a == Append(s, w)
<1>2. /\ Len(s) \in Nat /\ a \in Seq(Writes) /\ a # <<>> /\ Len(a) = Len(s) + 1
      /\ (\A i \in 1..Len(s) : a[i] = s[i]) /\ a[Len(s) + 1] = w
      /\ (s # <<>> => 1 \in 1..Len(s)) /\ (s = <<>> => Len(s) = 0)
  <2>1. w \in Writes
    BY DEF Legal
  <2> QED  BY <1>1, <2>1, AppendProperties, LenProperties, EmptySeq
<1> HIDE DEF a
<1>3. \A i \in 1..Len(a) : (i \in 1..Len(s) /\ a[i] = s[i]) \/ (i = Len(s) + 1 /\ a[i] = w)
  BY <1>2
<1>4. \A i \in 1..Len(a) : Legal(V, a[i])
  BY <1>1, <1>3
<1>5. Resets(a)
  <2> SUFFICES ASSUME NEW i \in 1..Len(a), NEW j \in 1..(i - 1),
                      a[i].kind = "reiniciar", a[j].kind = "reiniciar"
               PROVE  a[j].since < a[i].since
    BY DEF Resets
  <2>1. j \in 1..Len(s) /\ a[j] = s[j]
    BY <1>2
  <2>2. CASE i \in 1..Len(s) /\ a[i] = s[i]
    BY <1>1, <2>1, <2>2 DEF Resets
  <2>3. CASE i = Len(s) + 1 /\ a[i] = w
    BY <2>1, <2>3
  <2> QED  BY <1>3, <2>2, <2>3
<1>6. Behind(d, a, 2)
  BY <1>1, <1>2, <1>3 DEF Behind
<1>7. Due(d, a[1])
  <2>1. CASE s # <<>>
    BY <1>1, <1>2, <2>1
  <2>2. CASE s = <<>>
    BY <1>2, <2>2 DEF Due
  <2> QED  BY <2>1, <2>2
<1>8. Ready(V, d, a)
  BY <1>1, <1>2, <1>4, <1>5, <1>6, <1>7 DEF Ready
<1> QED  BY <1>8 DEF a

\* What is ready leaves sound tables.
LEMMA AfterSound ==
  ASSUME NEW V \in Values, NEW d, NEW s, Ready(V, d, s)
  PROVE  Sound(V, After(d, s))
<1> DEFINE B == {n \in Nat : \A c, t : Ready(V, c, t) /\ Len(t) = n => Sound(V, After(c, t))}
<1>1. 0 \in B
  <2> SUFFICES ASSUME NEW c, NEW t, Ready(V, c, t), Len(t) = 0 PROVE Sound(V, After(c, t))
    OBVIOUS
  <2>1. t = <<>> /\ Sound(V, c)
    BY EmptySeq DEF Ready
  <2> QED  BY <2>1, AfterNothing
<1>2. ASSUME NEW n \in Nat, n \in B PROVE n + 1 \in B
  <2> SUFFICES ASSUME NEW c, NEW t, Ready(V, c, t), Len(t) = n + 1 PROVE Sound(V, After(c, t))
    OBVIOUS
  <2>1. t \in Seq(Writes)
    BY DEF Ready
  <2>2. t # <<>>
    BY <2>1, EmptySeq
  <2>3. Fresh(V, Apply(c, t[1]), Tail(t)) /\ Len(Tail(t)) = n
    BY <2>2, ReadyNext, RestIs
  <2>4. Ready(V, Apply(c, t[1]), Tail(t))
    BY <2>3, FreshReady
  <2>5. After(c, t) = After(Apply(c, t[1]), Tail(t))
    BY <2>1, <2>2, AfterFirst
  <2>6. Sound(V, After(Apply(c, t[1]), Tail(t)))
    BY <1>2, <2>3, <2>4
  <2> QED  BY <2>5, <2>6
<1>3. Len(s) \in Nat
  BY LenProperties DEF Ready
<1>4. Len(s) \in B
  <2> HIDE DEF B
  <2> QED  BY <1>1, <1>2, <1>3, Induction
<1> QED  BY <1>4

\* What is less stays less through writes the tables have seen nothing of.
LEMMA AfterUnder ==
  ASSUME NEW V \in Values, NEW c, NEW d, NEW s, Fresh(V, c, s), Fresh(V, d, s), Under(c, d)
  PROVE  Under(After(c, s), After(d, s))
<1> DEFINE B == {n \in Nat : \A p, q, t :
                    Fresh(V, p, t) /\ Fresh(V, q, t) /\ Under(p, q) /\ Len(t) = n
                        => Under(After(p, t), After(q, t))}
<1>1. 0 \in B
  <2> SUFFICES ASSUME NEW p, NEW q, NEW t, Fresh(V, p, t), Fresh(V, q, t), Under(p, q), Len(t) = 0
               PROVE  Under(After(p, t), After(q, t))
    OBVIOUS
  <2>1. t = <<>>
    BY EmptySeq DEF Fresh
  <2> QED  BY <2>1, AfterNothing
<1>2. ASSUME NEW n \in Nat, n \in B PROVE n + 1 \in B
  <2> SUFFICES ASSUME NEW p, NEW q, NEW t, Fresh(V, p, t), Fresh(V, q, t), Under(p, q), Len(t) = n + 1
               PROVE  Under(After(p, t), After(q, t))
    OBVIOUS
  <2>1. t \in Seq(Writes) /\ t # <<>> /\ 1 \in 1..Len(t)
    BY EmptySeq DEF Fresh
  <2>2. Ready(V, p, t) /\ Ready(V, q, t)
    BY FreshReady
  <2> DEFINE p2 == Apply(p, t[1])
             q2 == Apply(q, t[1])
             r == Tail(t)
  <2>3. Fresh(V, p2, r) /\ Fresh(V, q2, r) /\ Len(r) = n
    BY <2>1, <2>2, ReadyNext, RestIs
  <2>4. Legal(V, t[1]) /\ Due(p, t[1]) /\ Due(q, t[1]) /\ t[1].kind # "semear"
        /\ Sound(V, p) /\ Sound(V, q)
    BY <2>1, <2>2 DEF Fresh, Ready, Behind
  <2>5. Under(p2, q2)
    BY <2>4, ApplyUnder
  <2>6. After(p, t) = After(p2, r) /\ After(q, t) = After(q2, r)
    BY <2>1, AfterFirst
  <2> HIDE DEF p2, q2, r
  <2>7. Under(After(p2, r), After(q2, r))
    BY <1>2, <2>3, <2>5
  <2> QED  BY <2>6, <2>7
<1>3. Len(s) \in Nat
  BY LenProperties DEF Fresh
<1>4. Len(s) \in B
  <2> HIDE DEF B
  <2> QED  BY <1>1, <1>2, <1>3, Induction
<1> QED  BY <1>4

\* Launches and seeds take nothing away.
LEMMA AfterGrows ==
  ASSUME NEW V \in Values, NEW d, NEW s, Ready(V, d, s),
         \A i \in 1..Len(s) : s[i].kind \in {"lancar", "semear"}
  PROVE  Under(d, After(d, s))
<1> DEFINE Only(t) == \A i \in 1..Len(t) : t[i].kind \in {"lancar", "semear"}
           B == {n \in Nat : \A c, t : Ready(V, c, t) /\ Only(t) /\ Len(t) = n => Under(c, After(c, t))}
<1>1. 0 \in B
  <2> SUFFICES ASSUME NEW c, NEW t, Ready(V, c, t), Len(t) = 0 PROVE Under(c, After(c, t))
    OBVIOUS
  <2>1. t = <<>> /\ Sound(V, c)
    BY EmptySeq DEF Ready
  <2>2. c.base.wins \in Nat /\ c.base.losses \in Nat
    BY <2>1, SoundFinite
  <2>3. Under(c, c)
    BY <2>2 DEF Under
  <2> QED  BY <2>1, <2>3, AfterNothing
<1>2. ASSUME NEW n \in Nat, n \in B PROVE n + 1 \in B
  <2> SUFFICES ASSUME NEW c, NEW t, Ready(V, c, t), Only(t), Len(t) = n + 1
               PROVE  Under(c, After(c, t))
    OBVIOUS
  <2>1. t \in Seq(Writes) /\ t # <<>> /\ 1 \in 1..Len(t)
    BY EmptySeq DEF Ready
  <2> DEFINE c2 == Apply(c, t[1])
             r == Tail(t)
  <2>2. Fresh(V, c2, r) /\ Len(r) = n /\ \A i \in 1..Len(r) : r[i] = t[i + 1] /\ i + 1 \in 2..Len(t)
    BY <2>1, ReadyNext, RestIs
  <2>3. Only(r)
    BY <2>2
  <2>4. Legal(V, t[1]) /\ Sound(V, c)
    BY <2>1 DEF Ready
  <2>5. Under(c, c2)
    BY <2>1, <2>4, ApplyGrows
  <2>6. After(c, t) = After(c2, r)
    BY <2>1, AfterFirst
  <2> HIDE DEF c2, r, Only
  <2>7. Ready(V, c2, r)
    BY <2>2, FreshReady
  <2>8. Under(c2, After(c2, r))
    BY <1>2, <2>2, <2>3, <2>7
  <2>9. Sound(V, c2) /\ Sound(V, After(c2, r))
    BY <2>7, AfterSound DEF Ready
  <2>10. Under(c, After(c2, r))
    <3>1. PICK e : e = After(c2, r)
      OBVIOUS
    <3>2. /\ c.base.wins \in Nat /\ c2.base.wins \in Nat /\ e.base.wins \in Nat
          /\ c.base.losses \in Nat /\ c2.base.losses \in Nat /\ e.base.losses \in Nat
      BY <2>4, <2>9, <3>1, SoundFinite
    <3>3. Under(c2, e)
      BY <2>8, <3>1
    <3>4. Under(c, e)
      BY <2>5, <3>2, <3>3 DEF Under
    <3> QED  BY <3>1, <3>4
  <2> QED  BY <2>6, <2>10
<1>3. Len(s) \in Nat
  BY LenProperties DEF Ready
<1>4. Len(s) \in B
  <2> HIDE DEF B
  <2> QED  BY <1>1, <1>2, <1>3, Induction
<1> QED  BY <1>4

\* Nothing that waits takes an order's entries out that are there, or come before.
Quiet(o, d, s) == \A i \in 1..Len(s) :
    /\ s[i].kind = "apagar" => s[i].key[1] # o
    /\ s[i].kind = "reiniciar" =>
          /\ \A e \in Current(d) : e.key[1] # o
          /\ \A j \in 1..(i - 1) : s[j].kind = "lancar" => s[j].key[1] # o

\* A launch of such an order that is in the tables or waits will be in the tables.
LEMMA LaunchLands ==
  ASSUME NEW V \in Values, NEW d, NEW s, Ready(V, d, s), NEW k, NEW o, o = k[1], Quiet(o, d, s),
         Has(d, k) \/ \E i \in 1..Len(s) : s[i].kind = "lancar" /\ s[i].key = k
  PROVE  Has(After(d, s), k)
<1> DEFINE Sent(t) == \E i \in 1..Len(t) : t[i].kind = "lancar" /\ t[i].key = k
           B == {n \in Nat : \A c, t :
                    Ready(V, c, t) /\ Quiet(o, c, t) /\ (Has(c, k) \/ Sent(t)) /\ Len(t) = n
                        => Has(After(c, t), k)}
<1>1. 0 \in B
  <2> SUFFICES ASSUME NEW c, NEW t, Ready(V, c, t), Has(c, k) \/ Sent(t), Len(t) = 0
               PROVE  Has(After(c, t), k)
    OBVIOUS
  <2>1. t = <<>>
    BY EmptySeq DEF Ready
  <2>2. Has(c, k)
    OBVIOUS
  <2> QED  BY <2>1, <2>2, AfterNothing
<1>2. ASSUME NEW n \in Nat, n \in B PROVE n + 1 \in B
  <2> SUFFICES ASSUME NEW c, NEW t, Ready(V, c, t), Quiet(o, c, t), Has(c, k) \/ Sent(t), Len(t) = n + 1
               PROVE  Has(After(c, t), k)
    OBVIOUS
  <2>1. t \in Seq(Writes) /\ t # <<>> /\ 1 \in 1..Len(t) /\ Sound(V, c)
    BY EmptySeq DEF Ready
  <2> DEFINE c2 == Apply(c, t[1])
             r == Tail(t)
  <2>2. /\ Fresh(V, c2, r) /\ Len(r) = n /\ Legal(V, t[1]) /\ Due(c, t[1])
        /\ \A i \in 1..Len(r) : r[i] = t[i + 1] /\ i + 1 \in 2..Len(t)
    BY <2>1, ReadyNext, RestIs
  <2>3. After(c, t) = After(c2, r)
    BY <2>1, AfterFirst
  <2>4. /\ t[1].kind = "lancar" => \/ Has(c, t[1].key) /\ c2 = c
                                   \/ Current(c2) = Current(c) \cup {Entry(c, t[1])}
        /\ t[1].kind = "apagar" => Current(c2) = Current(c) \ Gone(c, t[1])
        /\ t[1].kind = "reiniciar" => Current(c2) = {}
        /\ t[1].kind = "semear" => Current(c2) = Current(c)
    BY <2>1, <2>2, ApplyCurrent
  <2>5. Entry(c, t[1]).key = t[1].key /\ t[1].kind \in Kind
    BY <2>2 DEF Entry, Legal, Writes
  <2>6. /\ t[1].kind = "apagar" => t[1].key[1] # o
        /\ t[1].kind = "reiniciar" => \A e \in Current(c) : e.key[1] # o
    BY <2>1 DEF Quiet
  <2> HIDE DEF c2, r
  <2>7. \A e \in Current(c2) : e \in Current(c) \/ (t[1].kind = "lancar" /\ e.key = t[1].key)
    BY <2>4, <2>5 DEF Kind
  <2>8. Has(c, k) => Has(c2, k)
    <3> SUFFICES ASSUME NEW e \in Current(c), e.key = k PROVE e \in Current(c2)
      BY DEF Has
    <3>1. t[1].kind # "reiniciar"
      BY <2>6
    <3>2. t[1].kind = "apagar" => e \notin Gone(c, t[1])
      BY <2>6 DEF Gone
    <3> QED  BY <2>4, <2>5, <3>1, <3>2 DEF Kind
  <2>9. t[1].kind = "lancar" /\ t[1].key = k => Has(c2, k)
    BY <2>4, <2>5 DEF Has
  <2>10. Has(c2, k) \/ Sent(r)
    <3>1. CASE Has(c, k)
      BY <2>8, <3>1
    <3>2. CASE Sent(t)
      <4>1. PICK i \in 1..Len(t) : t[i].kind = "lancar" /\ t[i].key = k
        BY <3>2
      <4>2. CASE i = 1
        BY <2>9, <4>1, <4>2
      <4>3. CASE i # 1
        <5>1. i - 1 \in 1..Len(r) /\ (i - 1) + 1 = i
          BY <2>2, <4>3
        <5>2. r[i - 1] = t[i]
          BY <2>2, <5>1
        <5> QED  BY <4>1, <5>1, <5>2
      <4> QED  BY <4>2, <4>3
    <3> QED  BY <3>1, <3>2
  <2>11. Quiet(o, c2, r)
    <3> SUFFICES ASSUME NEW i \in 1..Len(r)
                 PROVE  /\ r[i].kind = "apagar" => r[i].key[1] # o
                        /\ r[i].kind = "reiniciar" =>
                              /\ \A e \in Current(c2) : e.key[1] # o
                              /\ \A j \in 1..(i - 1) : r[j].kind = "lancar" => r[j].key[1] # o
      BY DEF Quiet
    <3>1. r[i] = t[i + 1] /\ i + 1 \in 1..Len(t) /\ 1 \in 1..((i + 1) - 1)
      BY <2>2
    <3>2. /\ t[i + 1].kind = "apagar" => t[i + 1].key[1] # o
          /\ t[i + 1].kind = "reiniciar" =>
                /\ \A e \in Current(c) : e.key[1] # o
                /\ \A j \in 1..((i + 1) - 1) : t[j].kind = "lancar" => t[j].key[1] # o
      BY <3>1 DEF Quiet
    <3>3. ASSUME r[i].kind = "reiniciar" PROVE \A e \in Current(c2) : e.key[1] # o
      BY <2>7, <3>1, <3>2, <3>3
    <3>4. ASSUME r[i].kind = "reiniciar", NEW j \in 1..(i - 1), r[j].kind = "lancar"
          PROVE  r[j].key[1] # o
      <4>1. j \in 1..Len(r) /\ j + 1 \in 1..((i + 1) - 1)
        OBVIOUS
      <4>2. r[j] = t[j + 1]
        BY <2>2, <4>1
      <4> QED  BY <3>1, <3>2, <3>4, <4>1, <4>2
    <3> QED  BY <3>1, <3>2, <3>3, <3>4
  <2>12. Ready(V, c2, r)
    BY <2>2, FreshReady
  <2> HIDE DEF Sent
  <2>13. Has(After(c2, r), k)
    BY <1>2, <2>2, <2>10, <2>11, <2>12
  <2> QED  BY <2>3, <2>13
<1>3. Len(s) \in Nat
  BY LenProperties DEF Ready
<1>4. Len(s) \in B
  <2> HIDE DEF B
  <2> QED  BY <1>1, <1>2, <1>3, Induction
<1> QED  BY <1>4

-----------------------------------------------------------------------------
(* The score and the tables.                                               *)

Status == {"new", "win", "loss", "leg", "cycle", "old", "deleted"}
\* Orders of the current period that are in the history.
Standing == {"win", "loss", "leg", "cycle"}
Effect(wins, losses) == [wins |-> wins, losses |-> losses]

\* What keys are worth while their orders stand.
Valued(V, ord) == \A o \in Order :
    /\ ord[o] = "win" => V[<<o, 0>>] = Effect(1, 0)
    /\ ord[o] = "loss" => V[<<o, 0>>] = Effect(0, 1)
    /\ ord[o] \in {"leg", "cycle"} => V[<<o, 0>>] = Effect(0, 0)
    /\ V[<<o, 1>>] = Effect(0, 1)

\* The entries of the period are of orders that stand, or of a leg that a reset left open.
Tells(d, ord, leg) == \A e \in Current(d) :
    /\ e.key[2] = 0 => ord[e.key[1]] \in Standing
    /\ e.key[2] = 1 => ord[e.key[1]] \in {"cycle", "old"} /\ leg # e.key[1]

\* The losses of the period that the tables know by one of their entries.
Known(d, ord) == {o \in Order :
    \/ ord[o] = "loss" /\ Has(d, <<o, 0>>)
    \/ ord[o] = "cycle" /\ (Has(d, <<o, 0>>) \/ Has(d, <<o, 1>>))
    \/ ord[o] = "old" /\ Has(d, <<o, 1>>)}

\* The score has every win of the row, and every loss known; when nothing was
\* dropped it is the row, which has the loss of every cycle.
Counted(d, ord, score, exact) ==
    /\ score.wins >= d.row.wins
    /\ score.losses >= d.base.losses + Cardinality(Known(d, ord))
    /\ exact => /\ score.wins = d.row.wins /\ score.losses = d.row.losses
                /\ \A o \in Order : ord[o] = "cycle" /\ Has(d, <<o, 0>>) => Has(d, <<o, 1>>)

\* A reset that waits: what is in the tables or waits before it does not stand.
Closed(d, s, ord, i) ==
    /\ \A e \in Current(d) : ord[e.key[1]] \notin Standing
    /\ \A j \in 1..(i - 1) : s[j].kind = "lancar" => ord[s[j].key[1]] \notin Standing

\* What the tables and the queue have is of the past.
Past(d, s, ord, last) ==
    /\ d.row.since <= last /\ \A e \in d.entries : ord[e.key[1]] # "new"
    /\ \A i \in 1..Len(s) :
          /\ s[i].kind = "lancar" => ord[s[i].key[1]] # "new"
          /\ s[i].kind = "apagar" => s[i].key[1] \in Order /\ ord[s[i].key[1]] \in {"old", "deleted"}
          /\ s[i].kind = "reiniciar" => s[i].since <= last /\ Closed(d, s, ord, i)

\* The leg that waits was lost, and may be of an earlier period.
LegOpen(ord, leg) == leg # NoOrder => leg \in Order /\ ord[leg] \in {"leg", "old"}

\* Tables d with the writes s are going to be a, and that is the score.
Account(V, d, s, a, ord, leg, last, score, exact) ==
    /\ V \in Values /\ Ready(V, d, s) /\ a = After(d, s) /\ a.row.since = last
    /\ ord \in [Order -> Status] /\ last \in Nat /\ score \in [wins : Nat, losses : Nat]
    /\ Valued(V, ord) /\ Tells(a, ord, leg) /\ Counted(a, ord, score, exact)
    /\ Past(d, s, ord, last) /\ LegOpen(ord, leg)

\* The keys of an order, and its parts.
LEMMA KeyParts ==
  /\ \A o \in Order, n \in {0, 1} : <<o, n>> \in Keys /\ <<o, n>>[1] = o /\ <<o, n>>[2] = n
  /\ \A k \in Keys : k[1] \in Order /\ k[2] \in {0, 1} /\ k = <<k[1], k[2]>>
  BY DEF Keys

\* The losses known are finitely many.
LEMMA KnownFinite ==
  ASSUME NEW V, NEW d, Sound(V, d), NEW ord
  PROVE  IsFiniteSet(Known(d, ord)) /\ Cardinality(Known(d, ord)) \in Nat
<1> DEFINE T == {e.key[1] : e \in Current(d)}
           f == [e \in Current(d) |-> e.key[1]]
<1>1. f \in Surjection(Current(d), T)
  BY DEF Surjection
<1>2. IsFiniteSet(T)
  BY <1>1, SoundFinite, FS_Surjection
<1>3. Known(d, ord) \subseteq T
  BY KeyParts DEF Known, Has
<1> QED  BY <1>2, <1>3, FS_Subset, FS_CardinalityType

\* A row has no more losses than are known.
LEMMA LossesAreKnown ==
  ASSUME NEW V \in Values, NEW d, Sound(V, d), NEW ord, NEW leg, Valued(V, ord), Tells(d, ord, leg)
  PROVE  Cardinality(LossSet(d)) <= Cardinality(Known(d, ord))
<1> DEFINE f == [e \in LossSet(d) |-> e.key[1]]
<1>1. ASSUME NEW e \in LossSet(d)
      PROVE  /\ e.key \in Keys /\ e.key = <<e.key[1], e.key[2]>> /\ e.key[1] \in Order
             /\ \/ e.key[2] = 0 /\ ord[e.key[1]] = "loss"
                \/ e.key[2] = 1 /\ ord[e.key[1]] \in {"cycle", "old"}
             /\ e.key[1] \in Known(d, ord)
  <2>1. e \in Current(d) /\ e.losses = 1 /\ e \in Entries /\ Fits(V, e)
    BY SoundFinite DEF LossSet, Sound
  <2>2. e.key \in Keys /\ e.key[1] \in Order /\ e.key[2] \in {0, 1} /\ e.key = <<e.key[1], e.key[2]>>
    BY <2>1, KeyParts DEF Fits
  <2>3. V[e.key].losses = 1
    BY <2>1 DEF Fits
  <2>4. CASE e.key[2] = 0
    <3>1. ord[e.key[1]] \in Standing /\ V[<<e.key[1], 0>>].losses = 1
      BY <2>1, <2>2, <2>3, <2>4 DEF Tells
    <3>2. ord[e.key[1]] = "loss"
      <4>1. PICK o \in Order : o = e.key[1]
        BY <2>2
      <4>2. /\ ord[o] = "win" => V[<<o, 0>>] = Effect(1, 0)
            /\ ord[o] \in {"leg", "cycle"} => V[<<o, 0>>] = Effect(0, 0)
        BY DEF Valued
      <4>3. V[<<o, 0>>].losses = 1
        BY <3>1, <4>1
      <4>4. Effect(1, 0).losses = 0 /\ Effect(0, 0).losses = 0
        BY DEF Effect
      <4> QED  BY <3>1, <4>1, <4>2, <4>3, <4>4 DEF Standing
    <3>3. Has(d, <<e.key[1], 0>>)
      BY <2>1, <2>2, <2>4 DEF Has
    <3> QED  BY <2>2, <2>4, <3>2, <3>3 DEF Known
  <2>5. CASE e.key[2] = 1
    <3>1. ord[e.key[1]] \in {"cycle", "old"}
      BY <2>1, <2>5 DEF Tells
    <3>2. Has(d, <<e.key[1], 1>>)
      BY <2>1, <2>2, <2>5 DEF Has
    <3> QED  BY <2>2, <2>5, <3>1, <3>2 DEF Known
  <2> QED  BY <2>2, <2>4, <2>5
<1>2. ASSUME NEW x \in LossSet(d), NEW y \in LossSet(d), x.key[1] = y.key[1] PROVE x = y
  <2>1. x.key = y.key
    <3>1. x.key[2] = y.key[2]
      BY <1>1, <1>2
    <3> QED  BY <1>1, <1>2, <3>1
  <2>2. /\ x \in Entries /\ y \in Entries /\ Fits(V, x) /\ Fits(V, y)
        /\ x.since = d.row.since /\ y.since = d.row.since
    BY SoundFinite DEF LossSet, Current, Sound
  <2>3. x.wins = y.wins /\ x.losses = y.losses
    BY <2>1, <2>2 DEF Fits
  <2> QED  BY <2>1, <2>2, <2>3 DEF Entries
<1>3. f \in Injection(LossSet(d), Known(d, ord))
  <2>1. f \in [LossSet(d) -> Known(d, ord)]
    BY <1>1
  <2>2. \A x, y \in LossSet(d) : f[x] = f[y] => x = y
    BY <1>2
  <2> HIDE DEF f
  <2> QED  BY <2>1, <2>2, Fun_IsInj
<1> QED  BY <1>3, KnownFinite, FS_Injection

\* So the score is never behind the row, and is the row when nothing was dropped.
LEMMA AccountCloses ==
  ASSUME NEW V, NEW d, NEW s, NEW a, NEW ord, NEW leg, NEW last, NEW score, NEW exact,
         Account(V, d, s, a, ord, leg, last, score, exact)
  PROVE  /\ a = After(d, s) /\ a.row.wins <= score.wins /\ a.row.losses <= score.losses
         /\ exact => a.row.wins = score.wins /\ a.row.losses = score.losses
<1>1. /\ V \in Values /\ Ready(V, d, s) /\ a = After(d, s) /\ score \in [wins : Nat, losses : Nat]
      /\ Valued(V, ord) /\ Tells(a, ord, leg) /\ Counted(a, ord, score, exact)
  BY DEF Account
<1>2. Sound(V, a)
  BY <1>1, AfterSound
<1>3. Cardinality(LossSet(a)) <= Cardinality(Known(a, ord))
  BY <1>1, <1>2, LossesAreKnown
<1>4. a.row.losses = a.base.losses + Cardinality(LossSet(a))
  BY <1>2 DEF Sound
<1>5. /\ Cardinality(LossSet(a)) \in Nat /\ Cardinality(Known(a, ord)) \in Nat
      /\ a.base.losses \in Nat /\ a.row.wins \in Nat
  BY <1>2, SoundFinite, KnownFinite
<1>6. score.wins \in Nat /\ score.losses \in Nat
  BY <1>1
<1>7. /\ score.wins >= a.row.wins /\ score.losses >= a.base.losses + Cardinality(Known(a, ord))
      /\ exact => score.wins = a.row.wins /\ score.losses = a.row.losses
  BY <1>1 DEF Counted
<1>8. a.row.wins <= score.wins /\ a.row.losses <= score.losses
  <2>1. PICK r, b, l, k, x : /\ r = a.row.losses /\ b = a.base.losses /\ l = Cardinality(LossSet(a))
                             /\ k = Cardinality(Known(a, ord)) /\ x = score.losses
    OBVIOUS
  <2>2. r = b + l /\ l <= k /\ x >= b + k /\ l \in Nat /\ k \in Nat /\ b \in Nat /\ x \in Nat
    BY <1>3, <1>4, <1>5, <1>6, <1>7, <2>1
  <2>3. r <= x
    BY <2>2
  <2> QED  BY <1>5, <1>6, <1>7, <2>1, <2>3
<1> QED  BY <1>1, <1>7, <1>8

-----------------------------------------------------------------------------
(* What keeps the past in order.                                           *)

\* Orders that go on: none is new again, and none out of the history comes back.
GoOn(ord, ord2) == \A o \in Order : ord[o] # "new" =>
    ord2[o] # "new" /\ (ord[o] \in {"old", "deleted"} => ord2[o] \in {"old", "deleted"})

\* The past stays in order when orders go on, and time does.
LEMMA PastGoesOn ==
  ASSUME NEW V, NEW d, NEW s, Ready(V, d, s), NEW ord \in [Order -> Status],
         NEW ord2 \in [Order -> Status], GoOn(ord, ord2),
         NEW last \in Nat, NEW last2 \in Nat, last <= last2, Past(d, s, ord, last)
  PROVE  Past(d, s, ord2, last2)
<1>1. /\ s \in Seq(Writes) /\ d.row.since \in Nat /\ Current(d) \subseteq d.entries
      /\ \A e \in d.entries : e.key \in Keys /\ e.key[1] \in Order
      /\ \A i \in 1..Len(s) : s[i] \in Writes /\ s[i].since \in Nat
                              /\ (s[i].kind = "lancar" => s[i].key[1] \in Order)
  <2>1. Sound(V, d)
    BY DEF Ready
  <2>2. \A e \in d.entries : e.key \in Keys
    BY <2>1 DEF Sound, Fits
  <2>3. \A i \in 1..Len(s) : s[i] \in Writes /\ (s[i].kind = "lancar" => s[i].key \in Keys)
    BY DEF Ready, Legal, Fits
  <2>4. \A i \in 1..Len(s) : s[i].since \in Nat
    BY <2>3 DEF Writes
  <2>5. s \in Seq(Writes)
    BY DEF Ready
  <2> QED  BY <2>1, <2>2, <2>3, <2>4, <2>5, SoundFinite, KeyParts
<1>2. /\ \A o \in Order : ord[o] # "new" => ord2[o] # "new"
      /\ \A o \in Order : ord[o] # "new" /\ ord[o] \notin Standing => ord2[o] \notin Standing
      /\ \A o \in Order : ord[o] \in {"old", "deleted"} => ord2[o] \in {"old", "deleted"}
  <2>1. ASSUME NEW o \in Order, ord[o] # "new", ord[o] \notin Standing PROVE ord[o] \in {"old", "deleted"}
    BY <2>1 DEF Status, Standing
  <2> QED  BY <2>1 DEF GoOn, Standing
<1>3. d.row.since <= last2 /\ \A e \in d.entries : ord2[e.key[1]] # "new"
  <2>1. d.row.since <= last
    BY DEF Past
  <2>2. d.row.since <= last2
    BY <1>1, <2>1
  <2> QED  BY <1>1, <1>2, <2>2 DEF Past
<1>4. ASSUME NEW i \in 1..Len(s), s[i].kind = "reiniciar"
      PROVE  s[i].since <= last2 /\ Closed(d, s, ord2, i)
  <2>1. s[i].since <= last /\ Closed(d, s, ord, i)
    BY <1>4 DEF Past
  <2>2. s[i].since <= last2
    BY <1>1, <2>1
  <2>3. \A e \in Current(d) : ord[e.key[1]] # "new" /\ ord[e.key[1]] \notin Standing
    BY <1>1, <2>1 DEF Past, Closed
  <2>4. \A j \in 1..(i - 1) : j \in 1..Len(s)
    BY <1>1, LenProperties
  <2>5. \A j \in 1..(i - 1) : s[j].kind = "lancar" =>
            ord[s[j].key[1]] # "new" /\ ord[s[j].key[1]] \notin Standing
    BY <2>1, <2>4 DEF Past, Closed
  <2>6. \A e \in Current(d) : ord2[e.key[1]] \notin Standing
    BY <1>1, <1>2, <2>3
  <2>7. \A j \in 1..(i - 1) : s[j].kind = "lancar" => ord2[s[j].key[1]] \notin Standing
    BY <1>1, <1>2, <2>4, <2>5
  <2> QED  BY <2>2, <2>6, <2>7 DEF Closed
<1>5. \A i \in 1..Len(s) :
          /\ s[i].kind = "lancar" => ord2[s[i].key[1]] # "new"
          /\ s[i].kind = "apagar" => s[i].key[1] \in Order /\ ord2[s[i].key[1]] \in {"old", "deleted"}
  BY <1>1, <1>2 DEF Past
<1> QED  BY <1>3, <1>4, <1>5 DEF Past

\* And when a write is added.
LEMMA PastAppend ==
  ASSUME NEW d, NEW s \in Seq(Writes), NEW ord, NEW last, Past(d, s, ord, last), NEW w \in Writes,
         w.kind = "lancar" => ord[w.key[1]] # "new",
         w.kind = "apagar" => w.key[1] \in Order /\ ord[w.key[1]] \in {"old", "deleted"},
         w.kind = "reiniciar" => w.since <= last /\ Closed(d, s, ord, Len(s) + 1)
  PROVE  Past(d, Append(s, w), ord, last)
<1> DEFINE t == Append(s, w)
<1>1. /\ Len(s) \in Nat /\ Len(t) = Len(s) + 1
      /\ \A i \in 1..Len(t) : (i \in 1..Len(s) /\ t[i] = s[i]) \/ (i = Len(s) + 1 /\ t[i] = w)
      /\ \A i \in 1..Len(s) : t[i] = s[i]
  BY AppendProperties, LenProperties
<1> HIDE DEF t
<1>2. ASSUME NEW i \in 1..Len(t), Closed(d, s, ord, i) PROVE Closed(d, t, ord, i)
  <2>1. \A j \in 1..(i - 1) : j \in 1..Len(s) /\ t[j] = s[j]
    BY <1>1
  <2> QED  BY <1>2, <2>1 DEF Closed
<1>3. ASSUME NEW i \in 1..Len(t)
      PROVE  /\ t[i].kind = "lancar" => ord[t[i].key[1]] # "new"
             /\ t[i].kind = "apagar" => t[i].key[1] \in Order /\ ord[t[i].key[1]] \in {"old", "deleted"}
             /\ t[i].kind = "reiniciar" => t[i].since <= last /\ Closed(d, s, ord, i)
  <2>1. CASE i \in 1..Len(s) /\ t[i] = s[i]
    BY <2>1 DEF Past
  <2>2. CASE i = Len(s) + 1 /\ t[i] = w
    BY <2>2
  <2> QED  BY <1>1, <2>1, <2>2
<1>4. Past(d, t, ord, last)
  BY <1>2, <1>3 DEF Past
<1> QED  BY <1>4 DEF t

\* And when the first write is done, or gone.
LEMMA PastTail ==
  ASSUME NEW V, NEW d, NEW s, Ready(V, d, s), s # <<>>, NEW ord, NEW last, Past(d, s, ord, last)
  PROVE  Past(d, Tail(s), ord, last)
<1> DEFINE t == Tail(s)
<1>1. Len(t) \in Nat /\ \A i \in 1..Len(t) : t[i] = s[i + 1] /\ i + 1 \in 1..Len(s)
  <2>1. Len(s) \in Nat \ {0} /\ Len(t) = Len(s) - 1 /\ \A i \in 1..Len(t) : t[i] = s[i + 1]
    BY RestIs
  <2> HIDE DEF t
  <2> QED  BY <2>1
<1> HIDE DEF t
<1>2. ASSUME NEW i \in 1..Len(t), t[i].kind = "reiniciar" PROVE Closed(d, t, ord, i)
  <2>1. Closed(d, s, ord, i + 1)
    BY <1>1, <1>2 DEF Past
  <2>2. \A j \in 1..(i - 1) : j + 1 \in 1..((i + 1) - 1) /\ t[j] = s[j + 1]
    BY <1>1
  <2> QED  BY <2>1, <2>2 DEF Closed
<1>3. Past(d, t, ord, last)
  BY <1>1, <1>2 DEF Past
<1> QED  BY <1>3 DEF t

\* Entries are only taken out, or are the one of a launch.
LEMMA ApplyEntries ==
  ASSUME NEW V \in Values, NEW d, Sound(V, d), NEW w, Legal(V, w), Due(d, w),
         NEW e \in Apply(d, w).entries
  PROVE  e \in d.entries \/ (w.kind = "lancar" /\ e.key = w.key)
<1>1. w.kind \in Kind /\ d \in Tables
  BY DEF Writes, Legal, Sound
<1>2. CASE w.kind = "lancar"
  <2>1. CASE Has(d, w.key)
    BY <1>2, <2>1, ApplyCurrent
  <2>2. CASE ~Has(d, w.key)
    <3>1. Apply(d, w).entries = d.entries \cup {Entry(d, w)}
      <4>1. Added(V, d, w, Apply(d, w))
        BY <1>1, <1>2, <2>2, LaunchIs
      <4> QED  BY <4>1 DEF Added
    <3>2. Entry(d, w).key = w.key
      BY DEF Entry
    <3> QED  BY <1>2, <3>1, <3>2
  <2> QED  BY <2>1, <2>2
<1>3. CASE w.kind = "apagar"
  BY <1>3, EraseIs
<1>4. CASE w.kind = "reiniciar"
  <2>1. Emptied(d, w, Apply(d, w))
    BY <1>4, ResetIs
  <2> QED  BY <2>1 DEF Emptied
<1>5. CASE w.kind = "semear"
  <2>1. Apply(d, w).entries = d.entries
    <3>1. CASE d.row.exists
      BY <1>5, <3>1, ApplyIs DEF PlacarSemear
    <3>2. CASE ~d.row.exists
      <4>1. Apply(d, w) = [d EXCEPT !.row = Row(TRUE, @.since, w.wins, w.losses),
                                    !.base = [wins |-> w.wins, losses |-> w.losses]]
        BY <1>5, <3>2, ApplyIs DEF PlacarSemear
      <4> QED  BY <1>1, <4>1 DEF Tables
    <3> QED  BY <3>1, <3>2
  <2> QED  BY <2>1
<1> QED  BY <1>1, <1>2, <1>3, <1>4, <1>5 DEF Kind

\* And when the first write is done: it may still be there.
LEMMA PastApply ==
  ASSUME NEW V \in Values, NEW d, NEW s, Ready(V, d, s), s # <<>>, NEW ord,
         NEW last, Past(d, s, ord, last)
  PROVE  Past(Apply(d, s[1]), s, ord, last)
<1> DEFINE a == Apply(d, s[1])
<1>1. /\ Len(s) \in Nat \ {0} /\ Legal(V, s[1]) /\ Due(d, s[1]) /\ Sound(V, d) /\ 1 \in 1..Len(s)
      /\ s[1].kind \in Kind
  BY RestIs DEF Ready, Legal, Writes
<1>2. /\ Sound(V, a) /\ (s[1].kind # "reiniciar" => a.row.since = d.row.since)
      /\ (s[1].kind = "reiniciar" => a.row.since = s[1].since /\ Current(a) = {})
  BY <1>1, ApplySound, ApplyCurrent
<1>3. \A e \in a.entries : e \in d.entries \/ (s[1].kind = "lancar" /\ e.key = s[1].key)
  BY <1>1, ApplyEntries
<1>4. \A e \in Current(a) : e \in Current(d) \/ (s[1].kind = "lancar" /\ e.key = s[1].key)
  <2>1. /\ s[1].kind = "lancar" => a = d \/ Current(a) = Current(d) \cup {Entry(d, s[1])}
        /\ s[1].kind = "apagar" => Current(a) \subseteq Current(d)
        /\ s[1].kind = "reiniciar" => Current(a) = {}
        /\ s[1].kind = "semear" => Current(a) = Current(d)
    BY <1>1, ApplyCurrent
  <2>2. Entry(d, s[1]).key = s[1].key
    BY DEF Entry
  <2> HIDE DEF a
  <2> QED  BY <1>1, <2>1, <2>2 DEF Kind
<1> HIDE DEF a
<1>5. a.row.since <= last /\ \A e \in a.entries : ord[e.key[1]] # "new"
  BY <1>1, <1>2, <1>3 DEF Past
<1>6. ASSUME NEW i \in 1..Len(s), s[i].kind = "reiniciar" PROVE Closed(a, s, ord, i)
  <2>1. Closed(d, s, ord, i)
    BY <1>6 DEF Past
  <2>2. CASE i = 1
    BY <1>2, <1>6, <2>1, <2>2 DEF Closed
  <2>3. CASE i # 1
    <3>1. 1 \in 1..(i - 1)
      BY <1>1, <2>3
    <3>2. s[1].kind = "lancar" => ord[s[1].key[1]] \notin Standing
      BY <2>1, <3>1 DEF Closed
    <3> QED  BY <1>4, <2>1, <3>2 DEF Closed
  <2> QED  BY <2>2, <2>3
<1>7. Past(a, s, ord, last)
  BY <1>5, <1>6 DEF Past
<1> QED  BY <1>7 DEF a

\* Another value for the keys of an order that has nothing in the tables.
LEMMA ReadyRevalued ==
  ASSUME NEW V \in Values, NEW V2 \in Values, NEW d, NEW s, Ready(V, d, s), NEW o,
         \A k \in Keys : k[1] # o => V2[k] = V[k],
         \A e \in d.entries : e.key[1] # o,
         \A i \in 1..Len(s) : s[i].kind = "lancar" => s[i].key[1] # o
  PROVE  Ready(V2, d, s)
<1>1. Sound(V, d) /\ s \in Seq(Writes) /\ (\A i \in 1..Len(s) : Legal(V, s[i]))
      /\ Resets(s) /\ Behind(d, s, 2) /\ (s # <<>> => Due(d, s[1]))
  BY DEF Ready
<1>2. \A e \in d.entries : Fits(V2, e)
  BY <1>1 DEF Sound, Fits
<1>3. Sound(V2, d)
  BY <1>1, <1>2 DEF Sound
<1>4. \A i \in 1..Len(s) : Legal(V2, s[i])
  BY <1>1 DEF Legal, Fits
<1> QED  BY <1>1, <1>3, <1>4 DEF Ready

-----------------------------------------------------------------------------
(* What the steps of the robot do to the account.                          *)

\* The account's parts, and that the tables it closes with are sound.
LEMMA AccountIs ==
  ASSUME NEW V, NEW d, NEW s, NEW a, NEW ord, NEW leg, NEW last, NEW score, NEW exact,
         Account(V, d, s, a, ord, leg, last, score, exact)
  PROVE  /\ V \in Values /\ Ready(V, d, s) /\ a = After(d, s) /\ a.row.since = last
         /\ ord \in [Order -> Status] /\ last \in Nat
         /\ score.wins \in Nat /\ score.losses \in Nat
         /\ Valued(V, ord) /\ Tells(a, ord, leg) /\ Counted(a, ord, score, exact)
         /\ Past(d, s, ord, last) /\ LegOpen(ord, leg)
         /\ Sound(V, d) /\ Sound(V, a) /\ s \in Seq(Writes) /\ a \in Tables
         /\ \A e \in Current(a) : e.key \in Keys /\ e.key[1] \in Order /\ e.key[2] \in {0, 1}
                                  /\ e.key = <<e.key[1], e.key[2]>>
<1>1. /\ V \in Values /\ Ready(V, d, s) /\ a = After(d, s) /\ a.row.since = last
      /\ ord \in [Order -> Status] /\ last \in Nat /\ score \in [wins : Nat, losses : Nat]
      /\ Valued(V, ord) /\ Tells(a, ord, leg) /\ Counted(a, ord, score, exact)
      /\ Past(d, s, ord, last) /\ LegOpen(ord, leg)
  BY DEF Account
<1>2. Sound(V, a)
  BY <1>1, AfterSound
<1>3. Sound(V, d) /\ s \in Seq(Writes)
  BY <1>1 DEF Ready
<1>4. a \in Tables /\ \A e \in Current(a) : e.key \in Keys
  BY <1>2, SoundFinite DEF Sound, Fits
<1> QED  BY <1>1, <1>2, <1>3, <1>4, KeyParts

\* A score is a record of two numbers.
LEMMA Scores ==
  ASSUME NEW x \in Nat, NEW y \in Nat, NEW sc, sc = [wins |-> x, losses |-> y]
  PROVE  sc \in [wins : Nat, losses : Nat] /\ sc.wins = x /\ sc.losses = y
  OBVIOUS

\* Who has nothing exact has the rest.
LEMMA Loosely ==
  ASSUME NEW V, NEW d, NEW s, NEW a, NEW ord, NEW leg, NEW last, NEW score, NEW exact,
         Account(V, d, s, a, ord, leg, last, score, exact)
  PROVE  Account(V, d, s, a, ord, leg, last, score, FALSE)
  BY DEF Account, Counted

\* What a write of its own does to the tables the account closes with.
LEMMA Appended ==
  ASSUME NEW V, NEW d, NEW s, NEW a, NEW last, V \in Values, Ready(V, d, s), a = After(d, s),
         NEW ord, Past(d, s, ord, last), NEW w, Legal(V, w), w.kind \in {"lancar", "apagar"},
         w.kind = "lancar" => ord[w.key[1]] # "new",
         w.kind = "apagar" => w.key[1] \in Order /\ ord[w.key[1]] \in {"old", "deleted"}
  PROVE  /\ Ready(V, d, Append(s, w)) /\ Apply(a, w) = After(d, Append(s, w))
         /\ Past(d, Append(s, w), ord, last)
         /\ Sound(V, Apply(a, w)) /\ Apply(a, w).row.since = a.row.since
<1>1. w \in Writes /\ s \in Seq(Writes)
  BY DEF Legal, Ready
<1>2. Ready(V, d, Append(s, w))
  BY ReadyAppend
<1>3. Apply(a, w) = After(d, Append(s, w))
  BY <1>1, AfterAppend
<1>4. Past(d, Append(s, w), ord, last)
  BY <1>1, PastAppend
<1>5. Sound(V, a) /\ Due(a, w)
  BY AfterSound DEF Due
<1> QED  BY <1>2, <1>3, <1>4, <1>5, ApplySound

\* A launch whose key is not in the period adds its entry.
LEMMA LaunchAdds ==
  ASSUME NEW V \in Values, NEW a, Sound(V, a), NEW w, Legal(V, w), w.kind = "lancar",
         ~Has(a, w.key), NEW b, b = Apply(a, w)
  PROVE  /\ b.row.wins = a.row.wins + w.wins /\ b.row.losses = a.row.losses + w.losses
         /\ b.base = a.base
         /\ \A e \in Current(b) : e \in Current(a) \/ e.key = w.key
         /\ \A k : Has(b, k) <=> Has(a, k) \/ k = w.key
<1>1. a \in Tables
  BY DEF Sound
<1>2. /\ b.row = Row(TRUE, a.row.since, a.row.wins + w.wins, a.row.losses + w.losses)
      /\ b.base = a.base /\ Current(b) = Current(a) \cup {Entry(a, w)}
  <2>1. Added(V, a, w, Apply(a, w))
    BY <1>1, LaunchIs
  <2> QED  BY <2>1 DEF Added
<1>3. Entry(a, w).key = w.key
  BY DEF Entry
<1>4. b.row.wins = a.row.wins + w.wins /\ b.row.losses = a.row.losses + w.losses
  BY <1>2 DEF Row
<1>5. ASSUME NEW k PROVE Has(b, k) <=> Has(a, k) \/ k = w.key
  BY <1>2, <1>3 DEF Has
<1> QED  BY <1>2, <1>3, <1>4, <1>5

\* An order that was new has nothing in the tables or on the way.
LEMMA NewHasNothing ==
  ASSUME NEW V, NEW d, NEW s, NEW a, NEW ord, NEW leg, NEW last, NEW score, NEW exact,
         Account(V, d, s, a, ord, leg, last, score, exact), NEW o \in Order, ord[o] = "new"
  PROVE  /\ \A e \in d.entries : e.key[1] # o
         /\ \A i \in 1..Len(s) : s[i].kind = "lancar" => s[i].key[1] # o
         /\ \A e \in Current(a) : e.key[1] # o
         /\ ~Has(a, <<o, 0>>) /\ ~Has(a, <<o, 1>>) /\ leg # o /\ o # NoOrder
<1>1. /\ Past(d, s, ord, last) /\ Tells(a, ord, leg) /\ LegOpen(ord, leg)
      /\ \A e \in Current(a) : e.key[2] \in {0, 1}
  BY AccountIs
<1>2. \A e \in Current(a) : e.key[1] # o
  BY <1>1 DEF Tells, Standing
<1>3. <<o, 0>>[1] = o /\ <<o, 1>>[1] = o
  OBVIOUS
<1>4. ~Has(a, <<o, 0>>) /\ ~Has(a, <<o, 1>>)
  BY <1>2, <1>3 DEF Has
<1> QED  BY <1>1, <1>2, <1>4, OrderAssumption DEF Past, LegOpen

\* What an order's result is worth.
Worth(st) == Effect(IF st = "win" THEN 1 ELSE 0, IF st = "loss" THEN 1 ELSE 0)
\* An order that was new ends as st; its key is worth that.
Ends(ord, o, st, ord2) ==
    /\ ord \in [Order -> Status] /\ o \in Order /\ ord[o] = "new" /\ st \in {"win", "loss", "leg"}
    /\ ord2 = [ord EXCEPT ![o] = st]
Revalue(V, o, st, U) == V \in Values /\ U = [V EXCEPT ![<<o, 0>>] = Worth(st)]

\* The orders go on then.
LEMMA NewEnds ==
  ASSUME NEW ord, NEW o, NEW st, NEW ord2, Ends(ord, o, st, ord2)
  PROVE  /\ ord2 \in [Order -> Status] /\ GoOn(ord, ord2) /\ ord2[o] = st
         /\ \A p \in Order : p # o => ord2[p] = ord[p]
  BY DEF Status, GoOn, Ends

\* The values of the keys when a new order's becomes known.
LEMMA NewValue ==
  ASSUME NEW V, NEW ord, Valued(V, ord), NEW o, NEW st, NEW ord2, Ends(ord, o, st, ord2),
         NEW U, Revalue(V, o, st, U)
  PROVE  /\ U \in Values /\ Valued(U, ord2) /\ U[<<o, 0>>] = Worth(st)
         /\ \A k \in Keys : k[1] # o => U[k] = V[k]
<1>0. V \in Values /\ U = [V EXCEPT ![<<o, 0>>] = Worth(st)] /\ o \in Order /\ st \in {"win", "loss", "leg"}
  BY DEF Ends, Revalue
<1>1. /\ <<o, 0>> \in Keys /\ \A p \in Order : <<p, 0>> \in Keys /\ <<p, 1>> \in Keys
      /\ \A p \in Order : <<p, 1>> # <<o, 0>> /\ (<<p, 0>> = <<o, 0>> => p = o)
      /\ \A k \in Keys : k[1] # o => k # <<o, 0>>
  BY <1>0 DEF Keys
<1>2. Worth(st) \in [wins : {0, 1}, losses : {0, 1}]
  BY <1>0 DEF Worth, Effect
<1>3. U \in Values
  BY <1>0, <1>1, <1>2 DEF Values
<1>4. U[<<o, 0>>] = Worth(st) /\ \A k \in Keys : k # <<o, 0>> => U[k] = V[k]
  BY <1>0, <1>1 DEF Values
<1>5. /\ st = "win" => Worth(st) = Effect(1, 0)
      /\ st = "loss" => Worth(st) = Effect(0, 1)
      /\ st = "leg" => Worth(st) = Effect(0, 0)
  BY DEF Worth
<1>6. ASSUME NEW p \in Order
      PROVE  /\ ord2[p] = "win" => U[<<p, 0>>] = Effect(1, 0)
             /\ ord2[p] = "loss" => U[<<p, 0>>] = Effect(0, 1)
             /\ ord2[p] \in {"leg", "cycle"} => U[<<p, 0>>] = Effect(0, 0)
             /\ U[<<p, 1>>] = Effect(0, 1)
  <2>1. U[<<p, 1>>] = Effect(0, 1)
    BY <1>1, <1>4 DEF Valued
  <2>2. CASE p = o
    <3>1. ord2[p] = st /\ U[<<p, 0>>] = Worth(st)
      BY <1>4, <2>2, NewEnds
    <3> QED  BY <1>0, <1>5, <2>1, <3>1
  <2>3. CASE p # o
    <3>1. ord2[p] = ord[p]
      BY <2>3, NewEnds
    <3>2. U[<<p, 0>>] = V[<<p, 0>>]
      BY <1>1, <1>4, <2>3
    <3> QED  BY <2>1, <3>1, <3>2 DEF Valued
  <2> QED  BY <2>2, <2>3
<1>7. Valued(U, ord2)
  BY <1>6 DEF Valued
<1> QED  BY <1>1, <1>3, <1>4, <1>7

\* Another member makes a set one larger.
LEMMA OneMore ==
  ASSUME NEW S, IsFiniteSet(S), NEW x, x \notin S, NEW T, T = S \cup {x}
  PROVE  Cardinality(T) = Cardinality(S) + 1
  BY FS_AddElement

\* A new order has a result: the account of the tables without its launch.
LEMMA CountedOut ==
  ASSUME NEW V, NEW d, NEW s, NEW a, NEW ord, NEW leg, NEW last, NEW score, NEW exact,
         Account(V, d, s, a, ord, leg, last, score, exact),
         NEW o, NEW st, NEW ord2, Ends(ord, o, st, ord2), NEW U, Revalue(V, o, st, U),
         NEW leg2, leg2 \in {leg, NoOrder} \/ (leg2 = o /\ st = "leg")
  PROVE  /\ U \in Values /\ Ready(U, d, s) /\ Valued(U, ord2) /\ Tells(a, ord2, leg2)
         /\ Past(d, s, ord2, last) /\ LegOpen(ord2, leg2) /\ Known(a, ord2) = Known(a, ord)
         /\ ord2 \in [Order -> Status] /\ ord2[o] = st /\ (\A p \in Order : p # o => ord2[p] = ord[p])
         /\ Sound(U, a)
<1>0. o \in Order /\ ord[o] = "new" /\ st \in {"win", "loss", "leg"}
  BY DEF Ends
<1>1. /\ V \in Values /\ Ready(V, d, s) /\ a = After(d, s) /\ ord \in [Order -> Status] /\ last \in Nat
      /\ Valued(V, ord) /\ Tells(a, ord, leg) /\ Past(d, s, ord, last) /\ LegOpen(ord, leg)
      /\ \A e \in Current(a) : e.key[1] \in Order
  BY AccountIs
<1>2. /\ \A e \in d.entries : e.key[1] # o
      /\ \A i \in 1..Len(s) : s[i].kind = "lancar" => s[i].key[1] # o
      /\ \A e \in Current(a) : e.key[1] # o
      /\ ~Has(a, <<o, 0>>) /\ ~Has(a, <<o, 1>>) /\ leg # o /\ o # NoOrder
  BY NewHasNothing DEF Ends
<1>3. /\ ord2 \in [Order -> Status] /\ GoOn(ord, ord2) /\ ord2[o] = st
      /\ \A p \in Order : p # o => ord2[p] = ord[p]
  BY <1>1, NewEnds
<1>4. /\ U \in Values /\ Valued(U, ord2) /\ \A k \in Keys : k[1] # o => U[k] = V[k]
  <2>1. Valued(V, ord)
    BY <1>1
  <2>2. U \in Values /\ Valued(U, ord2)
    BY <2>1, NewValue
  <2>3. ASSUME NEW k \in Keys, k[1] # o PROVE U[k] = V[k]
    <3>1. k # <<o, 0>>
      BY <2>3
    <3>2. V \in Values /\ U = [V EXCEPT ![<<o, 0>>] = Worth(st)]
      BY DEF Revalue
    <3> QED  BY <3>1, <3>2 DEF Values
  <2> QED  BY <2>2, <2>3
<1>5. Ready(U, d, s)
  BY <1>1, <1>2, <1>4, ReadyRevalued
<1>6. Past(d, s, ord2, last)
  BY <1>1, <1>3, PastGoesOn
<1>7. Tells(a, ord2, leg2)
  BY <1>0, <1>1, <1>2, <1>3, OrderAssumption DEF Tells
<1>8. LegOpen(ord2, leg2)
  BY <1>0, <1>1, <1>2, <1>3 DEF LegOpen
<1>9. Known(a, ord2) = Known(a, ord)
  <2>1. ASSUME NEW p \in Order PROVE p \in Known(a, ord2) <=> p \in Known(a, ord)
    BY <1>0, <1>2, <1>3 DEF Known
  <2> QED  BY <2>1 DEF Known
<1>10. Sound(U, a)
  BY <1>1, <1>4, <1>5, AfterSound
<1> QED  BY <1>3, <1>4, <1>5, <1>6, <1>7, <1>8, <1>9, <1>10

\* The account with the write w, and the one without it.
Accounts(U, d, s, w, ord, leg, last, score, exact) ==
    /\ Account(U, d, Append(s, w), After(d, Append(s, w)), ord, leg, last, score, exact)
    /\ Account(U, d, s, After(d, s), ord, leg, last, score, FALSE)

\* A new order has a result, and its launch is on its way, or dropped.
LEMMA CountedIn ==
  ASSUME NEW V, NEW d, NEW s, NEW a, NEW ord, NEW leg, NEW last, NEW score, NEW exact,
         Account(V, d, s, a, ord, leg, last, score, exact),
         NEW o, NEW st, NEW ord2, Ends(ord, o, st, ord2),
         NEW leg2, leg2 \in {leg, NoOrder} \/ (leg2 = o /\ st = "leg"),
         NEW score2, score2 = [wins |-> score.wins + Worth(st).wins,
                               losses |-> score.losses + Worth(st).losses],
         NEW w, w = Launch(o, 0, Worth(st).wins, Worth(st).losses)
  PROVE  \E U \in Values : Accounts(U, d, s, w, ord2, leg2, last, score2, exact)
<1> DEFINE b == Apply(a, w)
           t == Append(s, w)
<1>0. o \in Order /\ ord[o] = "new" /\ st \in {"win", "loss", "leg"}
  BY DEF Ends
<1>1. /\ a = After(d, s) /\ a.row.since = last /\ last \in Nat
      /\ score.wins \in Nat /\ score.losses \in Nat /\ Counted(a, ord, score, exact)
      /\ a.row.wins \in Nat /\ a.row.losses \in Nat /\ a.base.losses \in Nat
      /\ IsFiniteSet(Known(a, ord)) /\ Cardinality(Known(a, ord)) \in Nat
      /\ V \in Values /\ ord \in [Order -> Status] /\ Valued(V, ord)
  <2>1. Sound(V, a)
    BY AccountIs
  <2> QED  BY <2>1, AccountIs, SoundFinite, KnownFinite
<1>U. PICK U : Revalue(V, o, st, U)
  BY <1>1 DEF Revalue
<1>2. /\ U \in Values /\ Ready(U, d, s) /\ Valued(U, ord2) /\ Tells(a, ord2, leg2)
      /\ Past(d, s, ord2, last) /\ LegOpen(ord2, leg2) /\ Known(a, ord2) = Known(a, ord)
      /\ ord2 \in [Order -> Status] /\ ord2[o] = st /\ (\A p \in Order : p # o => ord2[p] = ord[p])
      /\ Sound(U, a)
  BY <1>U, CountedOut
<1>3. ~Has(a, <<o, 0>>) /\ leg # o /\ o # NoOrder
  BY NewHasNothing DEF Ends
<1>4. /\ w.kind = "lancar" /\ w.key = <<o, 0>> /\ w.wins = Worth(st).wins /\ w.losses = Worth(st).losses
      /\ w.key[1] = o /\ w.key[2] = 0 /\ w.since = 0
  BY DEF Launch, Write
<1>5. Worth(st).wins \in {0, 1} /\ Worth(st).losses \in {0, 1}
      /\ (st = "loss" <=> Worth(st).losses = 1)
  BY <1>0 DEF Worth, Effect
<1>6. Legal(U, w)
  <2>1. U[<<o, 0>>] = Worth(st) /\ <<o, 0>> \in Keys
    <3>1. Valued(V, ord)
      BY <1>1
    <3>2. U[<<o, 0>>] = Worth(st)
      BY <1>U, <3>1, NewValue
    <3> QED  BY <1>0, <3>2, KeyParts
  <2>2. Fits(U, w)
    BY <1>4, <2>1 DEF Fits
  <2>3. w \in Writes
    BY <1>0, <1>4, <1>5 DEF Writes, Launch, Write, Kind
  <2> QED  BY <2>2, <2>3 DEF Legal
<1> HIDE DEF t
<1>7. score2 \in [wins : Nat, losses : Nat] /\ score2.wins = score.wins + w.wins
      /\ score2.losses = score.losses + w.losses
  <2>1. score.wins + Worth(st).wins \in Nat /\ score.losses + Worth(st).losses \in Nat
    BY <1>1, <1>5
  <2> QED  BY <1>4, <2>1
<1>8. /\ Ready(U, d, t) /\ b = After(d, t) /\ Past(d, t, ord2, last)
      /\ Sound(U, b) /\ b.row.since = a.row.since
  <2>1. ord2[w.key[1]] # "new"
    BY <1>0, <1>2, <1>4
  <2>2. w.kind \in {"lancar", "apagar"} /\ w.kind # "apagar"
    BY <1>4
  <2> QED  BY <1>1, <1>2, <1>6, <2>1, <2>2, Appended DEF t
<1>9. /\ b.row.wins = a.row.wins + w.wins /\ b.row.losses = a.row.losses + w.losses
      /\ b.base = a.base
      /\ \A e \in Current(b) : e \in Current(a) \/ e.key = w.key
      /\ \A k : Has(b, k) <=> Has(a, k) \/ k = w.key
  BY <1>2, <1>3, <1>4, <1>6, LaunchAdds
<1> HIDE DEF b
<1>10. Tells(b, ord2, leg2)
  <2>1. ord2[o] \in Standing
    BY <1>0, <1>2 DEF Standing
  <2> QED  BY <1>2, <1>4, <1>9, <2>1 DEF Tells
<1>11. Cardinality(Known(b, ord2)) = Cardinality(Known(a, ord)) + w.losses
  <2>1. \A p \in Order : \A n \in {0, 1} : <<p, n>> = <<o, 0>> => p = o /\ n = 0
    BY <1>0
  <2>2. \A p \in Order : p # o => (p \in Known(b, ord2) <=> p \in Known(a, ord2))
    BY <1>4, <1>9, <2>1 DEF Known
  <2>3. o \in Known(b, ord2) <=> st = "loss"
    BY <1>0, <1>2, <1>4, <1>9 DEF Known
  <2>4. o \notin Known(a, ord)
    BY <1>0 DEF Known
  <2>5. CASE st = "loss"
    <3>1. Known(b, ord2) = Known(a, ord) \cup {o}
      BY <1>0, <1>2, <2>2, <2>3, <2>5 DEF Known
    <3>2. Cardinality(Known(b, ord2)) = Cardinality(Known(a, ord)) + 1
      BY <1>1, <2>4, <3>1, OneMore
    <3> QED  BY <1>4, <1>5, <2>5, <3>2
  <2>6. CASE st # "loss"
    <3>1. Known(b, ord2) = Known(a, ord)
      BY <1>2, <2>2, <2>3, <2>4, <2>6 DEF Known
    <3> QED  BY <1>1, <1>4, <1>5, <2>6, <3>1
  <2> QED  BY <2>5, <2>6
<1>12. Counted(b, ord2, score2, exact)
  <2>1. exact => \A p \in Order : ord2[p] = "cycle" /\ Has(b, <<p, 0>>) => Has(b, <<p, 1>>)
    <3> SUFFICES ASSUME exact, NEW p \in Order, ord2[p] = "cycle", Has(b, <<p, 0>>)
                 PROVE  Has(b, <<p, 1>>)
      OBVIOUS
    <3>1. p # o
      BY <1>0, <1>2
    <3>2. ord[p] = "cycle" /\ <<p, 0>> # <<o, 0>>
      BY <1>2, <3>1
    <3>3. Has(a, <<p, 0>>)
      BY <1>4, <1>9, <3>2
    <3>4. Has(a, <<p, 1>>)
      BY <1>1, <3>2, <3>3 DEF Counted
    <3> QED  BY <1>9, <3>4
  <2>2. /\ score.wins >= a.row.wins /\ score.losses >= a.base.losses + Cardinality(Known(a, ord))
        /\ exact => score.wins = a.row.wins /\ score.losses = a.row.losses
    BY <1>1 DEF Counted
  <2>3. w.wins \in Nat /\ w.losses \in Nat
    BY <1>4, <1>5
  <2>4. score2.wins >= b.row.wins /\ (exact => score2.wins = b.row.wins)
    BY <1>1, <1>7, <1>9, <2>2, <2>3
  <2>5. exact => score2.losses = b.row.losses
    BY <1>7, <1>9, <2>2
  <2>6. score2.losses >= b.base.losses + Cardinality(Known(b, ord2))
    <3>1. PICK x \in Nat, y \in Nat, z \in Nat, l \in Nat :
             x = score.losses /\ y = a.base.losses /\ z = Cardinality(Known(a, ord)) /\ l = w.losses
      BY <1>1, <2>3
    <3>2. x + l >= y + (z + l)
      BY <2>2, <3>1
    <3> QED  BY <1>7, <1>9, <1>11, <3>1, <3>2
  <2> QED  BY <2>1, <2>4, <2>5, <2>6 DEF Counted
<1>13. Counted(a, ord2, score2, FALSE)
  <2>1. score.wins >= a.row.wins /\ score.losses >= a.base.losses + Cardinality(Known(a, ord))
    BY <1>1 DEF Counted
  <2>2. w.wins \in Nat /\ w.losses \in Nat
    BY <1>4, <1>5
  <2>3. score2.wins >= a.row.wins
    BY <1>1, <1>7, <2>1, <2>2
  <2>4. score2.losses >= a.base.losses + Cardinality(Known(a, ord2))
    <3>1. PICK x \in Nat, y \in Nat, z \in Nat, l \in Nat :
             x = score.losses /\ y = a.base.losses /\ z = Cardinality(Known(a, ord)) /\ l = w.losses
      BY <1>1, <2>2
    <3>2. x + l >= y + z
      BY <2>1, <3>1
    <3> QED  BY <1>2, <1>7, <3>1, <3>2
  <2> QED  BY <2>3, <2>4 DEF Counted
<1>14. Account(U, d, t, b, ord2, leg2, last, score2, exact)
  BY <1>1, <1>2, <1>7, <1>8, <1>10, <1>12 DEF Account
<1>15. Account(U, d, s, a, ord2, leg2, last, score2, FALSE)
  BY <1>1, <1>2, <1>7, <1>13 DEF Account
<1>16. Accounts(U, d, s, w, ord2, leg2, last, score2, exact)
  BY <1>1, <1>8, <1>14, <1>15 DEF t, Accounts
<1> QED  BY <1>2, <1>16

\* A leg that was lost is closed, in its period or after a reset.
Closes(ord, o, ord2) ==
    /\ ord \in [Order -> Status] /\ o \in Order /\ ord[o] \in {"leg", "old"}
    /\ ord2 = [ord EXCEPT ![o] = IF @ = "leg" THEN "cycle" ELSE @]

\* Orders go on then.
LEMMA LegCloses ==
  ASSUME NEW ord, NEW o, NEW ord2, Closes(ord, o, ord2), NEW V, Valued(V, ord)
  PROVE  /\ ord2 \in [Order -> Status] /\ GoOn(ord, ord2) /\ Valued(V, ord2)
         /\ (ord[o] = "leg" => ord2[o] = "cycle") /\ (ord[o] = "old" => ord2[o] = "old")
         /\ \A p \in Order : p # o => ord2[p] = ord[p]
<1>1. /\ ord \in [Order -> Status] /\ o \in Order /\ ord[o] \in {"leg", "old"}
      /\ ord2 \in [Order -> Status]
      /\ (ord[o] = "leg" => ord2[o] = "cycle") /\ (ord[o] = "old" => ord2[o] = "old")
      /\ \A p \in Order : p # o => ord2[p] = ord[p]
  BY DEF Closes, Status
<1>2. GoOn(ord, ord2)
  BY <1>1 DEF GoOn
<1>3. Valued(V, ord2)
  <2>1. \A p \in Order : ord2[p] = ord[p] \/ (ord[p] = "leg" /\ ord2[p] = "cycle")
    BY <1>1
  <2> QED  BY <2>1 DEF Valued
<1> QED  BY <1>1, <1>2, <1>3

\* An abandoned cycle is closed, and its launch is on its way, or dropped.
LEMMA CloseIn ==
  ASSUME NEW V, NEW d, NEW s, NEW a, NEW ord, NEW leg, NEW last, NEW score, NEW exact,
         Account(V, d, s, a, ord, leg, last, score, exact),
         leg \in Order, NEW ord2, Closes(ord, leg, ord2),
         NEW score2, score2 = [wins |-> score.wins, losses |-> score.losses + 1],
         NEW w, w = Launch(leg, 1, 0, 1)
  PROVE  /\ Account(V, d, Append(s, w), After(d, Append(s, w)), ord2, NoOrder, last, score2, exact)
         /\ Account(V, d, s, a, ord2, NoOrder, last, score2, FALSE)
<1> DEFINE b == Apply(a, w)
           t == Append(s, w)
<1>1. /\ V \in Values /\ Ready(V, d, s) /\ a = After(d, s) /\ a.row.since = last /\ last \in Nat
      /\ score.wins \in Nat /\ score.losses \in Nat /\ Counted(a, ord, score, exact)
      /\ a.row.wins \in Nat /\ a.row.losses \in Nat /\ a.base.losses \in Nat
      /\ IsFiniteSet(Known(a, ord)) /\ Cardinality(Known(a, ord)) \in Nat
      /\ IsFiniteSet(Known(a, ord2)) /\ Cardinality(Known(a, ord2)) \in Nat
      /\ Valued(V, ord) /\ Tells(a, ord, leg) /\ Past(d, s, ord, last)
      /\ \A e \in Current(a) : e.key[1] \in Order /\ e.key[2] \in {0, 1}
  <2>1. Sound(V, a)
    BY AccountIs
  <2> QED  BY <2>1, AccountIs, SoundFinite, KnownFinite
<1>2. /\ ord \in [Order -> Status] /\ ord2 \in [Order -> Status] /\ GoOn(ord, ord2) /\ Valued(V, ord2)
      /\ (ord[leg] = "leg" => ord2[leg] = "cycle") /\ (ord[leg] = "old" => ord2[leg] = "old")
      /\ ord[leg] \in {"leg", "old"} /\ \A p \in Order : p # leg => ord2[p] = ord[p]
  <2>1. ord \in [Order -> Status] /\ ord[leg] \in {"leg", "old"}
    BY DEF Closes
  <2> QED  BY <1>1, <2>1, LegCloses
<1>3. Sound(V, a)
  BY <1>1, AfterSound
<1>4. /\ w.kind = "lancar" /\ w.key = <<leg, 1>> /\ w.wins = 0 /\ w.losses = 1
      /\ w.key[1] = leg /\ w.key[2] = 1 /\ w.since = 0
  BY DEF Launch, Write
<1>5. Legal(V, w)
  <2>1. V[<<leg, 1>>] = Effect(0, 1) /\ <<leg, 1>> \in Keys
    BY <1>1, KeyParts DEF Valued
  <2>2. Fits(V, w)
    BY <1>4, <2>1 DEF Fits, Effect
  <2>3. w \in Writes
    BY DEF Writes, Launch, Write, Kind
  <2> QED  BY <2>2, <2>3 DEF Legal
<1>6. ~Has(a, <<leg, 1>>)
  <2>1. ASSUME NEW e \in Current(a), e.key = <<leg, 1>> PROVE FALSE
    <3>1. e.key[1] = leg /\ e.key[2] = 1
      BY <2>1
    <3> QED  BY <1>1, <3>1 DEF Tells
  <2> QED  BY <2>1 DEF Has
<1>7. Past(d, s, ord2, last)
  BY <1>1, <1>2, PastGoesOn
<1> HIDE DEF t
<1>8. /\ Ready(V, d, t) /\ b = After(d, t) /\ Past(d, t, ord2, last)
      /\ Sound(V, b) /\ b.row.since = a.row.since
  <2>1. ord2[w.key[1]] # "new"
    BY <1>2, <1>4
  <2>2. w.kind \in {"lancar", "apagar"} /\ w.kind # "apagar"
    BY <1>4
  <2> QED  BY <1>1, <1>5, <1>7, <2>1, <2>2, Appended DEF t
<1>9. /\ b.row.wins = a.row.wins + w.wins /\ b.row.losses = a.row.losses + w.losses
      /\ b.base = a.base
      /\ \A e \in Current(b) : e \in Current(a) \/ e.key = w.key
      /\ \A k : Has(b, k) <=> Has(a, k) \/ k = w.key
  BY <1>1, <1>3, <1>4, <1>5, <1>6, LaunchAdds
<1> HIDE DEF b
<1>10. score2 \in [wins : Nat, losses : Nat] /\ score2.wins = score.wins /\ score2.losses = score.losses + 1
  BY <1>1
<1>11. Tells(a, ord2, NoOrder) /\ LegOpen(ord2, NoOrder)
  BY <1>1, <1>2, OrderAssumption DEF Tells, Standing, LegOpen
<1>12. Tells(b, ord2, NoOrder)
  <2>1. ord2[leg] \in {"cycle", "old"} /\ leg # NoOrder
    BY <1>2, OrderAssumption
  <2> QED  BY <1>4, <1>9, <1>11, <2>1 DEF Tells
<1>13. /\ Cardinality(Known(b, ord2)) = Cardinality(Known(a, ord)) + 1
       /\ Cardinality(Known(a, ord2)) <= Cardinality(Known(a, ord)) + 1
  <2>1. leg \notin Known(a, ord)
    BY <1>2, <1>6 DEF Known
  <2>2. \A p \in Order : \A n \in {0, 1} : <<p, n>> = <<leg, 1>> => p = leg /\ n = 1
    OBVIOUS
  <2>3. \A p \in Order : p # leg => /\ p \in Known(b, ord2) <=> p \in Known(a, ord)
                                    /\ p \in Known(a, ord2) <=> p \in Known(a, ord)
    BY <1>2, <1>4, <1>9, <2>2 DEF Known
  <2>4. leg \in Known(b, ord2)
    BY <1>2, <1>4, <1>9 DEF Known
  <2>5. Known(b, ord2) = Known(a, ord) \cup {leg}
    BY <2>3, <2>4 DEF Known
  <2>6. Known(a, ord2) \subseteq Known(b, ord2)
    BY <2>3, <2>4 DEF Known
  <2>7. Cardinality(Known(b, ord2)) = Cardinality(Known(a, ord)) + 1
    BY <1>1, <2>1, <2>5, OneMore
  <2>8. IsFiniteSet(Known(b, ord2))
    BY <1>8, KnownFinite
  <2>9. Cardinality(Known(a, ord2)) <= Cardinality(Known(b, ord2))
    BY <2>6, <2>8, FS_Subset
  <2> QED  BY <2>7, <2>9
<1>14. Counted(b, ord2, score2, exact)
  <2>1. ASSUME exact, NEW p \in Order, ord2[p] = "cycle", Has(b, <<p, 0>>)
        PROVE  Has(b, <<p, 1>>)
    <3>1. CASE p = leg
      BY <1>4, <1>9, <3>1
    <3>2. CASE p # leg
      <4>1. ord[p] = "cycle" /\ <<p, 0>> # <<leg, 1>>
        BY <1>2, <2>1, <3>2
      <4>2. Has(a, <<p, 0>>)
        BY <1>4, <1>9, <2>1, <4>1
      <4>3. Has(a, <<p, 1>>)
        BY <1>1, <2>1, <4>1, <4>2 DEF Counted
      <4> QED  BY <1>9, <4>3
    <3> QED  BY <3>1, <3>2
  <2>2. /\ score.wins >= a.row.wins /\ score.losses >= a.base.losses + Cardinality(Known(a, ord))
        /\ exact => score.wins = a.row.wins /\ score.losses = a.row.losses
    BY <1>1 DEF Counted
  <2>3. score2.wins >= b.row.wins /\ (exact => score2.wins = b.row.wins)
    BY <1>1, <1>4, <1>9, <1>10, <2>2
  <2>4. exact => score2.losses = b.row.losses
    BY <1>4, <1>9, <1>10, <2>2
  <2>5. score2.losses >= b.base.losses + Cardinality(Known(b, ord2))
    <3>1. PICK x \in Nat, y \in Nat, z \in Nat :
             x = score.losses /\ y = a.base.losses /\ z = Cardinality(Known(a, ord))
      BY <1>1
    <3>2. x + 1 >= y + (z + 1)
      BY <2>2, <3>1
    <3> QED  BY <1>9, <1>10, <1>13, <3>1, <3>2
  <2> QED  BY <2>1, <2>3, <2>4, <2>5 DEF Counted
<1>15. Counted(a, ord2, score2, FALSE)
  <2>1. score.wins >= a.row.wins /\ score.losses >= a.base.losses + Cardinality(Known(a, ord))
    BY <1>1 DEF Counted
  <2>2. score2.losses >= a.base.losses + Cardinality(Known(a, ord2))
    <3>1. PICK x \in Nat, y \in Nat, z \in Nat, u \in Nat :
             /\ x = score.losses /\ y = a.base.losses /\ z = Cardinality(Known(a, ord))
             /\ u = Cardinality(Known(a, ord2))
      BY <1>1
    <3>2. x + 1 >= y + u
      BY <1>13, <2>1, <3>1
    <3> QED  BY <1>10, <3>1, <3>2
  <2> QED  BY <1>10, <2>1, <2>2 DEF Counted
<1>16. Account(V, d, t, b, ord2, NoOrder, last, score2, exact)
  BY <1>1, <1>2, <1>8, <1>10, <1>11, <1>12, <1>14 DEF Account
<1>17. Account(V, d, s, a, ord2, NoOrder, last, score2, FALSE)
  BY <1>1, <1>2, <1>7, <1>10, <1>11, <1>15 DEF Account
<1> QED  BY <1>8, <1>16, <1>17 DEF t

\* A reset starts a period of its own.
LEMMA ResetIn ==
  ASSUME NEW V, NEW d, NEW s, NEW a, NEW ord, NEW leg, NEW last, NEW score, NEW exact,
         Account(V, d, s, a, ord, leg, last, score, exact),
         NEW ord2, ord2 = [o \in Order |-> IF ord[o] = "new" THEN "new" ELSE "old"],
         NEW leg2 \in {leg, NoOrder}, NEW w, w = Restart(last + 1)
  PROVE  Account(V, d, Append(s, w), After(d, Append(s, w)), ord2, leg2, last + 1, Zero, exact)
<1> DEFINE b == Apply(a, w)
           t == Append(s, w)
<1>1. /\ V \in Values /\ Ready(V, d, s) /\ a = After(d, s) /\ a.row.since = last /\ last \in Nat
      /\ Past(d, s, ord, last) /\ LegOpen(ord, leg) /\ Sound(V, a) /\ Valued(V, ord)
      /\ ord \in [Order -> Status] /\ s \in Seq(Writes) /\ Sound(V, d)
  BY AccountIs
<1>2. /\ ord2 \in [Order -> Status] /\ GoOn(ord, ord2)
      /\ \A o \in Order : ord2[o] \in {"new", "old"} /\ (ord[o] # "new" => ord2[o] = "old")
  BY <1>1 DEF GoOn, Status
<1>3. w.kind = "reiniciar" /\ w.since = last + 1 /\ w \in Writes
  BY <1>1 DEF Restart, Write, Writes, Kind
<1>4. Legal(V, w)
  BY <1>3 DEF Legal
<1>5. Past(d, s, ord2, last + 1)
  <2>1. last + 1 \in Nat /\ last <= last + 1
    BY <1>1
  <2> QED  BY <1>1, <1>2, <2>1, PastGoesOn
<1>6. /\ \A e \in Current(d) : e.key[1] \in Order
      /\ \A i \in 1..Len(s) : s[i].since \in Nat /\ (s[i].kind = "lancar" => s[i].key[1] \in Order)
      /\ d.row.since \in Nat
  <2>1. \A e \in Current(d) : e.key \in Keys
    BY <1>1 DEF Sound, Fits, Current
  <2>2. \A i \in 1..Len(s) : Legal(V, s[i])
    BY <1>1 DEF Ready
  <2>3. \A i \in 1..Len(s) : s[i].since \in Nat /\ (s[i].kind = "lancar" => s[i].key \in Keys)
    BY <2>2 DEF Legal, Fits, Writes
  <2> QED  BY <1>1, <2>1, <2>3, KeyParts, SoundFinite
<1>7. Ready(V, d, t)
  <2>1. w.since > d.row.since
    BY <1>1, <1>3, <1>6 DEF Past
  <2>2. \A i \in 1..Len(s) : s[i].kind = "reiniciar" => s[i].since < w.since
    BY <1>1, <1>3, <1>6 DEF Past
  <2> QED  BY <1>1, <1>3, <1>4, <2>1, <2>2, ReadyAppend
<1>8. Past(d, t, ord2, last + 1)
  <2>1. Closed(d, s, ord2, Len(s) + 1)
    <3>1. \A o \in Order : ord2[o] \notin Standing
      BY <1>2 DEF Standing
    <3>2. Len(s) \in Nat /\ (Len(s) + 1) - 1 = Len(s)
      BY <1>1, LenProperties
    <3> QED  BY <1>6, <3>1, <3>2 DEF Closed
  <2>2. w.since <= last + 1
    BY <1>1, <1>3
  <2>3. w.kind # "lancar" /\ w.kind # "apagar"
    BY <1>3
  <2> QED  BY <1>1, <1>3, <1>5, <2>1, <2>2, <2>3, PastAppend
<1>9. b = After(d, t)
  BY <1>1, <1>3, AfterAppend
<1>10. Due(a, w)
  BY <1>1, <1>3 DEF Due
<1>11. /\ b.base = Zero /\ b.row = Row(TRUE, w.since, 0, 0) /\ Current(b) = {} /\ Sound(V, b)
  <2>0. a \in Tables
    BY <1>1 DEF Sound
  <2>1. Apply(a, w) = [a EXCEPT !.row = Row(TRUE, w.since, 0, 0), !.base = Zero]
    BY <1>3, ApplyIs DEF PlacarReiniciar
  <2>2. Apply(a, w).row = Row(TRUE, w.since, 0, 0) /\ Apply(a, w).base = Zero
    BY <2>0, <2>1 DEF Tables
  <2>3. Current(Apply(a, w)) = {} /\ Sound(V, Apply(a, w))
    <3>1. Emptied(a, w, Apply(a, w)) /\ Sound(V, Apply(a, w))
      BY <1>1, <1>3, <1>4, <1>10, ResetIs
    <3> QED  BY <3>1 DEF Emptied
  <2> QED  BY <2>1, <2>2, <2>3
<1> HIDE DEF b, t
<1>12. b.row.since = last + 1 /\ b.row.wins = 0 /\ b.row.losses = 0 /\ b.base.losses = 0
  BY <1>3, <1>11 DEF Row, Zero
<1>13. \A k : ~Has(b, k)
  BY <1>11 DEF Has
<1>14. Known(b, ord2) = {} /\ Cardinality(Known(b, ord2)) = 0
  BY <1>13, FS_EmptySet DEF Known
<1>15. Counted(b, ord2, Zero, exact)
  <2>1. Zero.wins = 0 /\ Zero.losses = 0
    BY DEF Zero
  <2> QED  BY <1>12, <1>13, <1>14, <2>1 DEF Counted
<1>16. Tells(b, ord2, leg2)
  BY <1>11 DEF Tells
<1>17. Valued(V, ord2)
  BY <1>1, <1>2 DEF Valued
<1>18. LegOpen(ord2, leg2)
  BY <1>1, <1>2 DEF LegOpen
<1>19. last + 1 \in Nat /\ Zero \in [wins : Nat, losses : Nat]
  BY <1>1 DEF Zero
<1>20. Account(V, d, t, b, ord2, leg2, last + 1, Zero, exact)
  BY <1>1, <1>2, <1>7, <1>8, <1>9, <1>12, <1>15, <1>16, <1>17, <1>18, <1>19 DEF Account
<1> QED  BY <1>9, <1>20 DEF t

\* What the entries of an order that stands are.
LEMMA EntriesOf ==
  ASSUME NEW V \in Values, NEW a, Sound(V, a), NEW ord, Valued(V, ord), NEW leg, Tells(a, ord, leg),
         NEW o \in Order, NEW e \in Current(a), e.key[1] = o
  PROVE  /\ ord[o] = "win" => e.key = <<o, 0>> /\ e.wins = 1 /\ e.losses = 0
         /\ ord[o] = "loss" => e.key = <<o, 0>> /\ e.wins = 0 /\ e.losses = 1
         /\ ord[o] = "cycle" => e.wins = 0 /\ (e.losses = 1 <=> e.key = <<o, 1>>)
<1>1. e \in Entries /\ Fits(V, e)
  BY SoundFinite DEF Sound
<1>2. e.key \in Keys /\ e.key[2] \in {0, 1} /\ e.key = <<o, e.key[2]>>
  BY <1>1, KeyParts DEF Fits
<1>3. e.wins = V[e.key].wins /\ e.losses = V[e.key].losses
  BY <1>1 DEF Fits
<1>4. /\ Effect(1, 0).wins = 1 /\ Effect(1, 0).losses = 0 /\ Effect(0, 1).wins = 0
      /\ Effect(0, 1).losses = 1 /\ Effect(0, 0).wins = 0 /\ Effect(0, 0).losses = 0
  BY DEF Effect
<1>5. <<o, 0>> # <<o, 1>>
  OBVIOUS
<1>6. e.key[2] = 1 => ord[o] \in {"cycle", "old"}
  BY DEF Tells
<1>7. CASE e.key[2] = 0
  <2>1. e.key = <<o, 0>> /\ e.wins = V[<<o, 0>>].wins /\ e.losses = V[<<o, 0>>].losses
    BY <1>2, <1>3, <1>7
  <2>2. /\ ord[o] = "win" => V[<<o, 0>>] = Effect(1, 0)
        /\ ord[o] = "loss" => V[<<o, 0>>] = Effect(0, 1)
        /\ ord[o] = "cycle" => V[<<o, 0>>] = Effect(0, 0)
    BY DEF Valued
  <2> QED  BY <1>4, <1>5, <2>1, <2>2
<1>8. CASE e.key[2] = 1
  <2>1. e.key = <<o, 1>> /\ e.wins = V[<<o, 1>>].wins /\ e.losses = V[<<o, 1>>].losses
    BY <1>2, <1>3, <1>8
  <2>2. V[<<o, 1>>] = Effect(0, 1)
    BY DEF Valued
  <2> QED  BY <1>4, <1>6, <1>8, <2>1, <2>2
<1> QED  BY <1>2, <1>7, <1>8

\* A key has one entry in a period.
LEMMA OneEntry ==
  ASSUME NEW V \in Values, NEW a, Sound(V, a), NEW x \in Current(a), NEW y \in Current(a), x.key = y.key
  PROVE  x = y
<1>1. /\ x \in Entries /\ y \in Entries /\ Fits(V, x) /\ Fits(V, y)
      /\ x.since = a.row.since /\ y.since = a.row.since
  BY SoundFinite DEF Current, Sound
<1>2. x.wins = y.wins /\ x.losses = y.losses
  BY <1>1 DEF Fits
<1> QED  BY <1>1, <1>2 DEF Entries

\* A trade is deleted that stands as a win, a loss or an abandoned cycle.
Deletes(ord, o, ord2) ==
    /\ ord \in [Order -> Status] /\ o \in Order /\ ord[o] \in {"win", "loss", "cycle"}
    /\ ord2 = [ord EXCEPT ![o] = "deleted"]

\* The entries of an order are out of the period.
Purged(a, b, o) == Current(b) = {e \in Current(a) : e.key[1] # o}

\* A key of the order is in the period.
Named(a, o) == \E n \in {0, 1} : Has(a, <<o, n>>)
\* What the sums lose with the order.
Less(a, ord, b, ord2, o) ==
    /\ ord[o] = "win" => /\ Cardinality(WinSet(a)) = Cardinality(WinSet(b)) + 1
                         /\ LossSet(b) = LossSet(a) /\ Known(b, ord2) = Known(a, ord)
    /\ ord[o] # "win" => /\ WinSet(b) = WinSet(a)
                         /\ Cardinality(Known(a, ord)) = Cardinality(Known(b, ord2)) + 1
    /\ ord[o] # "win" /\ (ord[o] = "cycle" => Has(a, <<o, 1>>)) =>
          Cardinality(LossSet(a)) = Cardinality(LossSet(b)) + 1

\* What its deletion takes out of the sums, when it had an entry.
LEMMA SumsLess ==
  ASSUME NEW V \in Values, NEW a, Sound(V, a), NEW ord, Valued(V, ord), NEW leg, Tells(a, ord, leg),
         NEW o, NEW ord2, Deletes(ord, o, ord2),
         NEW b, Sound(V, b), Purged(a, b, o),
         Named(a, o)
  PROVE  Less(a, ord, b, ord2, o)
<1> SUFFICES /\ ord[o] = "win" => /\ Cardinality(WinSet(a)) = Cardinality(WinSet(b)) + 1
                                  /\ LossSet(b) = LossSet(a) /\ Known(b, ord2) = Known(a, ord)
             /\ ord[o] # "win" => /\ WinSet(b) = WinSet(a)
                                  /\ Cardinality(Known(a, ord)) = Cardinality(Known(b, ord2)) + 1
             /\ ord[o] # "win" /\ (ord[o] = "cycle" => Has(a, <<o, 1>>)) =>
                   Cardinality(LossSet(a)) = Cardinality(LossSet(b)) + 1
  BY DEF Less
<1>1. /\ o \in Order /\ ord[o] \in {"win", "loss", "cycle"} /\ ord2[o] = "deleted"
      /\ \A p \in Order : p # o => ord2[p] = ord[p]
  BY DEF Deletes
<1>0. Current(b) = {e \in Current(a) : e.key[1] # o}
  BY DEF Purged
<1> USE <1>0
<1>2. ASSUME NEW e \in Current(a), e.key[1] = o
      PROVE  /\ ord[o] = "win" => e.key = <<o, 0>> /\ e.wins = 1 /\ e.losses = 0
             /\ ord[o] = "loss" => e.key = <<o, 0>> /\ e.wins = 0 /\ e.losses = 1
             /\ ord[o] = "cycle" => e.wins = 0 /\ (e.losses = 1 <=> e.key = <<o, 1>>)
  BY <1>1, <1>2, EntriesOf
<1>3. PICK n \in {0, 1}, e \in Current(a) : Has(a, <<o, n>>) /\ e.key = <<o, n>>
  BY DEF Has, Named
<1>4. e.key[1] = o /\ e \notin Current(b) /\ \A k \in {0, 1} : <<o, k>>[1] = o
  BY <1>3
<1>5. \A p \in Order : \A k \in {0, 1} : p # o => (Has(b, <<p, k>>) <=> Has(a, <<p, k>>))
  BY DEF Has
<1>6. /\ IsFiniteSet(WinSet(b)) /\ IsFiniteSet(LossSet(b)) /\ IsFiniteSet(Known(b, ord2))
  BY SoundFinite, KnownFinite
<1>7. \A p \in Order : p # o => (p \in Known(b, ord2) <=> p \in Known(a, ord))
  BY <1>1, <1>5 DEF Known
<1>8. o \notin Known(b, ord2)
  BY <1>1 DEF Known
<1>9. CASE ord[o] = "win"
  <2>1. WinSet(a) = WinSet(b) \cup {e}
    <3>1. e \in WinSet(a)
      BY <1>2, <1>4, <1>9 DEF WinSet
    <3>2. ASSUME NEW x \in WinSet(a) PROVE x \in WinSet(b) \cup {e}
      <4>1. CASE x.key[1] = o
        BY <1>2, <1>3, <1>4, <1>9, <3>2, <4>1, OneEntry DEF WinSet
      <4>2. CASE x.key[1] # o
        BY <3>2, <4>2 DEF WinSet
      <4> QED  BY <4>1, <4>2
    <3>3. WinSet(b) \subseteq WinSet(a)
      BY DEF WinSet
    <3> QED  BY <3>1, <3>2, <3>3
  <2>2. e \notin WinSet(b)
    BY <1>4 DEF WinSet
  <2>3. Cardinality(WinSet(a)) = Cardinality(WinSet(b)) + 1
    BY <1>6, <2>1, <2>2, OneMore
  <2>4. LossSet(b) = LossSet(a)
    <3>1. \A x \in LossSet(a) : x.key[1] # o
      BY <1>2, <1>9 DEF LossSet
    <3> QED  BY <3>1 DEF LossSet
  <2>5. Known(b, ord2) = Known(a, ord)
    <3>1. o \notin Known(a, ord)
      BY <1>9 DEF Known
    <3> QED  BY <1>7, <1>8, <3>1 DEF Known
  <2> QED  BY <1>9, <2>3, <2>4, <2>5
<1>10. CASE ord[o] # "win"
  <2>1. WinSet(b) = WinSet(a)
    <3>1. \A x \in WinSet(a) : x.key[1] # o
      BY <1>1, <1>2, <1>10 DEF WinSet
    <3> QED  BY <3>1 DEF WinSet
  <2>2. Cardinality(Known(a, ord)) = Cardinality(Known(b, ord2)) + 1
    <3>1. o \in Known(a, ord)
      <4>1. ord[o] = "loss" => Has(a, <<o, 0>>)
        BY <1>2, <1>3, <1>4
      <4>2. Has(a, <<o, 0>>) \/ Has(a, <<o, 1>>)
        BY <1>3
      <4> QED  BY <1>1, <1>10, <4>1, <4>2 DEF Known
    <3>2. Known(a, ord) = Known(b, ord2) \cup {o}
      BY <1>1, <1>7, <3>1 DEF Known
    <3> QED  BY <1>6, <1>8, <3>2, OneMore
  <2>3. ASSUME ord[o] = "cycle" => Has(a, <<o, 1>>)
        PROVE  Cardinality(LossSet(a)) = Cardinality(LossSet(b)) + 1
    <3>1. PICK f \in LossSet(a) : f.key[1] = o
      <4>1. CASE ord[o] = "loss"
        BY <1>2, <1>4, <4>1 DEF LossSet
      <4>2. CASE ord[o] = "cycle"
        <5>1. PICK f \in Current(a) : f.key = <<o, 1>>
          BY <2>3, <4>2 DEF Has
        <5>2. f.key[1] = o
          BY <5>1
        <5> QED  BY <1>2, <4>2, <5>1, <5>2 DEF LossSet
      <4> QED  BY <1>1, <1>10, <4>1, <4>2
    <3>2. f \in Current(a) /\ f.losses = 1
      BY DEF LossSet
    <3>3. ASSUME NEW x \in LossSet(a), x.key[1] = o PROVE x = f
      <4>1. x \in Current(a) /\ x.losses = 1
        BY DEF LossSet
      <4>2. x.key = f.key
        BY <1>1, <1>2, <1>10, <3>1, <3>2, <3>3, <4>1
      <4> QED  BY <3>2, <4>1, <4>2, OneEntry
    <3>4. LossSet(a) = LossSet(b) \cup {f} /\ f \notin LossSet(b)
      BY <3>1, <3>3 DEF LossSet
    <3> QED  BY <1>6, <3>4, OneMore
  <2> QED  BY <1>10, <2>1, <2>2, <2>3
<1> QED  BY <1>9, <1>10

\* The score without the trade deleted.
Without(score, won) ==
    IF won THEN [wins |-> IF score.wins > 0 THEN score.wins - 1 ELSE 0, losses |-> score.losses]
           ELSE [wins |-> score.wins, losses |-> IF score.losses > 0 THEN score.losses - 1 ELSE 0]

\* A trade whose launch is in the tables or on its way is deleted.
LEMMA DeleteIn ==
  ASSUME NEW V, NEW d, NEW s, NEW a, NEW ord, NEW leg, NEW last, NEW score, NEW exact,
         Account(V, d, s, a, ord, leg, last, score, exact),
         NEW o, NEW ord2, Deletes(ord, o, ord2),
         \/ \E e \in Current(d) : e.key[1] = o
         \/ \E i \in 1..Len(s) : s[i].kind = "lancar" /\ s[i].key[1] = o,
         NEW w, w = Erase(o)
  PROVE  Account(V, d, Append(s, w), After(d, Append(s, w)), ord2, leg, last,
                 Without(score, ord[o] = "win"), exact)
<1> DEFINE b == Apply(a, w)
           t == Append(s, w)
           score2 == Without(score, ord[o] = "win")
<1>1. /\ V \in Values /\ Ready(V, d, s) /\ a = After(d, s) /\ a.row.since = last /\ last \in Nat
      /\ score.wins \in Nat /\ score.losses \in Nat /\ Counted(a, ord, score, exact)
      /\ Valued(V, ord) /\ Tells(a, ord, leg) /\ Past(d, s, ord, last) /\ LegOpen(ord, leg)
      /\ Sound(V, a) /\ Sound(V, d)
  BY AccountIs
<1>2. /\ ord \in [Order -> Status] /\ o \in Order /\ ord[o] \in {"win", "loss", "cycle"}
      /\ ord2 \in [Order -> Status] /\ ord2[o] = "deleted" /\ \A p \in Order : p # o => ord2[p] = ord[p]
  BY DEF Deletes, Status
<1>3. GoOn(ord, ord2)
  BY <1>2 DEF GoOn
<1>4. w.kind = "apagar" /\ w.key[1] = o /\ w \in Writes
  BY <1>2 DEF Erase, Write, Writes, Kind
<1>5. Legal(V, w)
  BY <1>4 DEF Legal
<1>6. Past(d, s, ord2, last)
  BY <1>1, <1>2, <1>3, PastGoesOn
<1>7. \E n \in {0, 1} : Has(a, <<o, n>>)
  <2>1. Quiet(o, d, s)
    <3>1. ord[o] \in Standing /\ ord[o] \notin {"old", "deleted"}
      BY <1>2 DEF Standing
    <3> SUFFICES ASSUME NEW i \in 1..Len(s)
                 PROVE  /\ s[i].kind = "apagar" => s[i].key[1] # o
                        /\ s[i].kind = "reiniciar" =>
                              /\ \A e \in Current(d) : e.key[1] # o
                              /\ \A j \in 1..(i - 1) : s[j].kind = "lancar" => s[j].key[1] # o
      BY DEF Quiet
    <3>2. s[i].kind = "apagar" => ord[s[i].key[1]] \in {"old", "deleted"}
      BY <1>1 DEF Past
    <3>3. s[i].kind = "reiniciar" => Closed(d, s, ord, i)
      BY <1>1 DEF Past
    <3> QED  BY <3>1, <3>2, <3>3 DEF Closed
  <2>2. PICK k \in Keys : k[1] = o /\ (Has(d, k) \/ \E i \in 1..Len(s) : s[i].kind = "lancar" /\ s[i].key = k)
    <3>1. CASE \E e \in Current(d) : e.key[1] = o
      <4>1. \A e \in Current(d) : e.key \in Keys
        BY <1>1, SoundFinite DEF Sound, Fits
      <4> QED  BY <3>1, <4>1 DEF Has
    <3>2. CASE \E i \in 1..Len(s) : s[i].kind = "lancar" /\ s[i].key[1] = o
      <4>1. \A i \in 1..Len(s) : s[i].kind = "lancar" => s[i].key \in Keys
        BY <1>1 DEF Ready, Legal, Fits
      <4> QED  BY <3>2, <4>1
    <3> QED  BY <3>1, <3>2
  <2>3. Has(a, k)
    BY <1>1, <2>1, <2>2, LaunchLands
  <2> QED  BY <2>2, <2>3, KeyParts
<1> HIDE DEF t, score2
<1>8. /\ Ready(V, d, t) /\ b = After(d, t) /\ Past(d, t, ord2, last)
      /\ Sound(V, b) /\ b.row.since = a.row.since
  <2>1. w.key[1] \in Order /\ ord2[w.key[1]] \in {"old", "deleted"}
    BY <1>2, <1>4
  <2>2. w.kind \in {"lancar", "apagar"} /\ w.kind # "lancar"
    BY <1>4
  <2>3. V \in Values /\ Ready(V, d, s) /\ a = After(d, s)
    BY <1>1
  <2>4. /\ Ready(V, d, Append(s, w)) /\ Apply(a, w) = After(d, Append(s, w))
        /\ Past(d, Append(s, w), ord2, last)
        /\ Sound(V, Apply(a, w)) /\ Apply(a, w).row.since = a.row.since
    BY <1>5, <1>6, <2>1, <2>2, <2>3, Appended, SMTT(30)
  <2> QED  BY <2>4 DEF t
<1>9. b.base = a.base /\ Current(b) = {e \in Current(a) : e.key[1] # o}
  <2>1. Apply(a, w).base = a.base
    BY <1>1, <1>4, EraseIs
  <2>2. Current(Apply(a, w)) = Current(a) \ Gone(a, w)
    BY <1>1, <1>4, EraseIs
  <2>3. Current(a) \ Gone(a, w) = {e \in Current(a) : e.key[1] # o}
    BY <1>4 DEF Gone
  <2> QED  BY <2>1, <2>2, <2>3
<1> HIDE DEF b
<1>10. /\ ord[o] = "win" => /\ Cardinality(WinSet(a)) = Cardinality(WinSet(b)) + 1
                            /\ LossSet(b) = LossSet(a) /\ Known(b, ord2) = Known(a, ord)
       /\ ord[o] # "win" => /\ WinSet(b) = WinSet(a)
                            /\ Cardinality(Known(a, ord)) = Cardinality(Known(b, ord2)) + 1
       /\ ord[o] # "win" /\ (ord[o] = "cycle" => Has(a, <<o, 1>>)) =>
             Cardinality(LossSet(a)) = Cardinality(LossSet(b)) + 1
  <2>1. Named(a, o)
    BY <1>7 DEF Named
  <2>2. V \in Values /\ Sound(V, a) /\ Valued(V, ord) /\ Tells(a, ord, leg) /\ Sound(V, b)
    BY <1>1, <1>8
  <2>3. Purged(a, b, o)
    BY <1>9 DEF Purged
  <2>4. Less(a, ord, b, ord2, o)
    BY <2>1, <2>2, <2>3, SumsLess
  <2> QED  BY <2>4 DEF Less
<1>11. PICK bw \in Nat, bl \in Nat, wa \in Nat, wb \in Nat, la \in Nat, lb \in Nat, ka \in Nat, kb \in Nat :
          /\ bw = a.base.wins /\ bl = a.base.losses
          /\ wa = Cardinality(WinSet(a)) /\ wb = Cardinality(WinSet(b))
          /\ la = Cardinality(LossSet(a)) /\ lb = Cardinality(LossSet(b))
          /\ ka = Cardinality(Known(a, ord)) /\ kb = Cardinality(Known(b, ord2))
  BY <1>1, <1>8, SoundFinite, KnownFinite
<1>12. /\ a.row.wins = bw + wa /\ a.row.losses = bl + la
       /\ b.row.wins = bw + wb /\ b.row.losses = bl + lb
  BY <1>1, <1>8, <1>9, <1>11 DEF Sound
<1>13. PICK x \in Nat, y \in Nat : x = score.wins /\ y = score.losses
  BY <1>1
<1>14. x >= bw + wa /\ y >= bl + ka /\ (exact => x = bw + wa /\ y = bl + la)
  BY <1>1, <1>11, <1>12, <1>13 DEF Counted
<1>15. exact => \A p \in Order : ord2[p] = "cycle" /\ Has(b, <<p, 0>>) => Has(b, <<p, 1>>)
  <2> SUFFICES ASSUME exact, NEW p \in Order, ord2[p] = "cycle", Has(b, <<p, 0>>) PROVE Has(b, <<p, 1>>)
    OBVIOUS
  <2>1. p # o /\ ord[p] = "cycle"
    BY <1>2
  <2>2. Has(a, <<p, 0>>)
    BY <1>9 DEF Has
  <2>3. Has(a, <<p, 1>>)
    BY <1>1, <2>1, <2>2 DEF Counted
  <2> QED  BY <1>9, <2>1, <2>3 DEF Has
<1>16. score2 \in [wins : Nat, losses : Nat] /\ Counted(b, ord2, score2, exact)
  <2>1. CASE ord[o] = "win"
    <3>1. wa = wb + 1 /\ lb = la /\ kb = ka
      BY <1>10, <1>11, <2>1
    <3>2. x > 0 /\ x - 1 \in Nat
      BY <1>14, <3>1
    <3>3. score2 = [wins |-> x - 1, losses |-> y]
      BY <1>13, <2>1, <3>2 DEF score2, Without
    <3>4. score2 \in [wins : Nat, losses : Nat] /\ score2.wins = x - 1 /\ score2.losses = y
      BY <3>2, <3>3
    <3>5. x - 1 >= bw + wb /\ y >= bl + kb /\ (exact => x - 1 = bw + wb /\ y = bl + lb)
      BY <1>14, <3>1
    <3> QED  BY <1>9, <1>11, <1>12, <1>15, <3>4, <3>5 DEF Counted
  <2>2. CASE ord[o] # "win"
    <3>1. wb = wa /\ ka = kb + 1
      BY <1>10, <1>11, <2>2
    <3>2. y > 0 /\ y - 1 \in Nat
      BY <1>14, <3>1
    <3>3. score2 = [wins |-> x, losses |-> y - 1]
      BY <1>13, <2>2, <3>2 DEF score2, Without
    <3>4. score2 \in [wins : Nat, losses : Nat] /\ score2.wins = x /\ score2.losses = y - 1
      BY <3>2, <3>3
    <3>5. exact => la = lb + 1
      <4>1. ASSUME exact, ord[o] = "cycle" PROVE Has(a, <<o, 1>>)
        <5>1. Has(a, <<o, 0>>) => Has(a, <<o, 1>>)
          BY <1>1, <1>2, <4>1 DEF Counted
        <5> QED  BY <1>7, <5>1
      <4> QED  BY <1>10, <1>11, <2>2, <4>1
    <3>6. x >= bw + wb /\ y - 1 >= bl + kb
      BY <1>14, <3>1
    <3>7. ASSUME exact PROVE x = bw + wb /\ y - 1 = bl + lb
      <4>1. x = bw + wa /\ y = bl + la /\ la = lb + 1
        BY <1>14, <3>5, <3>7
      <4>2. y - 1 = bl + lb
        BY <4>1
      <4> QED  BY <3>1, <4>1, <4>2
    <3> QED  BY <1>9, <1>11, <1>12, <1>15, <3>4, <3>6, <3>7 DEF Counted
  <2> QED  BY <2>1, <2>2
<1>17. Tells(b, ord2, leg)
  <2>1. \A e \in Current(a) : e.key[1] \in Order
    BY AccountIs
  <2> QED  BY <1>1, <1>2, <1>9, <2>1 DEF Tells
<1>18. Valued(V, ord2) /\ LegOpen(ord2, leg)
  <2>1. \A p \in Order : ord2[p] = "deleted" \/ ord2[p] = ord[p]
    BY <1>2
  <2>2. Valued(V, ord2)
    BY <1>1, <2>1 DEF Valued
  <2>3. leg # o
    BY <1>1, <1>2, OrderAssumption DEF LegOpen
  <2> QED  BY <1>1, <1>2, <2>2, <2>3 DEF LegOpen
<1>19. Account(V, d, t, b, ord2, leg, last, score2, exact)
  BY <1>1, <1>2, <1>8, <1>16, <1>17, <1>18 DEF Account
<1> QED  BY <1>8, <1>19 DEF t, score2

-----------------------------------------------------------------------------
(* What the writer does to the account.                                    *)

\* The first write is done.
LEMMA HeadDone ==
  ASSUME NEW V, NEW d, NEW s, NEW a, NEW ord, NEW leg, NEW last, NEW score, NEW exact,
         Account(V, d, s, a, ord, leg, last, score, exact), s # <<>>
  PROVE  /\ Account(V, Apply(d, s[1]), Tail(s), a, ord, leg, last, score, exact)
         /\ Account(V, Apply(d, s[1]), s, a, ord, leg, last, score, exact)
<1> DEFINE c == Apply(d, s[1])
           r == Tail(s)
<1>1. /\ V \in Values /\ Ready(V, d, s) /\ a = After(d, s) /\ a.row.since = last
      /\ ord \in [Order -> Status] /\ last \in Nat /\ score \in [wins : Nat, losses : Nat]
      /\ Valued(V, ord) /\ Tells(a, ord, leg) /\ Counted(a, ord, score, exact)
      /\ Past(d, s, ord, last) /\ LegOpen(ord, leg)
  BY DEF Account
<1>2. Fresh(V, c, r) /\ Ready(V, c, s) /\ s \in Seq(Writes)
  BY <1>1, ReadyNext DEF Ready
<1>3. Ready(V, c, r)
  BY <1>2, FreshReady
<1>4. a = After(c, r)
  BY <1>1, <1>2, AfterFirst
<1>5. Past(c, s, ord, last)
  BY <1>1, PastApply
<1>6. Past(c, r, ord, last)
  BY <1>2, <1>5, PastTail
<1>7. a = After(c, s)
  <2>1. Apply(c, s[1]) = c
    BY <1>1, RestIs, ApplyTwice DEF Ready
  <2>2. After(c, s) = After(Apply(c, s[1]), r)
    BY <1>2, AfterFirst
  <2> HIDE DEF c, r
  <2> QED  BY <1>4, <2>1, <2>2
<1> HIDE DEF c, r
<1>8. Account(V, c, r, a, ord, leg, last, score, exact)
  BY <1>1, <1>3, <1>4, <1>6 DEF Account
<1>9. Account(V, c, s, a, ord, leg, last, score, exact)
  BY <1>1, <1>2, <1>5, <1>7 DEF Account
<1> QED  BY <1>8, <1>9 DEF c, r

\* Tables that come to less have an account too, not an exact one.
LEMMA AccountUnder ==
  ASSUME NEW V, NEW d, NEW s, NEW a, NEW ord, NEW leg, NEW last, NEW score, NEW exact,
         Account(V, d, s, a, ord, leg, last, score, exact),
         NEW c, NEW t, Ready(V, c, t), Past(c, t, ord, last), Under(After(c, t), a)
  PROVE  Account(V, c, t, After(c, t), ord, leg, last, score, FALSE)
<1> DEFINE b == After(c, t)
<1>1. /\ V \in Values /\ a.row.since = last /\ Sound(V, a)
      /\ ord \in [Order -> Status] /\ last \in Nat /\ score \in [wins : Nat, losses : Nat]
      /\ score.wins \in Nat /\ score.losses \in Nat
      /\ Valued(V, ord) /\ Tells(a, ord, leg) /\ Counted(a, ord, score, exact)
      /\ LegOpen(ord, leg)
  BY AccountIs DEF Account
<1>2. Sound(V, b)
  BY <1>1, AfterSound
<1> HIDE DEF b
<1>3. /\ b.row.since = last /\ Current(b) \subseteq Current(a)
      /\ b.base.losses <= a.base.losses /\ b.row.wins <= a.row.wins
  <2>1. Under(b, a)
    BY DEF b
  <2> QED  BY <1>1, <1>2, <2>1, UnderWins DEF Under
<1>4. Tells(b, ord, leg)
  BY <1>1, <1>3 DEF Tells
<1>5. \A k : Has(b, k) => Has(a, k)
  BY <1>3 DEF Has
<1>6. Cardinality(Known(b, ord)) <= Cardinality(Known(a, ord))
  <2>1. Known(b, ord) \subseteq Known(a, ord)
    BY <1>5 DEF Known
  <2> QED  BY <1>1, <2>1, KnownFinite, FS_Subset
<1>7. Counted(b, ord, score, FALSE)
  <2>1. PICK u \in Nat, v \in Nat, x \in Nat, y \in Nat, ka \in Nat, kb \in Nat, wa \in Nat, wb \in Nat :
           /\ u = a.base.losses /\ v = b.base.losses /\ x = score.wins /\ y = score.losses
           /\ ka = Cardinality(Known(a, ord)) /\ kb = Cardinality(Known(b, ord))
           /\ wa = a.row.wins /\ wb = b.row.wins
    BY <1>1, <1>2, SoundFinite, KnownFinite
  <2>2. x >= wa /\ y >= u + ka
    BY <1>1, <2>1 DEF Counted
  <2>3. v <= u /\ wb <= wa /\ kb <= ka
    BY <1>3, <1>6, <2>1
  <2>4. x >= wb /\ y >= v + kb
    BY <2>2, <2>3
  <2> QED  BY <2>1, <2>4 DEF Counted
<1>8. Account(V, c, t, b, ord, leg, last, score, FALSE)
  BY <1>1, <1>3, <1>4, <1>7 DEF Account, b
<1> QED  BY <1>8 DEF b

\* The first write is given up, a launch or a seed.
LEMMA HeadDropped ==
  ASSUME NEW V, NEW d, NEW s, NEW a, NEW ord, NEW leg, NEW last, NEW score, NEW exact,
         Account(V, d, s, a, ord, leg, last, score, exact), s # <<>>,
         s[1].kind \in {"lancar", "semear"}
  PROVE  Account(V, d, Tail(s), After(d, Tail(s)), ord, leg, last, score, FALSE)
<1> DEFINE c == Apply(d, s[1])
           r == Tail(s)
<1>1. /\ V \in Values /\ Ready(V, d, s) /\ a = After(d, s) /\ Past(d, s, ord, last)
      /\ s \in Seq(Writes) /\ Sound(V, d) /\ Legal(V, s[1])
  BY AccountIs, RestIs
<1>2. Fresh(V, c, r) /\ Fresh(V, d, r)
  BY <1>1, ReadyNext
<1>3. Ready(V, d, r)
  BY <1>2, FreshReady
<1>4. a = After(c, r)
  BY <1>1, AfterFirst
<1>5. Past(d, r, ord, last)
  BY <1>1, PastTail
<1>6. Under(d, c)
  BY <1>1, ApplyGrows
<1> HIDE DEF c, r
<1>7. Under(After(d, r), a)
  BY <1>1, <1>2, <1>4, <1>6, AfterUnder
<1>8. Account(V, d, r, After(d, r), ord, leg, last, score, FALSE)
  BY <1>3, <1>5, <1>7, AccountUnder
<1> QED  BY <1>8 DEF r

\* A queue of one write.
LEMMA OneWrite ==
  ASSUME NEW V, NEW d, Sound(V, d), NEW w, Legal(V, w), w.kind # "reiniciar", NEW t, t = <<w>>
  PROVE  Ready(V, d, t) /\ After(d, t) = Apply(d, w) /\ Len(t) = 1 /\ t[1] = w
<1>1. w \in Writes
  BY DEF Legal
<1>2. t \in Seq(Writes) /\ Len(t) = 1 /\ t[1] = w /\ t # <<>> /\ Tail(t) = <<>>
  BY <1>1
<1>3. \A i \in 1..Len(t) : i = 1
  BY <1>2
<1>4. Resets(t) /\ Behind(d, t, 2)
  BY <1>2, <1>3 DEF Resets, Behind
<1>5. Due(d, t[1])
  BY <1>2 DEF Due
<1>6. Ready(V, d, t)
  BY <1>2, <1>3, <1>4, <1>5 DEF Ready
<1>7. After(d, t) = After(Apply(d, t[1]), Tail(t))
  BY <1>2, AfterFirst
<1>8. After(Apply(d, w), <<>>) = Apply(d, w)
  BY AfterNothing
<1> QED  BY <1>2, <1>6, <1>7, <1>8

\* The seed is legal, and is what the score is.
LEMMA SeedOf ==
  ASSUME NEW score, score.wins \in Nat, score.losses \in Nat, NEW V
  PROVE  /\ Legal(V, Seed(score)) /\ Seed(score).kind = "semear"
         /\ Seed(score).wins = score.wins /\ Seed(score).losses = score.losses
  BY DEF Seed, Write, Legal, Writes, Kind

\* An empty database seeded with the score is the score.
LEMMA Seeded ==
  ASSUME NEW V \in Values, NEW d, Sound(V, d), ~d.row.exists,
         NEW score, score.wins \in Nat, score.losses \in Nat, NEW b, b = Apply(d, Seed(score)),
         NEW ord, NEW leg, NEW exact
  PROVE  Counted(b, ord, score, exact) /\ Tells(b, ord, leg) /\ b.row.since = d.row.since
<1>1. /\ Legal(V, Seed(score)) /\ Seed(score).kind = "semear"
      /\ Seed(score).wins = score.wins /\ Seed(score).losses = score.losses
  BY SeedOf
<1>2. d \in Tables /\ Current(d) = {}
  BY DEF Sound, Current
<1>3. b = [d EXCEPT !.row = Row(TRUE, @.since, score.wins, score.losses),
                    !.base = [wins |-> score.wins, losses |-> score.losses]]
  <2>1. PICK w : w = Seed(score)
    OBVIOUS
  <2>2. b = [d EXCEPT !.row = Row(TRUE, @.since, w.wins, w.losses),
                      !.base = [wins |-> w.wins, losses |-> w.losses]]
    BY <1>1, <2>1, ApplyIs DEF PlacarSemear
  <2>3. w.wins = score.wins /\ w.losses = score.losses
    BY <1>1, <2>1
  <2> QED  BY <2>2, <2>3
<1>4. /\ b.row = Row(TRUE, d.row.since, score.wins, score.losses)
      /\ b.base = [wins |-> score.wins, losses |-> score.losses] /\ b.entries = d.entries
  BY <1>2, <1>3 DEF Tables
<1>5. d.entries = {}
  BY DEF Sound
<1>6. /\ b.row.wins = score.wins /\ b.row.losses = score.losses /\ b.row.since = d.row.since
      /\ b.base.losses = score.losses
  BY <1>4 DEF Row
<1>7. Current(b) = {}
  BY <1>4, <1>5 DEF Current
<1>8. \A k : ~Has(b, k)
  BY <1>7 DEF Has
<1>9. Known(b, ord) = {} /\ Cardinality(Known(b, ord)) = 0
  BY <1>8, FS_EmptySet DEF Known
<1>10. Counted(b, ord, score, exact)
  BY <1>6, <1>8, <1>9 DEF Counted
<1>11. Tells(b, ord, leg)
  BY <1>7 DEF Tells
<1> QED  BY <1>6, <1>10, <1>11

\* The owner restarts: what waited is gone, and the score is the seed.
LEMMA Restarted ==
  ASSUME NEW V, NEW d, NEW s, NEW a, NEW ord, NEW leg, NEW last, NEW score, NEW exact,
         Account(V, d, s, a, ord, leg, last, score, exact),
         \A i \in 1..Len(s) : s[i].kind \in {"lancar", "semear"},
         NEW now, now => exact /\ s = <<>>,
         NEW t, t = <<Seed(score)>>
  PROVE  Account(V, d, t, After(d, t), ord, leg, last, score, now)
<1>1. /\ V \in Values /\ Ready(V, d, s) /\ a = After(d, s) /\ a.row.since = last /\ Sound(V, d)
      /\ ord \in [Order -> Status] /\ last \in Nat /\ score \in [wins : Nat, losses : Nat]
      /\ score.wins \in Nat /\ score.losses \in Nat
      /\ Valued(V, ord) /\ Tells(a, ord, leg) /\ Counted(a, ord, score, exact)
      /\ Past(d, s, ord, last) /\ LegOpen(ord, leg)
  BY AccountIs DEF Account
<1>2. Legal(V, Seed(score)) /\ Seed(score).kind = "semear"
  BY <1>1, SeedOf
<1>3. Ready(V, d, t) /\ After(d, t) = Apply(d, Seed(score)) /\ Len(t) = 1 /\ t[1] = Seed(score)
  BY <1>1, <1>2, OneWrite
<1>4. Past(d, t, ord, last)
  <2>1. \A i \in 1..Len(t) : t[i].kind = "semear"
    BY <1>2, <1>3
  <2> QED  BY <1>1, <2>1 DEF Past
<1>5. Under(d, a)
  BY <1>1, AfterGrows
<1>6. d.row.since = last
  BY <1>1, <1>5 DEF Under
<1>7. CASE d.row.exists
  <2>1. After(d, t) = d
    BY <1>1, <1>2, <1>3, <1>7, SeedIs
  <2>2. Account(V, d, t, d, ord, leg, last, score, FALSE)
    BY <1>3, <1>4, <1>5, <2>1, AccountUnder
  <2>3. ASSUME now PROVE Counted(d, ord, score, TRUE)
    <3>1. a = d
      BY <1>1, <2>3, AfterNothing
    <3> QED  BY <1>1, <2>3, <3>1 DEF Counted
  <2>4. Counted(d, ord, score, now)
    <3>1. Counted(d, ord, score, FALSE)
      BY <2>2 DEF Account
    <3> QED  BY <2>3, <3>1 DEF Counted
  <2> QED  BY <2>1, <2>2, <2>4 DEF Account
<1>8. CASE ~d.row.exists
  <2> DEFINE b == Apply(d, Seed(score))
  <2>1. Counted(b, ord, score, now) /\ Tells(b, ord, leg) /\ b.row.since = d.row.since
    BY <1>1, <1>8, Seeded
  <2>2. Account(V, d, t, b, ord, leg, last, score, now)
    BY <1>1, <1>3, <1>4, <1>6, <2>1 DEF Account
  <2> QED  BY <1>3, <2>2
<1> QED  BY <1>7, <1>8

\* Before anything is written: the seed of the score of the orders counted before.
LEMMA AtFirst ==
  ASSUME NEW before \in SUBSET Order, NEW ord,
         ord = [o \in Order |-> IF o \in before THEN "win" ELSE "new"],
         NEW score, score = [wins |-> Cardinality(before), losses |-> 0],
         NEW t, t = <<Seed(score)>>
  PROVE  \E V \in Values : Account(V, InitDB, t, After(InitDB, t), ord, NoOrder, 0, score, TRUE)
<1> DEFINE V == [k \in Keys |-> IF k[2] = 0 THEN Effect(1, 0) ELSE Effect(0, 1)]
           b == Apply(InitDB, Seed(score))
<1>1. V \in Values
  BY DEF Values, Effect
<1>2. Cardinality(before) \in Nat
  BY OrderAssumption, FS_Subset, FS_CardinalityType
<1>3. score \in [wins : Nat, losses : Nat] /\ score.wins \in Nat /\ score.losses \in Nat
  BY <1>2
<1>4. InitDB.row.since = 0 /\ ~InitDB.row.exists /\ InitDB.entries = {}
  BY DEF InitDB, Row
<1>5. Sound(V, InitDB)
  <2>1. InitDB \in Tables /\ InitDB.base = Zero /\ InitDB.base.wins = 0 /\ InitDB.base.losses = 0
        /\ InitDB.row.wins = 0 /\ InitDB.row.losses = 0
    BY DEF InitDB, Row, Zero, Tables
  <2>2. WinSet(InitDB) = {} /\ LossSet(InitDB) = {}
    BY <1>4 DEF WinSet, LossSet, Current
  <2>3. Cardinality(WinSet(InitDB)) = 0 /\ Cardinality(LossSet(InitDB)) = 0 /\ IsFiniteSet(InitDB.entries)
    BY <1>4, <2>2, FS_EmptySet
  <2> QED  BY <1>4, <2>1, <2>3 DEF Sound
<1>6. Legal(V, Seed(score)) /\ Seed(score).kind = "semear"
  BY <1>3, SeedOf
<1>7. Valued(V, ord)
  <2>1. ASSUME NEW o \in Order PROVE V[<<o, 0>>] = Effect(1, 0) /\ V[<<o, 1>>] = Effect(0, 1)
    BY KeyParts
  <2>2. \A o \in Order : ord[o] \in {"win", "new"}
    OBVIOUS
  <2> QED  BY <2>1, <2>2 DEF Valued
<1> HIDE DEF V, b
<1>8. Ready(V, InitDB, t) /\ b = After(InitDB, t) /\ Len(t) = 1 /\ t[1] = Seed(score)
  BY <1>5, <1>6, OneWrite DEF b
<1>9. Counted(b, ord, score, TRUE) /\ Tells(b, ord, NoOrder) /\ b.row.since = 0
  BY <1>1, <1>3, <1>4, <1>5, Seeded DEF b
<1>10. Past(InitDB, t, ord, 0)
  <2>1. \A i \in 1..Len(t) : t[i].kind = "semear"
    BY <1>6, <1>8
  <2> QED  BY <1>4, <2>1 DEF Past
<1>11. ord \in [Order -> Status] /\ LegOpen(ord, NoOrder)
  BY DEF Status, LegOpen
<1>12. Account(V, InitDB, t, b, ord, NoOrder, 0, score, TRUE)
  BY <1>1, <1>3, <1>7, <1>8, <1>9, <1>10, <1>11 DEF Account
<1> QED  BY <1>1, <1>8, <1>12

-----------------------------------------------------------------------------
(* The invariant.                                                          *)

\* The types, whatever the bounds; only the owner has a queue in one process.
Typed ==
    /\ orders \in [Order -> Status] /\ live \in [wins : Nat, losses : Nat]
    /\ openLeg \in Order \cup {NoOrder} /\ resets \in Nat
    /\ busy \in [Process -> Writes \cup {NoWrite}] /\ queue \in [Process -> Seq(Writes)]
    /\ \A p \in Process : p # Owner => busy[p] = NoWrite /\ queue[p] = <<>>

\* The tables with what waits for them are the account of the score, an exact
\* one while nothing was dropped.
Books == \E V \in Values, x \in BOOLEAN :
    /\ dropped = {} => x = TRUE
    /\ Account(V, db, Pending, After(db, Pending), orders, openLeg, resets, live, x)

\* The invariant: no reset and no deletion was dropped, or nothing is claimed.
CounterInv == Typed /\ (dropped \subseteq {"lancar", "semear"} => Books)

\* What waits, of the write in hand and the queue.
Waits(w, q) == (IF w = NoWrite THEN <<>> ELSE <<w>>) \o q

\* No write of a kind is NoWrite.
LEMMA NoWriteIs == NoWrite.kind = "none" /\ \A w \in Writes : w # NoWrite /\ w.kind \in Kind
<1>1. NoWrite.kind = "none"
  BY DEF NoWrite, Write
<1>2. \A w \in Writes : w.kind \in Kind
  BY DEF Writes
<1>3. "none" \notin Kind
  BY DEF Kind
<1> QED  BY <1>1, <1>2, <1>3

\* The write in hand is before the queue.
LEMMA WaitsAre ==
  ASSUME NEW w \in Writes \cup {NoWrite}, NEW q \in Seq(Writes)
  PROVE  /\ Waits(w, q) \in Seq(Writes)
         /\ w = NoWrite => Waits(w, q) = q
         /\ w # NoWrite => Waits(w, q) # <<>> /\ Waits(w, q)[1] = w /\ Tail(Waits(w, q)) = q
         /\ q # <<>> => /\ Head(q) \in Writes /\ Tail(q) \in Seq(Writes)
                        /\ Waits(Head(q), Tail(q)) = q
<1>1. ASSUME NEW x \in Writes PROVE <<x>> \o q \in Seq(Writes) /\ Len(<<x>> \o q) = Len(q) + 1
                                    /\ (<<x>> \o q)[1] = x /\ Tail(<<x>> \o q) = q /\ <<x>> \o q # <<>>
  OBVIOUS
<1>2. <<>> \o q = q
  OBVIOUS
<1>5. ASSUME q # <<>> PROVE Head(q) \in Writes /\ Tail(q) \in Seq(Writes) /\ <<Head(q)>> \o Tail(q) = q
  BY <1>5
<1>6. \A x \in Writes : x # NoWrite
  BY NoWriteIs
<1> QED  BY <1>1, <1>2, <1>5, <1>6 DEF Waits

\* A write put in the queue waits last.
LEMMA WaitsAppend ==
  ASSUME NEW w \in Writes \cup {NoWrite}, NEW q \in Seq(Writes), NEW x \in Writes
  PROVE  Waits(w, Append(q, x)) = Append(Waits(w, q), x)
<1>1. CASE w = NoWrite
  BY <1>1 DEF Waits
<1>2. CASE w # NoWrite
  BY <1>2 DEF Waits
<1> QED  BY <1>1, <1>2

\* What waits, of the owner.
LEMMA PendingIs == ASSUME Typed
                   PROVE  /\ Pending = Waits(busy[Owner], queue[Owner])
                          /\ busy[Owner] \in Writes \cup {NoWrite} /\ queue[Owner] \in Seq(Writes)
                          /\ Owner \in Process
  BY ProcessAssumption DEF Pending, Waits, Typed

\* A write is put in the queue, or dropped.
LEMMA Enqueued ==
  ASSUME Typed, NEW w \in Writes, Enqueue(Owner, w), busy' = busy
  PROVE  /\ \/ dropped' = dropped /\ Pending' = Append(Pending, w)
            \/ dropped' = dropped \cup {w.kind} /\ Pending' = Pending
         /\ queue' \in [Process -> Seq(Writes)]
         /\ \A p \in Process : p # Owner => queue'[p] = queue[p]
<1>1. /\ Pending = Waits(busy[Owner], queue[Owner]) /\ Owner \in Process
      /\ busy[Owner] \in Writes \cup {NoWrite} /\ queue[Owner] \in Seq(Writes)
  BY PendingIs
<1>2. Pending' = Waits(busy'[Owner], queue'[Owner])
  BY DEF Pending, Waits
<1>3. queue \in [Process -> Seq(Writes)]
  BY DEF Typed
<1>4. CASE off[Owner] \/ Len(queue[Owner]) = QueueMax
  <2>1. dropped' = dropped \cup {w.kind} /\ queue' = queue
    BY <1>4 DEF Enqueue
  <2> QED  BY <1>1, <1>2, <1>3, <2>1
<1>5. CASE ~(off[Owner] \/ Len(queue[Owner]) = QueueMax)
  <2>1. queue' = [queue EXCEPT ![Owner] = Append(@, w)] /\ dropped' = dropped
    BY <1>5 DEF Enqueue
  <2>2. queue'[Owner] = Append(queue[Owner], w)
    BY <1>1, <1>3, <2>1
  <2>3. Append(queue[Owner], w) \in Seq(Writes)
    BY <1>1, AppendProperties
  <2>4. queue' \in [Process -> Seq(Writes)] /\ \A p \in Process : p # Owner => queue'[p] = queue[p]
    BY <1>1, <1>3, <2>1, <2>3
  <2>5. Pending' = Waits(busy[Owner], Append(queue[Owner], w))
    BY <1>2, <2>2
  <2>6. Waits(busy[Owner], Append(queue[Owner], w)) = Append(Waits(busy[Owner], queue[Owner]), w)
    BY <1>1, WaitsAppend
  <2>7. Pending' = Append(Pending, w)
    BY <1>1, <2>5, <2>6
  <2> QED  BY <2>1, <2>4, <2>7
<1> QED  BY <1>4, <1>5

\* The books are those of another account.
LEMMA BooksAre ==
  ASSUME NEW V \in Values, NEW x \in BOOLEAN, NEW s, NEW a,
         Account(V, db', s, a, orders', openLeg', resets', live', x),
         dropped' = {} => x = TRUE, Pending' = s
  PROVE  Books'
<1>1. a = After(db', s)
  BY DEF Account
<1> QED  BY <1>1 DEF Books

\* A new order has a result, with all that comes of it.
Counting(V, d, s, a, ord, leg, last, score, exact, o, st, ord2, leg2, score2, w) ==
    /\ Account(V, d, s, a, ord, leg, last, score, exact) /\ Ends(ord, o, st, ord2)
    /\ leg2 \in {leg, NoOrder} \/ (leg2 = o /\ st = "leg")
    /\ score2 = [wins |-> score.wins + Worth(st).wins, losses |-> score.losses + Worth(st).losses]
    /\ w = Launch(o, 0, Worth(st).wins, Worth(st).losses)
\* The leg is closed, with all that comes of it.
Closing(V, d, s, a, ord, leg, last, score, exact, ord2, score2, w) ==
    /\ Account(V, d, s, a, ord, leg, last, score, exact) /\ leg \in Order /\ Closes(ord, leg, ord2)
    /\ score2 = [wins |-> score.wins, losses |-> score.losses + 1] /\ w = Launch(leg, 1, 0, 1)

\* The new order's accounts.
LEMMA CountingIn ==
  ASSUME NEW V, NEW d, NEW s, NEW a, NEW ord, NEW leg, NEW last, NEW score, NEW exact,
         NEW o, NEW st, NEW ord2, NEW leg2, NEW score2, NEW w,
         Counting(V, d, s, a, ord, leg, last, score, exact, o, st, ord2, leg2, score2, w)
  PROVE  \E U \in Values : Accounts(U, d, s, w, ord2, leg2, last, score2, exact)
<1>1. /\ Account(V, d, s, a, ord, leg, last, score, exact) /\ Ends(ord, o, st, ord2)
      /\ leg2 \in {leg, NoOrder} \/ (leg2 = o /\ st = "leg")
      /\ score2 = [wins |-> score.wins + Worth(st).wins, losses |-> score.losses + Worth(st).losses]
      /\ w = Launch(o, 0, Worth(st).wins, Worth(st).losses)
  BY DEF Counting
<1> QED  BY <1>1, CountedIn

\* The closed leg's accounts.
LEMMA ClosingIn ==
  ASSUME NEW V, NEW d, NEW s, NEW a, NEW ord, NEW leg, NEW last, NEW score, NEW exact,
         NEW ord2, NEW score2, NEW w,
         Closing(V, d, s, a, ord, leg, last, score, exact, ord2, score2, w)
  PROVE  V \in Values /\ Accounts(V, d, s, w, ord2, NoOrder, last, score2, exact)
<1>1. /\ Account(V, d, s, a, ord, leg, last, score, exact) /\ leg \in Order /\ Closes(ord, leg, ord2)
      /\ score2 = [wins |-> score.wins, losses |-> score.losses + 1] /\ w = Launch(leg, 1, 0, 1)
  BY DEF Closing
<1>2. /\ Account(V, d, Append(s, w), After(d, Append(s, w)), ord2, NoOrder, last, score2, exact)
      /\ Account(V, d, s, a, ord2, NoOrder, last, score2, FALSE)
  BY <1>1, CloseIn
<1>3. a = After(d, s) /\ V \in Values
  BY <1>1 DEF Account
<1> QED  BY <1>2, <1>3 DEF Accounts

\* The accounts are books, the write in the queue or dropped.
LEMMA AccountsAre ==
  ASSUME NEW U \in Values, NEW w, NEW x \in BOOLEAN, dropped = {} => x = TRUE,
         Accounts(U, db', Pending, w, orders', openLeg', resets', live', x),
         \/ dropped' = dropped /\ Pending' = Append(Pending, w)
         \/ dropped' = dropped \cup {w.kind} /\ Pending' = Pending
  PROVE  Books'
<1>1. /\ Account(U, db', Append(Pending, w), After(db', Append(Pending, w)), orders', openLeg',
                 resets', live', x)
      /\ Account(U, db', Pending, After(db', Pending), orders', openLeg', resets', live', FALSE)
  BY DEF Accounts
<1>2. CASE dropped' = dropped /\ Pending' = Append(Pending, w)
  BY <1>1, <1>2, BooksAre
<1>3. CASE dropped' = dropped \cup {w.kind} /\ Pending' = Pending
  <2>1. dropped' # {}
    BY <1>3
  <2> QED  BY <1>1, <1>3, <2>1, BooksAre
<1> QED  BY <1>2, <1>3

\* A result is counted.
LEMMA CountKeeps ==
  ASSUME Typed, Books, NEW o \in Order, NEW st \in {"win", "loss", "leg"}, orders[o] = "new",
         orders' = [orders EXCEPT ![o] = st],
         live' = [wins |-> live.wins + Worth(st).wins, losses |-> live.losses + Worth(st).losses],
         openLeg' \in {openLeg, NoOrder} \/ (openLeg' = o /\ st = "leg"),
         Enqueue(Owner, Launch(o, 0, Worth(st).wins, Worth(st).losses)),
         UNCHANGED <<resets, writers>>
  PROVE  Books'
<1> DEFINE w == Launch(o, 0, Worth(st).wins, Worth(st).losses)
<1>1. PICK V \in Values, x \in BOOLEAN :
         /\ dropped = {} => x = TRUE
         /\ Account(V, db, Pending, After(db, Pending), orders, openLeg, resets, live, x)
  BY DEF Books
<1>2. w \in Writes /\ w.kind = "lancar"
  BY DEF Launch, Write, Writes, Kind, Worth, Effect
<1>3. Ends(orders, o, st, orders')
  BY DEF Ends, Typed
<1>4. busy' = busy /\ db' = db /\ resets' = resets
  BY DEF writers
<1>5. \/ dropped' = dropped /\ Pending' = Append(Pending, w)
      \/ dropped' = dropped \cup {w.kind} /\ Pending' = Pending
  BY <1>2, <1>4, Enqueued
<1> HIDE DEF w
<1>6. Counting(V, db, Pending, After(db, Pending), orders, openLeg, resets, live, x, o, st,
               orders', openLeg', live', w)
  BY <1>1, <1>3 DEF Counting, w
<1>7. PICK U \in Values : Accounts(U, db, Pending, w, orders', openLeg', resets, live', x)
  BY <1>6, CountingIn
<1>8. Accounts(U, db', Pending, w, orders', openLeg', resets', live', x)
  BY <1>4, <1>7
<1> QED  BY <1>1, <1>5, <1>8, AccountsAre

\* The leg is closed.
LEMMA CloseKeeps ==
  ASSUME Typed, Books, CloseLeg
  PROVE  Books'
<1> DEFINE w == Launch(openLeg, 1, 0, 1)
<1>1. PICK V \in Values, x \in BOOLEAN :
         /\ dropped = {} => x = TRUE
         /\ Account(V, db, Pending, After(db, Pending), orders, openLeg, resets, live, x)
  BY DEF Books
<1>2. /\ openLeg \in Order /\ openLeg # NoOrder /\ openLeg' = NoOrder
      /\ orders' = [orders EXCEPT ![openLeg] = IF @ = "leg" THEN "cycle" ELSE @]
      /\ live' = [live EXCEPT !.losses = @ + 1] /\ Enqueue(Owner, w)
      /\ busy' = busy /\ db' = db /\ resets' = resets /\ live \in [wins : Nat, losses : Nat]
  BY DEF CloseLeg, Typed, writers
<1>3. w \in Writes /\ w.kind = "lancar"
  BY <1>2 DEF Launch, Write, Writes, Kind
<1>4. Closes(orders, openLeg, orders')
  <2>1. LegOpen(orders, openLeg)
    BY <1>1 DEF Account
  <2> QED  BY <1>2, <2>1 DEF Closes, LegOpen, Typed
<1>5. live' = [wins |-> live.wins, losses |-> live.losses + 1]
  BY <1>2
<1>6. \/ dropped' = dropped /\ Pending' = Append(Pending, w)
      \/ dropped' = dropped \cup {w.kind} /\ Pending' = Pending
  BY <1>2, <1>3, Enqueued
<1> HIDE DEF w
<1>7. Closing(V, db, Pending, After(db, Pending), orders, openLeg, resets, live, x, orders', live', w)
  BY <1>1, <1>2, <1>4, <1>5 DEF Closing, w
<1>8. Accounts(V, db, Pending, w, orders', NoOrder, resets, live', x)
  BY <1>7, ClosingIn
<1>9. Accounts(V, db', Pending, w, orders', openLeg', resets', live', x)
  BY <1>2, <1>8
<1> QED  BY <1>1, <1>6, <1>9, AccountsAre

\* The score is reset: a reset that is dropped leaves nothing to claim.
LEMMA ResetKeeps ==
  ASSUME Typed, Books, ResetScore, Panel = Owner, dropped' \subseteq {"lancar", "semear"}
  PROVE  Books'
<1> DEFINE w == Restart(resets + 1)
<1>1. PICK V \in Values, x \in BOOLEAN :
         /\ dropped = {} => x = TRUE
         /\ Account(V, db, Pending, After(db, Pending), orders, openLeg, resets, live, x)
  BY DEF Books
<1>2. /\ resets' = resets + 1 /\ live' = Zero /\ openLeg' \in {openLeg, NoOrder}
      /\ orders' = [o \in Order |-> IF orders[o] = "new" THEN "new" ELSE "old"]
      /\ Enqueue(Owner, w) /\ busy' = busy /\ db' = db /\ resets \in Nat
  BY DEF ResetScore, Forget, Typed, writers
<1>3. w \in Writes /\ w.kind = "reiniciar"
  BY <1>2 DEF Restart, Write, Writes, Kind
<1>4. \/ dropped' = dropped /\ Pending' = Append(Pending, w)
      \/ dropped' = dropped \cup {w.kind} /\ Pending' = Pending
  BY <1>2, <1>3, Enqueued
<1> HIDE DEF w
<1>5. dropped' = dropped /\ Pending' = Append(Pending, w)
  BY <1>3, <1>4
<1>6. Account(V, db, Append(Pending, w), After(db, Append(Pending, w)), orders', openLeg',
              resets + 1, Zero, x)
  BY <1>1, <1>2, ResetIn DEF w
<1> QED  BY <1>1, <1>2, <1>5, <1>6, BooksAre

\* A trade is deleted, with all that comes of it.
Deleting(V, d, s, a, ord, leg, last, score, exact, o, ord2, w) ==
    /\ Account(V, d, s, a, ord, leg, last, score, exact) /\ Deletes(ord, o, ord2) /\ w = Erase(o)
    /\ \/ \E e \in Current(d) : e.key[1] = o
       \/ \E i \in 1..Len(s) : s[i].kind = "lancar" /\ s[i].key[1] = o

\* The account without it.
LEMMA DeletingIn ==
  ASSUME NEW V, NEW d, NEW s, NEW a, NEW ord, NEW leg, NEW last, NEW score, NEW exact,
         NEW o, NEW ord2, NEW w, Deleting(V, d, s, a, ord, leg, last, score, exact, o, ord2, w)
  PROVE  /\ V \in Values
         /\ Account(V, d, Append(s, w), After(d, Append(s, w)), ord2, leg, last,
                    Without(score, ord[o] = "win"), exact)
<1>1. /\ Account(V, d, s, a, ord, leg, last, score, exact) /\ Deletes(ord, o, ord2) /\ w = Erase(o)
      /\ \/ \E e \in Current(d) : e.key[1] = o
         \/ \E i \in 1..Len(s) : s[i].kind = "lancar" /\ s[i].key[1] = o
  BY DEF Deleting
<1>2. V \in Values
  BY <1>1 DEF Account
<1> QED  BY <1>1, <1>2, DeleteIn

\* A trade is deleted: a deletion that is dropped leaves nothing to claim.
LEMMA DeleteKeeps ==
  ASSUME Typed, Books, NEW o \in Order, DeleteTrade(o), Deletable \subseteq {"counted"},
         dropped' \subseteq {"lancar", "semear"}
  PROVE  Books'
<1> DEFINE w == Erase(o)
<1>1. PICK V \in Values, x \in BOOLEAN :
         /\ dropped = {} => x = TRUE
         /\ Account(V, db, Pending, After(db, Pending), orders, openLeg, resets, live, x)
  BY DEF Books
<1>2. /\ Panel = Owner /\ orders[o] \in {"win", "loss", "leg", "cycle"} /\ DeletionKind(o) \in Deletable
      /\ orders' = [orders EXCEPT ![o] = "deleted"] /\ Enqueue(Owner, w)
      /\ busy' = busy /\ db' = db /\ resets' = resets /\ openLeg' = openLeg
      /\ live \in [wins : Nat, losses : Nat] /\ orders \in [Order -> Status]
  BY DEF DeleteTrade, Typed, writers
<1>3. w \in Writes /\ w.kind = "apagar"
  BY DEF Erase, Write, Writes, Kind
<1>4. DeletionKind(o) = "counted"
  BY <1>2
<1>5. orders[o] # "leg" /\ Launched(o)
  BY <1>4 DEF DeletionKind
<1>6. Deletes(orders, o, orders')
  BY <1>2, <1>5 DEF Deletes
<1>7. live' = Without(live, orders[o] = "win")
  <2>1. live' = IF orders[o] = "win"
               THEN [live EXCEPT !.wins = IF @ > 0 THEN @ - 1 ELSE 0]
               ELSE [live EXCEPT !.losses = IF @ > 0 THEN @ - 1 ELSE 0]
    BY DEF DeleteTrade
  <2> QED  BY <1>2, <2>1 DEF Without
<1>8. Pending \in Seq(Writes)
  <2>1. /\ Pending = Waits(busy[Owner], queue[Owner])
        /\ busy[Owner] \in Writes \cup {NoWrite} /\ queue[Owner] \in Seq(Writes)
    BY PendingIs
  <2>2. Waits(busy[Owner], queue[Owner]) \in Seq(Writes)
    BY <2>1, WaitsAre
  <2> QED  BY <2>1, <2>2
<1>9. \/ \E e \in Current(db) : e.key[1] = o
      \/ \E i \in 1..Len(Pending) : Pending[i].kind = "lancar" /\ Pending[i].key[1] = o
  <2>1. DOMAIN Pending = 1..Len(Pending)
    BY <1>8
  <2> QED  BY <1>5, <2>1 DEF Launched
<1>10. \/ dropped' = dropped /\ Pending' = Append(Pending, w)
       \/ dropped' = dropped \cup {w.kind} /\ Pending' = Pending
  BY <1>2, <1>3, Enqueued
<1>11. Deleting(V, db, Pending, After(db, Pending), orders, openLeg, resets, live, x, o, orders', w)
  BY <1>1, <1>6, <1>9 DEF Deleting
<1> HIDE DEF w
<1>12. dropped' = dropped /\ Pending' = Append(Pending, w)
  BY <1>3, <1>10
<1>13. Account(V, db, Append(Pending, w), After(db, Append(Pending, w)), orders', openLeg,
               resets, Without(live, orders[o] = "win"), x)
  BY <1>11, DeletingIn
<1>14. Account(V, db', Append(Pending, w), After(db, Append(Pending, w)), orders', openLeg',
               resets', live', x)
  BY <1>2, <1>7, <1>13
<1> QED  BY <1>1, <1>12, <1>14, BooksAre

-----------------------------------------------------------------------------
(* The writer.                                                             *)

\* What waits, and the write in hand.
LEMMA InHand ==
  ASSUME Typed, busy[Owner] # NoWrite
  PROVE  /\ Pending # <<>> /\ Pending[1] = busy[Owner] /\ Tail(Pending) = queue[Owner]
         /\ busy[Owner] \in Writes /\ busy[Owner].kind \in Kind
<1>1. /\ Pending = Waits(busy[Owner], queue[Owner])
      /\ busy[Owner] \in Writes \cup {NoWrite} /\ queue[Owner] \in Seq(Writes)
  BY PendingIs
<1>2. busy[Owner] \in Writes
  BY <1>1
<1>3. /\ Waits(busy[Owner], queue[Owner]) # <<>> /\ Waits(busy[Owner], queue[Owner])[1] = busy[Owner]
      /\ Tail(Waits(busy[Owner], queue[Owner])) = queue[Owner]
  BY <1>1, WaitsAre
<1> QED  BY <1>1, <1>2, <1>3, NoWriteIs

\* Nothing in hand: the queue waits.
LEMMA HandEmpties ==
  ASSUME Typed, busy' = [busy EXCEPT ![Owner] = NoWrite], queue' = queue
  PROVE  Pending' = queue[Owner]
<1>1. Owner \in Process /\ queue[Owner] \in Seq(Writes)
  BY PendingIs
<1>2. busy'[Owner] = NoWrite
  BY <1>1 DEF Typed
<1>3. Pending' = <<>> \o queue[Owner]
  BY <1>2 DEF Pending
<1> QED  BY <1>1, <1>3

\* A write is done, or given up, or not.
LEMMA WriteKeeps ==
  ASSUME Typed, Books, busy[Owner] # NoWrite, UNCHANGED Robot,
         db' = Apply(db, busy[Owner]) \/ db' = db,
         \/ Pending' = Pending /\ dropped' = dropped
         \/ Pending' = Tail(Pending) /\ dropped' = dropped /\ db' = Apply(db, busy[Owner])
         \/ Pending' = Tail(Pending) /\ dropped' = dropped \cup {busy[Owner].kind},
         dropped' \subseteq {"lancar", "semear"}
  PROVE  Books'
<1>1. PICK V \in Values, x \in BOOLEAN :
         /\ dropped = {} => x = TRUE
         /\ Account(V, db, Pending, After(db, Pending), orders, openLeg, resets, live, x)
  BY DEF Books
<1>2. Pending # <<>> /\ Pending[1] = busy[Owner]
  BY InHand
<1>3. orders' = orders /\ openLeg' = openLeg /\ resets' = resets /\ live' = live
  BY DEF Robot
<1>4. PICK d, s, a : d = db /\ s = Pending /\ a = After(db, Pending)
  OBVIOUS
<1>5. Account(V, d, s, a, orders, openLeg, resets, live, x) /\ s # <<>>
  BY <1>1, <1>2, <1>4
<1>6. /\ Account(V, Apply(d, s[1]), Tail(s), a, orders, openLeg, resets, live, x)
      /\ Account(V, Apply(d, s[1]), s, a, orders, openLeg, resets, live, x)
  BY <1>5, HeadDone
<1>7. Apply(d, s[1]) = Apply(db, busy[Owner])
  BY <1>2, <1>4
<1>8. CASE Pending' = Pending /\ dropped' = dropped
  <2>1. Account(V, db', s, a, orders', openLeg', resets', live', x)
    BY <1>3, <1>4, <1>5, <1>6, <1>7
  <2> QED  BY <1>1, <1>4, <1>8, <2>1, BooksAre
<1>9. CASE Pending' = Tail(Pending) /\ dropped' = dropped /\ db' = Apply(db, busy[Owner])
  <2>1. Account(V, db', Tail(s), a, orders', openLeg', resets', live', x)
    BY <1>3, <1>6, <1>7, <1>9
  <2> QED  BY <1>1, <1>4, <1>9, <2>1, BooksAre
<1>10. CASE Pending' = Tail(Pending) /\ dropped' = dropped \cup {busy[Owner].kind}
  <2>1. dropped' # {} /\ busy[Owner].kind \in {"lancar", "semear"}
    BY <1>10
  <2>2. \E c : Account(V, db', Tail(s), c, orders', openLeg', resets', live', FALSE)
    <3>1. CASE db' = Apply(db, busy[Owner])
      <4>1. Account(V, Apply(d, s[1]), Tail(s), a, orders, openLeg, resets, live, FALSE)
        BY <1>6, Loosely
      <4> QED  BY <1>3, <1>7, <3>1, <4>1
    <3>2. CASE db' = db
      <4>1. s[1].kind \in {"lancar", "semear"}
        BY <1>2, <1>4, <2>1
      <4>2. Account(V, d, Tail(s), After(d, Tail(s)), orders, openLeg, resets, live, FALSE)
        BY <1>5, <4>1, HeadDropped
      <4> QED  BY <1>3, <1>4, <3>2, <4>2
    <3> QED  BY <3>1, <3>2
  <2>3. PICK c : Account(V, db', Tail(s), c, orders', openLeg', resets', live', FALSE)
    BY <2>2
  <2> QED  BY <1>1, <1>4, <1>10, <2>1, <2>3, BooksAre
<1> QED  BY <1>8, <1>9, <1>10

\* The threads of the other processes have nothing to do.
LEMMA OthersIdle ==
  ASSUME Typed, NEW p \in Process, WriterStep(p)
  PROVE  p = Owner
<1>1. busy[p] # NoWrite \/ queue[p] # <<>>
  BY DEF WriterStep, Take, Written, WriteFails, Attempted, NoTable
<1> QED  BY <1>1 DEF Typed

\* The writer takes the next write.
LEMMA TakeKeeps ==
  ASSUME Typed, Books, Take(Owner)
  PROVE  Books'
<1>1. Owner \in Process /\ queue[Owner] \in Seq(Writes) /\ Pending = Waits(busy[Owner], queue[Owner])
  BY PendingIs
<1>2. /\ busy[Owner] = NoWrite /\ queue[Owner] # <<>>
      /\ busy'[Owner] = Head(queue[Owner]) /\ queue'[Owner] = Tail(queue[Owner])
      /\ db' = db /\ dropped' = dropped /\ orders' = orders /\ openLeg' = openLeg
      /\ resets' = resets /\ live' = live
  BY <1>1 DEF Take, Typed, Robot
<1>3. Pending' = Waits(Head(queue[Owner]), Tail(queue[Owner]))
  BY <1>2 DEF Pending, Waits
<1>4. Waits(Head(queue[Owner]), Tail(queue[Owner])) = queue[Owner]
  BY <1>1, <1>2, WaitsAre, NoWriteIs
<1>5. Pending = queue[Owner]
  BY <1>1, <1>2 DEF Waits
<1>6. Pending' = Pending
  BY <1>3, <1>4, <1>5
<1>7. PICK V \in Values, x \in BOOLEAN :
         /\ dropped = {} => x = TRUE
         /\ Account(V, db, Pending, After(db, Pending), orders, openLeg, resets, live, x)
  BY DEF Books
<1>8. Account(V, db', Pending, After(db, Pending), orders', openLeg', resets', live', x)
  BY <1>2, <1>7
<1> QED  BY <1>2, <1>6, <1>7, <1>8, BooksAre

\* The writer does the write, fails at it, or finds no table.
LEMMA WriterKeeps ==
  ASSUME Typed, Books, Written(Owner) \/ WriteFails(Owner) \/ NoTable(Owner),
         dropped' \subseteq {"lancar", "semear"}
  PROVE  Books'
<1>1. busy[Owner] # NoWrite
  BY DEF Written, WriteFails, Attempted, NoTable
<1>2. queue' = queue /\ UNCHANGED Robot
  BY DEF Written, WriteFails, NoTable
<1>3. Tail(Pending) = queue[Owner]
  BY <1>1, InHand
<1>4. ASSUME busy' = [busy EXCEPT ![Owner] = NoWrite] PROVE Pending' = Tail(Pending)
  BY <1>2, <1>3, <1>4, HandEmpties
<1>5. ASSUME busy' = busy PROVE Pending' = Pending
  BY <1>2, <1>5 DEF Pending
<1>6. CASE Written(Owner)
  <2>1. /\ db' = Apply(db, busy[Owner]) /\ dropped' = dropped
        /\ busy' = [busy EXCEPT ![Owner] = NoWrite]
    BY <1>6 DEF Written
  <2> QED  BY <1>1, <1>2, <1>4, <2>1, WriteKeeps
<1>7. CASE WriteFails(Owner)
  <2>1. db' = Apply(db, busy[Owner]) \/ db' = db
    BY <1>7 DEF WriteFails, Attempted
  <2>2. \/ busy' = [busy EXCEPT ![Owner] = NoWrite] /\ dropped' = dropped \cup {busy[Owner].kind}
        \/ busy' = busy /\ dropped' = dropped
    BY <1>7 DEF WriteFails, GiveUp
  <2> QED  BY <1>1, <1>2, <1>4, <1>5, <2>1, <2>2, WriteKeeps
<1>8. CASE NoTable(Owner)
  <2>1. /\ db' = db /\ busy' = [busy EXCEPT ![Owner] = NoWrite]
        /\ dropped' = dropped \cup {busy[Owner].kind}
    BY <1>8 DEF NoTable, GiveUp
  <2> QED  BY <1>1, <1>2, <1>4, <2>1, WriteKeeps
<1> QED  BY <1>6, <1>7, <1>8

\* The owner restarts, and seeds with the score.
LEMMA RestartKeeps ==
  ASSUME Typed, Books, ProcessRestart(Owner), dropped' \subseteq {"lancar", "semear"}
  PROVE  Books'
<1> DEFINE t == <<Seed(live)>>
           now == dropped' = {}
<1>1. PICK V \in Values, x \in BOOLEAN :
         /\ dropped = {} => x = TRUE
         /\ Account(V, db, Pending, After(db, Pending), orders, openLeg, resets, live, x)
  BY DEF Books
<1>2. /\ Pending = Waits(busy[Owner], queue[Owner]) /\ Owner \in Process
      /\ busy[Owner] \in Writes \cup {NoWrite} /\ queue[Owner] \in Seq(Writes)
  BY PendingIs
<1>3. /\ queue'[Owner] = t /\ busy'[Owner] = NoWrite
      /\ dropped' = dropped \cup ({busy[Owner].kind} \ {"none"})
                           \cup {queue[Owner][i].kind : i \in DOMAIN queue[Owner]}
      /\ db' = db /\ orders' = orders /\ openLeg' = openLeg /\ resets' = resets /\ live' = live
  BY <1>2 DEF ProcessRestart, Typed, Robot
<1>4. Pending' = t
  <2>1. Pending' = <<>> \o t
    BY <1>3 DEF Pending
  <2> QED  BY <2>1
<1>5. DOMAIN queue[Owner] = 1..Len(queue[Owner])
  BY <1>2
<1>6. \A i \in 1..Len(queue[Owner]) : queue[Owner][i].kind \in dropped'
  BY <1>3, <1>5
<1>7. busy[Owner] # NoWrite => busy[Owner].kind \in dropped'
  <2>1. busy[Owner] # NoWrite => busy[Owner].kind # "none"
    BY <1>2, NoWriteIs DEF Kind
  <2> QED  BY <1>3, <2>1
<1>8. \A i \in 1..Len(Pending) : Pending[i].kind \in dropped'
  <2>1. CASE busy[Owner] = NoWrite
    <3>1. Pending = queue[Owner]
      BY <1>2, <2>1 DEF Waits
    <3> QED  BY <1>6, <3>1
  <2>2. CASE busy[Owner] # NoWrite
    <3>1. Pending = <<busy[Owner]>> \o queue[Owner] /\ busy[Owner] \in Writes
      BY <1>2, <2>2 DEF Waits
    <3>2. ASSUME NEW i \in 1..Len(Pending)
          PROVE  Pending[i] = busy[Owner] \/ \E j \in 1..Len(queue[Owner]) : Pending[i] = queue[Owner][j]
      <4>1. Len(Pending) = Len(queue[Owner]) + 1 /\ Len(queue[Owner]) \in Nat
        BY <1>2, <3>1
      <4>2. CASE i = 1
        BY <1>2, <3>1, <4>2
      <4>3. CASE i # 1
        <5>1. i - 1 \in 1..Len(queue[Owner])
          BY <4>1, <4>3
        <5>2. Pending[i] = queue[Owner][i - 1]
          BY <1>2, <3>1, <4>1, <4>3
        <5> QED  BY <5>1, <5>2
      <4> QED  BY <4>2, <4>3
    <3> QED  BY <1>6, <1>7, <2>2, <3>2
  <2> QED  BY <2>1, <2>2
<1>9. Pending \in Seq(Writes)
  <2>1. Waits(busy[Owner], queue[Owner]) \in Seq(Writes)
    BY <1>2, WaitsAre
  <2> QED  BY <1>2, <2>1
<1>10. \A i \in 1..Len(Pending) : Pending[i].kind \in {"lancar", "semear"}
  BY <1>8
<1>11. now => x /\ Pending = <<>>
  <2>1. ASSUME now PROVE x /\ Len(Pending) = 0
    <3>1. dropped = {}
      BY <1>3, <2>1
    <3>2. \A i \in 1..Len(Pending) : FALSE
      BY <1>8, <2>1
    <3>3. Len(Pending) \in Nat
      BY <1>9
    <3> QED  BY <1>1, <3>1, <3>2, <3>3
  <2>2. Len(Pending) = 0 => Pending = <<>>
    BY <1>9, EmptySeq
  <2> QED  BY <2>1, <2>2
<1> HIDE DEF t, now
<1>12. Account(V, db, t, After(db, t), orders, openLeg, resets, live, now)
  <2>1. PICK s, a : s = Pending /\ a = After(db, Pending)
    OBVIOUS
  <2>2. Account(V, db, s, a, orders, openLeg, resets, live, x)
    BY <1>1, <2>1
  <2>3. (\A i \in 1..Len(s) : s[i].kind \in {"lancar", "semear"}) /\ (now => x /\ s = <<>>)
    BY <1>10, <1>11, <2>1
  <2>4. PICK u : u = <<Seed(live)>>
    OBVIOUS
  <2>5. Account(V, db, u, After(db, u), orders, openLeg, resets, live, now)
    BY <2>2, <2>3, <2>4, Restarted
  <2> QED  BY <2>4, <2>5 DEF t
<1>13. Account(V, db', t, After(db, t), orders', openLeg', resets', live', now)
  BY <1>3, <1>12
<1>14. now \in BOOLEAN /\ (dropped' = {} => now = TRUE)
  BY DEF now
<1> QED  BY <1>1, <1>4, <1>13, <1>14, BooksAre

\* The restart of a process that only serves the panel changes nothing then.
LEMMA OtherRestarts ==
  ASSUME Typed, NEW p \in Process, p # Owner, ProcessRestart(p)
  PROVE  /\ queue' = queue /\ busy' = busy /\ dropped' = dropped /\ db' = db
         /\ orders' = orders /\ openLeg' = openLeg /\ resets' = resets /\ live' = live
<1>1. queue[p] = <<>> /\ busy[p] = NoWrite /\ queue \in [Process -> Seq(Writes)]
      /\ busy \in [Process -> Writes \cup {NoWrite}]
  BY DEF Typed
<1>2. /\ queue' = [queue EXCEPT ![p] = <<>>] /\ busy' = [busy EXCEPT ![p] = NoWrite]
      /\ dropped' = dropped \cup ({busy[p].kind} \ {"none"})
                           \cup {queue[p][i].kind : i \in DOMAIN queue[p]}
      /\ db' = db /\ orders' = orders /\ openLeg' = openLeg /\ resets' = resets /\ live' = live
  BY DEF ProcessRestart, Robot
<1>3. queue' = queue /\ busy' = busy
  BY <1>1, <1>2
<1>4. dropped' = dropped
  <2>1. busy[p].kind = "none" /\ DOMAIN queue[p] = {}
    BY <1>1, NoWriteIs
  <2> QED  BY <1>2, <2>1
<1> QED  BY <1>2, <1>3, <1>4

-----------------------------------------------------------------------------
(* The types are kept.                                                     *)

\* What the robot does leaves the hand as it is, and puts a write in the owner's queue.
LEMMA RobotTyped ==
  ASSUME Typed, NEW w \in Writes, Enqueue(Owner, w), UNCHANGED writers,
         orders' \in [Order -> Status], live' \in [wins : Nat, losses : Nat],
         openLeg' \in Order \cup {NoOrder}, resets' \in Nat
  PROVE  Typed'
<1>1. busy' = busy
  BY DEF writers
<1>2. queue' \in [Process -> Seq(Writes)] /\ \A p \in Process : p # Owner => queue'[p] = queue[p]
  BY <1>1, Enqueued
<1>3. /\ busy \in [Process -> Writes \cup {NoWrite}]
      /\ \A p \in Process : p # Owner => busy[p] = NoWrite /\ queue[p] = <<>>
  BY DEF Typed
<1> QED  BY <1>1, <1>2, <1>3 DEF Typed

\* What the owner's writer does leaves the robot as it is.
LEMMA WriterTyped ==
  ASSUME Typed, UNCHANGED Robot, NEW w \in Writes \cup {NoWrite}, NEW q \in Seq(Writes),
         busy' = [busy EXCEPT ![Owner] = w] \/ busy' = busy,
         queue' = [queue EXCEPT ![Owner] = q] \/ queue' = queue
  PROVE  Typed'
<1>1. /\ orders' = orders /\ live' = live /\ openLeg' = openLeg /\ resets' = resets
  BY DEF Robot
<1>2. /\ orders \in [Order -> Status] /\ live \in [wins : Nat, losses : Nat]
      /\ openLeg \in Order \cup {NoOrder} /\ resets \in Nat
      /\ busy \in [Process -> Writes \cup {NoWrite}] /\ queue \in [Process -> Seq(Writes)]
      /\ \A p \in Process : p # Owner => busy[p] = NoWrite /\ queue[p] = <<>>
  BY DEF Typed
<1>3. /\ busy' \in [Process -> Writes \cup {NoWrite}]
      /\ \A p \in Process : p # Owner => busy'[p] = NoWrite
  BY <1>2
<1>4. /\ queue' \in [Process -> Seq(Writes)]
      /\ \A p \in Process : p # Owner => queue'[p] = <<>>
  BY <1>2
<1> QED  BY <1>1, <1>2, <1>3, <1>4 DEF Typed

\* Every step keeps the types, in one process.
LEMMA TypedKept ==
  ASSUME Typed, Panel = Owner, [Next]_vars
  PROVE  Typed'
<1>1. /\ orders \in [Order -> Status] /\ live \in [wins : Nat, losses : Nat]
      /\ live.wins \in Nat /\ live.losses \in Nat
      /\ openLeg \in Order \cup {NoOrder} /\ resets \in Nat
      /\ busy \in [Process -> Writes \cup {NoWrite}] /\ queue \in [Process -> Seq(Writes)]
      /\ queue[Owner] \in Seq(Writes) /\ NoWrite \in Writes \cup {NoWrite}
  BY ProcessAssumption DEF Typed
<1>2. ASSUME NEW o \in Order, NEW n \in {0, 1}, NEW x \in {0, 1}, NEW y \in {0, 1}
      PROVE  Launch(o, n, x, y) \in Writes
  BY DEF Launch, Write, Writes, Kind
<1>3. ASSUME NEW o \in Order, CountWin(o) PROVE Typed'
  <2>1. /\ Enqueue(Owner, Launch(o, 0, 1, 0)) /\ UNCHANGED writers
        /\ orders' = [orders EXCEPT ![o] = "win"] /\ live' = [live EXCEPT !.wins = @ + 1]
        /\ openLeg' \in {openLeg, NoOrder} /\ resets' = resets
    BY <1>3 DEF CountWin
  <2>2. orders' \in [Order -> Status] /\ openLeg' \in Order \cup {NoOrder} /\ resets' \in Nat
    BY <1>1, <2>1 DEF Status
  <2>3. live' \in [wins : Nat, losses : Nat]
    BY <1>1, <2>1
  <2>4. Launch(o, 0, 1, 0) \in Writes
    BY <1>2
  <2> QED  BY <2>1, <2>2, <2>3, <2>4, RobotTyped
<1>4. ASSUME NEW o \in Order, CountLoss(o) PROVE Typed'
  <2>1. /\ Enqueue(Owner, Launch(o, 0, 0, 1)) /\ UNCHANGED writers
        /\ orders' = [orders EXCEPT ![o] = "loss"] /\ live' = [live EXCEPT !.losses = @ + 1]
        /\ openLeg' \in {openLeg, NoOrder} /\ resets' = resets
    BY <1>4 DEF CountLoss
  <2>2. orders' \in [Order -> Status] /\ openLeg' \in Order \cup {NoOrder} /\ resets' \in Nat
    BY <1>1, <2>1 DEF Status
  <2>3. live' \in [wins : Nat, losses : Nat]
    BY <1>1, <2>1
  <2>4. Launch(o, 0, 0, 1) \in Writes
    BY <1>2
  <2> QED  BY <2>1, <2>2, <2>3, <2>4, RobotTyped
<1>5. ASSUME NEW o \in Order, LoseLeg(o) PROVE Typed'
  <2>1. /\ Enqueue(Owner, Launch(o, 0, 0, 0)) /\ UNCHANGED writers
        /\ orders' = [orders EXCEPT ![o] = "leg"] /\ live' = live /\ openLeg' = o /\ resets' = resets
    BY <1>5 DEF LoseLeg
  <2>2. /\ orders' \in [Order -> Status] /\ openLeg' \in Order \cup {NoOrder} /\ resets' \in Nat
        /\ live' \in [wins : Nat, losses : Nat]
    BY <1>1, <2>1 DEF Status
  <2>3. Launch(o, 0, 0, 0) \in Writes
    BY <1>2
  <2> QED  BY <2>1, <2>2, <2>3, RobotTyped
<1>6. ASSUME NEW o \in Order, DeleteTrade(o) PROVE Typed'
  <2>1. /\ Enqueue(Owner, Erase(o)) /\ UNCHANGED writers
        /\ orders' = [orders EXCEPT ![o] = "deleted"] /\ openLeg' = openLeg /\ resets' = resets
        /\ live' = IF orders[o] = "win"
                   THEN [live EXCEPT !.wins = IF @ > 0 THEN @ - 1 ELSE 0]
                   ELSE [live EXCEPT !.losses = IF @ > 0 THEN @ - 1 ELSE 0]
    BY <1>6 DEF DeleteTrade
  <2>2. orders' \in [Order -> Status] /\ openLeg' \in Order \cup {NoOrder} /\ resets' \in Nat
    BY <1>1, <2>1 DEF Status
  <2>3. live' \in [wins : Nat, losses : Nat]
    BY <1>1, <2>1
  <2>4. Erase(o) \in Writes
    BY DEF Erase, Write, Writes, Kind
  <2> QED  BY <2>1, <2>2, <2>3, <2>4, RobotTyped
<1>7. ASSUME CloseLeg PROVE Typed'
  <2>1. /\ Enqueue(Owner, Launch(openLeg, 1, 0, 1)) /\ UNCHANGED writers /\ openLeg \in Order
        /\ orders' = [orders EXCEPT ![openLeg] = IF @ = "leg" THEN "cycle" ELSE @]
        /\ live' = [live EXCEPT !.losses = @ + 1] /\ openLeg' = NoOrder /\ resets' = resets
    BY <1>1, <1>7 DEF CloseLeg
  <2>2. orders' \in [Order -> Status] /\ openLeg' \in Order \cup {NoOrder} /\ resets' \in Nat
    BY <1>1, <2>1 DEF Status
  <2>3. live' \in [wins : Nat, losses : Nat]
    BY <1>1, <2>1
  <2>4. Launch(openLeg, 1, 0, 1) \in Writes
    BY <1>2, <2>1
  <2> QED  BY <2>1, <2>2, <2>3, <2>4, RobotTyped
<1>8. ASSUME ResetScore PROVE Typed'
  <2>1. /\ Enqueue(Owner, Restart(resets + 1)) /\ UNCHANGED writers
        /\ orders' = [o \in Order |-> IF orders[o] = "new" THEN "new" ELSE "old"]
        /\ live' = Zero /\ openLeg' \in {openLeg, NoOrder} /\ resets' = resets + 1
    BY <1>8 DEF ResetScore, Forget
  <2>2. /\ orders' \in [Order -> Status] /\ openLeg' \in Order \cup {NoOrder} /\ resets' \in Nat
        /\ live' \in [wins : Nat, losses : Nat]
    BY <1>1, <2>1 DEF Status, Zero
  <2>3. Restart(resets + 1) \in Writes
    BY <1>1 DEF Restart, Write, Writes, Kind
  <2> QED  BY <2>1, <2>2, <2>3, RobotTyped
<1>9. ASSUME NEW p \in Process, WriterStep(p) PROVE Typed'
  <2>1. p = Owner
    BY <1>9, OthersIdle
  <2>2. CASE Take(Owner)
    <3>1. /\ queue[Owner] # <<>> /\ busy' = [busy EXCEPT ![Owner] = Head(queue[Owner])]
          /\ queue' = [queue EXCEPT ![Owner] = Tail(queue[Owner])] /\ UNCHANGED Robot
      BY <2>2 DEF Take
    <3>2. Head(queue[Owner]) \in Writes \cup {NoWrite} /\ Tail(queue[Owner]) \in Seq(Writes)
      BY <1>1, <3>1
    <3> QED  BY <3>1, <3>2, WriterTyped
  <2>3. CASE Written(Owner) \/ WriteFails(Owner) \/ NoTable(Owner)
    <3>1. /\ busy' = [busy EXCEPT ![Owner] = NoWrite] \/ busy' = busy
          /\ queue' = queue /\ UNCHANGED Robot
      BY <2>3 DEF Written, WriteFails, GiveUp, NoTable
    <3> QED  BY <1>1, <3>1, WriterTyped
  <2> QED  BY <1>9, <2>1, <2>2, <2>3 DEF WriterStep
<1>10. ASSUME ProcessRestart(Owner) PROVE Typed'
  <2>1. /\ busy' = [busy EXCEPT ![Owner] = NoWrite] /\ UNCHANGED Robot
        /\ queue' = [queue EXCEPT ![Owner] = <<Seed(live)>>]
    BY <1>10 DEF ProcessRestart
  <2>2. Seed(live) \in Writes
    BY <1>1 DEF Seed, Write, Writes, Kind
  <2>3. <<Seed(live)>> \in Seq(Writes)
    BY <2>2
  <2> QED  BY <1>1, <2>1, <2>3, WriterTyped
<1>11. ASSUME NEW p \in Process, p # Owner, ProcessRestart(p) PROVE Typed'
  <2>1. /\ queue' = queue /\ busy' = busy
        /\ orders' = orders /\ openLeg' = openLeg /\ resets' = resets /\ live' = live
    BY <1>11, OtherRestarts
  <2> QED  BY <2>1 DEF Typed
<1>12. ASSUME UNCHANGED vars PROVE Typed'
  BY <1>12 DEF Typed, vars
<1> QED
  BY <1>3, <1>4, <1>5, <1>6, <1>7, <1>8, <1>9, <1>10, <1>11, <1>12 DEF Next

-----------------------------------------------------------------------------
(* The books are kept.                                                     *)

\* What was given up stays so.
LEMMA DroppedGrows ==
  ASSUME [Next]_vars
  PROVE  dropped \subseteq dropped'
<1>1. ASSUME NEW p, NEW w, Enqueue(p, w) PROVE dropped \subseteq dropped'
  BY <1>1 DEF Enqueue
<1>2. ASSUME NEW p \in Process, WriterStep(p) \/ ProcessRestart(p) PROVE dropped \subseteq dropped'
  BY <1>2 DEF WriterStep, Take, Written, WriteFails, NoTable, GiveUp, ProcessRestart
<1>3. ASSUME NEW o \in Order, CountWin(o) \/ CountLoss(o) \/ LoseLeg(o) \/ DeleteTrade(o)
      PROVE  dropped \subseteq dropped'
  BY <1>1, <1>3 DEF CountWin, CountLoss, LoseLeg, DeleteTrade
<1>4. ASSUME CloseLeg \/ ResetScore PROVE dropped \subseteq dropped'
  BY <1>1, <1>4 DEF CloseLeg, ResetScore
<1> QED  BY <1>2, <1>3, <1>4 DEF Next, vars

\* Every step keeps the books, unless a reset or a deletion is dropped.
LEMMA BooksKept ==
  ASSUME Typed, Books, Panel = Owner, Deletable \subseteq {"counted"}, [Next]_vars,
         dropped' \subseteq {"lancar", "semear"}
  PROVE  Books'
<1>1. live = [wins |-> live.wins, losses |-> live.losses] /\ live.wins \in Nat /\ live.losses \in Nat
  BY DEF Typed
<1>2. /\ Worth("win").wins = 1 /\ Worth("win").losses = 0
      /\ Worth("loss").wins = 0 /\ Worth("loss").losses = 1
      /\ Worth("leg").wins = 0 /\ Worth("leg").losses = 0
  BY DEF Worth, Effect
<1>3. ASSUME NEW o \in Order, CountWin(o) PROVE Books'
  <2>1. /\ orders[o] = "new" /\ orders' = [orders EXCEPT ![o] = "win"]
        /\ live' = [live EXCEPT !.wins = @ + 1] /\ openLeg' \in {openLeg, NoOrder}
        /\ Enqueue(Owner, Launch(o, 0, Worth("win").wins, Worth("win").losses))
        /\ UNCHANGED <<resets, writers>>
    BY <1>2, <1>3 DEF CountWin
  <2>2. live' = [wins |-> live.wins + Worth("win").wins, losses |-> live.losses + Worth("win").losses]
    BY <1>1, <1>2, <2>1
  <2> QED  BY <2>1, <2>2, CountKeeps
<1>4. ASSUME NEW o \in Order, CountLoss(o) PROVE Books'
  <2>1. /\ orders[o] = "new" /\ orders' = [orders EXCEPT ![o] = "loss"]
        /\ live' = [live EXCEPT !.losses = @ + 1] /\ openLeg' \in {openLeg, NoOrder}
        /\ Enqueue(Owner, Launch(o, 0, Worth("loss").wins, Worth("loss").losses))
        /\ UNCHANGED <<resets, writers>>
    BY <1>2, <1>4 DEF CountLoss
  <2>2. live' = [wins |-> live.wins + Worth("loss").wins, losses |-> live.losses + Worth("loss").losses]
    BY <1>1, <1>2, <2>1
  <2> QED  BY <2>1, <2>2, CountKeeps
<1>5. ASSUME NEW o \in Order, LoseLeg(o) PROVE Books'
  <2>1. /\ orders[o] = "new" /\ orders' = [orders EXCEPT ![o] = "leg"]
        /\ live' = live /\ openLeg' = o
        /\ Enqueue(Owner, Launch(o, 0, Worth("leg").wins, Worth("leg").losses))
        /\ UNCHANGED <<resets, writers>>
    BY <1>2, <1>5 DEF LoseLeg
  <2>2. live' = [wins |-> live.wins + Worth("leg").wins, losses |-> live.losses + Worth("leg").losses]
    BY <1>1, <1>2, <2>1
  <2> QED  BY <2>1, <2>2, CountKeeps
<1>6. ASSUME NEW p \in Process, WriterStep(p) PROVE Books'
  <2>1. p = Owner
    BY <1>6, OthersIdle
  <2>2. CASE Take(Owner)
    BY <2>2, TakeKeeps
  <2>3. CASE Written(Owner) \/ WriteFails(Owner) \/ NoTable(Owner)
    BY <2>3, WriterKeeps
  <2> QED  BY <1>6, <2>1, <2>2, <2>3 DEF WriterStep
<1>7. ASSUME NEW p \in Process, p # Owner, ProcessRestart(p) PROVE Books'
  <2>1. /\ queue' = queue /\ busy' = busy /\ dropped' = dropped /\ db' = db
        /\ orders' = orders /\ openLeg' = openLeg /\ resets' = resets /\ live' = live
    BY <1>7, OtherRestarts
  <2> QED  BY <2>1 DEF Books, Pending
<1>8. ASSUME UNCHANGED vars PROVE Books'
  BY <1>8 DEF Books, Pending, vars
<1>9. CASE Next
  BY <1>3, <1>4, <1>5, <1>6, <1>7, <1>9, CloseKeeps, ResetKeeps, DeleteKeeps, RestartKeeps DEF Next
<1> QED  BY <1>8, <1>9

\* At first the tables are empty, and the seed of the score waits.
LEMMA FirstBooks ==
  ASSUME Init
  PROVE  CounterInv
<1>1. PICK before \in SUBSET Order :
         /\ orders = [o \in Order |-> IF o \in before THEN "win" ELSE "new"]
         /\ live = [wins |-> Cardinality(before), losses |-> 0]
  BY DEF Init
<1>2. /\ openLeg = NoOrder /\ resets = 0 /\ busy = [p \in Process |-> NoWrite] /\ db = InitDB
      /\ queue = [p \in Process |-> IF p = Owner THEN <<Seed(live)>> ELSE <<>>] /\ dropped = {}
      /\ Owner \in Process
  BY ProcessAssumption DEF Init
<1>3. Cardinality(before) \in Nat
  BY OrderAssumption, FS_Subset, FS_CardinalityType
<1>4. live \in [wins : Nat, losses : Nat] /\ live.wins \in Nat /\ live.losses \in Nat
  BY <1>1, <1>3
<1>5. Seed(live) \in Writes
  BY <1>4 DEF Seed, Write, Writes, Kind
<1>6. <<Seed(live)>> \in Seq(Writes) /\ <<>> \in Seq(Writes)
  BY <1>5
<1>7. Typed
  <2>1. orders \in [Order -> Status]
    BY <1>1 DEF Status
  <2>2. /\ queue \in [Process -> Seq(Writes)] /\ busy \in [Process -> Writes \cup {NoWrite}]
        /\ \A p \in Process : p # Owner => busy[p] = NoWrite /\ queue[p] = <<>>
    BY <1>2, <1>6
  <2> QED  BY <1>2, <1>4, <2>1, <2>2 DEF Typed
<1>8. Pending = <<Seed(live)>>
  <2>1. busy[Owner] = NoWrite /\ queue[Owner] = <<Seed(live)>>
    BY <1>2
  <2>2. Pending = <<>> \o <<Seed(live)>>
    BY <2>1 DEF Pending
  <2> QED  BY <2>2
<1>9. PICK V \in Values : Account(V, InitDB, Pending, After(InitDB, Pending), orders, NoOrder, 0, live, TRUE)
  <2>1. PICK ord, score, t : ord = orders /\ score = live /\ t = Pending
    OBVIOUS
  <2>2. /\ ord = [o \in Order |-> IF o \in before THEN "win" ELSE "new"]
        /\ score = [wins |-> Cardinality(before), losses |-> 0] /\ t = <<Seed(score)>>
    BY <1>1, <1>8, <2>1
  <2>3. \E V \in Values : Account(V, InitDB, t, After(InitDB, t), ord, NoOrder, 0, score, TRUE)
    BY <2>2, AtFirst
  <2> QED  BY <2>1, <2>3
<1>10. Books
  BY <1>2, <1>9 DEF Books
<1> QED  BY <1>7, <1>10 DEF CounterInv

\* The books show what the property claims.
LEMMA BooksShow ==
  ASSUME CounterInv
  PROVE  CounterFounded
<1> SUFFICES ASSUME dropped \subseteq {"lancar", "semear"}
             PROVE  /\ dropped = {} => Settled.wins = live.wins /\ Settled.losses = live.losses
                    /\ Settled.wins <= live.wins /\ Settled.losses <= live.losses
  BY DEF CounterFounded
<1>1. PICK V \in Values, x \in BOOLEAN :
         /\ dropped = {} => x = TRUE
         /\ Account(V, db, Pending, After(db, Pending), orders, openLeg, resets, live, x)
  BY DEF CounterInv, Books
<1>2. PICK d, s, a : d = db /\ s = Pending /\ a = After(db, Pending)
  OBVIOUS
<1>3. Account(V, d, s, a, orders, openLeg, resets, live, x)
  BY <1>1, <1>2
<1>4. /\ a.row.wins <= live.wins /\ a.row.losses <= live.losses
      /\ x => a.row.wins = live.wins /\ a.row.losses = live.losses
  BY <1>3, AccountCloses
<1>5. Settled = a.row
  BY <1>2 DEF Settled, After
<1> QED  BY <1>1, <1>4, <1>5

\* In one process the counter and the writes that wait for it come to the robot's
\* score while nothing was given up, and to no more than it while only launches and
\* seeds were (_enfileirar, _gravar and the functions of the migration), for any
\* orders, attempts, queue bound, resets, lost answers and restarts, where the
\* trades deleted are trades with a launch of their own.
THEOREM CounterKept == Deletable \subseteq {"counted"} => (Spec => []CounterFounded)
<1>1. CASE Panel # Owner
  <2>1. CounterFounded
    BY <1>1 DEF CounterFounded
  <2> QED  BY <2>1, PTL
<1>2. ASSUME Panel = Owner, Deletable \subseteq {"counted"} PROVE Spec => []CounterFounded
  <2>1. Init => CounterInv
    BY FirstBooks
  <2>2. CounterInv /\ [Next]_vars => CounterInv'
    <3> SUFFICES ASSUME CounterInv, [Next]_vars PROVE CounterInv'
      OBVIOUS
    <3>1. Typed /\ (dropped \subseteq {"lancar", "semear"} => Books)
      BY DEF CounterInv
    <3>2. Typed'
      BY <1>2, <3>1, TypedKept
    <3>3. dropped \subseteq dropped'
      BY DroppedGrows
    <3>4. ASSUME dropped' \subseteq {"lancar", "semear"} PROVE Books'
      BY <1>2, <3>1, <3>3, <3>4, BooksKept
    <3> QED  BY <3>2, <3>4 DEF CounterInv
  <2>3. CounterInv => CounterFounded
    BY BooksShow
  <2> QED  BY <2>1, <2>2, <2>3, PTL DEF Spec
<1> QED  BY <1>1, <1>2
=============================================================================
