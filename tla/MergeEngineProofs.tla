-------------------------- MODULE MergeEngineProofs --------------------------
(***************************************************************************)
(* For any number of candidates, any fields and any policy the loader lets *)
(* pass: how the fields of the golden record are decided.                  *)
(*                                                                         *)
(* Everything rests on what _ordered_non_empty returns: the values that    *)
(* are not empty, each of them once, sorted by the rank of their source,   *)
(* those of one rank in the order of the candidates.                       *)
(***************************************************************************)
EXTENDS MergeEngine, SequenceLemmas

-----------------------------------------------------------------------------
(* The values in the order of the policy. *)

\* The first position of a source in the priority, or the rank after it.
LEMMA RankIsPosition ==
  ASSUME NEW priority, IsSequence(priority), NEW source
  PROVE  /\ Rank(priority, source) \in 1..(Len(priority) + 1) /\ Len(priority) \in Nat
         /\ \/ Rank(priority, source) <= Len(priority) /\ priority[Rank(priority, source)] = source
            \/ Rank(priority, source) = Len(priority) + 1 /\ source \notin ToSet(priority)
<1>1. Len(priority) \in Nat /\ DOMAIN priority = 1..Len(priority)
  BY DEF IsSequence
<1> DEFINE I == {i \in 1..Len(priority) : priority[i] = source}
<1>2. SelectInSeq(priority, LAMBDA s : s = source) = IF I # {} THEN Min(I) ELSE 0
  BY DEF SelectInSeq
<1>3. I # {} => Min(I) \in I
  <2> SUFFICES ASSUME I # {} PROVE Min(I) \in I
    OBVIOUS
  <2>1. I \subseteq Nat
    BY <1>1
  <2> HIDE DEF I
  <2>2. \E x \in I : \A y \in I : x <= y
    BY <2>1, LeastElement
  <2> QED BY <2>2 DEF Min
<1>4. I \subseteq 1..Len(priority)
  OBVIOUS
<1>5. I = {} => source \notin ToSet(priority)
  BY <1>1 DEF ToSet
<1>6. \A i \in I : priority[i] = source
  OBVIOUS
<1> HIDE DEF I
<1>7. I # {} => Min(I) \in 1..Len(priority) /\ Min(I) # 0
  <2> SUFFICES ASSUME I # {} PROVE Min(I) \in 1..Len(priority) /\ Min(I) # 0
    OBVIOUS
  <2>1. PICK x \in 1..Len(priority) : x = Min(I)
    BY <1>3, <1>4
  <2>2. x \in 1..Len(priority) /\ x # 0
    BY <1>1
  <2> QED BY <2>1, <2>2
<1>8. Rank(priority, source) = IF I # {} THEN Min(I) ELSE Len(priority) + 1
  BY <1>2, <1>7 DEF Rank
<1> QED BY <1>1, <1>3, <1>5, <1>6, <1>7, <1>8

Full(values) == {i \in DOMAIN values : ~IsEmpty(values[i].value)}

LEMMA NonEmptyIsFull ==
  ASSUME NEW T, NEW values \in Seq(T)
  PROVE  NonEmpty(values) = <<>> <=> Full(values) = {}
<1> DEFINE given == NonEmpty(values)
<1>1. given = At(values, Full(values))
  BY DEF NonEmpty, Full
<1> HIDE DEF given
<1>2. PICK from : given \in Seq(T) /\ Picks(given, values, Full(values), from)
  BY <1>1, AtPicks
<1>3. DOMAIN given = {} <=> Full(values) = {}
  BY <1>2 DEF Picks, Full
<1>4. given = <<>> <=> DOMAIN given = {}
  BY <1>2, EmptySeq
<1> QED BY <1>3, <1>4 DEF given

\* `ordered` holds the values that are not empty, each once, by rank and then
\* by position: the value at p of it stands at from[p].
Sorted(ordered, values, priority, from) ==
  /\ from \in [DOMAIN ordered -> Full(values)]
  /\ \A p \in DOMAIN ordered : ordered[p] = values[from[p]]
  /\ \A i \in Full(values) : \E p \in DOMAIN ordered : from[p] = i
  /\ \A p, q \in DOMAIN ordered : p < q =>
       \/ Rank(priority, ordered[p].source) < Rank(priority, ordered[q].source)
       \/ /\ Rank(priority, ordered[p].source) = Rank(priority, ordered[q].source)
          /\ from[p] < from[q]

LEMMA OrderedIsSorted ==
  ASSUME NEW T, NEW values \in Seq(T), NEW priority, IsSequence(priority)
  PROVE  /\ Ordered(values, priority) \in Seq(T)
         /\ \E from : Sorted(Ordered(values, priority), values, priority, from)
<1> DEFINE given == NonEmpty(values)
           n == Len(priority) + 1
           OfR(r) == {i \in DOMAIN given : Rank(priority, given[i].source) = r}
           seqs == [r \in 1..n |-> At(given, OfR(r))]
           g == CHOOSE from : Picks(given, values, Full(values), from)
           h == [r \in 1..n |-> CHOOSE from : Picks(seqs[r], given, OfR(r), from)]
<1>1. n \in Nat /\ n # 0
  BY RankIsPosition
<1>2. given \in Seq(T) /\ Picks(given, values, Full(values), g)
  <2>1. given = At(values, Full(values))
    BY DEF NonEmpty, Full
  <2>2. given \in Seq(T) /\ \E from : Picks(given, values, Full(values), from)
    <3> HIDE DEF given
    <3> QED BY <2>1, AtPicks
  <2> HIDE DEF given
  <2> QED BY <2>2
<1>3. Ordered(values, priority) = FlattenSeq(seqs)
  BY DEF Ordered, OfRank
<1> HIDE DEF given
<1>4. \A r \in 1..n : seqs[r] \in Seq(T) /\ Picks(seqs[r], given, OfR(r), h[r])
  <2> SUFFICES ASSUME NEW r \in 1..n
               PROVE  seqs[r] \in Seq(T) /\ Picks(seqs[r], given, OfR(r), h[r])
    OBVIOUS
  <2>1. seqs[r] = At(given, OfR(r))
    OBVIOUS
  <2>2. seqs[r] \in Seq(T) /\ \E from : Picks(seqs[r], given, OfR(r), from)
    <3> HIDE DEF seqs, OfR
    <3> QED BY <1>2, <2>1, AtPicks
  <2>3. h[r] = CHOOSE from : Picks(seqs[r], given, OfR(r), from)
    OBVIOUS
  <2> HIDE DEF seqs, h, OfR
  <2> QED BY <2>2, <2>3
<1>5. seqs \in Seq(Seq(T)) /\ Len(seqs) = n
  <2>1. DOMAIN seqs = 1..n /\ seqs = [r \in 1..n |-> seqs[r]]
    OBVIOUS
  <2> HIDE DEF seqs, n
  <2>2. seqs \in [1..n -> Seq(T)]
    BY <1>4, <2>1
  <2> QED BY <1>1, <2>2, SeqDef
<1> DEFINE ordered == FlattenSeq(seqs)
<1> HIDE DEF seqs, h, g, n
<1>6. PICK whose, place : Places(ordered, seqs, n, whose, place)
  BY <1>5, FlattenPlaces
<1>7. ordered \in Seq(T)
  BY <1>5, FlattenPlaces
<1> HIDE DEF ordered
<1> DEFINE from == [p \in DOMAIN ordered |-> g[h[whose[p]][place[p]]]]
\* Each element: the rank of its source, its position among the values given.
<1>8. ASSUME NEW p \in DOMAIN ordered
      PROVE  LET i == h[whose[p]][place[p]]
             IN  /\ i \in DOMAIN given /\ ordered[p] = given[i]
                 /\ Rank(priority, ordered[p].source) = whose[p]
                 /\ whose[p] \in 1..n /\ place[p] \in DOMAIN seqs[whose[p]]
                 /\ g[i] \in Full(values) /\ ordered[p] = values[g[i]]
  <2>1. /\ whose[p] \in 1..n /\ place[p] \in DOMAIN seqs[whose[p]]
        /\ ordered[p] = seqs[whose[p]][place[p]]
    BY <1>6 DEF Places
  <2>2. /\ h[whose[p]][place[p]] \in DOMAIN given \cap OfR(whose[p])
        /\ ordered[p] = given[h[whose[p]][place[p]]]
    BY <1>4, <2>1 DEF Picks
  <2>3. \A i \in DOMAIN given : g[i] \in Full(values) /\ given[i] = values[g[i]]
    BY <1>2 DEF Picks
  <2> QED BY <2>1, <2>2, <2>3
<1>9. from \in [DOMAIN ordered -> Full(values)]
      /\ \A p \in DOMAIN ordered : ordered[p] = values[from[p]]
  BY <1>8
<1>10. ASSUME NEW i \in Full(values)
       PROVE  \E p \in DOMAIN ordered : from[p] = i
  <2>1. i \in DOMAIN values \cap Full(values)
    BY DEF Full
  <2>2. PICK j \in DOMAIN given : g[j] = i
    BY <1>2, <2>1 DEF Picks
  <2>3. PICK r \in 1..n : r = Rank(priority, given[j].source)
    BY RankIsPosition DEF n
  <2>4. j \in DOMAIN given \cap OfR(r)
    BY <2>3
  <2>5. PICK b \in DOMAIN seqs[r] : h[r][b] = j
    BY <1>4, <2>4 DEF Picks
  <2>6. PICK p \in DOMAIN ordered : whose[p] = r /\ place[p] = b
    BY <1>6 DEF Places
  <2>7. from[p] = g[h[r][b]]
    BY <2>6
  <2> HIDE DEF from
  <2> QED BY <2>2, <2>5, <2>7
<1>11. ASSUME NEW p \in DOMAIN ordered, NEW q \in DOMAIN ordered, p < q
       PROVE  \/ Rank(priority, ordered[p].source) < Rank(priority, ordered[q].source)
              \/ /\ Rank(priority, ordered[p].source) = Rank(priority, ordered[q].source)
                 /\ from[p] < from[q]
  <2>1. CASE whose[p] < whose[q]
    BY <1>8, <2>1
  <2>2. CASE whose[p] = whose[q] /\ place[p] < place[q]
    <3>1. h[whose[p]][place[p]] < h[whose[q]][place[q]]
      BY <1>4, <1>8, <2>2 DEF Picks
    <3>2. g[h[whose[p]][place[p]]] < g[h[whose[q]][place[q]]]
      BY <1>2, <1>8, <3>1 DEF Picks
    <3> QED BY <1>8, <2>2, <3>2
  <2> QED BY <1>6, <1>11, <2>1, <2>2 DEF Places
<1> HIDE DEF from
<1>12. Sorted(ordered, values, priority, from)
  BY <1>9, <1>10, <1>11 DEF Sorted
<1> QED BY <1>3, <1>7, <1>12 DEF ordered

DisagreeIn(values) == \E i, j \in Full(values) : values[i].value # values[j].value

\* What the strategies take from the order: its first element is of a
\* best-ranked source, and nothing that is not empty is lost.
LEMMA OrderedFacts ==
  ASSUME NEW T, NEW values \in Seq(T), NEW priority, IsSequence(priority)
  PROVE  LET ordered == Ordered(values, priority)
         IN  /\ ordered \in Seq(T)
             /\ \A p \in DOMAIN ordered : \E i \in Full(values) : ordered[p] = values[i]
             /\ \A i \in Full(values) : \E p \in DOMAIN ordered : ordered[p] = values[i]
             /\ ordered = <<>> <=> Full(values) = {}
             /\ ordered # <<>> =>
                  /\ 1 \in DOMAIN ordered
                  /\ \E i \in Full(values) :
                       /\ ordered[1] = values[i]
                       /\ \A j \in Full(values) :
                            Rank(priority, values[i].source) <= Rank(priority, values[j].source)
             /\ Disagreement(ordered) <=> DisagreeIn(values)
<1> DEFINE ordered == Ordered(values, priority)
<1>1. ordered \in Seq(T)
  BY OrderedIsSorted
<1>2. PICK from : Sorted(ordered, values, priority, from)
  BY OrderedIsSorted
<1> HIDE DEF ordered
<1>3. \A p \in DOMAIN ordered : \E i \in Full(values) : ordered[p] = values[i]
  BY <1>2 DEF Sorted
<1>4. \A i \in Full(values) : \E p \in DOMAIN ordered : ordered[p] = values[i]
  BY <1>2 DEF Sorted
<1>5. Len(ordered) \in Nat /\ DOMAIN ordered = 1..Len(ordered)
      /\ (ordered = <<>> <=> DOMAIN ordered = {})
  <2>1. ordered = <<>> <=> Len(ordered) = 0
    BY <1>1, EmptySeq
  <2> QED BY <1>1, <2>1
<1>6. ordered = <<>> <=> Full(values) = {}
  BY <1>3, <1>4, <1>5
<1>7. ASSUME ordered # <<>>
      PROVE  /\ 1 \in DOMAIN ordered
             /\ \E i \in Full(values) :
                  /\ ordered[1] = values[i]
                  /\ \A j \in Full(values) :
                       Rank(priority, values[i].source) <= Rank(priority, values[j].source)
  <2>1. 1 \in DOMAIN ordered
    BY <1>5, <1>7
  <2>2. PICK i \in Full(values) : ordered[1] = values[i]
    BY <1>3, <2>1
  <2>3. \A q \in DOMAIN ordered :
          Rank(priority, ordered[1].source) <= Rank(priority, ordered[q].source)
    <3> SUFFICES ASSUME NEW q \in DOMAIN ordered
                 PROVE  Rank(priority, ordered[1].source) <= Rank(priority, ordered[q].source)
      OBVIOUS
    <3>1. Rank(priority, ordered[1].source) \in Nat /\ Rank(priority, ordered[q].source) \in Nat
      BY RankIsPosition
    <3>2. q \in Nat /\ (q = 1 \/ 1 < q)
      BY <1>5
    <3>3. 1 < q => \/ Rank(priority, ordered[1].source) < Rank(priority, ordered[q].source)
                   \/ Rank(priority, ordered[1].source) = Rank(priority, ordered[q].source)
      BY <1>2, <2>1 DEF Sorted
    <3> QED BY <3>1, <3>2, <3>3
  <2>4. \A j \in Full(values) :
          Rank(priority, values[i].source) <= Rank(priority, values[j].source)
    BY <1>4, <2>2, <2>3
  <2> QED BY <2>1, <2>2, <2>4
<1>8. Disagreement(ordered) <=> DisagreeIn(values)
  BY <1>3, <1>4 DEF Disagreement, DisagreeIn
<1> QED BY <1>1, <1>3, <1>4, <1>6, <1>7, <1>8 DEF ordered

\* A value a strategy decides for is a value of the source it names.
Comes(value, source, values) ==
  \E i \in Full(values) : value = values[i].value /\ source = values[i].source

LEMMA SourcePriorityDecides ==
  ASSUME NEW T, NEW values \in Seq(T), NEW priority, IsSequence(priority)
  PROVE  LET result == SourcePriority(values, priority)
         IN  /\ result.conflict <=> DisagreeIn(values)
             /\ ~IsEmpty(result.value) \/ Full(values) # {} =>
                  Comes(result.value, result.winner, values)
<1> DEFINE ordered == Ordered(values, priority)
<1>1. CASE ordered = <<>>
  <2>1. SourcePriority(values, priority) = NoResult(None)
    BY <1>1 DEF SourcePriority
  <2>2. Full(values) = {}
    BY <1>1, OrderedFacts
  <2>3. ~DisagreeIn(values)
    BY <2>2 DEF DisagreeIn
  <2> QED BY <2>1, <2>2, <2>3 DEF NoResult, IsEmpty
<1>2. CASE ordered # <<>>
  <2>1. SourcePriority(values, priority) =
          [value |-> ordered[1].value, winner |-> ordered[1].source,
           contributing |-> Sources(ordered), conflict |-> Disagreement(ordered)]
    BY <1>2 DEF SourcePriority
  <2>2. Disagreement(ordered) <=> DisagreeIn(values)
    BY OrderedFacts
  <2>3. \E i \in Full(values) : ordered[1] = values[i]
    BY <1>2, OrderedFacts
  <2> HIDE DEF ordered
  <2>4. Comes(ordered[1].value, ordered[1].source, values)
    BY <2>3 DEF Comes
  <2> QED BY <2>1, <2>2, <2>4
<1> QED BY <1>1, <1>2

LEMMA FirstNonEmptyDecides ==
  ASSUME NEW T, NEW values \in Seq(T), NEW priority, IsSequence(priority)
  PROVE  LET result == FirstNonEmpty(values, priority)
         IN  /\ ~result.conflict
             /\ ~IsEmpty(result.value) \/ Full(values) # {} =>
                  Comes(result.value, result.winner, values)
<1> DEFINE ordered == Ordered(values, priority)
<1>1. CASE ordered = <<>>
  <2>1. FirstNonEmpty(values, priority) = NoResult(None)
    BY <1>1 DEF FirstNonEmpty
  <2>2. Full(values) = {}
    BY <1>1, OrderedFacts
  <2> QED BY <2>1, <2>2 DEF NoResult, IsEmpty
<1>2. CASE ordered # <<>>
  <2>1. FirstNonEmpty(values, priority) =
          [value |-> ordered[1].value, winner |-> ordered[1].source,
           contributing |-> <<ordered[1].source>>, conflict |-> FALSE]
    BY <1>2 DEF FirstNonEmpty
  <2>2. \E i \in Full(values) : ordered[1] = values[i]
    BY <1>2, OrderedFacts
  <2> HIDE DEF ordered
  <2>3. Comes(ordered[1].value, ordered[1].source, values)
    BY <2>2 DEF Comes
  <2> QED BY <2>1, <2>3
<1> QED BY <1>1, <1>2

\* Of finitely many scores one is the highest, and of those the first.
LEMMA HighestScore ==
  ASSUME NEW n \in Nat, n # 0, NEW score, \A i \in 1..n : score[i] \in Nat
  PROVE  \E i \in 1..n : \A j \in 1..n :
           score[i] > score[j] \/ (score[i] = score[j] /\ i <= j)
<1> DEFINE Best(m) == m = 0 \/ \E i \in 1..m : \A j \in 1..m :
                        score[i] > score[j] \/ (score[i] = score[j] /\ i <= j)
           Known == {m \in Nat : m <= n => Best(m)}
<1>1. 0 \in Known
  OBVIOUS
<1>2. ASSUME NEW m \in Nat, m \in Known PROVE m + 1 \in Known
  <2> SUFFICES ASSUME m + 1 <= n PROVE Best(m + 1)
    OBVIOUS
  <2>1. CASE m = 0
    <3>1. 1..(m + 1) = {1}
      BY <2>1
    <3> QED BY <3>1
  <2>2. CASE m # 0
    <3>1. PICK i \in 1..m : \A j \in 1..m :
            score[i] > score[j] \/ (score[i] = score[j] /\ i <= j)
      BY <1>2, <2>2
    <3>2. score[i] \in Nat /\ score[m + 1] \in Nat /\ \A j \in 1..m : score[j] \in Nat
      OBVIOUS
    <3>3. CASE score[m + 1] > score[i]
      <4>1. \A j \in 1..(m + 1) : score[m + 1] > score[j] \/ j = m + 1
        BY <3>1, <3>2, <3>3
      <4> QED BY <3>2, <4>1
    <3>4. CASE ~(score[m + 1] > score[i])
      BY <3>1, <3>2, <3>4
    <3> QED BY <3>3, <3>4
  <2> QED BY <2>1, <2>2
<1> HIDE DEF Known
<1>3. n \in Known
  BY <1>1, <1>2, SetInduction
<1> QED BY <1>3 DEF Known

LEMMA HighestConfidenceDecides ==
  ASSUME NEW T, NEW values \in Seq(T), NEW priority, IsSequence(priority),
         \A i \in DOMAIN values : values[i].confidence \in Nat \cup {None}
  PROVE  LET result == HighestConfidence(values, priority)
         IN  /\ result.conflict <=> DisagreeIn(values)
             /\ ~IsEmpty(result.value) \/ Full(values) # {} =>
                  Comes(result.value, result.winner, values)
<1> DEFINE ordered == Ordered(values, priority)
           scored == Scored(ordered)
           having == {p \in DOMAIN ordered : ordered[p].confidence # None}
           best == MostConfident(scored)
<1>1. CASE scored = <<>>
  <2>1. HighestConfidence(values, priority) = SourcePriority(values, priority)
    BY <1>1 DEF HighestConfidence
  <2> QED BY <2>1, SourcePriorityDecides
<1>2. CASE scored # <<>>
  <2>1. HighestConfidence(values, priority) =
          [value |-> best.value, winner |-> best.source,
           contributing |-> Sources(ordered), conflict |-> Disagreement(ordered)]
    BY <1>2 DEF HighestConfidence
  <2>2. /\ ordered \in Seq(T)
        /\ \A p \in DOMAIN ordered : \E i \in Full(values) : ordered[p] = values[i]
        /\ Disagreement(ordered) <=> DisagreeIn(values)
    BY OrderedFacts
  <2>3. scored = At(ordered, having)
    BY DEF Scored
  <2> HIDE DEF ordered
  <2>4. scored \in Seq(T) /\ \E from : Picks(scored, ordered, having, from)
    <3> HIDE DEF scored, having
    <3> QED BY <2>2, <2>3, AtPicks
  <2>5. PICK from : Picks(scored, ordered, having, from)
    BY <2>4
  <2> HIDE DEF scored
  <2>6. \A p \in DOMAIN scored : \E i \in Full(values) :
          scored[p] = values[i] /\ values[i].confidence \in Nat
    BY <2>2, <2>5 DEF Picks, Full
  <2>7. \E p \in DOMAIN scored : best = scored[p]
    <3> DEFINE n == Len(scored)
               score == [p \in 1..n |-> scored[p].confidence]
    <3>1. n \in Nat /\ n # 0 /\ DOMAIN scored = 1..n
      BY <1>2, <2>4, EmptySeq
    <3>2. \A p \in 1..n : score[p] \in Nat /\ score[p] = scored[p].confidence
      BY <2>6, <3>1
    <3> HIDE DEF n, score
    <3>3. \E p \in 1..n : \A q \in 1..n :
            score[p] > score[q] \/ (score[p] = score[q] /\ p <= q)
      BY <3>1, <3>2, HighestScore
    <3>4. \E p \in DOMAIN scored : \A q \in DOMAIN scored :
            \/ scored[p].confidence > scored[q].confidence
            \/ scored[p].confidence = scored[q].confidence /\ p <= q
      BY <3>1, <3>2, <3>3
    <3> QED BY <3>4 DEF MostConfident
  <2> HIDE DEF best
  <2>8. Comes(best.value, best.source, values)
    BY <2>6, <2>7 DEF Comes
  <2> QED BY <2>1, <2>2, <2>8
<1> QED BY <1>1, <1>2

\* A list is credited first to a best-ranked source that has one.
LEMMA UnionDecides ==
  ASSUME NEW T, NEW values \in Seq(T), NEW priority, IsSequence(priority), NEW merged
  PROVE  LET result == UnionStrategy(merged, values, priority)
         IN  /\ ~result.conflict /\ result.winner = None
             /\ ~IsEmpty(result.value) =>
                  /\ result.contributing # <<>>
                  /\ \E i \in Full(values) :
                       /\ result.contributing[1] = values[i].source
                       /\ \A j \in Full(values) :
                            Rank(priority, values[i].source) <= Rank(priority, values[j].source)
<1> DEFINE ordered == Ordered(values, priority)
<1>1. CASE NonEmpty(values) = <<>>
  BY <1>1 DEF UnionStrategy, NoResult, IsEmpty
<1>2. CASE NonEmpty(values) # <<>>
  <2>1. UnionStrategy(merged, values, priority) =
          [value |-> merged, winner |-> None,
           contributing |-> Sources(ordered), conflict |-> FALSE]
    BY <1>2 DEF UnionStrategy
  <2>2. Full(values) # {}
    <3>1. NonEmpty(values) = At(values, Full(values))
      BY DEF NonEmpty, Full
    <3>2. PICK from : Picks(NonEmpty(values), values, Full(values), from)
      BY <3>1, AtPicks
    <3>3. NonEmpty(values) \in Seq(T)
      BY <3>1, AtPicks
    <3>4. DOMAIN NonEmpty(values) # {}
      BY <1>2, <3>3, EmptySeq
    <3> QED BY <3>2, <3>4 DEF Picks
  <2>3. /\ ordered # <<>> /\ 1 \in DOMAIN ordered
        /\ \E i \in Full(values) :
             /\ ordered[1] = values[i]
             /\ \A j \in Full(values) :
                  Rank(priority, values[i].source) <= Rank(priority, values[j].source)
    BY <2>2, OrderedFacts
  <2> HIDE DEF ordered
  <2>4. Sources(ordered)[1] = ordered[1].source /\ DOMAIN Sources(ordered) # {}
    BY <2>3 DEF Sources
  <2>5. Sources(ordered) # <<>>
    BY <2>4
  <2> QED BY <2>1, <2>3, <2>4, <2>5
<1> QED BY <1>1, <1>2

-----------------------------------------------------------------------------
(* One field. *)

\* The candidates that have a value for the field.
Having(f) == {i \in DOMAIN batch : ~IsEmpty(batch[i].values[f])}

Disagreed(f) ==
  /\ \E i, j \in Having(f) : batch[i].values[f] # batch[j].values[f]
  /\ RuleFor(f).strategy \in {"source_priority", "highest_confidence"}

\* Candidate i supplies the value, or is of a best-ranked source if the value
\* is a list.
Supplies(i, f, value) ==
  IF Kind[f] = "scalar" THEN batch[i].values[f] = value
  ELSE \A j \in Having(f) : Rank(RuleFor(f).priority, batch[i].source)
                              <= Rank(RuleFor(f).priority, batch[j].source)

LEMMA TheBatch ==
  ASSUME batch \in Batches
  PROVE  batch \in Seq({batch[i] : i \in DOMAIN batch})
         /\ Len(batch) \in Nat /\ DOMAIN batch = 1..Len(batch)
<1>1. batch \in Seq({batch[i] : i \in DOMAIN batch})
  BY BatchesAssumption DEF IsSequence
<1> QED BY <1>1, LenProperties

LEMMA TheRule ==
  ASSUME policy \in Policies, NEW f
  PROVE  IsSequence(RuleFor(f).priority) /\ RuleFor(f).strategy \in Strategies
<1>1. RuleFor(f) \in {policy.default} \cup {policy.rules[g] : g \in DOMAIN policy.rules}
  BY DEF RuleFor
<1> QED BY <1>1, PoliciesAssumption

LEMMA TheValues ==
  ASSUME batch \in Batches, NEW f \in Fields
  PROVE  LET values == SourceValues(batch, f)
         IN  /\ values \in Seq({values[i] : i \in DOMAIN values})
             /\ DOMAIN values = DOMAIN batch /\ Full(values) = Having(f)
             /\ \A i \in DOMAIN values : /\ values[i].source = batch[i].source
                                         /\ values[i].value = batch[i].values[f]
                                         /\ values[i].confidence \in Nat \cup {None}
<1> DEFINE values == SourceValues(batch, f)
           n == Len(batch)
           S == {values[i] : i \in DOMAIN values}
<1>1. /\ values = [i \in DOMAIN batch |->
                     [source |-> batch[i].source, value |-> batch[i].values[f],
                      confidence |-> batch[i].confidence[f]]]
      /\ n \in Nat /\ DOMAIN batch = 1..n
  BY TheBatch DEF SourceValues
<1>2. DOMAIN values = 1..n /\ values = [i \in 1..n |-> values[i]]
  BY <1>1
<1>3. \A i \in DOMAIN values : /\ values[i].source = batch[i].source
                               /\ values[i].value = batch[i].values[f]
                               /\ values[i].confidence = batch[i].confidence[f]
  BY <1>1
<1> HIDE DEF values, n
<1>4. values \in [1..n -> S]
  BY <1>2
<1>5. values \in Seq(S)
  <2> HIDE DEF S
  <2> QED BY <1>1, <1>4, SeqDef
<1>6. Full(values) = Having(f)
  BY <1>1, <1>2, <1>3 DEF Full, Having
<1>7. \A i \in DOMAIN values : batch[i].confidence[f] \in Nat \cup {None}
  BY <1>1, <1>2, BatchesAssumption
<1> QED BY <1>1, <1>2, <1>3, <1>5, <1>6, <1>7 DEF values

\* A conflict is flagged exactly if candidates disagree and a choice is made; a
\* value is credited to the source of a candidate that supplies it.
LEMMA ResolveDecides ==
  ASSUME batch \in Batches, policy \in Policies, AllKnown, NEW f \in Fields, RuleFits(f)
  PROVE  LET result == Resolve(f, batch)
         IN  /\ result.conflict <=> Disagreed(f)
             /\ ~IsEmpty(result.value) =>
                  \E i \in Having(f) : /\ Winner(result) = batch[i].source
                                       /\ Supplies(i, f, result.value)
             /\ Kind[f] = "scalar" /\ Having(f) # {} => ~IsEmpty(result.value)
<1> DEFINE rule == RuleFor(f)
           values == SourceValues(batch, f)
           S == {values[i] : i \in DOMAIN values}
           combined == Combined(values, rule.priority)
           result == Resolve(f, batch)
<1>1. /\ values \in Seq(S) /\ DOMAIN values = DOMAIN batch /\ Full(values) = Having(f)
      /\ \A i \in DOMAIN values : /\ values[i].source = batch[i].source
                                  /\ values[i].value = batch[i].values[f]
                                  /\ values[i].confidence \in Nat \cup {None}
  BY TheValues
<1>2. IsSequence(rule.priority) /\ rule.strategy \in Strategies
  BY TheRule
<1>3. \A i \in Having(f) : i \in DOMAIN batch /\ batch[i].source # None
  BY BatchesAssumption DEF Having, AllKnown
<1>4. DisagreeIn(values) <=> \E i, j \in Having(f) : batch[i].values[f] # batch[j].values[f]
  BY <1>1, <1>3 DEF DisagreeIn
<1>5. ASSUME NEW value, NEW source, Comes(value, source, values)
      PROVE  \E i \in Having(f) : /\ source = batch[i].source /\ source # None
                                  /\ batch[i].values[f] = value
  BY <1>1, <1>3, <1>5 DEF Comes
<1>6. CASE Kind[f] = "scalar"
  <2>1. CASE rule.strategy = "source_priority"
    <3>1. result = SourcePriority(values, rule.priority)
      BY <1>6, <2>1 DEF Resolve
    <3> HIDE DEF result, values, rule
    <3>2. /\ result.conflict <=> DisagreeIn(values)
          /\ ~IsEmpty(result.value) \/ Full(values) # {} =>
               Comes(result.value, result.winner, values)
      BY <1>1, <1>2, <3>1, SourcePriorityDecides
    <3>3. result.conflict <=> Disagreed(f)
      BY <1>4, <2>1, <3>2 DEF Disagreed, rule
    <3>4. ~IsEmpty(result.value) =>
            \E i \in Having(f) : Winner(result) = batch[i].source /\ Supplies(i, f, result.value)
      BY <1>5, <1>6, <3>2 DEF Winner, Supplies
    <3>5. Having(f) # {} => ~IsEmpty(result.value)
      BY <1>1, <3>2 DEF Comes, Full
    <3> QED BY <3>3, <3>4, <3>5 DEF result
  <2>2. CASE rule.strategy = "first_non_empty"
    <3>1. result = FirstNonEmpty(values, rule.priority)
      BY <1>6, <2>2 DEF Resolve
    <3> HIDE DEF result, values, rule
    <3>2. /\ ~result.conflict
          /\ ~IsEmpty(result.value) \/ Full(values) # {} =>
               Comes(result.value, result.winner, values)
      BY <1>1, <1>2, <3>1, FirstNonEmptyDecides
    <3>3. result.conflict <=> Disagreed(f)
      BY <2>2, <3>2 DEF Disagreed, rule
    <3>4. ~IsEmpty(result.value) =>
            \E i \in Having(f) : Winner(result) = batch[i].source /\ Supplies(i, f, result.value)
      BY <1>5, <1>6, <3>2 DEF Winner, Supplies
    <3>5. Having(f) # {} => ~IsEmpty(result.value)
      BY <1>1, <3>2 DEF Comes, Full
    <3> QED BY <3>3, <3>4, <3>5 DEF result
  <2>3. CASE rule.strategy = "highest_confidence"
    <3>1. result = HighestConfidence(values, rule.priority)
      BY <1>6, <2>3 DEF Resolve
    <3> HIDE DEF result, values, rule
    <3>2. /\ result.conflict <=> DisagreeIn(values)
          /\ ~IsEmpty(result.value) \/ Full(values) # {} =>
               Comes(result.value, result.winner, values)
      BY <1>1, <1>2, <3>1, HighestConfidenceDecides
    <3>3. result.conflict <=> Disagreed(f)
      BY <1>4, <2>3, <3>2 DEF Disagreed, rule
    <3>4. ~IsEmpty(result.value) =>
            \E i \in Having(f) : Winner(result) = batch[i].source /\ Supplies(i, f, result.value)
      BY <1>5, <1>6, <3>2 DEF Winner, Supplies
    <3>5. Having(f) # {} => ~IsEmpty(result.value)
      BY <1>1, <3>2 DEF Comes, Full
    <3> QED BY <3>3, <3>4, <3>5 DEF result
  <2>4. rule.strategy # "union"
    BY <1>6 DEF RuleFits
  <2> QED BY <1>2, <2>1, <2>2, <2>3, <2>4 DEF Strategies
<1>7. CASE Kind[f] # "scalar"
  <2>1. PICK merged : result = UnionStrategy(merged, values, rule.priority)
    <3>1. Kind[f] = "flat" \/ Kind[f] = "structured"
      BY <1>7, FieldsAssumption
    <3>2. Kind[f] = "flat" => result = UnionStrategy(MergeFlat(combined), values, rule.priority)
      BY DEF Resolve
    <3>3. Kind[f] = "structured" =>
            result = UnionStrategy(MergeStructured(combined, rule.identity_keys), values,
                                   rule.priority)
      BY DEF Resolve
    <3> QED BY <3>1, <3>2, <3>3
  <2>2. rule.strategy = "union"
    BY <1>7, FieldsAssumption DEF RuleFits
  <2> HIDE DEF result, values
  <2>3. /\ ~result.conflict /\ result.winner = None
        /\ ~IsEmpty(result.value) =>
             /\ result.contributing # <<>>
             /\ \E i \in Full(values) :
                  /\ result.contributing[1] = values[i].source
                  /\ \A j \in Full(values) : Rank(rule.priority, values[i].source)
                                               <= Rank(rule.priority, values[j].source)
    <3> HIDE DEF rule
    <3> QED BY <1>1, <1>2, <2>1, UnionDecides
  <2>4. result.conflict <=> Disagreed(f)
    BY <2>2, <2>3 DEF Disagreed
  <2>5. ASSUME ~IsEmpty(result.value)
        PROVE  \E i \in Having(f) : /\ Winner(result) = batch[i].source
                                    /\ Supplies(i, f, result.value)
    <3>1. PICK i \in Having(f) :
            /\ result.contributing[1] = values[i].source
            /\ \A j \in Having(f) : Rank(rule.priority, values[i].source)
                                      <= Rank(rule.priority, values[j].source)
      BY <1>1, <2>3, <2>5
    <3>2. Winner(result) = values[i].source
      BY <2>3, <2>5, <3>1 DEF Winner
    <3>3. \A j \in Having(f) : values[j].source = batch[j].source
      BY <1>1, <1>3
    <3>4. Supplies(i, f, result.value)
      BY <1>7, <3>1, <3>3 DEF Supplies
    <3> QED BY <3>2, <3>3, <3>4
  <2> QED BY <1>7, <2>4, <2>5 DEF result
<1> QED BY <1>6, <1>7

-----------------------------------------------------------------------------
(* The order of the candidates. *)

\* Two sources a rule ranks alike are one.
LEMMA RanksTellSources ==
  ASSUME batch \in Batches, policy \in Policies, AllKnown, NEW f,
         NEW i \in DOMAIN batch, NEW j \in DOMAIN batch,
         Rank(RuleFor(f).priority, batch[i].source) = Rank(RuleFor(f).priority, batch[j].source)
  PROVE  batch[i].source = batch[j].source
<1> DEFINE rule == RuleFor(f)
           priority == rule.priority
<1>1. IsSequence(priority)
  BY TheRule
<1>2. rule \in {policy.default} \cup {policy.rules[g] : g \in DOMAIN policy.rules}
  BY DEF RuleFor
<1>3. \/ batch[i].source = batch[j].source
      \/ {batch[i].source, batch[j].source} \cap ToSet(rule.priority) # {}
  <2> HIDE DEF rule
  <2> QED BY <1>2, RanksAssumption DEF AllKnown
<1>4. Rank(priority, batch[i].source) = Rank(priority, batch[j].source)
  OBVIOUS
<1> HIDE DEF priority
<1>5. ASSUME NEW k \in {i, j}
      PROVE  /\ Len(priority) \in Nat
             /\ \/ /\ Rank(priority, batch[k].source) <= Len(priority)
                   /\ priority[Rank(priority, batch[k].source)] = batch[k].source
                \/ /\ Rank(priority, batch[k].source) = Len(priority) + 1
                   /\ batch[k].source \notin ToSet(priority)
  BY <1>1, RankIsPosition
<1> QED BY <1>3, <1>4, <1>5 DEF priority

\* One order, whichever end the candidates are taken from.
LEMMA OrderedMirrored ==
  ASSUME batch \in Batches, policy \in Policies, AllKnown, DistinctSources, NEW f \in Fields
  PROVE  LET values == SourceValues(batch, f)
             mirrored == SourceValues(Reverse(batch), f)
             priority == RuleFor(f).priority
         IN  /\ Ordered(mirrored, priority) = Ordered(values, priority)
             /\ NonEmpty(mirrored) = <<>> <=> NonEmpty(values) = <<>>
<1> DEFINE n == Len(batch)
           values == SourceValues(batch, f)
           mirrored == SourceValues(Reverse(batch), f)
           priority == RuleFor(f).priority
           T == {values[i] : i \in DOMAIN values}
           At_(i) == n - i + 1
<1>1. /\ values \in Seq(T) /\ DOMAIN values = 1..n /\ n \in Nat /\ DOMAIN batch = 1..n
      /\ \A i \in 1..n : values[i].source = batch[i].source
  BY TheValues, TheBatch
<1>2. IsSequence(priority)
  BY TheRule
<1>3. \A i \in 1..n : At_(i) \in 1..n /\ At_(At_(i)) = i
  BY <1>1
<1>4. /\ DOMAIN mirrored = 1..n /\ mirrored = [i \in 1..n |-> mirrored[i]]
      /\ \A i \in 1..n : mirrored[i] = values[At_(i)]
  <2>1. Reverse(batch) = [i \in 1..n |-> batch[At_(i)]]
    BY DEF Reverse
  <2>2. mirrored = [i \in 1..n |-> [source |-> batch[At_(i)].source,
                                    value |-> batch[At_(i)].values[f],
                                    confidence |-> batch[At_(i)].confidence[f]]]
    BY <2>1 DEF SourceValues
  <2> QED BY <1>1, <1>3, <2>2 DEF SourceValues
<1> HIDE DEF values, mirrored, n, priority
<1>5. mirrored \in Seq(T)
  <2>1. mirrored \in [1..n -> T]
    BY <1>1, <1>3, <1>4
  <2> HIDE DEF T
  <2> QED BY <1>1, <2>1, SeqDef
<1>6. /\ \A i \in Full(values) : \E j \in Full(mirrored) : values[i] = mirrored[j]
      /\ \A j \in Full(mirrored) : \E i \in Full(values) : mirrored[j] = values[i]
  <2> HIDE DEF At_
  <2>1. \A i \in 1..n : values[i] = mirrored[At_(i)]
    BY <1>3, <1>4
  <2>2. \A i \in Full(values) : At_(i) \in Full(mirrored)
    BY <1>1, <1>3, <1>4, <2>1 DEF Full
  <2>3. \A i \in Full(mirrored) : At_(i) \in Full(values)
    BY <1>1, <1>3, <1>4 DEF Full
  <2> QED BY <1>1, <1>4, <2>1, <2>2, <2>3 DEF Full
<1> DEFINE a == Ordered(values, priority)
           b == Ordered(mirrored, priority)
           rank == [v \in T |-> Rank(priority, v.source)]
<1>7. PICK f1 : a \in Seq(T) /\ Sorted(a, values, priority, f1)
  <2> HIDE DEF T
  <2> QED BY <1>1, <1>2, OrderedIsSorted
<1>8. PICK f2 : b \in Seq(T) /\ Sorted(b, mirrored, priority, f2)
  <2> HIDE DEF T
  <2> QED BY <1>2, <1>5, OrderedIsSorted
<1>9. rank \in [T -> Int] /\ \A v \in T : rank[v] = Rank(priority, v.source)
  <2>1. \A source : Rank(priority, source) \in Int
    BY <1>2, RankIsPosition
  <2> QED BY <2>1
<1>10. \A i, j \in 1..n :
         Rank(priority, values[i].source) = Rank(priority, values[j].source) => i = j
  <2> SUFFICES ASSUME NEW i \in 1..n, NEW j \in 1..n,
                      Rank(priority, values[i].source) = Rank(priority, values[j].source)
               PROVE  i = j
    OBVIOUS
  <2>1. batch[i].source = batch[j].source
    BY <1>1, RanksTellSources DEF priority
  <2> QED BY <1>1, <2>1 DEF DistinctSources
<1> HIDE DEF a, b, rank
<1>11. Ascending(a, rank)
  <2> SUFFICES ASSUME NEW p \in DOMAIN a, NEW q \in DOMAIN a, p < q
               PROVE  rank[a[p]] < rank[a[q]]
    BY DEF Ascending
  <2>1. /\ f1[p] \in 1..n /\ f1[q] \in 1..n /\ a[p] = values[f1[p]] /\ a[q] = values[f1[q]]
        /\ a[p] \in T /\ a[q] \in T
    BY <1>1, <1>7 DEF Sorted, Full
  <2>2. \/ Rank(priority, a[p].source) < Rank(priority, a[q].source)
        \/ Rank(priority, a[p].source) = Rank(priority, a[q].source) /\ f1[p] < f1[q]
    BY <1>7 DEF Sorted
  <2>3. ~(f1[p] < f1[q] /\ f1[p] = f1[q])
    BY <1>1, <2>1
  <2> QED BY <1>9, <1>10, <2>1, <2>2, <2>3
<1>12. Ascending(b, rank)
  <2> SUFFICES ASSUME NEW p \in DOMAIN b, NEW q \in DOMAIN b, p < q
               PROVE  rank[b[p]] < rank[b[q]]
    BY DEF Ascending
  <2>1. /\ f2[p] \in 1..n /\ f2[q] \in 1..n /\ b[p] = mirrored[f2[p]] /\ b[q] = mirrored[f2[q]]
        /\ b[p] \in T /\ b[q] \in T
    <3>1. f2[p] \in Full(mirrored) /\ f2[q] \in Full(mirrored)
          /\ b[p] = mirrored[f2[p]] /\ b[q] = mirrored[f2[q]]
      BY <1>8 DEF Sorted
    <3>2. b[p] \in T /\ b[q] \in T
      <4> HIDE DEF T
      <4> QED BY <1>8
    <3> QED BY <1>4, <3>1, <3>2 DEF Full
  <2>2. \/ Rank(priority, b[p].source) < Rank(priority, b[q].source)
        \/ Rank(priority, b[p].source) = Rank(priority, b[q].source) /\ f2[p] < f2[q]
    BY <1>8 DEF Sorted
  <2>3. Rank(priority, b[p].source) = Rank(priority, b[q].source) => At_(f2[p]) = At_(f2[q])
    BY <1>3, <1>4, <1>10, <2>1
  <2>4. ~(f2[p] < f2[q] /\ At_(f2[p]) = At_(f2[q]))
    BY <1>1, <2>1
  <2> QED BY <1>9, <2>1, <2>2, <2>3, <2>4
<1>13. /\ \A p \in DOMAIN a : \E q \in DOMAIN b : a[p] = b[q]
       /\ \A q \in DOMAIN b : \E p \in DOMAIN a : b[q] = a[p]
  <2>1. /\ \A p \in DOMAIN a : \E i \in Full(values) : a[p] = values[i]
        /\ \A i \in Full(values) : \E p \in DOMAIN a : a[p] = values[i]
    BY <1>7 DEF Sorted
  <2>2. /\ \A q \in DOMAIN b : \E j \in Full(mirrored) : b[q] = mirrored[j]
        /\ \A j \in Full(mirrored) : \E q \in DOMAIN b : b[q] = mirrored[j]
    BY <1>8 DEF Sorted
  <2> QED BY <1>6, <2>1, <2>2
<1>14. a = b
  <2> HIDE DEF T
  <2> QED BY <1>7, <1>8, <1>9, <1>11, <1>12, <1>13, AscendingIsUnique
<1>15. /\ NonEmpty(values) = <<>> <=> Full(values) = {}
       /\ NonEmpty(mirrored) = <<>> <=> Full(mirrored) = {}
  <2> HIDE DEF T
  <2> QED BY <1>1, <1>5, NonEmptyIsFull
<1> QED BY <1>6, <1>14, <1>15 DEF a, b, values, mirrored, priority

\* The policy alone decides, whichever strategy it names.
LEMMA ResolveMirrored ==
  ASSUME batch \in Batches, policy \in Policies, AllKnown, DistinctSources, NEW f \in Fields
  PROVE  Resolve(f, Reverse(batch)) = Resolve(f, batch)
<1> DEFINE values == SourceValues(batch, f)
           mirrored == SourceValues(Reverse(batch), f)
           priority == RuleFor(f).priority
<1>1. /\ Ordered(mirrored, priority) = Ordered(values, priority)
      /\ NonEmpty(mirrored) = <<>> <=> NonEmpty(values) = <<>>
  BY OrderedMirrored
<1>2. Combined(mirrored, priority) = Combined(values, priority)
  BY <1>1 DEF Combined
<1>3. SourcePriority(mirrored, priority) = SourcePriority(values, priority)
  BY <1>1 DEF SourcePriority
<1>4. FirstNonEmpty(mirrored, priority) = FirstNonEmpty(values, priority)
  BY <1>1 DEF FirstNonEmpty
<1>5. HighestConfidence(mirrored, priority) = HighestConfidence(values, priority)
  BY <1>1, <1>3 DEF HighestConfidence
<1>6. \A merged : UnionStrategy(merged, mirrored, priority) = UnionStrategy(merged, values, priority)
  BY <1>1 DEF UnionStrategy
<1> QED BY <1>2, <1>3, <1>4, <1>5, <1>6 DEF Resolve

-----------------------------------------------------------------------------
(* Unions. *)

\* Of the positions with key k, the first is among those picked and no other is.
FirstsPicked(positions, list, key, k) ==
  \A h \in DOMAIN list : key[h] = k =>
    (h \in positions <=> \A j \in 1..(h - 1) : key[j] # key[h])

OnePicked(some, from, key, k) ==
  \E p \in DOMAIN some : \A q \in DOMAIN some : key[from[q]] = k <=> q = p

\* Then exactly one of what is picked has the key.
LEMMA FirstsCover ==
  ASSUME NEW T, NEW list \in Seq(T), NEW key, NEW positions,
         NEW some, DOMAIN some \subseteq Int, NEW from,
         Picks(some, list, positions, from), NEW i \in DOMAIN list,
         FirstsPicked(positions, list, key, key[i])
  PROVE  OnePicked(some, from, key, key[i])
<1> DEFINE Alike == {h \in DOMAIN list : key[h] = key[i]}
<1>1. Len(list) \in Nat /\ DOMAIN list = 1..Len(list)
  OBVIOUS
<1>2. Alike \subseteq Nat /\ i \in Alike
  BY <1>1
<1>3. PICK first \in Alike : \A h \in Alike : first <= h
  <2> HIDE DEF Alike
  <2> QED BY <1>2, LeastElement
<1>4. \A h \in Alike : h \in positions <=> h = first
  <2> SUFFICES ASSUME NEW h \in Alike PROVE h \in positions <=> h = first
    OBVIOUS
  <2>1. h \in DOMAIN list /\ key[h] = key[i] /\ first \in DOMAIN list /\ key[first] = key[i]
    OBVIOUS
  <2>2. h \in positions <=> \A j \in 1..(h - 1) : key[j] # key[h]
    BY <2>1 DEF FirstsPicked
  <2>3. CASE h = first
    <3>1. \A j \in 1..(h - 1) : j \in DOMAIN list /\ ~(first <= j)
      BY <1>1, <2>1, <2>3
    <3> QED BY <1>3, <2>1, <2>2, <2>3, <3>1
  <2>4. CASE h # first
    <3>1. first \in 1..(h - 1)
      BY <1>1, <1>3, <2>1, <2>4
    <3> QED BY <2>1, <2>2, <2>4, <3>1
  <2> QED BY <2>3, <2>4
<1>5. first \in DOMAIN list \cap positions
  BY <1>3, <1>4
<1>6. PICK p \in DOMAIN some : from[p] = first
  BY <1>5 DEF Picks
<1>7. \A q \in DOMAIN some : key[from[q]] = key[i] <=> from[q] = first
  <2>1. \A q \in DOMAIN some : from[q] \in DOMAIN list \cap positions
    BY DEF Picks
  <2> QED BY <1>3, <1>4, <2>1
<1> QED BY <1>6, <1>7, PicksAreDistinct DEF OnePicked

\* What fills a gap is taken from an item.
LEMMA GatheredIsItem ==
  ASSUME NEW U, NEW list \in Seq(U), NEW i \in DOMAIN list, NEW keys
  PROVE  Gathered(list, i, keys) \in FilledFrom(U)
<1> SUFFICES ASSUME NEW a \in Attrs
             PROVE  Gathered(list, i, keys)[a] \in {item[b] : item \in U, b \in Attrs}
  BY DEF Gathered, FilledFrom
<1> DEFINE usable == {j \in DOMAIN list : /\ SameIdentity(list[j], list[i], keys)
                                          /\ list[j][a] \notin Blank}
<1>1. Gathered(list, i, keys)[a] = IF usable = {} THEN list[i][a] ELSE list[Min(usable)][a]
  BY DEF Gathered
<1>2. ASSUME usable # {} PROVE Min(usable) \in usable
  <2>1. usable \subseteq Nat
    OBVIOUS
  <2> HIDE DEF usable
  <2>2. \E x \in usable : \A y \in usable : x <= y
    BY <1>2, <2>1, LeastElement
  <2> QED BY <2>2 DEF Min
<1>3. usable \subseteq DOMAIN list /\ \A j \in DOMAIN list : list[j] \in U
  OBVIOUS
<1> HIDE DEF usable
<1> QED BY <1>1, <1>2, <1>3

\* Filling the gaps of an item leaves it its identity.
LEMMA GatheredKeepsIdentity ==
  ASSUME NEW T, NEW list \in Seq(T), NEW i \in DOMAIN list, NEW keys \in SUBSET Attrs
  PROVE  identity_key(Gathered(list, i, keys), keys) = identity_key(list[i], keys)
<1> SUFFICES ASSUME NEW a \in keys
             PROVE  Norm[Gathered(list, i, keys)[a]] = Norm[list[i][a]]
  BY DEF identity_key
<1> DEFINE usable == {j \in DOMAIN list : /\ SameIdentity(list[j], list[i], keys)
                                          /\ list[j][a] \notin Blank}
<1>1. Gathered(list, i, keys)[a] = IF usable = {} THEN list[i][a] ELSE list[Min(usable)][a]
  BY DEF Gathered
<1>2. ASSUME usable # {} PROVE Min(usable) \in usable
  <2>1. usable \subseteq Nat
    OBVIOUS
  <2> HIDE DEF usable
  <2>2. \E x \in usable : \A y \in usable : x <= y
    BY <1>2, <2>1, LeastElement
  <2> QED BY <2>2 DEF Min
<1>3. \A j \in usable : Norm[list[j][a]] = Norm[list[i][a]]
  BY DEF SameIdentity, identity_key
<1> HIDE DEF usable
<1> QED BY <1>1, <1>2, <1>3

\* The items of all values are the items of the concatenation.
LEMMA CombinedHasAll ==
  ASSUME NEW T, NEW values \in Seq(T), NEW priority, IsSequence(priority), NEW U,
         \A i \in Full(values) : values[i].value \in Seq(U)
  PROVE  /\ Combined(values, priority) \in Seq(U)
         /\ \A i \in Full(values) : \A j \in DOMAIN values[i].value :
              \E p \in DOMAIN Combined(values, priority) :
                Combined(values, priority)[p] = values[i].value[j]
<1> DEFINE ordered == Ordered(values, priority)
           seqs == [p \in DOMAIN ordered |-> ordered[p].value]
<1>1. ordered \in Seq(T) /\ \E from : Sorted(ordered, values, priority, from)
  BY OrderedIsSorted
<1> HIDE DEF ordered
<1>2. PICK from : Sorted(ordered, values, priority, from)
  BY <1>1
<1>3. \A p \in DOMAIN ordered : ordered[p].value \in Seq(U)
  BY <1>2 DEF Sorted
<1>4. seqs \in Seq(Seq(U)) /\ DOMAIN seqs = 1..Len(seqs) /\ Len(seqs) \in Nat
      /\ DOMAIN seqs = DOMAIN ordered
  <2>1. Len(ordered) \in Nat /\ DOMAIN ordered = 1..Len(ordered)
    BY <1>1
  <2>2. seqs \in [1..Len(ordered) -> Seq(U)]
    BY <1>3, <2>1
  <2> HIDE DEF seqs
  <2>3. seqs \in Seq(Seq(U)) /\ DOMAIN seqs = DOMAIN ordered
    BY <2>1, <2>2, SeqDef
  <2> QED BY <2>3
<1>5. Combined(values, priority) = FlattenSeq(seqs)
  BY DEF Combined, ordered
<1>6. \A p \in DOMAIN ordered : seqs[p] = ordered[p].value
  OBVIOUS
<1> HIDE DEF seqs
<1>7. FlattenSeq(seqs) \in Seq(U)
      /\ \E whose, place : Places(FlattenSeq(seqs), seqs, Len(seqs), whose, place)
  BY <1>4, FlattenPlaces
<1>8. PICK whose, place : Places(FlattenSeq(seqs), seqs, Len(seqs), whose, place)
  BY <1>7
<1>9. ASSUME NEW i \in Full(values), NEW j \in DOMAIN values[i].value
      PROVE  \E p \in DOMAIN FlattenSeq(seqs) : FlattenSeq(seqs)[p] = values[i].value[j]
  <2>1. PICK q \in DOMAIN ordered : ordered[q] = values[i]
    BY <1>2 DEF Sorted
  <2>2. q \in 1..Len(seqs) /\ j \in DOMAIN seqs[q] /\ seqs[q] = values[i].value
    BY <1>4, <1>6, <2>1
  <2>3. PICK p \in DOMAIN FlattenSeq(seqs) : whose[p] = q /\ place[p] = j
    BY <1>8, <2>2 DEF Places
  <2>4. FlattenSeq(seqs)[p] = seqs[q][j]
    BY <1>8, <2>3 DEF Places
  <2> QED BY <2>2, <2>4
<1> QED BY <1>5, <1>7, <1>9

\* What the items of a field's lists are drawn from, and that each of them is
\* in the list the resolver merges.
LEMMA TheItems ==
  ASSUME batch \in Batches, policy \in Policies, AllKnown, NEW f \in Fields, Kind[f] # "scalar"
  PROVE  LET combined == Combined(SourceValues(batch, f), RuleFor(f).priority)
         IN  /\ combined \in Seq(ItemsOf(batch, f))
             /\ \A i \in DOMAIN batch : \A item \in ToSet(batch[i].values[f]) :
                  i \in Having(f) /\ \E p \in DOMAIN combined : combined[p] = item
<1> DEFINE values == SourceValues(batch, f)
           priority == RuleFor(f).priority
           T == {values[i] : i \in DOMAIN values}
           U == ItemsOf(batch, f)
<1>1. /\ values \in Seq(T) /\ DOMAIN values = DOMAIN batch /\ Full(values) = Having(f)
      /\ \A i \in DOMAIN batch : values[i].value = batch[i].values[f]
  BY TheValues
<1>2. IsSequence(priority)
  BY TheRule
<1>3. ASSUME NEW i \in DOMAIN batch
      PROVE  /\ batch[i].values[f] \in Seq(U)
             /\ \A item \in ToSet(batch[i].values[f]) :
                  \E j \in DOMAIN batch[i].values[f] : item = batch[i].values[f][j]
  <2> DEFINE list == batch[i].values[f]
  <2>1. list \in Seq({list[j] : j \in DOMAIN list})
    BY CandidatesAssumption DEF IsSequence
  <2>2. \A j \in DOMAIN list : list[j] \in U
    BY DEF ItemsOf, ToSet
  <2>3. list \in Seq(U)
    <3> HIDE DEF list, U
    <3> QED BY <2>1, <2>2, LenProperties, SeqDef
  <2> QED BY <2>3 DEF ToSet
<1>4. ASSUME NEW i \in DOMAIN batch, NEW item \in ToSet(batch[i].values[f])
      PROVE  i \in Having(f)
  <2>1. batch[i].values[f] # <<>>
    BY <1>4 DEF ToSet
  <2>2. batch[i].values[f] # None
    BY CandidatesAssumption
  <2> QED BY <2>1, <2>2 DEF Having, IsEmpty
<1> HIDE DEF T, U, values
<1>5. \A i \in Full(values) : values[i].value \in Seq(U)
  BY <1>1, <1>3 DEF Having
<1>6. /\ Combined(values, priority) \in Seq(U)
      /\ \A i \in Full(values) : \A j \in DOMAIN values[i].value :
           \E p \in DOMAIN Combined(values, priority) :
             Combined(values, priority)[p] = values[i].value[j]
  BY <1>1, <1>2, <1>5, CombinedHasAll
<1>7. ASSUME NEW i \in DOMAIN batch, NEW item \in ToSet(batch[i].values[f])
      PROVE  \E p \in DOMAIN Combined(values, priority) : Combined(values, priority)[p] = item
  <2>1. PICK j \in DOMAIN batch[i].values[f] : item = batch[i].values[f][j]
    BY <1>3
  <2>2. i \in Full(values) /\ values[i].value = batch[i].values[f]
    BY <1>1, <1>4
  <2> QED BY <1>6, <2>1, <2>2
<1> QED BY <1>4, <1>6, <1>7 DEF values, U

\* Each item of each list is in the union once, under its key.
LEMMA UnionHasEachItem ==
  ASSUME batch \in Batches, policy \in Policies, AllKnown, NEW f \in Fields, RuleFits(f),
         Kind[f] # "scalar", NEW i \in DOMAIN batch, NEW item \in ToSet(batch[i].values[f])
  PROVE  LET chosen == Resolve(f, batch).value
         IN  /\ ~IsEmpty(chosen)
             /\ \E j \in DOMAIN chosen : \A k \in DOMAIN chosen :
                  SameThing(f, item, chosen[k]) <=> k = j
<1> DEFINE values == SourceValues(batch, f)
           rule == RuleFor(f)
           combined == Combined(values, rule.priority)
           U == ItemsOf(batch, f)
           chosen == Resolve(f, batch).value
<1>1. i \in Having(f)
  BY TheItems
<1>2. combined \in Seq(U)
  BY TheItems
<1>3. PICK p \in DOMAIN combined : combined[p] = item
  BY TheItems
<1>4. NonEmpty(values) # <<>>
  <2>1. /\ values \in Seq({values[j] : j \in DOMAIN values}) /\ Full(values) = Having(f)
    BY TheValues
  <2> HIDE DEF values
  <2> QED BY <1>1, <2>1, NonEmptyIsFull
<1>5. rule.identity_keys \in SUBSET Attrs
  <2>1. rule \in {policy.default} \cup {policy.rules[g] : g \in DOMAIN policy.rules}
    BY DEF RuleFor
  <2> HIDE DEF rule
  <2> QED BY <2>1, KeysAssumption
<1>6. None \notin Seq(U)
  <2>1. NoneIsNoListOf(U)
    BY NoneAssumption
  <2> QED BY <2>1 DEF NoneIsNoListOf
<1>7. ASSUME Kind[f] = "structured" PROVE NoneIsNoListOf(FilledFrom(U))
  BY <1>7, NoneAssumption
<1> HIDE DEF U
<1>8. CASE Kind[f] = "flat"
  <2> DEFINE positions == {q \in DOMAIN combined :
                             /\ CaseFold[combined[q]] # ""
                             /\ \A j \in 1..(q - 1) : CaseFold[combined[j]] # CaseFold[combined[q]]}
             key == [q \in DOMAIN combined |-> CaseFold[combined[q]]]
  <2>1. chosen = At(combined, positions)
    BY <1>4, <1>8 DEF Resolve, UnionStrategy, MergeFlat, Deduplicated
  <2>2. CaseFold[item] # ""
    BY <1>8, CandidatesAssumption DEF ToSet
  <2> HIDE DEF combined, chosen
  <2>3. chosen \in Seq(U) /\ \E from : Picks(chosen, combined, positions, from)
    <3> HIDE DEF positions
    <3> QED BY <1>2, <2>1, AtPicks
  <2>4. PICK from : Picks(chosen, combined, positions, from)
    BY <2>3
  <2>5. FirstsPicked(positions, combined, key, key[p])
    <3>1. \A h \in DOMAIN combined : \A j \in 1..(h - 1) : j \in DOMAIN combined
      BY <1>2
    <3> QED BY <1>3, <2>2, <3>1 DEF FirstsPicked
  <2>6. DOMAIN chosen \subseteq Int
    <3> HIDE DEF positions, key
    <3> QED BY <2>3
  <2>7. \A k \in DOMAIN chosen : key[from[k]] = CaseFold[chosen[k]]
    BY <2>4 DEF Picks
  <2>8. key[p] = CaseFold[item]
    BY <1>3
  <2> HIDE DEF key, positions
  <2>9. OnePicked(chosen, from, key, key[p])
    BY <1>2, <1>3, <2>4, <2>5, <2>6, FirstsCover
  <2>10. chosen # None
    BY <1>6, <2>3
  <2>11. chosen # <<>>
    BY <2>9 DEF OnePicked
  <2> QED BY <1>8, <2>7, <2>8, <2>9, <2>10, <2>11 DEF OnePicked, SameThing, IsEmpty, chosen
<1>9. CASE Kind[f] # "flat"
  <2> DEFINE keys == rule.identity_keys
             gathered == [q \in DOMAIN combined |-> Gathered(combined, q, keys)]
             positions == {q \in DOMAIN combined :
                             \A j \in 1..(q - 1) : ~SameIdentity(combined[j], combined[q], keys)}
             key == [q \in DOMAIN combined |-> identity_key(combined[q], keys)]
  <2>1. chosen = At(gathered, positions)
    <3>1. Kind[f] = "structured"
      BY <1>9, FieldsAssumption
    <3> QED BY <1>4, <3>1 DEF Resolve, UnionStrategy, MergeStructured
  <2> HIDE DEF combined, chosen, rule
  <2> DEFINE V == FilledFrom(U)
  <2>2. DOMAIN gathered = DOMAIN combined
    BY DEF gathered
  <2>3. gathered \in Seq(V)
    <3> DEFINE n == Len(combined)
    <3>1. n \in Nat /\ DOMAIN combined = 1..n
      BY <1>2
    <3>2. DOMAIN gathered = 1..n /\ gathered = [q \in 1..n |-> gathered[q]]
      BY <3>1
    <3>4. \A q \in 1..n : gathered[q] \in V
      <4>1. \A q \in DOMAIN combined : Gathered(combined, q, keys) \in V
        <5> HIDE DEF U, keys
        <5> QED BY <1>2, GatheredIsItem
      <4> QED BY <3>1, <4>1
    <3> HIDE DEF n, gathered, V
    <3>5. gathered \in [1..n -> V]
      BY <3>2, <3>4
    <3> QED BY <3>1, <3>5, SeqDef
  <2>4. \A q \in DOMAIN combined : gathered[q] = Gathered(combined, q, keys)
    OBVIOUS
  <2> HIDE DEF gathered, V
  <2>5. chosen \in Seq(V) /\ \E from : Picks(chosen, gathered, positions, from)
    <3> HIDE DEF positions
    <3> QED BY <2>1, <2>3, AtPicks
  <2>6. PICK from : Picks(chosen, gathered, positions, from)
    BY <2>5
  <2>7. FirstsPicked(positions, gathered, key, key[p])
    <3>1. \A h \in DOMAIN combined : \A j \in 1..(h - 1) : j \in DOMAIN combined
      BY <1>2
    <3> QED BY <2>2, <3>1 DEF FirstsPicked, SameIdentity
  <2>8. DOMAIN chosen \subseteq Int
    <3> HIDE DEF positions, key
    <3> QED BY <2>5
  <2>9. \A k \in DOMAIN chosen : key[from[k]] = identity_key(chosen[k], keys)
    <3>1. \A k \in DOMAIN chosen : from[k] \in DOMAIN combined /\ chosen[k] = gathered[from[k]]
      BY <2>2, <2>6 DEF Picks
    <3>2. \A q \in DOMAIN combined :
            identity_key(gathered[q], keys) = identity_key(combined[q], keys)
      BY <1>2, <1>5, <2>4, GatheredKeepsIdentity
    <3> QED BY <3>1, <3>2
  <2>10. key[p] = identity_key(item, keys)
    BY <1>3
  <2> HIDE DEF key, positions
  <2>11. OnePicked(chosen, from, key, key[p])
    BY <1>3, <2>2, <2>3, <2>6, <2>7, <2>8, FirstsCover
  <2>12. chosen # None
    <3>1. Kind[f] = "structured"
      BY <1>9, FieldsAssumption
    <3>2. None \notin Seq(V)
      BY <1>7, <3>1 DEF V, NoneIsNoListOf
    <3> QED BY <2>5, <3>2
  <2>13. chosen # <<>>
    BY <2>11 DEF OnePicked
  <2> QED BY <1>9, <2>9, <2>10, <2>11, <2>12, <2>13
          DEF OnePicked, SameThing, SameIdentity, IsEmpty, chosen, rule
<1> QED BY <1>8, <1>9

-----------------------------------------------------------------------------
(* The whole merge. *)

\* The warnings and the conflicts that are recorded are the disagreements over
\* which a strategy compared the values.
DisagreementsOf(i) ==
  /\ records[i].conflict <=> Disagreed(records[i].field)
  /\ records[i].conflict <=> \E j \in DOMAIN warnings : warnings[j] = records[i].field

ConflictsTell == \A i \in DOMAIN records : DisagreementsOf(i)

\* The batch is one that was handed over, what is listed is listed in order,
\* and only fields that were resolved are warned about.
MergeInv ==
  /\ batch \in Batches /\ TypeOK
  /\ IsSequence(records) /\ IsSequence(warnings)
  /\ records # <<>> => AllKnown
  /\ \A j \in DOMAIN warnings : \E i \in DOMAIN records : warnings[j] = records[i].field
  /\ ConflictsTell
  /\ ProvenanceFollowsValue

LEMMA TheFields ==
  /\ Len(FieldOrder) \in Nat /\ DOMAIN FieldOrder = 1..Len(FieldOrder)
  /\ \A i \in 1..Len(FieldOrder) : FieldOrder[i] \in Fields
  /\ \A i, j \in 1..Len(FieldOrder) : FieldOrder[i] = FieldOrder[j] => i = j
<1>1. FieldOrder \in Seq({FieldOrder[i] : i \in DOMAIN FieldOrder})
  BY FieldsAssumption DEF IsSequence
<1>2. Len(FieldOrder) \in Nat /\ DOMAIN FieldOrder = 1..Len(FieldOrder)
  BY <1>1, LenProperties
<1> QED BY <1>2, FieldsAssumption DEF Fields

\* What a list longer by one holds.
LEMMA OneMore ==
  ASSUME NEW list, NEW element, IsSequence(list)
  PROVE  /\ IsSequence(Append(list, element))
         /\ Len(list) \in Nat /\ DOMAIN list = 1..Len(list)
         /\ Len(Append(list, element)) = Len(list) + 1
         /\ DOMAIN Append(list, element) = DOMAIN list \cup {Len(list) + 1}
         /\ \A i \in DOMAIN list : Append(list, element)[i] = list[i]
         /\ Append(list, element)[Len(list) + 1] = element
         /\ Append(list, element) # <<>>
<1> DEFINE longer == Append(list, element)
<1>1. PICK S : list \in Seq(S)
  BY DEF IsSequence
<1>2. list \in Seq(S \cup {element})
  BY <1>1, LenProperties, SeqDef
<1>3. longer \in Seq(S \cup {element})
  BY <1>2
<1>4. longer \in Seq({longer[i] : i \in DOMAIN longer})
  <2> HIDE DEF longer
  <2> QED BY <1>3, LenProperties, SeqDef
<1>5. /\ Len(longer) = Len(list) + 1
      /\ \A i \in DOMAIN list : longer[i] = list[i]
      /\ longer[Len(list) + 1] = element /\ longer # <<>>
  BY <1>2, <1>3, EmptySeq
<1>6. IsSequence(longer)
  <2> HIDE DEF longer
  <2> QED BY <1>4 DEF IsSequence
<1>7. Len(list) \in Nat /\ DOMAIN list = 1..Len(list) /\ DOMAIN longer = 1..Len(longer)
  <2> HIDE DEF longer
  <2> QED BY <1>2, <1>3, LenProperties
<1>8. DOMAIN longer = DOMAIN list \cup {Len(list) + 1}
  <2> HIDE DEF longer
  <2> QED BY <1>5, <1>7
<1> QED BY <1>5, <1>6, <1>7, <1>8

\* The field that is resolved next, its result, and where that goes.
LEMMA FieldResolved ==
  ASSUME MergeInv, ResolveField
  PROVE  LET f == FieldOrder[next]
             result == Resolve(f, batch)
         IN  /\ f \in Fields /\ next \in 1..Len(FieldOrder)
             /\ \A i \in DOMAIN records : records[i].field # f
             /\ f \notin DOMAIN kwargs
             /\ AllKnown /\ RuleFits(f) /\ batch \in Batches /\ policy \in Policies
             /\ UNCHANGED <<batch, policy, outcome, golden>>
             /\ next' = next + 1
             /\ records' = Append(records, Record(f, result))
             /\ warnings' = IF result.conflict THEN Append(warnings, f) ELSE warnings
             /\ ApplyResult(f, result)
<1>1. next \in 1..(Len(FieldOrder) + 1) /\ next <= Len(FieldOrder)
  BY DEF MergeInv, TypeOK, ResolveField
<1>2. next \in 1..Len(FieldOrder)
  BY <1>1, TheFields
<1>3. DOMAIN records = 1..(next - 1)
  BY <1>1 DEF MergeInv, TypeOK
<1>4. \A i \in DOMAIN records : records[i].field # FieldOrder[next]
  BY <1>2, <1>3, TheFields DEF MergeInv, TypeOK
<1>5. FieldOrder[next] \notin DOMAIN kwargs
  BY <1>2, TheFields DEF MergeInv, TypeOK
<1> QED BY <1>2, <1>4, <1>5, TheFields DEF MergeInv, TypeOK, ResolveField

\* The provenance is taken from the winner, whose source no other candidate
\* has.
LEMMA AppliedResult ==
  ASSUME MergeInv, ResolveField, DistinctSources,
         ~IsEmpty(Resolve(FieldOrder[next], batch).value)
  PROVE  LET f == FieldOrder[next]
             result == Resolve(f, batch)
         IN  /\ kwargs' = Put(kwargs, f, result.value)
             /\ \E i \in Having(f) : /\ provenance' = Put(provenance, f, Entry(batch[i], f))
                                     /\ Supplies(i, f, result.value)
<1> DEFINE f == FieldOrder[next]
           result == Resolve(f, batch)
           of == {j \in 1..Len(batch) : batch[j].source = Winner(result)}
<1>1. /\ f \in Fields /\ AllKnown /\ RuleFits(f)
      /\ batch \in Batches /\ policy \in Policies /\ ApplyResult(f, result)
  BY FieldResolved
<1>2. PICK i \in Having(f) : Winner(result) = batch[i].source /\ Supplies(i, f, result.value)
  <2> HIDE DEF f
  <2> QED BY <1>1, ResolveDecides DEF f
<1>3. DOMAIN batch = 1..Len(batch) /\ Len(batch) \in Nat /\ i \in DOMAIN batch
  BY <1>1, TheBatch DEF Having
<1>4. of = {i}
  BY <1>2, <1>3 DEF DistinctSources
<1>5. Min(of) = i
  BY <1>3, <1>4 DEF Min
<1>6. SelectInSeq(batch, LAMBDA c : c.source = Winner(result)) = i
  BY <1>4, <1>5 DEF SelectInSeq
<1>7. Entry(batch[i], f) # None
  BY <1>1, <1>3, BatchesAssumption DEF Entry, AllKnown, Having
<1>8. i # 0
  BY <1>3
<1> HIDE DEF result, f
<1>9. kwargs' = Put(kwargs, f, result.value) /\ provenance' = Put(provenance, f, Entry(batch[i], f))
  BY <1>1, <1>6, <1>7, <1>8 DEF ApplyResult, f, result
<1> QED BY <1>2, <1>9 DEF f, result

LEMMA ResolveFieldKeeps ==
  ASSUME MergeInv, ResolveField
  PROVE  MergeInv'
<1> PICK f : f = FieldOrder[next]
  OBVIOUS
<1> PICK last : last = Len(records) + 1
  OBVIOUS
<1> DEFINE result == Resolve(f, batch)
           record == Record(f, result)
<1>1. /\ f \in Fields /\ next \in 1..Len(FieldOrder)
      /\ \A i \in DOMAIN records : records[i].field # f
      /\ f \notin DOMAIN kwargs
      /\ AllKnown /\ RuleFits(f) /\ batch \in Batches /\ policy \in Policies
      /\ UNCHANGED <<batch, policy, outcome, golden>>
      /\ next' = next + 1
      /\ records' = Append(records, record)
      /\ warnings' = IF result.conflict THEN Append(warnings, f) ELSE warnings
      /\ ApplyResult(f, result)
  BY FieldResolved
<1>2. result.conflict <=> Disagreed(f)
  BY <1>1, ResolveDecides
<1>3. record.field = f /\ record.conflict = result.conflict
  BY DEF Record
<1> HIDE DEF result, record
<1>4. outcome = "running"
  BY DEF ResolveField
<1>5. /\ IsSequence(records')
      /\ Len(records') = Len(records) + 1 /\ Len(records) \in Nat
      /\ DOMAIN records' = DOMAIN records \cup {last} /\ last \in DOMAIN records'
      /\ DOMAIN records = 1..Len(records)
      /\ \A i \in DOMAIN records : records'[i] = records[i]
      /\ records'[last] = record
  <2>1. IsSequence(records)
    BY DEF MergeInv
  <2> QED BY <1>1, <2>1, OneMore
<1>6. /\ IsSequence(warnings')
      /\ \A j \in DOMAIN warnings : j \in DOMAIN warnings' /\ warnings'[j] = warnings[j]
      /\ \A j \in DOMAIN warnings' : \/ j \in DOMAIN warnings /\ warnings'[j] = warnings[j]
                                     \/ result.conflict /\ warnings'[j] = f
      /\ result.conflict => \E j \in DOMAIN warnings' : warnings'[j] = f
  <2>0. IsSequence(warnings)
    BY DEF MergeInv
  <2>1. CASE result.conflict
    <3>1. warnings' = Append(warnings, f)
      BY <1>1, <2>1
    <3> QED BY <2>0, <2>1, <3>1, OneMore
  <2>2. CASE ~result.conflict
    BY <1>1, <2>0, <2>2
  <2> QED BY <2>1, <2>2
<1>7. \A j \in DOMAIN warnings' : \E i \in DOMAIN records' : warnings'[j] = records'[i].field
  <2>1. \A j \in DOMAIN warnings : \E i \in DOMAIN records : warnings[j] = records[i].field
    BY DEF MergeInv
  <2>2. \A i \in DOMAIN records : i \in DOMAIN records' /\ records'[i] = records[i]
    BY <1>5
  <2>3. last \in DOMAIN records' /\ records'[last].field = f
    BY <1>3, <1>5
  <2> QED BY <1>6, <2>1, <2>2, <2>3
<1>8. ConflictsTell'
  <2>1. \A i \in DOMAIN records : DisagreementsOf(i)
    BY DEF MergeInv, ConflictsTell
  <2>2. \A g : Disagreed(g)' <=> Disagreed(g)
    BY <1>1 DEF Disagreed, Having, RuleFor
  <2>3. ASSUME NEW i \in DOMAIN records PROVE DisagreementsOf(i)'
    <3>1. records'[i] = records[i] /\ records[i].field # f
      BY <1>1, <1>5, <2>3
    <3>2. (\E j \in DOMAIN warnings' : warnings'[j] = records[i].field)
            <=> \E j \in DOMAIN warnings : warnings[j] = records[i].field
      BY <1>6, <3>1
    <3> QED BY <2>1, <2>2, <2>3, <3>1, <3>2 DEF DisagreementsOf
  <2>4. DisagreementsOf(last)'
    <3>1. \A j \in DOMAIN warnings : warnings[j] # f
      BY <1>1 DEF MergeInv
    <3>2. result.conflict <=> \E j \in DOMAIN warnings' : warnings'[j] = f
      BY <1>6, <3>1
    <3>3. records'[last].field = f /\ records'[last].conflict = result.conflict
      BY <1>3, <1>5
    <3> QED BY <1>2, <2>2, <3>2, <3>3 DEF DisagreementsOf
  <2>5. (\A i \in DOMAIN records : DisagreementsOf(i))'
    BY <1>5, <2>3, <2>4
  <2> QED BY <2>5 DEF ConflictsTell
<1>9. /\ DOMAIN kwargs \subseteq DOMAIN kwargs' /\ DOMAIN kwargs' \subseteq DOMAIN kwargs \cup {f}
      /\ \A g \in DOMAIN kwargs : kwargs'[g] = kwargs[g]
      /\ f \in DOMAIN kwargs' => ~IsEmpty(kwargs'[f])
      /\ DOMAIN provenance' \subseteq DOMAIN kwargs'
  <2>1. f \notin DOMAIN kwargs /\ DOMAIN provenance \subseteq DOMAIN kwargs
    BY <1>1 DEF MergeInv, TypeOK
  <2>2. CASE IsEmpty(result.value)
    BY <1>1, <2>1, <2>2 DEF ApplyResult
  <2>3. CASE ~IsEmpty(result.value)
    <3>1. kwargs' = Put(kwargs, f, result.value)
      BY <1>1, <2>3 DEF ApplyResult
    <3>2. DOMAIN provenance' \subseteq DOMAIN provenance \cup {f}
      BY <1>1, <2>3 DEF ApplyResult, Put
    <3> QED BY <2>1, <2>3, <3>1, <3>2 DEF Put
  <2> QED BY <2>2, <2>3
<1>10. ProvenanceFollowsValue'
  <2> DEFINE Follows(g) ==
               \E c \in Candidates :
                 /\ provenance[g] = Entry(c, g)
                 /\ IF Kind[g] = "scalar" THEN c.values[g] = kwargs[g]
                    ELSE \A d \in Candidates :
                           \/ IsEmpty(d.values[g])
                           \/ Rank(RuleFor(g).priority, c.source)
                                <= Rank(RuleFor(g).priority, d.source)
  <2> SUFFICES ASSUME DistinctSources
               PROVE  /\ DOMAIN provenance' = DOMAIN kwargs'
                      /\ \A g \in DOMAIN provenance' : Follows(g)'
    BY <1>1 DEF ProvenanceFollowsValue, DistinctSources
  <2>1. DOMAIN provenance = DOMAIN kwargs /\ \A g \in DOMAIN provenance : Follows(g)
    BY DEF MergeInv, ProvenanceFollowsValue
  <2>2. /\ Candidates' = Candidates
        /\ \A g : RuleFor(g)' = RuleFor(g)
        /\ \A c, g : Entry(c, g)' = Entry(c, g)
    BY <1>1 DEF Candidates, RuleFor, Entry
  <2>3. ASSUME NEW g, Follows(g), provenance'[g] = provenance[g], kwargs'[g] = kwargs[g]
        PROVE  Follows(g)'
    BY <2>2, <2>3
  <2>4. CASE IsEmpty(result.value)
    <3>1. UNCHANGED <<kwargs, provenance>>
      BY <1>1, <2>4 DEF ApplyResult
    <3> HIDE DEF Follows
    <3> QED BY <2>1, <2>3, <3>1
  <2>5. CASE ~IsEmpty(result.value)
    <3>1. kwargs' = Put(kwargs, f, result.value)
          /\ \E i \in Having(f) : /\ provenance' = Put(provenance, f, Entry(batch[i], f))
                                  /\ Supplies(i, f, result.value)
      BY <2>5, AppliedResult DEF result
    <3>2. PICK i \in Having(f) : /\ provenance' = Put(provenance, f, Entry(batch[i], f))
                                 /\ Supplies(i, f, result.value)
      BY <3>1
    <3>3. /\ DOMAIN provenance' = DOMAIN provenance \cup {f}
          /\ DOMAIN kwargs' = DOMAIN kwargs \cup {f}
          /\ provenance'[f] = Entry(batch[i], f) /\ kwargs'[f] = result.value
          /\ \A g \in DOMAIN kwargs : g # f => kwargs'[g] = kwargs[g]
          /\ \A g \in DOMAIN provenance : g # f => provenance'[g] = provenance[g]
      BY <3>1, <3>2 DEF Put
    <3>4. batch[i] \in Candidates
      BY DEF Candidates, Having
    <3>5. Kind[f] = "scalar" => batch[i].values[f] = kwargs'[f]
      BY <3>2, <3>3 DEF Supplies
    <3>6. Kind[f] # "scalar" =>
            \A d \in Candidates : \/ IsEmpty(d.values[f])
                                  \/ Rank(RuleFor(f).priority, batch[i].source)
                                       <= Rank(RuleFor(f).priority, d.source)
      BY <3>2 DEF Supplies, Candidates, Having
    <3>7. Follows(f)'
      BY <2>2, <3>3, <3>4, <3>5, <3>6
    <3>8. f \notin DOMAIN provenance
      BY <1>1, <2>1
    <3> HIDE DEF Follows
    <3>9. \A g \in DOMAIN provenance : Follows(g)'
      BY <2>1, <2>3, <3>3, <3>8
    <3> QED BY <2>1, <3>3, <3>7, <3>9
  <2> QED BY <2>4, <2>5
<1>11. TypeOK'
  <2>1. /\ policy' \in Policies /\ outcome' = "running" /\ golden' = None
    BY <1>1, <1>4 DEF MergeInv, TypeOK
  <2>2. /\ next' \in 1..(Len(FieldOrder) + 1) /\ Len(records') = next' - 1
        /\ Len(records) + 1 = next /\ next \in 1..Len(FieldOrder)
    BY <1>1, <1>5, TheFields DEF MergeInv, TypeOK
  <2>3. \A i \in DOMAIN records' : records'[i].field = FieldOrder[i]
    BY <1>3, <1>5, <2>2 DEF MergeInv, TypeOK
  <2>4. DOMAIN kwargs' \subseteq {FieldOrder[i] : i \in 1..(next' - 1)}
    <3>1. DOMAIN kwargs \subseteq {FieldOrder[i] : i \in 1..(next - 1)}
      BY DEF MergeInv, TypeOK
    <3>2. next' - 1 = next /\ next \in Nat
      BY <1>1, <2>2
    <3>3. \A i \in 1..(next - 1) : i \in 1..(next' - 1)
      BY <3>2
    <3>4. next \in 1..(next' - 1)
      <4>1. 1 <= next
        BY <2>2, TheFields
      <4> QED BY <3>2, <4>1
    <3> QED BY <1>9, <3>1, <3>3, <3>4
  <2>5. \A g \in DOMAIN kwargs' : ~IsEmpty(kwargs'[g])
    BY <1>9 DEF MergeInv, TypeOK
  <2> QED BY <1>9, <2>1, <2>2, <2>3, <2>4, <2>5 DEF TypeOK
<1>12. AllKnown' /\ batch' \in Batches
  BY <1>1 DEF AllKnown
<1> QED BY <1>5, <1>6, <1>7, <1>8, <1>10, <1>11, <1>12 DEF MergeInv

\* The steps that resolve no field change the outcome and the golden record only.
LEMMA OutcomeKeeps ==
  ASSUME MergeInv,
         UNCHANGED <<batch, policy, next, kwargs, provenance, records, warnings>>,
         outcome' \in {"running", "golden", "MergeError", "ValidationError"},
         golden' = IF outcome' # "golden" THEN None
                   ELSE [values |-> [f \in Fields |-> Constructed(f)], provenance |-> provenance]
  PROVE  MergeInv'
<1>1. \A f : Constructed(f)' = Constructed(f)
  BY DEF Constructed
<1>2. TypeOK'
  BY <1>1 DEF MergeInv, TypeOK
<1>3. ConflictsTell'
  BY DEF MergeInv, ConflictsTell, DisagreementsOf, Disagreed, Having, RuleFor
<1>4. ProvenanceFollowsValue'
  BY DEF MergeInv, ProvenanceFollowsValue, DistinctSources, Candidates, RuleFor, Entry
<1> QED BY <1>2, <1>3, <1>4 DEF MergeInv, AllKnown

LEMMA InitMergeInv ==
  ASSUME Init
  PROVE  MergeInv
<1>1. IsSequence(<<>>) /\ DOMAIN <<>> = {} /\ Len(<<>>) = 0
  BY DEF IsSequence
<1>2. DOMAIN records = {} /\ DOMAIN warnings = {} /\ DOMAIN kwargs = {} /\ DOMAIN provenance = {}
  BY DEF Init
<1>3. TypeOK
  BY <1>1, <1>2, TheFields DEF Init, TypeOK
<1> QED BY <1>1, <1>2, <1>3
        DEF Init, MergeInv, ConflictsTell, ProvenanceFollowsValue

LEMMA NextMergeInv ==
  ASSUME MergeInv, [Next]_vars
  PROVE  MergeInv'
<1>1. outcome \in {"running", "golden", "MergeError", "ValidationError"}
      /\ golden = IF outcome # "golden" THEN None
                  ELSE [values |-> [f \in Fields |-> Constructed(f)], provenance |-> provenance]
  BY DEF MergeInv, TypeOK
<1>2. CASE RefuseEmptyBatch
  BY <1>1, <1>2, OutcomeKeeps DEF RefuseEmptyBatch, Fail
<1>3. CASE ResolveField
  BY <1>3, ResolveFieldKeeps
<1>4. CASE RefuseField
  BY <1>1, <1>4, OutcomeKeeps DEF RefuseField, Fail
<1>5. CASE Construct
  BY <1>5, OutcomeKeeps DEF Construct
<1>6. CASE RefuseGolden
  BY <1>1, <1>6, OutcomeKeeps DEF RefuseGolden, FieldsDone, Fail
<1>7. CASE Returned \/ UNCHANGED vars
  BY <1>1, <1>7, OutcomeKeeps DEF Returned, vars
<1> QED BY <1>2, <1>3, <1>4, <1>5, <1>6, <1>7 DEF Next

\* In every reachable state the values, the provenance, the report and the golden
\* record are those of the fields resolved so far.
THEOREM TypeCorrect == Spec => []TypeOK
<1>1. MergeInv => TypeOK
  BY DEF MergeInv
<1> QED BY <1>1, InitMergeInv, NextMergeInv, PTL DEF Spec

\* With one candidate per source, the provenance of every field that has a value
\* is there and is that of a candidate that supplied it: the value itself for a
\* scalar, the best-ranked contribution for a list.
THEOREM ProvenanceFollowsValueHolds == Spec => []ProvenanceFollowsValue
<1>1. MergeInv => ProvenanceFollowsValue
  BY DEF MergeInv
<1> QED BY <1>1, InitMergeInv, NextMergeInv, PTL DEF Spec

-----------------------------------------------------------------------------
(* What the report and the values tell of the resolutions. *)

RecordOf(f) == Record(f, Resolve(f, batch))

ValueOf(f) == Resolve(f, batch).value

\* The report holds the resolutions themselves.
RecordsTell ==
  \A i \in DOMAIN records :
    LET f == records[i].field
    IN  f \in Fields /\ RuleFits(f) /\ records[i] = RecordOf(f)

\* The values are the resolved ones that are not empty.
ValuesTell ==
  \A i \in 1..(next - 1) :
    LET f == FieldOrder[i]
    IN  /\ RuleFits(f)
        /\ f \in DOMAIN kwargs <=> ~IsEmpty(ValueOf(f))
        /\ f \in DOMAIN kwargs => kwargs[f] = ValueOf(f)

ReportInv == MergeInv /\ RecordsTell /\ ValuesTell

\* What a field resolves to does not change.
LEMMA ResolutionsStay ==
  ASSUME UNCHANGED <<batch, policy>>
  PROVE  \A f : /\ RecordOf(f)' = RecordOf(f) /\ ValueOf(f)' = ValueOf(f)
                /\ RuleFits(f)' <=> RuleFits(f)
<1>1. \A f : RuleFor(f)' = RuleFor(f)
  BY DEF RuleFor
<1>2. \A f : Resolve(f, batch)' = Resolve(f, batch)
  BY <1>1 DEF Resolve
<1>3. \A f : SourceProvenance(f)' = SourceProvenance(f)
  BY DEF SourceProvenance, Entry
<1> QED BY <1>1, <1>2, <1>3 DEF RecordOf, ValueOf, Record, RuleFits

LEMMA ResolveFieldTells ==
  ASSUME ReportInv, ResolveField
  PROVE  RecordsTell' /\ ValuesTell'
<1> PICK f : f = FieldOrder[next]
  OBVIOUS
<1> PICK last : last = Len(records) + 1
  OBVIOUS
<1>1. /\ f \in Fields /\ next \in 1..Len(FieldOrder) /\ f \notin DOMAIN kwargs
      /\ RuleFits(f) /\ UNCHANGED <<batch, policy>> /\ next' = next + 1
      /\ records' = Append(records, RecordOf(f))
      /\ ApplyResult(f, Resolve(f, batch))
  BY FieldResolved DEF ReportInv, RecordOf
<1>2. \A g : /\ RecordOf(g)' = RecordOf(g) /\ ValueOf(g)' = ValueOf(g)
             /\ RuleFits(g)' <=> RuleFits(g)
  BY <1>1, ResolutionsStay
<1>3. RecordOf(f).field = f
  BY DEF RecordOf, Record
<1>4. /\ DOMAIN records' = DOMAIN records \cup {last}
      /\ \A i \in DOMAIN records : records'[i] = records[i]
      /\ records'[last] = RecordOf(f)
  BY <1>1, OneMore DEF ReportInv, MergeInv
<1>5. RecordsTell'
  BY <1>1, <1>2, <1>3, <1>4 DEF ReportInv, RecordsTell
<1>6. /\ \A g : g # f => (g \in DOMAIN kwargs' <=> g \in DOMAIN kwargs)
      /\ \A g \in DOMAIN kwargs : kwargs'[g] = kwargs[g]
      /\ f \in DOMAIN kwargs' <=> ~IsEmpty(ValueOf(f))
      /\ f \in DOMAIN kwargs' => kwargs'[f] = ValueOf(f)
  <2>1. CASE IsEmpty(ValueOf(f))
    BY <1>1, <2>1 DEF ApplyResult, ValueOf
  <2>2. CASE ~IsEmpty(ValueOf(f))
    <3>1. kwargs' = Put(kwargs, f, ValueOf(f))
      BY <1>1, <2>2 DEF ApplyResult, ValueOf
    <3> QED BY <1>1, <2>2, <3>1 DEF Put
  <2> QED BY <2>1, <2>2
<1>7. ValuesTell'
  <2> SUFFICES ASSUME NEW i \in 1..next
               PROVE  /\ RuleFits(FieldOrder[i])
                      /\ FieldOrder[i] \in DOMAIN kwargs' <=> ~IsEmpty(ValueOf(FieldOrder[i]))
                      /\ FieldOrder[i] \in DOMAIN kwargs' =>
                           kwargs'[FieldOrder[i]] = ValueOf(FieldOrder[i])
    <3>1. 1..(next' - 1) = 1..next
      BY <1>1, TheFields
    <3> QED BY <1>2, <3>1 DEF ValuesTell
  <2>1. CASE i = next
    BY <1>1, <1>6, <2>1
  <2>2. CASE i # next
    <3>1. i \in 1..(next - 1) /\ i \in 1..Len(FieldOrder)
      BY <1>1, <2>2, TheFields
    <3>2. FieldOrder[i] # f
      BY <1>1, <2>2, <3>1, TheFields
    <3> QED BY <1>6, <3>1, <3>2 DEF ReportInv, ValuesTell
  <2> QED BY <2>1, <2>2
<1> QED BY <1>5, <1>7

LEMMA InitReportInv ==
  ASSUME Init
  PROVE  ReportInv
<1>1. MergeInv
  BY InitMergeInv
<1>2. DOMAIN records = {} /\ 1..(next - 1) = {}
  BY DEF Init
<1> QED BY <1>1, <1>2 DEF ReportInv, RecordsTell, ValuesTell

LEMMA NextReportInv ==
  ASSUME ReportInv, [Next]_vars
  PROVE  ReportInv'
<1>1. MergeInv'
  BY NextMergeInv DEF ReportInv
<1>2. CASE ResolveField
  BY <1>1, <1>2, ResolveFieldTells DEF ReportInv
<1>3. CASE UNCHANGED <<batch, policy, next, kwargs, records>>
  <2>1. \A f : /\ RecordOf(f)' = RecordOf(f) /\ ValueOf(f)' = ValueOf(f)
               /\ RuleFits(f)' <=> RuleFits(f)
    BY <1>3, ResolutionsStay
  <2>2. RecordsTell' /\ ValuesTell'
    BY <1>3, <2>1 DEF ReportInv, RecordsTell, ValuesTell
  <2> QED BY <1>1, <2>2 DEF ReportInv
<1> QED BY <1>2, <1>3
        DEF Next, RefuseEmptyBatch, RefuseField, Construct, RefuseGolden, Returned, Fail, vars

\* With one candidate per source the policy alone decides: the candidates in the
\* opposite order would have given every field the same value, contributing
\* sources and conflict.
THEOREM OrderIrrelevantHolds == Spec => []OrderIrrelevant
<1>1. ReportInv => OrderIrrelevant
  <2> SUFFICES ASSUME ReportInv, DistinctSources, NEW i \in DOMAIN records
               PROVE  LET mirrored == Resolve(records[i].field, Reverse(batch))
                      IN  /\ records[i].chosen = mirrored.value
                          /\ records[i].contributing = mirrored.contributing
                          /\ records[i].conflict = mirrored.conflict
    BY DEF OrderIrrelevant
  <2>1. PICK f \in Fields : f = records[i].field /\ records[i] = RecordOf(f)
    BY DEF ReportInv, RecordsTell
  <2>2. batch \in Batches /\ policy \in Policies /\ AllKnown
    BY DEF ReportInv, MergeInv, TypeOK
  <2>3. Resolve(f, Reverse(batch)) = Resolve(f, batch)
    BY <2>2, ResolveMirrored
  <2> QED BY <2>1, <2>3 DEF RecordOf, Record
<1> QED BY <1>1, InitReportInv, NextReportInv, PTL DEF Spec

\* The last of some positions is one of them.
LEMMA LastIsThere ==
  ASSUME NEW n \in Nat, NEW P \in SUBSET (1..n), P # {}
  PROVE  Max(P) \in P
<1> DEFINE above == {x \in 0..n : \A p \in P : p <= x}
<1>1. n \in above
  OBVIOUS
<1>2. PICK x \in above : \A y \in above : x <= y
  <2>1. above \subseteq Nat
    OBVIOUS
  <2> HIDE DEF above
  <2> QED BY <1>1, <2>1, LeastElement
<1>3. x \in P
  <2> SUFFICES ASSUME x \notin P PROVE FALSE
    OBVIOUS
  <2>1. \A p \in P : p \in 1..n /\ p < x
    BY <1>2
  <2>2. x - 1 \in 0..n /\ \A p \in P : p <= x - 1
    <3>1. x \in 0..n
      OBVIOUS
    <3>2. PICK p \in P : TRUE
      OBVIOUS
    <3>3. p \in 1..n /\ p < x
      BY <2>1
    <3>4. x # 0
      BY <3>1, <3>3
    <3> QED BY <2>1, <3>1, <3>4
  <2>3. x - 1 \in above /\ ~(x <= x - 1)
    BY <2>2
  <2> QED BY <1>2, <2>3
<1>4. \E p \in P : \A q \in P : p >= q
  BY <1>2, <1>3
<1> QED BY <1>4 DEF Max

\* The record of a field names the sources that had a value for it, each with
\* the entry of a candidate that did.
LEMMA RecordTellsTheSources ==
  ASSUME batch \in Batches, AllKnown, NEW f \in Fields
  PROVE  LET told == SourceProvenance(f)
         IN  /\ DOMAIN told = {batch[i].source : i \in Having(f)}
             /\ \A s \in DOMAIN told : \E i \in Having(f) : /\ batch[i].source = s
                                                           /\ told[s] = Entry(batch[i], f)
<1> DEFINE having == {i \in DOMAIN batch : Entry(batch[i], f) # None}
           Of(s) == {i \in having : batch[i].source = s}
           told == SourceProvenance(f)
<1>1. having = Having(f)
  <2>1. \A i \in DOMAIN batch : batch[i].known /\ <<batch[i].id, f>> # None
    BY BatchesAssumption DEF AllKnown
  <2> QED BY <2>1 DEF Entry, Having
<1>2. told = [s \in {batch[i].source : i \in having} |-> Entry(batch[Max(Of(s))], f)]
  BY DEF SourceProvenance
<1>3. DOMAIN batch = 1..Len(batch) /\ Len(batch) \in Nat
  BY TheBatch
<1>4. ASSUME NEW s \in {batch[i].source : i \in having}
      PROVE  Max(Of(s)) \in Of(s)
  <2>1. Of(s) \in SUBSET (1..Len(batch)) /\ Of(s) # {}
    BY <1>3
  <2> HIDE DEF Of
  <2> QED BY <1>3, <2>1, LastIsThere
<1> HIDE DEF having, told
<1> QED BY <1>1, <1>2, <1>4 DEF told

\* Whatever the policy and the candidates: a conflict is recorded and warned about
\* exactly when the strategy of a field compared two values that differ; and where
\* it did not, the record still names each source that had a value, with the entry
\* of a candidate of that source.
THEOREM DisagreementsCanBeToldHolds == Spec => []DisagreementsCanBeTold
<1>1. ReportInv => DisagreementsCanBeTold
  <2> SUFFICES ASSUME ReportInv, NEW i \in DOMAIN records
               PROVE  LET f == records[i].field
                          having == {c \in Candidates : ~IsEmpty(c.values[f])}
                          disagree == \E c, d \in having : c.values[f] # d.values[f]
                          told == records[i].provenance
                      IN  /\ records[i].conflict <=>
                               disagree /\ RuleFor(f).strategy \notin {"first_non_empty", "union"}
                          /\ records[i].conflict <=> \E j \in DOMAIN warnings : warnings[j] = f
                          /\ DOMAIN told = {c.source : c \in having}
                          /\ \A s \in DOMAIN told : \E c \in having :
                               c.source = s /\ told[s] = Entry(c, f)
    BY DEF DisagreementsCanBeTold
  <2> DEFINE f == records[i].field
             having == {c \in Candidates : ~IsEmpty(c.values[f])}
             told == records[i].provenance
  <2>1. /\ batch \in Batches /\ policy \in Policies /\ AllKnown /\ f \in Fields
        /\ told = SourceProvenance(f)
        /\ DisagreementsOf(i)
    BY DEF ReportInv, MergeInv, TypeOK, RecordsTell, RecordOf, Record, ConflictsTell
  <2>2. having = {batch[j] : j \in Having(f)}
    BY DEF Candidates, Having
  <2>3. RuleFor(f).strategy \in Strategies
    BY <2>1, TheRule
  <2>4. (\E c, d \in having : c.values[f] # d.values[f])
          <=> \E j, k \in Having(f) : batch[j].values[f] # batch[k].values[f]
    BY <2>2
  <2>5. /\ DOMAIN told = {batch[j].source : j \in Having(f)}
        /\ \A s \in DOMAIN told : \E j \in Having(f) : /\ batch[j].source = s
                                                      /\ told[s] = Entry(batch[j], f)
    <3> HIDE DEF f, told
    <3> QED BY <2>1, RecordTellsTheSources
  <2> HIDE DEF told, having, f
  <2>6. DOMAIN told = {c.source : c \in having}
    BY <2>2, <2>5
  <2>7. \A s \in DOMAIN told : \E c \in having : c.source = s /\ told[s] = Entry(c, f)
    BY <2>2, <2>5
  <2>8. records[i].conflict <=> /\ \E c, d \in having : c.values[f] # d.values[f]
                                /\ RuleFor(f).strategy \notin {"first_non_empty", "union"}
    BY <2>1, <2>3, <2>4 DEF DisagreementsOf, Disagreed, Strategies, f
  <2>9. records[i].conflict <=> \E j \in DOMAIN warnings : warnings[j] = f
    BY <2>1 DEF DisagreementsOf, f
  <2> QED BY <2>6, <2>7, <2>8, <2>9 DEF f, having, told
<1> QED BY <1>1, InitReportInv, NextReportInv, PTL DEF Spec

\* Every item of every candidate's list is in the resolved list, under its key,
\* exactly once.
THEOREM UnionLosesNothingHolds == Spec => []UnionLosesNothing
<1>1. ReportInv => UnionLosesNothing
  <2> SUFFICES ASSUME ReportInv, NEW i \in DOMAIN records, Kind[records[i].field] # "scalar",
                      NEW c \in Candidates, NEW item \in ToSet(c.values[records[i].field])
               PROVE  \E j \in DOMAIN records[i].chosen : \A k \in DOMAIN records[i].chosen :
                        SameThing(records[i].field, item, records[i].chosen[k]) <=> k = j
    BY DEF UnionLosesNothing
  <2>1. PICK f \in Fields : f = records[i].field /\ records[i] = RecordOf(f) /\ RuleFits(f)
    BY DEF ReportInv, RecordsTell
  <2>2. batch \in Batches /\ policy \in Policies /\ AllKnown
    BY DEF ReportInv, MergeInv, TypeOK
  <2>3. PICK of \in DOMAIN batch : c = batch[of]
    BY DEF Candidates
  <2>4. records[i].chosen = Resolve(f, batch).value
    BY <2>1 DEF RecordOf, Record
  <2>5. PICK chosen : chosen = Resolve(f, batch).value
    OBVIOUS
  <2>6. \E j \in DOMAIN chosen : \A k \in DOMAIN chosen :
          SameThing(f, item, chosen[k]) <=> k = j
    BY <2>1, <2>2, <2>3, <2>5, UnionHasEachItem
  <2>7. records[i].chosen = chosen /\ records[i].field = f
    BY <2>1, <2>4, <2>5
  <2> QED BY <2>6, <2>7
<1> QED BY <1>1, InitReportInv, NextReportInv, PTL DEF Spec

-----------------------------------------------------------------------------
(* A single candidate. *)

\* The list of the only candidate is not made longer by putting it together.
LEMMA OneListCombined ==
  ASSUME NEW T, NEW values \in Seq(T), Len(values) = 1, Full(values) = {1},
         NEW U, values[1].value \in Seq(U), NEW priority, IsSequence(priority)
  PROVE  /\ Combined(values, priority) \in Seq(U)
         /\ Len(Combined(values, priority)) <= Len(values[1].value)
<1> DEFINE ordered == Ordered(values, priority)
           list == values[1].value
           seqs == [p \in DOMAIN ordered |-> ordered[p].value]
<1>1. ordered \in Seq(T) /\ \E from : Sorted(ordered, values, priority, from)
  BY OrderedIsSorted
<1>2. Combined(values, priority) = FlattenSeq(seqs)
  BY DEF Combined
<1> HIDE DEF ordered
<1>3. PICK from : Sorted(ordered, values, priority, from)
  BY <1>1
<1>4. \A p \in DOMAIN ordered : ordered[p] = values[1] /\ from[p] = 1
  BY <1>3 DEF Sorted
<1>5. \A p, q \in DOMAIN ordered : ~(p < q)
  <2> SUFFICES ASSUME NEW p \in DOMAIN ordered, NEW q \in DOMAIN ordered, p < q PROVE FALSE
    OBVIOUS
  <2>1. \/ Rank(priority, values[1].source) < Rank(priority, values[1].source)
        \/ 1 < 1
    BY <1>3, <1>4 DEF Sorted
  <2>2. Rank(priority, values[1].source) \in Nat
    BY RankIsPosition
  <2> QED BY <2>1, <2>2
<1>6. DOMAIN ordered = 1..Len(ordered) /\ Len(ordered) \in Nat
  BY <1>1
<1>7. DOMAIN ordered = {1}
  <2>1. DOMAIN ordered # {}
    BY <1>3 DEF Sorted
  <2>2. 1 \in DOMAIN ordered
    BY <1>6, <2>1
  <2> QED BY <1>5, <1>6, <2>2
<1>8. /\ Len(ordered) = 1
      /\ seqs = [p \in 1..1 |-> list]
  <2>1. \A p \in DOMAIN ordered : seqs[p] = list
    BY <1>4
  <2>2. 1..1 = {1} /\ seqs = [p \in {1} |-> seqs[p]] /\ seqs[1] = list
    BY <1>7, <2>1
  <2> HIDE DEF seqs, list
  <2>3. Len(ordered) = 1
    <3>1. 1 \in 1..Len(ordered)
      BY <1>6, <1>7
    <3>2. Len(ordered) \in 1..Len(ordered)
      BY <1>6, <3>1
    <3>3. Len(ordered) \in DOMAIN ordered
      BY <1>6, <3>2
    <3>4. \A n \in DOMAIN ordered : n = 1
      BY <1>7
    <3> QED BY <3>3, <3>4
  <2> QED BY <2>2, <2>3
<1> HIDE DEF seqs, list
<1>9. seqs \in [1..1 -> Seq(U)]
  BY <1>8 DEF list
<1>10. seqs \in Seq(Seq(U)) /\ Len(seqs) = 1
  BY <1>8, <1>9, SeqDef
<1>11. PICK whose, place : Places(FlattenSeq(seqs), seqs, 1, whose, place)
  BY <1>10, FlattenPlaces
<1>12. FlattenSeq(seqs) \in Seq(U)
  BY <1>10, FlattenPlaces
<1>13. /\ seqs[1] = list
       /\ \A p \in DOMAIN FlattenSeq(seqs) : whose[p] = 1
  BY <1>8, <1>11 DEF Places
<1>14. Picks(FlattenSeq(seqs), list, DOMAIN list, [p \in DOMAIN FlattenSeq(seqs) |-> place[p]])
  BY <1>11, <1>13 DEF Places, Picks
<1>15. Len(FlattenSeq(seqs)) <= Len(list)
  BY <1>12, <1>14, PicksAreFewer DEF list
<1> QED BY <1>2, <1>12, <1>15 DEF list

\* No list of a single candidate grows.
LEMMA OneListResolved ==
  ASSUME batch \in Batches, policy \in Policies, AllKnown, Len(batch) = 1,
         NEW f \in Fields, RuleFits(f), Kind[f] # "scalar", ~IsEmpty(ValueOf(f))
  PROVE  /\ \E V : ValueOf(f) \in Seq(V)
         /\ Len(ValueOf(f)) \in Nat /\ Len(ValueOf(f)) <= Len(batch[1].values[f])
<1> DEFINE values == SourceValues(batch, f)
           rule == RuleFor(f)
           combined == Combined(values, rule.priority)
           list == batch[1].values[f]
           U == {list[j] : j \in DOMAIN list}
           T == {values[i] : i \in DOMAIN values}
           value == ValueOf(f)
<1>1. DOMAIN batch = {1}
  BY TheBatch
<1>2. list \in Seq(U) /\ Len(list) \in Nat
  <2>1. IsSequence(list)
    BY <1>1, CandidatesAssumption
  <2> QED BY <2>1, LenProperties DEF IsSequence
<1>3. /\ values \in Seq(T) /\ DOMAIN values = {1} /\ Full(values) = Having(f)
      /\ values[1].value = list
  BY <1>1, TheValues
<1>4. IsSequence(rule.priority)
  BY TheRule
<1> HIDE DEF values, list, U, T
<1>5. Len(values) = 1
  <2>1. DOMAIN values = 1..Len(values) /\ Len(values) \in Nat
    BY <1>3, LenProperties
  <2> QED BY <1>3, <2>1
<1>6. NonEmpty(values) # <<>>
  <2> SUFFICES ASSUME NonEmpty(values) = <<>> PROVE FALSE
    OBVIOUS
  <2>1. Kind[f] \in {"flat", "structured"}
    BY FieldsAssumption
  <2>2. value = <<>>
    BY <2>1 DEF ValueOf, Resolve, UnionStrategy, NoResult, values
  <2> QED BY <2>2 DEF IsEmpty
<1>7. Full(values) = {1}
  <2>1. Full(values) # {}
    BY <1>3, <1>6, NonEmptyIsFull
  <2> QED BY <1>3, <2>1 DEF Full
<1>8. combined \in Seq(U) /\ Len(combined) <= Len(list)
  <2> HIDE DEF rule
  <2> QED BY <1>2, <1>3, <1>4, <1>5, <1>7, OneListCombined
<1>9. \E V, whole, positions : /\ whole \in Seq(V) /\ Len(whole) = Len(combined)
                               /\ value = At(whole, positions)
  <2>1. CASE Kind[f] = "flat"
    <3> DEFINE positions == {q \in DOMAIN combined :
                               /\ CaseFold[combined[q]] # ""
                               /\ \A j \in 1..(q - 1) : CaseFold[combined[j]] # CaseFold[combined[q]]}
    <3>1. value = At(combined, positions)
      BY <1>6, <2>1 DEF ValueOf, Resolve, UnionStrategy, MergeFlat, Deduplicated, values
    <3> HIDE DEF positions, combined, value
    <3> QED BY <1>8, <3>1
  <2>2. CASE Kind[f] # "flat"
    <3> DEFINE keys == rule.identity_keys
               gathered == [q \in DOMAIN combined |-> Gathered(combined, q, keys)]
               positions == {q \in DOMAIN combined :
                               \A j \in 1..(q - 1) : ~SameIdentity(combined[j], combined[q], keys)}
               V == FilledFrom(U)
    <3>1. Kind[f] = "structured"
      BY <2>2, FieldsAssumption
    <3>2. value = At(gathered, positions)
      BY <1>6, <3>1 DEF ValueOf, Resolve, UnionStrategy, MergeStructured, values
    <3> HIDE DEF combined, value, rule
    <3>3. \A q \in DOMAIN combined : Gathered(combined, q, keys) \in V
      <4> HIDE DEF keys
      <4> QED BY <1>8, GatheredIsItem
    <3>4. /\ gathered = [q \in 1..Len(combined) |-> gathered[q]] /\ Len(combined) \in Nat
          /\ \A q \in 1..Len(combined) : gathered[q] \in V
      BY <1>8, <3>3
    <3> HIDE DEF gathered, positions, V
    <3>5. gathered \in [1..Len(combined) -> V]
      BY <3>4
    <3>6. gathered \in Seq(V) /\ Len(gathered) = Len(combined)
      BY <3>4, <3>5, SeqDef
    <3> QED BY <3>2, <3>6
  <2> QED BY <2>1, <2>2
<1> HIDE DEF value, combined
<1>10. PICK V, whole, positions : /\ whole \in Seq(V) /\ Len(whole) = Len(combined)
                                  /\ value = At(whole, positions)
  BY <1>9
<1>11. value \in Seq(V) /\ \E from : Picks(value, whole, positions, from)
  BY <1>10, AtPicks
<1>12. Len(value) <= Len(whole) /\ Len(value) \in Nat
  BY <1>10, <1>11, PicksAreFewer
<1> QED BY <1>2, <1>8, <1>10, <1>11, <1>12 DEF value, list

\* The precondition of the single-source call.
Single == Len(batch) = 1 /\ AllKnown /\ \A f \in Fields : RuleFits(f)

\* Each field of the only candidate that has a value resolves to one, to the
\* same if it is a scalar; the others resolve to none.
LEMMA OneValueResolved ==
  ASSUME batch \in Batches, policy \in Policies, Single, NEW f \in Fields
  PROVE  /\ DOMAIN batch = {1}
         /\ IsEmpty(ValueOf(f)) <=> IsEmpty(batch[1].values[f])
         /\ Kind[f] = "scalar" /\ ~IsEmpty(ValueOf(f)) => ValueOf(f) = batch[1].values[f]
<1> DEFINE given == batch[1].values[f]
<1>1. DOMAIN batch = {1}
  BY TheBatch DEF Single
<1>2. ~IsEmpty(given) <=> Having(f) = {1}
  BY <1>1 DEF Having
<1>3. /\ ~IsEmpty(ValueOf(f)) => \E i \in Having(f) : Supplies(i, f, ValueOf(f))
      /\ Kind[f] = "scalar" /\ Having(f) # {} => ~IsEmpty(ValueOf(f))
  BY ResolveDecides DEF Single, ValueOf
<1>4. ~IsEmpty(ValueOf(f)) => ~IsEmpty(given) /\ (Kind[f] = "scalar" => ValueOf(f) = given)
  BY <1>1, <1>2, <1>3 DEF Having, Supplies
<1>5. ASSUME ~IsEmpty(given), Kind[f] # "scalar" PROVE ~IsEmpty(ValueOf(f))
  <2>1. IsSequence(given) /\ given # <<>>
    BY <1>1, <1>5, CandidatesAssumption DEF IsEmpty
  <2>2. PICK item : item \in ToSet(given)
    <3> HIDE DEF given
    <3>1. DOMAIN given # {}
      BY <2>1, EmptySeq DEF IsSequence
    <3> QED BY <3>1 DEF ToSet
  <2> QED BY <1>1, <1>5, <2>2, UnionHasEachItem DEF Single, ValueOf
<1> QED BY <1>1, <1>2, <1>3, <1>4, <1>5

\* When every field is resolved, the values are those of the only candidate.
LEMMA AllResolved ==
  ASSUME ReportInv, next > Len(FieldOrder), NEW f \in Fields
  PROVE  /\ f \in DOMAIN kwargs <=> ~IsEmpty(ValueOf(f))
         /\ f \in DOMAIN kwargs => kwargs[f] = ValueOf(f)
<1>1. PICK i \in 1..Len(FieldOrder) : f = FieldOrder[i]
  BY TheFields DEF Fields
<1>2. i \in 1..(next - 1)
  BY TheFields DEF ReportInv, MergeInv, TypeOK
<1> QED BY <1>1, <1>2 DEF ReportInv, ValuesTell

\* The models refuse none of it.
LEMMA NotRefused ==
  ASSUME ReportInv, next > Len(FieldOrder), Single
  PROVE  Required \subseteq DOMAIN kwargs /\ ~TooLong
<1>1. batch \in Batches /\ policy \in Policies /\ AllKnown /\ Len(batch) = 1
  BY DEF ReportInv, MergeInv, TypeOK, Single
<1>2. Required \subseteq DOMAIN kwargs
  <2> SUFFICES ASSUME NEW f \in Required PROVE f \in DOMAIN kwargs
    OBVIOUS
  <2>1. f \in Fields
    BY ModelsAssumption
  <2>2. 1 \in DOMAIN batch
    BY <1>1, TheBatch
  <2>3. ~IsEmpty(batch[1].values[f])
    BY <1>1, <2>2, CandidatesAssumption
  <2> QED BY <1>1, <2>1, <2>3, OneValueResolved, AllResolved
<1>3. ASSUME NEW f \in DOMAIN MaxLength
      PROVE  ~(Len(Constructed(f)) > MaxLength[f])
  <2>1. f \in Fields /\ Kind[f] # "scalar" /\ MaxLength[f] \in Nat
    BY ModelsAssumption
  <2>2. CASE f \notin DOMAIN kwargs
    <3>1. Constructed(f) = <<>>
      BY <2>1, <2>2 DEF Constructed
    <3>2. Len(<<>>) = 0
      OBVIOUS
    <3> QED BY <2>1, <3>1, <3>2
  <2>3. CASE f \in DOMAIN kwargs
    <3>1. kwargs[f] = ValueOf(f) /\ ~IsEmpty(ValueOf(f)) /\ RuleFits(f)
      BY <2>1, <2>3, AllResolved DEF Single
    <3>2. PICK V : kwargs[f] \in Seq(V)
      BY <1>1, <2>1, <3>1, OneListResolved
    <3>3. Len(kwargs[f]) \in Nat /\ Len(kwargs[f]) <= Len(batch[1].values[f])
      BY <1>1, <2>1, <3>1, OneListResolved
    <3>4. Len(batch[1].values[f]) <= MaxLength[f] /\ Len(batch[1].values[f]) \in Nat
      <4>1. 1 \in DOMAIN batch
        BY <1>1, TheBatch
      <4>2. IsSequence(batch[1].values[f])
        BY <1>1, <2>1, <4>1, CandidatesAssumption
      <4>3. Len(batch[1].values[f]) \in Nat
        BY <4>2, LenProperties DEF IsSequence
      <4> QED BY <1>1, <4>1, <4>3, CandidatesAssumption
    <3>5. \/ Constructed(f) = kwargs[f]
          \/ \E positions : Constructed(f) = At(kwargs[f], positions)
      BY <2>3 DEF Constructed, Deduplicated
    <3>6. Len(Constructed(f)) \in Nat /\ Len(Constructed(f)) <= Len(kwargs[f])
      <4>1. CASE Constructed(f) = kwargs[f]
        BY <3>3, <4>1
      <4>2. ASSUME NEW positions, Constructed(f) = At(kwargs[f], positions)
            PROVE  Len(Constructed(f)) \in Nat /\ Len(Constructed(f)) <= Len(kwargs[f])
        <5>1. PICK list : list = kwargs[f]
          OBVIOUS
        <5>2. /\ At(list, positions) \in Seq(V) /\ list \in Seq(V)
              /\ \E from : Picks(At(list, positions), list, positions, from)
          BY <3>2, <5>1, AtPicks
        <5>3. Len(At(list, positions)) \in Nat /\ Len(At(list, positions)) <= Len(list)
          BY <5>2, PicksAreFewer, LenProperties
        <5> QED BY <4>2, <5>1, <5>3
      <4> QED BY <3>5, <4>1, <4>2
    <3> QED BY <2>1, <3>3, <3>4, <3>6
  <2> QED BY <2>2, <2>3
<1> QED BY <1>2, <1>3 DEF TooLong

\* The call goes on until every field is resolved, and then it succeeds.
SingleInv ==
  /\ ReportInv
  /\ outcome = "golden" => next > Len(FieldOrder)
  /\ Single => outcome \in {"running", "golden"}

LEMMA NextSingleInv ==
  ASSUME SingleInv, [Next]_vars
  PROVE  SingleInv'
<1>1. ReportInv'
  BY NextReportInv DEF SingleInv
<1>2. batch' = batch /\ (Single' => Single)
  <2>1. UNCHANGED <<batch, policy>>
    BY DEF Next, RefuseEmptyBatch, ResolveField, RefuseField, Construct, RefuseGolden,
           Returned, Fail, vars
  <2> QED BY <2>1, ResolutionsStay DEF Single, AllKnown
<1>3. CASE RefuseEmptyBatch
  <2>1. ~Single
    <3>1. Len(<<>>) # 1
      OBVIOUS
    <3> QED BY <1>3, <3>1 DEF RefuseEmptyBatch, Single
  <2> QED BY <1>1, <1>2, <1>3, <2>1 DEF SingleInv, RefuseEmptyBatch, Fail
<1>4. CASE ResolveField
  BY <1>1, <1>2, <1>4 DEF SingleInv, ResolveField
<1>5. CASE RefuseField
  <2>1. next \in 1..Len(FieldOrder)
    BY <1>5, TheFields DEF SingleInv, ReportInv, MergeInv, TypeOK, RefuseField
  <2>2. ~Single
    BY <1>5, <2>1, TheFields DEF RefuseField, Single
  <2> QED BY <1>1, <1>2, <1>5, <2>2 DEF SingleInv, RefuseField, Fail
<1>6. CASE Construct
  BY <1>1, <1>2, <1>6 DEF SingleInv, Construct, FieldsDone
<1>7. CASE RefuseGolden
  <2>1. ~Single
    BY <1>7, NotRefused DEF SingleInv, RefuseGolden, FieldsDone
  <2>2. outcome' # "golden"
    BY <1>7 DEF RefuseGolden, Fail
  <2> QED BY <1>1, <1>2, <2>1, <2>2 DEF SingleInv
<1>8. CASE Returned \/ UNCHANGED vars
  BY <1>1, <1>2, <1>8 DEF SingleInv, Returned, vars
<1> QED BY <1>3, <1>4, <1>5, <1>6, <1>7, <1>8 DEF Next

\* A single candidate with provenance, under a policy that fits the fields, is
\* merged without an error, and the golden record has its scalars and its
\* provenance.
THEOREM SingleSourceMergeSucceedsHolds == Spec => []SingleSourceMergeSucceeds
<1>1. Init => SingleInv
  <2>1. Init => ReportInv
    BY InitReportInv
  <2> QED BY <2>1 DEF SingleInv, Init
<1>2. SingleInv => SingleSourceMergeSucceeds
  <2> SUFFICES ASSUME SingleInv, Single
               PROVE  /\ outcome \in {"running", "golden"}
                      /\ outcome = "golden" =>
                           \A f \in Fields :
                             /\ Kind[f] = "scalar" => golden.values[f] = batch[1].values[f]
                             /\ IF Entry(batch[1], f) = None THEN f \notin DOMAIN golden.provenance
                                ELSE golden.provenance[f] = Entry(batch[1], f)
    BY DEF SingleSourceMergeSucceeds, Single
  <2>1. outcome \in {"running", "golden"}
    BY DEF SingleInv
  <2>2. ASSUME outcome = "golden", NEW f \in Fields
        PROVE  /\ Kind[f] = "scalar" => golden.values[f] = batch[1].values[f]
               /\ IF Entry(batch[1], f) = None THEN f \notin DOMAIN golden.provenance
                  ELSE golden.provenance[f] = Entry(batch[1], f)
    <3> DEFINE given == batch[1].values[f]
    <3>1. batch \in Batches /\ policy \in Policies /\ next > Len(FieldOrder) /\ ReportInv
      BY <2>2 DEF SingleInv, ReportInv, MergeInv, TypeOK
    <3>2. golden = [values |-> [g \in Fields |-> Constructed(g)], provenance |-> provenance]
      BY <2>2, <3>1 DEF ReportInv, MergeInv, TypeOK
    <3>3. /\ DOMAIN batch = {1}
          /\ f \in DOMAIN kwargs <=> ~IsEmpty(given)
          /\ Kind[f] = "scalar" /\ f \in DOMAIN kwargs => kwargs[f] = given
      BY <3>1, OneValueResolved, AllResolved
    <3>4. ASSUME Kind[f] = "scalar" PROVE Constructed(f) = given
      <4>1. given # <<>>
        BY <3>1, <3>3, <3>4, CandidatesAssumption
      <4>2. f \notin NameKeyed
        BY <3>4, ModelsAssumption
      <4> QED BY <3>3, <3>4, <4>1, <4>2 DEF Constructed, IsEmpty
    <3>5. /\ DOMAIN provenance = DOMAIN kwargs
          /\ \A g \in DOMAIN provenance : \E c \in Candidates : provenance[g] = Entry(c, g)
      <4>1. DistinctSources
        BY <3>3 DEF DistinctSources
      <4> QED BY <3>1, <4>1 DEF ReportInv, MergeInv, ProvenanceFollowsValue
    <3>6. Candidates = {batch[1]}
      BY <3>3 DEF Candidates
    <3>7. Entry(batch[1], f) = None <=> IsEmpty(given)
      BY <3>1, <3>3, BatchesAssumption DEF Entry, Single, AllKnown
    <3> QED BY <3>2, <3>3, <3>4, <3>5, <3>6, <3>7
  <2> QED BY <2>1, <2>2
<1> QED BY <1>1, <1>2, NextSingleInv, PTL DEF Spec
=============================================================================
