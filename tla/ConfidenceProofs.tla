--------------------------- MODULE ConfidenceProofs ---------------------------
(***************************************************************************)
(* For every configuration and every merge: the scores stay in range, the  *)
(* overall score is an average of the scores that count, and the trace,    *)
(* the penalties, the bonuses and the choice of the fields that count say  *)
(* of the merge what is so.                                                *)
(*                                                                         *)
(* IInv bounds the two sums of the loop by each other: as long as the      *)
(* counted scores lie in low..high, weighted_sum lies between low and high *)
(* times weight_total.  It is stated for every low and high at once, since *)
(* the bounds of the average move as fields are added.  ScoringInv adds to *)
(* it what each of the other results needs: one invariant per result, all  *)
(* of them about what the strategies before <<field, step>> have done.     *)
(***************************************************************************)
EXTENDS Confidence, SequenceLemmas

ScoresWithin(low, high) == \A f \in counted : scores[f].score \in low..high

SumsBounded ==
  \A low, high \in 0..Scale :
    ScoresWithin(low, high) => low * total <= sum /\ sum <= high * total

OverallIsAverage == outcome = "scored" => overall = Average

IInv == TypeOK /\ SumsBounded /\ OverallIsAverage

-----------------------------------------------------------------------------
\* Multiplication by a natural number is monotone and distributes.
LEMMA ProductsMonotone ==
  ASSUME NEW x \in Nat, NEW y \in Nat, NEW w \in Nat, x <= y
  PROVE  x * w <= y * w
<1>1. PICK d \in Nat : y = x + d
  <2>1. y - x \in Nat /\ y = x + (y - x)
    OBVIOUS
  <2> QED BY <2>1
<1>2. y * w = x * w + d * w
  BY <1>1
<1>3. d * w \in Nat /\ x * w \in Nat
  OBVIOUS
<1> QED BY <1>2, <1>3

LEMMA ProductsDistribute ==
  ASSUME NEW x \in Nat, NEW y \in Nat, NEW w \in Nat
  PROVE  x * (y + w) = x * y + x * w
OBVIOUS

\* The weight of a source is a natural number, one of at most three.
LEMMA WeightsAreFew ==
  /\ \A s : WeightOf(s) \in {0, WeightOf("ATS"), WeightOf("RESUME")}
  /\ WeightOf("ATS") \in Nat /\ WeightOf("RESUME") \in Nat
<1>1. PICK configured \in SUBSET DataSource : SourceWeight \in [configured -> Nat]
  BY SourceWeightAssumption
<1>2. DOMAIN SourceWeight \subseteq {"ATS", "RESUME"}
  BY <1>1 DEF DataSource
<1> QED BY <1>1, <1>2 DEF WeightOf

\* A set of at most three numbers has a largest one.
LEMMA LargestOfThree ==
  ASSUME NEW x \in Nat, NEW y \in Nat, NEW z \in Nat,
         NEW S, S \subseteq {x, y, z}, S # {}
  PROVE  \E m \in S : \A n \in S : m >= n
<1> DEFINE Largest(m) == m \in S /\ \A n \in S : m >= n
<1>1. CASE x \in S /\ (y \in S => x >= y) /\ (z \in S => x >= z)
  <2>1. Largest(x)
    BY <1>1
  <2> QED BY <2>1
<1>2. CASE y \in S /\ (x \in S => y >= x) /\ (z \in S => y >= z)
  <2>1. Largest(y)
    BY <1>2
  <2> QED BY <2>1
<1>3. CASE z \in S /\ (x \in S => z >= x) /\ (y \in S => z >= y)
  <2>1. Largest(z)
    BY <1>3
  <2> QED BY <2>1
<1>4. x \in S \/ y \in S \/ z \in S
  OBVIOUS
<1> QED BY <1>1, <1>2, <1>3, <1>4

\* source_weight contributes the weight of some source, or nothing.
LEMMA SourceWeightDeltaNat == ASSUME NEW f PROVE SourceWeightDelta(f) \in Nat
<1> DEFINE considered == ToSet(Metadata(f).considered)
           weights == {WeightOf(s) : s \in considered}
<1>1. CASE considered = {}
  BY <1>1 DEF SourceWeightDelta
<1>2. CASE considered # {}
  <2>1. weights # {}
    BY <1>2
  <2>2. weights \subseteq {0, WeightOf("ATS"), WeightOf("RESUME")}
    BY WeightsAreFew
  <2>3. \A x \in weights : x \in Nat
    BY <2>2, WeightsAreFew
  <2>4. \E x \in weights : \A y \in weights : x >= y
    <3> HIDE DEF weights
    <3> QED BY <2>1, <2>2, WeightsAreFew, LargestOfThree
  <2>5. Max(weights) \in weights
    <3> HIDE DEF weights
    <3> QED BY <2>4 DEF Max
  <2>6. SourceWeightDelta(f) = Max(weights)
    BY <1>2 DEF SourceWeightDelta
  <2> QED BY <2>3, <2>5, <2>6
<1> QED BY <1>1, <1>2

\* Every strategy contributes an integer.
LEMMA DeltaInt ==
  ASSUME NEW strategy, NEW f, running \in Int
  PROVE  Delta(strategy, f) \in Int
<1>1. SourceWeightDelta(f) \in Int
  BY SourceWeightDeltaNat
<1>2. AgreementDelta(f) \in Int /\ ConflictDelta(f) \in Int /\ MissingDelta(f) \in Int
  BY ScaleAssumption DEF AgreementDelta, ConflictDelta, MissingDelta
<1> QED BY <1>1, <1>2 DEF Delta

LEMMA ClampInRange == ASSUME NEW x \in Int PROVE Clamp(x) \in 0..Scale
BY ScaleAssumption DEF Clamp

-----------------------------------------------------------------------------
LEMMA InitIInv == Init => IInv
<1> SUFFICES ASSUME Init PROVE IInv
  OBVIOUS
<1>1. Len(ScoredFields) \in Nat
  BY FieldsAssumption
<1>2. TypeOK
  <2>1. DOMAIN scores = {} /\ {ScoredFields[i] : i \in 1..(field - 1)} = {}
    BY DEF Init
  <2>2. field \in 1..(Len(ScoredFields) + 1) /\ 0 \in 0..Scale
    BY <1>1, ScaleAssumption DEF Init
  <2>3. running \in 0..Scale /\ step \in Nat \ {0}
    <3>1. running = 0 /\ step = 1
      BY DEF Init
    <3> QED BY <2>2, <3>1
  <2>4. sum \in Nat /\ total \in Nat /\ counted = {} /\ outcome = "scoring"
    BY DEF Init
  <2>5. excluded \in BOOLEAN
    BY DEF Init
  <2> QED BY <2>1, <2>2, <2>3, <2>4, <2>5 DEF TypeOK
<1>3. SumsBounded
  <2> SUFFICES ASSUME NEW low \in 0..Scale, NEW high \in 0..Scale
               PROVE  low * total <= sum /\ sum <= high * total
    BY DEF SumsBounded
  <2> QED BY ScaleAssumption DEF Init
<1>4. OverallIsAverage
  BY DEF Init, OverallIsAverage
<1> QED BY <1>2, <1>3, <1>4 DEF IInv

\* A field that counts adds its score to the sum with the weight it adds to
\* the total.
LEMMA CountedFieldBounded ==
  ASSUME IInv, FinishField, ~excluded
  PROVE  SumsBounded'
<1> DEFINE f == ScoredFields[field]
           w == FieldWeight[f]
<1>1. f \in Scored /\ w \in Nat
  <2>1. field \in 1..Len(ScoredFields)
    BY FieldsAssumption DEF IInv, TypeOK, FinishField
  <2>2. f \in Scored
    BY <2>1, FieldsAssumption DEF Scored, ToSet
  <2> QED BY <2>2, FieldWeightAssumption
<1>2. f \notin DOMAIN scores
  BY FieldsAssumption DEF IInv, TypeOK, FinishField
<1>3. /\ sum' = sum + running * w /\ total' = total + w
      /\ counted' = counted \cup {f}
      /\ scores'[f].score = running
      /\ \A g \in DOMAIN scores : scores'[g] = scores[g]
  BY <1>2 DEF FinishField
<1>4. running \in Nat /\ sum \in Nat /\ total \in Nat /\ counted \subseteq DOMAIN scores
  BY ScaleAssumption DEF IInv, TypeOK
<1> SUFFICES ASSUME NEW low \in 0..Scale, NEW high \in 0..Scale, ScoresWithin(low, high)'
             PROVE  low * total' <= sum' /\ sum' <= high * total'
  BY DEF SumsBounded
<1> HIDE DEF f, w
<1>5. running \in low..high
  BY <1>3 DEF ScoresWithin
<1>6. low * total <= sum /\ sum <= high * total
  <2>1. ScoresWithin(low, high)
    BY <1>3, <1>4 DEF ScoresWithin
  <2> QED BY <2>1 DEF IInv, SumsBounded
<1>7. low \in Nat /\ high \in Nat /\ low <= running /\ running <= high
  BY <1>5, ScaleAssumption
<1>8. low * w <= running * w /\ running * w <= high * w
  BY <1>1, <1>4, <1>7, ProductsMonotone
<1>9. /\ low * (total + w) = low * total + low * w
      /\ high * (total + w) = high * total + high * w
  BY <1>1, <1>4, <1>7, ProductsDistribute
<1>10. /\ low * total \in Nat /\ high * total \in Nat
       /\ low * w \in Nat /\ high * w \in Nat /\ running * w \in Nat
  BY <1>1, <1>4, <1>7
<1> QED BY <1>3, <1>4, <1>6, <1>8, <1>9, <1>10

LEMMA NextIInv == IInv /\ [Next]_vars => IInv'
<1> SUFFICES ASSUME IInv, [Next]_vars PROVE IInv'
  OBVIOUS
<1> USE DEF IInv
<1>0. Len(ScoredFields) \in Nat /\ Scale \in Nat
  BY FieldsAssumption, ScaleAssumption
<1>1. CASE RefuseOrder
  BY <1>1 DEF RefuseOrder, TypeOK, SumsBounded, ScoresWithin, OverallIsAverage
<1>2. CASE RunStrategy
  <2>1. running' \in 0..Scale
    <3>1. running \in Int
      BY <1>0 DEF TypeOK
    <3> QED BY <1>2, <3>1, DeltaInt, ClampInRange DEF RunStrategy
  <2>2. excluded' \in BOOLEAN
    BY <1>2 DEF RunStrategy, Excludes
  <2>3. TypeOK'
    BY <1>0, <1>2, <2>1, <2>2 DEF RunStrategy, TypeOK
  <2>4. SumsBounded' /\ OverallIsAverage'
    BY <1>2 DEF RunStrategy, Built, SumsBounded, ScoresWithin, OverallIsAverage
  <2> QED BY <2>3, <2>4
<1>3. CASE FinishField
  <2> DEFINE f == ScoredFields[field]
  <2>1. f \in Scored /\ FieldWeight[f] \in Nat
    <3>1. field \in 1..Len(ScoredFields)
      BY <1>0, <1>3 DEF TypeOK, FinishField
    <3>2. f \in Scored
      BY <3>1, FieldsAssumption DEF Scored, ToSet
    <3> QED BY <3>2, FieldWeightAssumption
  <2>2. DOMAIN scores' = {ScoredFields[i] : i \in 1..(field' - 1)}
    BY <1>0, <1>3 DEF FinishField, TypeOK
  <2>3. \A g \in DOMAIN scores' : scores'[g].score \in 0..Scale
    BY <1>3 DEF FinishField, TypeOK
  <2>4. sum' \in Nat /\ total' \in Nat /\ counted' \subseteq DOMAIN scores'
    <3>1. running * FieldWeight[f] \in Nat
      BY <1>0, <2>1 DEF TypeOK
    <3>2. CASE excluded
      BY <1>3, <3>2 DEF FinishField, TypeOK
    <3>3. CASE ~excluded
      <4>1. /\ sum' = sum + running * FieldWeight[f]
            /\ total' = total + FieldWeight[f]
            /\ counted' = counted \cup {f}
            /\ DOMAIN scores' = DOMAIN scores \cup {f}
        BY <1>3, <3>3 DEF FinishField
      <4> HIDE DEF f
      <4> QED BY <2>1, <3>1, <4>1 DEF TypeOK
    <3> QED BY <3>2, <3>3
  <2>5. TypeOK'
    <3>1. field' \in 1..(Len(ScoredFields) + 1) /\ step' \in Nat \ {0}
      BY <1>0, <1>3 DEF FinishField, TypeOK
    <3>2. running' \in 0..Scale /\ excluded' \in BOOLEAN /\ outcome' = outcome
      <4>1. running' = 0 /\ excluded' = FALSE /\ outcome' = outcome
        BY <1>3 DEF FinishField, Restart
      <4>2. 0 \in 0..Scale
        BY <1>0
      <4> QED BY <4>1, <4>2
    <3> QED BY <2>2, <2>3, <2>4, <3>1, <3>2 DEF TypeOK
  <2>6. SumsBounded'
    <3>1. CASE ~excluded
      BY <1>3, <3>1, CountedFieldBounded
    <3>2. CASE excluded
      <4>1. f \notin DOMAIN scores
        BY <1>3, FieldsAssumption DEF TypeOK, FinishField
      <4>2. /\ UNCHANGED <<sum, total, counted>>
            /\ \A g \in counted : scores'[g] = scores[g]
        BY <1>3, <3>2, <4>1 DEF FinishField, TypeOK
      <4> QED BY <4>2 DEF SumsBounded, ScoresWithin
    <3> QED BY <3>1, <3>2
  <2>7. OverallIsAverage'
    BY <1>3 DEF FinishField, Built, OverallIsAverage
  <2> QED BY <2>5, <2>6, <2>7
<1>4. CASE Report
  BY <1>4 DEF Report, TypeOK, SumsBounded, ScoresWithin, OverallIsAverage, Average
<1>5. CASE UNCHANGED vars
  BY <1>5 DEF vars, TypeOK, SumsBounded, ScoresWithin, OverallIsAverage, Average
<1>6. CASE Returned
  BY <1>5, <1>6 DEF Returned
<1> QED BY <1>1, <1>2, <1>3, <1>4, <1>5, <1>6 DEF Next

\* The clamp of the overall score has nothing to do.
LEMMA AverageIsBounded == IInv => OverallWithinScores
<1> SUFFICES ASSUME IInv, outcome = "scored", total > 0,
                    NEW low \in 0..Scale, NEW high \in 0..Scale,
                    ScoresWithin(low, high)
             PROVE  low * overall.den <= overall.num /\ overall.num <= high * overall.den
  BY DEF OverallWithinScores, ScoresWithin
<1>1. total \in Nat /\ sum \in Nat /\ Scale \in Nat
  BY ScaleAssumption DEF IInv, TypeOK
<1>2. low * total <= sum /\ sum <= high * total
  BY DEF IInv, SumsBounded
<1>3. high * total <= Scale * total
  BY <1>1, ProductsMonotone
<1>4. sum <= Scale * total
  <2>1. high * total \in Nat /\ Scale * total \in Nat
    BY <1>1
  <2> QED BY <1>1, <1>2, <1>3, <2>1
<1>5. Average = [num |-> sum, den |-> total]
  <2>1. Scale * total \in Nat
    BY <1>1
  <2> QED BY <1>1, <1>4, <2>1 DEF Average
<1>6. overall.num = sum /\ overall.den = total
  BY <1>5 DEF IInv, OverallIsAverage
<1> QED BY <1>2, <1>6

\* Every score of a report is in range and the loops stay within their
\* bounds (the range checks of FieldConfidence and OverallConfidence never fail).
THEOREM TypeCorrect == Spec => []TypeOK
<1>1. Init => IInv
  BY InitIInv
<1>2. IInv /\ [Next]_vars => IInv'
  BY NextIInv
<1>3. IInv => TypeOK
  BY DEF IInv
<1> QED BY <1>1, <1>2, <1>3, PTL DEF Spec

\* The overall score of ConfidenceAggregator.aggregate is bounded by the
\* scores it is an average of, whatever the weights and the order of the strategies.
THEOREM OverallIsAnAverage == Spec => []OverallWithinScores
<1>1. Init => IInv
  BY InitIInv
<1>2. IInv /\ [Next]_vars => IInv'
  BY NextIInv
<1> QED BY <1>1, <1>2, AverageIsBounded, PTL DEF Spec

-----------------------------------------------------------------------------
(* What a note of the report says of the merge is so when it is written,   *)
(* and the merge does not change: that is the invariant behind             *)
(* NeverRewardedAndPenalised.                                              *)
Note == [field : Scored, strategy : Strategies]

NotesJustified ==
  /\ order \in Orders
  /\ field \in Nat \ {0} /\ step \in Nat \ {0}
  /\ bonuses \in Seq(Note) /\ penalties \in Seq(Note)
  /\ \A i \in 1..Len(bonuses) :
       bonuses[i].strategy = "agreement" => ~Metadata(bonuses[i].field).conflict
  /\ \A i \in 1..Len(penalties) :
       penalties[i].strategy = "conflict_penalty" => Metadata(penalties[i].field).conflict

\* The metadata of a field depends on nothing a step changes.
LEMMA MetadataConstant == ASSUME merge' = merge, NEW f PROVE Metadata(f)' = Metadata(f)
<1>1. Children(f)' = Children(f) /\ Recorded' = Recorded
  OBVIOUS
<1>2. Resolve(f)' = Resolve(f)
  BY <1>1 DEF Resolve
<1> QED BY <1>2 DEF Metadata

LEMMA RunStrategyKeepsNotes ==
  ASSUME NotesJustified, RunStrategy
  PROVE  NotesJustified'
<1> DEFINE f == ScoredFields[field]
           delta == Delta(order[step], f)
           note == [field |-> f, strategy |-> order[step]]
<1>1. f \in Scored
  <2>1. field \in 1..Len(ScoredFields)
    BY FieldsAssumption DEF NotesJustified, RunStrategy
  <2> QED BY <2>1, FieldsAssumption DEF Scored, ToSet
<1>2. order[step] \in Strategies
  <2>1. order \in Seq(ToSet(order)) /\ ToSet(order) \subseteq Strategies
    BY OrdersAssumption DEF NotesJustified, RunStrategy, Built
  <2>2. step \in 1..Len(order)
    BY <2>1 DEF NotesJustified, RunStrategy
  <2> QED BY <2>1, <2>2
<1>3. note \in Note /\ note.field = f /\ note.strategy = order[step]
  BY <1>1, <1>2 DEF Note
<1>4. note.strategy = "agreement" /\ delta > 0 => ~Metadata(f).conflict
  <2> SUFFICES ASSUME order[step] = "agreement", delta > 0 PROVE ~Metadata(f).conflict
    OBVIOUS
  <2>1. delta = AgreementDelta(f)
    BY DEF Delta
  <2> QED BY <2>1 DEF AgreementDelta
<1>5. note.strategy = "conflict_penalty" /\ delta < 0 => Metadata(f).conflict
  <2> SUFFICES ASSUME order[step] = "conflict_penalty", delta < 0 PROVE Metadata(f).conflict
    OBVIOUS
  <2>1. delta = ConflictDelta(f)
    BY DEF Delta
  <2> QED BY <2>1 DEF ConflictDelta
<1>6. /\ penalties' = IF delta < 0 THEN Append(penalties, note) ELSE penalties
      /\ bonuses' = IF delta > 0 THEN Append(bonuses, note) ELSE bonuses
      /\ step' = step + 1 /\ field' = field /\ order' = order /\ merge' = merge
  BY DEF RunStrategy
<1>7. \A g : Metadata(g)' = Metadata(g)
  BY <1>6, MetadataConstant
<1> HIDE DEF f, delta, note
<1>8. /\ bonuses' \in Seq(Note)
      /\ \A i \in 1..Len(bonuses') :
           bonuses'[i].strategy = "agreement" => ~Metadata(bonuses'[i].field).conflict
  BY <1>3, <1>4, <1>6 DEF NotesJustified
<1>9. /\ penalties' \in Seq(Note)
      /\ \A i \in 1..Len(penalties') :
           penalties'[i].strategy = "conflict_penalty" => Metadata(penalties'[i].field).conflict
  BY <1>3, <1>5, <1>6 DEF NotesJustified
<1>10. order' \in Orders /\ field' \in Nat \ {0} /\ step' \in Nat \ {0}
  BY <1>6 DEF NotesJustified
<1> QED BY <1>7, <1>8, <1>9, <1>10 DEF NotesJustified

LEMMA NextKeepsNotes == NotesJustified /\ [Next]_vars => NotesJustified'
<1> SUFFICES ASSUME NotesJustified, [Next]_vars PROVE NotesJustified'
  OBVIOUS
<1>1. CASE RunStrategy
  BY <1>1, RunStrategyKeepsNotes
<1>2. CASE RefuseOrder \/ FinishField \/ Report \/ Returned \/ UNCHANGED vars
  <2>1. /\ UNCHANGED <<merge, order, penalties, bonuses>>
        /\ field' \in Nat \ {0} /\ step' \in Nat \ {0}
    BY <1>2 DEF NotesJustified, RefuseOrder, FinishField, Report, Returned, vars
  <2>2. \A g : Metadata(g)' = Metadata(g)
    BY <2>1, MetadataConstant
  <2> QED BY <2>1, <2>2 DEF NotesJustified
<1> QED BY <1>1, <1>2 DEF Next

\* No field of any report is rewarded for an agreement of its sources and
\* penalised for their conflict, in whatever order the strategies run.
THEOREM RewardExcludesPenalty == Spec => []NeverRewardedAndPenalised
<1>1. Init => NotesJustified
  BY DEF Init, NotesJustified
<1>2. NotesJustified => NeverRewardedAndPenalised
  BY DEF NotesJustified, NeverRewardedAndPenalised, Noted
<1> QED BY <1>1, <1>2, NextKeepsNotes, PTL DEF Spec

-----------------------------------------------------------------------------
(* How far the loops have come, and that they run through: the fields and  *)
(* strategies before <<field, step>> are done.                             *)
Bounds ==
  /\ merge \in Merges /\ order \in Orders
  /\ field \in 1..(Len(ScoredFields) + 1)
  /\ step \in 1..(Len(order) + 1)
  /\ outcome = "scored" => field = Len(ScoredFields) + 1

\* The steps of the loops leave the parameters of the call alone; the others
\* leave all that the loops keep alone.
LEMMA StepsKeep ==
  ASSUME [Next]_vars
  PROVE  /\ UNCHANGED <<merge, order>>
         /\ \/ RunStrategy
            \/ FinishField
            \/ UNCHANGED <<field, step, running, excluded, scores, trace, penalties, bonuses,
                           counted>>
BY DEF Next, RefuseOrder, RunStrategy, FinishField, Report, Returned, vars

LEMMA OrderIsSequence ==
  ASSUME Bounds
  PROVE  /\ Len(order) \in Nat /\ DOMAIN order = 1..Len(order)
         /\ \A j \in 1..Len(order) : order[j] \in ToSet(order)
         /\ Len(ScoredFields) \in Nat /\ DOMAIN ScoredFields = 1..Len(ScoredFields)
<1>1. order \in Seq(ToSet(order)) /\ ScoredFields \in Seq(Scored)
  BY OrdersAssumption, FieldsAssumption DEF Bounds
<1> QED BY <1>1

LEMMA BoundsInductive ==
  /\ Init => Bounds
  /\ Bounds /\ [Next]_vars => Bounds'
<1>1. ASSUME Init PROVE Bounds
  <2>1. order \in Seq(ToSet(order)) /\ ScoredFields \in Seq(Scored)
    BY <1>1, OrdersAssumption, FieldsAssumption DEF Init
  <2> QED BY <1>1, <2>1 DEF Init, Bounds
<1>2. ASSUME Bounds, [Next]_vars PROVE Bounds'
  <2>1. UNCHANGED <<merge, order>>
    BY <1>2, StepsKeep
  <2>2. Len(order) \in Nat /\ Len(ScoredFields) \in Nat
    BY <1>2, OrderIsSequence
  <2>3. CASE RunStrategy
    BY <1>2, <2>1, <2>2, <2>3 DEF RunStrategy, Built, Bounds
  <2>4. CASE FinishField
    BY <1>2, <2>1, <2>2, <2>4 DEF FinishField, Built, Bounds
  <2>5. CASE Report
    BY <1>2, <2>1, <2>2, <2>5 DEF Report, Built, Bounds
  <2>6. CASE RefuseOrder
    BY <1>2, <2>1, <2>6 DEF RefuseOrder, Bounds
  <2>7. CASE UNCHANGED vars
    BY <1>2, <2>7 DEF vars, Bounds
  <2> QED BY <1>2, <2>3, <2>4, <2>5, <2>6, <2>7 DEF Next, Returned
<1> QED BY <1>1, <1>2

\* The strategy that scores, and what the step makes of its delta.
LEMMA StrategyRuns ==
  ASSUME Bounds, running \in 0..Scale, RunStrategy
  PROVE  LET f == ScoredFields[field]
             delta == Delta(order[step], f)
         IN  /\ field \in 1..Len(ScoredFields) /\ f \in Scored
             /\ step \in 1..Len(order) /\ order[step] \in Strategies
             /\ delta \in Int
             /\ field' = field /\ step' = step + 1
             /\ running' = Clamp(running + delta) /\ running' \in 0..Scale
             /\ excluded' = (excluded \/ Excludes(order[step], delta))
             /\ UNCHANGED <<scores, counted>>
<1> DEFINE f == ScoredFields[field]
           delta == Delta(order[step], f)
<1>1. field \in 1..Len(ScoredFields) /\ step \in 1..Len(order)
  BY OrderIsSequence DEF Bounds, RunStrategy
<1>2. f \in Scored /\ order[step] \in Strategies
  <2>1. f \in Scored
    BY <1>1, FieldsAssumption DEF Scored, ToSet
  <2>2. order[step] \in Strategies
    BY <1>1, OrderIsSequence DEF RunStrategy, Built
  <2> QED BY <2>1, <2>2
<1>3. running \in Int /\ delta \in Int
  BY ScaleAssumption, DeltaInt
<1>4. running' = Clamp(running + delta) /\ running' \in 0..Scale
  BY <1>3, ClampInRange DEF RunStrategy
<1> QED BY <1>1, <1>2, <1>3, <1>4 DEF RunStrategy

\* What is done with a field when all strategies have scored it.
LEMMA FieldFinishes ==
  ASSUME Bounds, DOMAIN scores = {ScoredFields[i] : i \in 1..(field - 1)}, FinishField
  PROVE  LET f == ScoredFields[field]
         IN  /\ field \in 1..Len(ScoredFields) /\ f \in Scored /\ f \notin DOMAIN scores
             /\ step = Len(order) + 1
             /\ field' = field + 1 /\ step' = 1 /\ running' = 0 /\ excluded' = FALSE
             /\ DOMAIN scores' = DOMAIN scores \cup {f}
             /\ scores'[f].score = running
             /\ \A g \in DOMAIN scores : scores'[g] = scores[g]
             /\ counted' = IF excluded THEN counted ELSE counted \cup {f}
             /\ UNCHANGED <<trace, penalties, bonuses>>
<1> DEFINE f == ScoredFields[field]
<1>1. field \in 1..Len(ScoredFields) /\ step = Len(order) + 1
  BY OrderIsSequence DEF Bounds, FinishField
<1>2. f \in Scored
  BY <1>1, FieldsAssumption DEF Scored, ToSet
<1>3. f \notin DOMAIN scores
  <2>1. \A i \in 1..(field - 1) : ScoredFields[i] # f
    BY <1>1, OrderIsSequence, FieldsAssumption
  <2> QED BY <2>1
<1>4. /\ scores' = [g \in DOMAIN scores \cup {f} |->
                      IF g = f THEN [score |-> running, source |-> PrimarySource(f)]
                      ELSE scores[g]]
      /\ counted' = IF excluded THEN counted ELSE counted \cup {f}
  BY DEF FinishField
<1>5. DOMAIN scores' = DOMAIN scores \cup {f} /\ scores'[f].score = running
  BY <1>4
<1>6. \A g \in DOMAIN scores : scores'[g] = scores[g]
  <2> HIDE DEF f
  <2> QED BY <1>3, <1>4
<1> QED BY <1>1, <1>2, <1>3, <1>4, <1>5, <1>6 DEF FinishField, Restart
-----------------------------------------------------------------------------
(* No conflict is lost: a conflict of any sub-field is one of the field,   *)
(* and once the penalty has been asked about a conflicted field it is in   *)
(* the report.                                                             *)
\* A conflict of the view of a field is one of the records it stands for.
LEMMA ConflictOfRecords ==
  ASSUME merge \in Merges, NEW f
  PROVE  Metadata(f).conflict <=> ConflictRecorded(f)
<1> USE DEF ConflictRecorded
<1>1. CASE merge.single # None
  BY <1>1 DEF Metadata
<1>2. CASE merge.single = None /\ f \in Recorded
  <2>1. Metadata(f).conflict = merge.views[f].conflict
    BY <1>2 DEF Metadata, Resolve
  <2> QED BY <1>2, <2>1
<1>3. CASE merge.single = None /\ f \notin Recorded
  <2> DEFINE positions == {i \in DOMAIN RecordedFields : Parent[RecordedFields[i]] = f}
             children == Children(f)
             views == [i \in DOMAIN children |-> merge.views[children[i]]]
  <2>1. ToSet(children) = {RecordedFields[i] : i \in positions}
    <3>1. RecordedFields \in Seq(Recorded) /\ positions \subseteq DOMAIN RecordedFields
      BY FieldsAssumption
    <3> HIDE DEF positions
    <3> QED BY <3>1, AtElements DEF Children, positions
  <2>2. \A g : (\E i \in DOMAIN children : children[i] = g) <=> g \in Recorded /\ Parent[g] = f
    BY <2>1 DEF ToSet, Recorded
  <2>3. Metadata(f).conflict = \E i \in DOMAIN views : views[i].conflict
    BY <1>3 DEF Metadata, Resolve
  <2> HIDE DEF children
  <2>4. (\E i \in DOMAIN views : views[i].conflict)
          <=> \E i \in DOMAIN children : merge.views[children[i]].conflict
    OBVIOUS
  <2>5. (\E i \in DOMAIN children : merge.views[children[i]].conflict)
          <=> \E g \in Recorded : Parent[g] = f /\ merge.views[g].conflict
    <3>1. ASSUME NEW i \in DOMAIN children, merge.views[children[i]].conflict
          PROVE  \E g \in Recorded : Parent[g] = f /\ merge.views[g].conflict
      <4>1. children[i] \in Recorded /\ Parent[children[i]] = f
        BY <2>2
      <4> QED BY <3>1, <4>1
    <3>2. ASSUME NEW g \in Recorded, Parent[g] = f, merge.views[g].conflict
          PROVE  \E i \in DOMAIN children : merge.views[children[i]].conflict
      <4>1. PICK i \in DOMAIN children : children[i] = g
        BY <2>2, <3>2
      <4> QED BY <3>2, <4>1
    <3> QED BY <3>1, <3>2
  <2>6. \A g \in Recorded : g # f
    BY <1>3
  <2> QED BY <1>3, <2>3, <2>4, <2>5, <2>6
<1> QED BY <1>1, <1>2, <1>3

\* A strategy before <<field, step>> that penalises conflicts has done so.
PenaltiesComplete ==
  \A i \in 1..Len(ScoredFields), j \in 1..Len(order) :
    /\ i < field \/ (i = field /\ j < step)
    /\ order[j] = "conflict_penalty" /\ Metadata(ScoredFields[i]).conflict
    => Noted(penalties, ScoredFields[i], "conflict_penalty")

LEMMA NotedAppend ==
  ASSUME NEW notes \in Seq(Note), NEW note \in Note, NEW f, NEW strategy
  PROVE  /\ Noted(notes, f, strategy) => Noted(Append(notes, note), f, strategy)
         /\ Noted(Append(notes, note), note.field, note.strategy)
<1>1. /\ DOMAIN notes = 1..Len(notes) /\ DOMAIN Append(notes, note) = 1..(Len(notes) + 1)
      /\ Append(notes, note)[Len(notes) + 1] = note
      /\ \A i \in 1..Len(notes) : Append(notes, note)[i] = notes[i]
      /\ Len(notes) \in Nat
  OBVIOUS
<1>2. Len(notes) + 1 \in DOMAIN Append(notes, note)
  BY <1>1
<1>3. \A i \in DOMAIN notes : i \in DOMAIN Append(notes, note)
  BY <1>1
<1> QED BY <1>1, <1>2, <1>3 DEF Noted

LEMMA PenaltiesInductive ==
  /\ Init /\ Bounds => PenaltiesComplete
  /\ IInv /\ Bounds /\ NotesJustified /\ PenaltiesComplete /\ [Next]_vars => PenaltiesComplete'
<1>1. ASSUME Init, Bounds PROVE PenaltiesComplete
  BY <1>1, OrderIsSequence DEF Init, PenaltiesComplete
<1>2. ASSUME IInv, Bounds, NotesJustified, PenaltiesComplete, [Next]_vars
      PROVE  PenaltiesComplete'
  <2>1. UNCHANGED <<merge, order>>
    BY <1>2, StepsKeep
  <2>2. \A f : Metadata(f)' = Metadata(f)
    BY <2>1, MetadataConstant
  <2>3. Len(order) \in Nat /\ Len(ScoredFields) \in Nat /\ field \in Nat /\ step \in Nat
    BY <1>2, OrderIsSequence DEF Bounds
  <2>4. SUFFICES ASSUME NEW i \in 1..Len(ScoredFields), NEW j \in 1..Len(order),
                        i < field' \/ (i = field' /\ j < step'),
                        order[j] = "conflict_penalty", Metadata(ScoredFields[i]).conflict
                 PROVE  Noted(penalties', ScoredFields[i], "conflict_penalty")
    BY <2>1, <2>2 DEF PenaltiesComplete, Noted
  <2>5. i < field \/ (i = field /\ j < step) => Noted(penalties, ScoredFields[i], "conflict_penalty")
    BY <1>2, <2>4 DEF PenaltiesComplete
  <2>6. CASE RunStrategy
    <3> DEFINE f == ScoredFields[field]
               delta == Delta(order[step], f)
               note == [field |-> f, strategy |-> order[step]]
    <3>1. running \in 0..Scale
      BY <1>2 DEF IInv, TypeOK
    <3>2. /\ field \in 1..Len(ScoredFields) /\ f \in Scored
          /\ step \in 1..Len(order) /\ order[step] \in Strategies
          /\ field' = field /\ step' = step + 1
      BY <1>2, <2>6, <3>1, StrategyRuns
    <3>3. penalties' = IF delta < 0 THEN Append(penalties, note) ELSE penalties
      BY <2>6 DEF RunStrategy
    <3>4. note \in Note /\ note.field = f /\ note.strategy = order[step]
          /\ penalties \in Seq(Note)
      BY <1>2, <3>2 DEF Note, NotesJustified
    <3>5. CASE i < field \/ (i = field /\ j < step)
      <4> HIDE DEF note, delta
      <4>1. Noted(penalties, ScoredFields[i], "conflict_penalty")
        BY <2>5, <3>5
      <4> QED BY <3>3, <3>4, <4>1, NotedAppend
    <3>6. CASE i = field /\ j = step
      <4>1. delta = ConflictDelta(f)
        BY <2>4, <3>6 DEF Delta
      <4>2. delta < 0
        BY <2>4, <3>6, <4>1, ScaleAssumption DEF ConflictDelta
      <4> HIDE DEF note, delta
      <4>3. Noted(penalties', note.field, note.strategy)
        BY <3>3, <3>4, <4>2, NotedAppend
      <4> QED BY <2>4, <3>4, <3>6, <4>3 DEF f
    <3> QED BY <2>3, <2>4, <3>2, <3>5, <3>6
  <2>7. CASE FinishField
    <3>1. DOMAIN scores = {ScoredFields[h] : h \in 1..(field - 1)}
      BY <1>2 DEF IInv, TypeOK
    <3>2. step = Len(order) + 1 /\ field' = field + 1 /\ step' = 1 /\ penalties' = penalties
      BY <1>2, <2>7, <3>1, FieldFinishes
    <3> QED BY <2>3, <2>4, <2>5, <3>2
  <2>8. CASE UNCHANGED <<field, step, running, excluded, scores, trace, penalties, bonuses,
                         counted>>
    BY <2>4, <2>5, <2>8
  <2> QED BY <1>2, <2>6, <2>7, <2>8, StepsKeep
<1> QED BY <1>1, <1>2

LEMMA PenaltiesTellConflicts ==
  Bounds /\ NotesJustified /\ PenaltiesComplete => ConflictIsPenalised
<1> SUFFICES ASSUME Bounds, NotesJustified, PenaltiesComplete, outcome = "scored",
                    "conflict_penalty" \in ToSet(order), NEW f \in Scored
             PROVE  Noted(penalties, f, "conflict_penalty") <=> Metadata(f).conflict
  <2>1. Bounds => \A g \in Scored : Metadata(g).conflict <=> ConflictRecorded(g)
    BY ConflictOfRecords DEF Bounds
  <2> QED BY <2>1 DEF ConflictIsPenalised
<1>1. PICK i \in 1..Len(ScoredFields) : ScoredFields[i] = f
  BY OrderIsSequence DEF Scored, ToSet
<1>2. PICK j \in 1..Len(order) : order[j] = "conflict_penalty"
  BY OrderIsSequence DEF ToSet
<1>3. i < field
  BY OrderIsSequence DEF Bounds
<1>4. Metadata(f).conflict => Noted(penalties, f, "conflict_penalty")
  BY <1>1, <1>2, <1>3 DEF PenaltiesComplete
<1>5. Noted(penalties, f, "conflict_penalty") => Metadata(f).conflict
  BY DEF NotesJustified, Noted
<1> QED BY <1>4, <1>5
-----------------------------------------------------------------------------
(* Absent fields.  Agreement and conflict have nothing to say of them, so  *)
(* the weight of a source is all the score that absence can take away: it  *)
(* is there from the first source_weight until missing_field notices it.   *)
LEMMA ChildrenAreRecorded ==
  ASSUME NEW f
  PROVE  /\ Children(f) \in Seq(Recorded)
         /\ \A i \in DOMAIN Children(f) : Children(f)[i] \in Recorded /\ Parent[Children(f)[i]] = f
<1> DEFINE positions == {i \in DOMAIN RecordedFields : Parent[RecordedFields[i]] = f}
<1>1. RecordedFields \in Seq(Recorded) /\ Children(f) = At(RecordedFields, positions)
  BY FieldsAssumption DEF Children
<1>2. \A i \in positions : Parent[RecordedFields[i]] = f
  OBVIOUS
<1> HIDE DEF positions
<1>3. At(RecordedFields, positions) \in Seq(Recorded)
  BY <1>1, AtPicks
<1>4. PICK from : Picks(At(RecordedFields, positions), RecordedFields, positions, from)
  BY <1>1, AtPicks
<1>5. \A i \in DOMAIN Children(f) : Parent[Children(f)[i]] = f
  BY <1>1, <1>2, <1>4 DEF Picks
<1> QED BY <1>1, <1>3, <1>5

\* Nobody contributes to a field that is absent from the golden record.
LEMMA NobodyContributes ==
  ASSUME merge \in Merges, NEW f \in Scored \ merge.present, merge.single = None
  PROVE  Resolve(f).contributing = <<>> /\ ~Resolve(f).conflict
<1>1. \A g \in Recorded : g = f \/ Parent[g] = f
                            => merge.views[g].contributing = <<>> /\ ~merge.views[g].conflict
  BY MergesAssumption
<1>2. CASE f \in Recorded
  BY <1>1, <1>2 DEF Resolve
<1>3. CASE f \notin Recorded
  <2> DEFINE children == Children(f)
             views == [i \in DOMAIN children |-> merge.views[children[i]]]
             lists == [i \in DOMAIN views |-> views[i].contributing]
  <2>1. Resolve(f).contributing = WithoutRepeats(FlattenSeq(lists))
        /\ Resolve(f).conflict = \E i \in DOMAIN views : views[i].conflict
    BY <1>3 DEF Resolve
  <2>2. /\ children \in Seq(Recorded)
        /\ \A i \in DOMAIN children : /\ merge.views[children[i]].contributing = <<>>
                                      /\ ~merge.views[children[i]].conflict
    BY <1>1, ChildrenAreRecorded
  <2> HIDE DEF children
  <2>3. DOMAIN children = 1..Len(children) /\ Len(children) \in Nat
    BY <2>2
  <2>4. lists \in [1..Len(children) -> Seq({})]
    <3>1. <<>> \in Seq({})
      BY EmptySeq
    <3>2. \A i \in DOMAIN views : views[i].contributing = <<>>
      BY <2>2
    <3> QED BY <2>3, <3>1, <3>2
  <2>5. ~\E i \in DOMAIN views : views[i].conflict
    BY <2>2
  <2> HIDE DEF lists, views
  <2>6. lists \in Seq(Seq({}))
    BY <2>3, <2>4, SeqDef
  <2>7. FlattenSeq(lists) \in Seq({})
    BY <2>6, FlattenPlaces
  <2>8. DOMAIN FlattenSeq(lists) = {}
    <3>1. \A s \in Seq({}) : DOMAIN s = {}
      OBVIOUS
    <3> QED BY <2>7, <3>1
  <2>9. WithoutRepeats(FlattenSeq(lists)) = <<>>
    BY <2>7, <2>8, AtOfEmpty DEF WithoutRepeats
  <2> QED BY <2>1, <2>5, <2>9
<1> QED BY <1>2, <1>3

LEMMA AbsenceIsSilent ==
  ASSUME merge \in Merges, NEW f \in Scored \ merge.present
  PROVE  AgreementDelta(f) = 0 /\ ConflictDelta(f) = 0
<1>1. CASE merge.single = None
  <2>1. Metadata(f) = Resolve(f)
    BY <1>1 DEF Metadata
  <2>2. Metadata(f).contributing = <<>> /\ ~Metadata(f).conflict
    BY <1>1, <2>1, NobodyContributes
  <2> QED BY <2>2 DEF AgreementDelta, ConflictDelta
<1>2. CASE merge.single # None
  <2>1. Metadata(f).contributing = <<merge.single>> /\ ~Metadata(f).conflict
    BY <1>2 DEF Metadata
  <2>2. Len(Metadata(f).contributing) = 1
    BY <2>1
  <2> QED BY <2>1, <2>2 DEF AgreementDelta, ConflictDelta
<1> QED BY <1>1, <1>2

\* A field that some strategies have scored.
Underway(f) ==
  /\ f \in merge.present => ~excluded
  /\ f \notin merge.present =>
       /\ SourceWeightDelta(f) = 0 => running = 0 /\ ~excluded
       /\ SourceWeightDelta(f) > 0 /\ (\E j \in 1..(step - 1) : order[j] = "source_weight")
            => running > 0 \/ excluded
       /\ step > 1 /\ order[step - 1] = "missing_field" => running = 0

\* A field that is done.
Settled(f) ==
  /\ f \in counted <=> f \in merge.present \/ SourceWeightDelta(f) = 0
  /\ f \notin merge.present => scores[f].score = 0

AbsenceSoFar ==
  \A i \in 1..Len(ScoredFields) :
    /\ i = field => Underway(ScoredFields[i])
    /\ i < field /\ AbsenceComesLast => Settled(ScoredFields[i])

\* One more strategy: only source_weight gives an absent field a score, and
\* missing_field takes whatever it has.
LEMMA StrategyKeepsUnderway ==
  ASSUME IInv, Bounds, RunStrategy, Underway(ScoredFields[field])
  PROVE  Underway(ScoredFields[field])'
<1> DEFINE f == ScoredFields[field]
           s == order[step]
           delta == Delta(s, f)
<1>1. running \in 0..Scale
  BY DEF IInv, TypeOK
<1>2. /\ f \in Scored /\ s \in Strategies /\ delta \in Int
      /\ field' = field /\ step' = step + 1 /\ step \in 1..Len(order)
      /\ running' = Clamp(running + delta) /\ running' \in 0..Scale
  BY <1>1, StrategyRuns
<1>11. excluded' <=> excluded \/ (s = "missing_field" /\ delta < 0)
  <2>1. excluded' = (excluded \/ Excludes(s, delta))
    BY DEF RunStrategy
  <2> HIDE DEF s, delta
  <2> QED BY <2>1 DEF Excludes
<1>3. UNCHANGED <<merge, order>>
  BY DEF RunStrategy
<1>4. SourceWeightDelta(f)' = SourceWeightDelta(f) /\ SourceWeightDelta(f) \in Nat
  <2>1. \A g : Metadata(g)' = Metadata(g)
    BY <1>3, MetadataConstant
  <2>2. f' = f
    BY <1>2
  <2> HIDE DEF f
  <2> QED BY <2>1, <2>2, SourceWeightDeltaNat DEF SourceWeightDelta
<1>5. /\ s = "source_weight" => delta = SourceWeightDelta(f)
      /\ s = "agreement" => delta = AgreementDelta(f)
      /\ s = "conflict_penalty" => delta = ConflictDelta(f)
      /\ s = "missing_field" => delta = MissingDelta(f)
  BY DEF Delta
<1>6. s \in {"source_weight", "agreement", "conflict_penalty", "missing_field"}
  BY <1>2 DEF Strategies
<1>7. Scale \in Nat /\ Scale > 0 /\ running \in Nat /\ running <= Scale /\ Len(order) \in Nat
  BY <1>1, ScaleAssumption, OrderIsSequence
<1>8. ASSUME f \in merge.present PROVE ~excluded'
  <2>1. MissingDelta(f) = 0
    BY <1>8 DEF MissingDelta
  <2>2. ~excluded
    BY <1>8 DEF Underway
  <2> HIDE DEF f, s, delta
  <2> QED BY <1>5, <1>11, <2>1, <2>2
<1>9. ASSUME f \notin merge.present
      PROVE  /\ SourceWeightDelta(f) = 0 => running' = 0 /\ ~excluded'
             /\ SourceWeightDelta(f) > 0 /\ (\E j \in 1..step : order[j] = "source_weight")
                  => running' > 0 \/ excluded'
             /\ s = "missing_field" => running' = 0
  <2>1. AgreementDelta(f) = 0 /\ ConflictDelta(f) = 0 /\ MissingDelta(f) = -running
    BY <1>2, <1>9, AbsenceIsSilent DEF Bounds, MissingDelta
  <2>2. /\ SourceWeightDelta(f) = 0 => running = 0 /\ ~excluded
        /\ SourceWeightDelta(f) > 0 /\ (\E j \in 1..(step - 1) : order[j] = "source_weight")
             => running > 0 \/ excluded
    BY <1>9 DEF Underway
  <2> HIDE DEF f, s, delta
  <2>3. CASE s = "missing_field"
    <3>1. delta = -running /\ running' = 0
      BY <1>2, <1>5, <1>7, <2>1, <2>3 DEF Clamp
    <3>2. excluded' <=> excluded \/ running > 0
      BY <1>7, <1>11, <2>3, <3>1
    <3>3. (\E j \in 1..step : order[j] = "source_weight")
            => \E j \in 1..(step - 1) : order[j] = "source_weight"
      BY <1>2, <1>7, <2>3 DEF s
    <3> QED BY <1>7, <2>2, <3>1, <3>2, <3>3
  <2>4. CASE s = "source_weight"
    <3>1. excluded' <=> excluded
      BY <1>11, <2>4
    <3>2. running' = Clamp(running + SourceWeightDelta(f))
      BY <1>2, <1>5, <2>4
    <3> QED BY <1>4, <1>7, <2>2, <2>4, <3>1, <3>2 DEF Clamp
  <2>5. CASE s \in {"agreement", "conflict_penalty"}
    <3>1. (excluded' <=> excluded) /\ delta = 0
      BY <1>5, <1>11, <2>1, <2>5
    <3>2. running' = running
      BY <1>2, <1>7, <3>1 DEF Clamp
    <3>3. (\E j \in 1..step : order[j] = "source_weight")
            => \E j \in 1..(step - 1) : order[j] = "source_weight"
      BY <1>2, <1>7, <2>5 DEF s
    <3> QED BY <2>2, <2>5, <3>1, <3>2, <3>3
  <2> QED BY <1>6, <2>3, <2>4, <2>5
<1>10. step' - 1 = step
  BY <1>2
<1> QED BY <1>2, <1>3, <1>4, <1>8, <1>9, <1>10 DEF Underway

LEMMA FieldSettles ==
  ASSUME IInv, Bounds, AbsenceSoFar, FinishField
  PROVE  AbsenceSoFar'
<1> DEFINE f == ScoredFields[field]
<1>1. DOMAIN scores = {ScoredFields[i] : i \in 1..(field - 1)}
      /\ running \in 0..Scale /\ counted \subseteq DOMAIN scores
  BY DEF IInv, TypeOK
<1>2. /\ field \in 1..Len(ScoredFields) /\ f \in Scored /\ f \notin DOMAIN scores
      /\ step = Len(order) + 1
      /\ field' = field + 1 /\ step' = 1 /\ running' = 0 /\ excluded' = FALSE
      /\ scores'[f].score = running
      /\ \A g \in DOMAIN scores : scores'[g] = scores[g]
      /\ counted' = IF excluded THEN counted ELSE counted \cup {f}
  BY <1>1, FieldFinishes
<1>3. UNCHANGED <<merge, order>> /\ Len(order) \in Nat /\ Len(ScoredFields) \in Nat
  BY OrderIsSequence DEF FinishField
<1>4. \A g : SourceWeightDelta(g)' = SourceWeightDelta(g)
  <2>1. \A g : Metadata(g)' = Metadata(g)
    BY <1>3, MetadataConstant
  <2> QED BY <2>1 DEF SourceWeightDelta
<1>5. ASSUME NEW i \in 1..Len(ScoredFields), i = field'
      PROVE  Underway(ScoredFields[i])'
  BY <1>2, <1>3, <1>5 DEF Underway
<1>6. ASSUME NEW i \in 1..Len(ScoredFields), i < field, AbsenceComesLast
      PROVE  Settled(ScoredFields[i])'
  <2> DEFINE g == ScoredFields[i]
  <2>1. g \in DOMAIN scores
    BY <1>1, <1>2, <1>6
  <2>2. Settled(g)
    BY <1>6 DEF AbsenceSoFar
  <2> HIDE DEF g, f
  <2>3. scores'[g] = scores[g] /\ (g \in counted' <=> g \in counted)
    BY <1>2, <2>1
  <2>4. SourceWeightDelta(g)' = SourceWeightDelta(g)
    BY <1>4 DEF g
  <2> QED BY <1>3, <2>2, <2>3, <2>4 DEF Settled, g
<1>7. ASSUME NEW i \in 1..Len(ScoredFields), i = field, AbsenceComesLast
      PROVE  Settled(ScoredFields[i])'
  <2>0. f = ScoredFields[i]
    BY <1>7
  <2>1. Underway(f)
    BY <1>2 DEF AbsenceSoFar
  <2>2. order[step - 1] = "missing_field" /\ step > 1
    BY <1>2, <1>3, <1>7, OrderIsSequence DEF AbsenceComesLast
  <2>3. \E j \in 1..(step - 1) : order[j] = "source_weight"
    BY <1>2, <1>3, <1>7, OrderIsSequence DEF AbsenceComesLast, ToSet
  <2>4. f \notin merge.present => running = 0
    BY <2>1, <2>2 DEF Underway
  <2>5. excluded <=> f \notin merge.present /\ SourceWeightDelta(f) > 0
    <3>1. SourceWeightDelta(f) \in Nat
      BY SourceWeightDeltaNat
    <3> HIDE DEF f
    <3>2. f \in merge.present => ~excluded
      BY <2>1 DEF Underway
    <3>3. f \notin merge.present /\ SourceWeightDelta(f) = 0 => ~excluded
      BY <2>1 DEF Underway
    <3>4. f \notin merge.present /\ SourceWeightDelta(f) > 0 => excluded
      BY <2>1, <2>3, <2>4 DEF Underway
    <3> QED BY <3>1, <3>2, <3>3, <3>4
  <2>6. f \in counted' <=> ~excluded
    BY <1>1, <1>2
  <2>7. SourceWeightDelta(f) \in Nat
    BY SourceWeightDeltaNat
  <2> HIDE DEF f
  <2>8. f \in counted' <=> f \in merge.present \/ SourceWeightDelta(f) = 0
    BY <2>5, <2>6, <2>7
  <2>9. f \notin merge.present => scores'[f].score = 0
    BY <1>2, <2>4
  <2> DEFINE g == ScoredFields[i]
  <2>10. SourceWeightDelta(g)' = SourceWeightDelta(g)
    BY <1>4
  <2>11. Settled(g)'
    <3> HIDE DEF g
    <3>1. g = f
      BY <2>0 DEF g
    <3> QED BY <1>3, <2>8, <2>9, <2>10, <3>1 DEF Settled, g
  <2> QED BY <2>11
<1>8. AbsenceComesLast' <=> AbsenceComesLast
  BY <1>3 DEF AbsenceComesLast
<1>9. \A i \in 1..Len(ScoredFields) : i < field' => i < field \/ i = field
  BY <1>2, <1>3
<1> QED BY <1>2, <1>5, <1>6, <1>7, <1>8, <1>9 DEF AbsenceSoFar
LEMMA AbsenceInductive ==
  /\ Init /\ Bounds => AbsenceSoFar
  /\ IInv /\ Bounds /\ AbsenceSoFar /\ [Next]_vars => AbsenceSoFar'
<1>1. ASSUME Init, Bounds PROVE AbsenceSoFar
  BY <1>1, OrderIsSequence DEF Init, AbsenceSoFar, Underway
<1>2. ASSUME IInv, Bounds, AbsenceSoFar, [Next]_vars PROVE AbsenceSoFar'
  <2>1. UNCHANGED <<merge, order>>
    BY <1>2, StepsKeep
  <2>2. \A g : SourceWeightDelta(g)' = SourceWeightDelta(g)
    <3>1. \A g : Metadata(g)' = Metadata(g)
      BY <2>1, MetadataConstant
    <3> QED BY <3>1 DEF SourceWeightDelta
  <2>3. AbsenceComesLast' <=> AbsenceComesLast
    BY <2>1 DEF AbsenceComesLast
  <2>4. CASE RunStrategy
    <3>1. running \in 0..Scale
      BY <1>2 DEF IInv, TypeOK
    <3>2. field' = field /\ field \in 1..Len(ScoredFields) /\ UNCHANGED <<scores, counted>>
      BY <1>2, <2>4, <3>1, StrategyRuns
    <3>3. ASSUME NEW i \in 1..Len(ScoredFields), i = field PROVE Underway(ScoredFields[i])'
      <4>1. Underway(ScoredFields[field])
        BY <1>2, <3>2 DEF AbsenceSoFar
      <4>2. Underway(ScoredFields[field])'
        BY <1>2, <2>4, <4>1, StrategyKeepsUnderway
      <4> QED BY <3>2, <3>3, <4>2
    <3>4. ASSUME NEW i \in 1..Len(ScoredFields), i < field, AbsenceComesLast
          PROVE  Settled(ScoredFields[i])'
      <4>1. Settled(ScoredFields[i])
        BY <1>2, <3>4 DEF AbsenceSoFar
      <4> QED BY <2>1, <2>2, <3>2, <4>1 DEF Settled
    <3> QED BY <2>3, <3>2, <3>3, <3>4 DEF AbsenceSoFar
  <2>5. CASE FinishField
    BY <1>2, <2>5, FieldSettles
  <2>6. CASE UNCHANGED <<field, step, running, excluded, scores, trace, penalties, bonuses,
                         counted>>
    <3>1. \A g : Underway(g)' <=> Underway(g)
      BY <2>1, <2>2, <2>6 DEF Underway
    <3>2. \A g : Settled(g)' <=> Settled(g)
      BY <2>1, <2>2, <2>6 DEF Settled
    <3> QED BY <1>2, <2>3, <2>6, <3>1, <3>2 DEF AbsenceSoFar
  <2> QED BY <1>2, <2>4, <2>5, <2>6, StepsKeep
<1> QED BY <1>1, <1>2

LEMMA AbsenceIsTold ==
  IInv /\ Bounds /\ AbsenceSoFar => PresentFieldsDecide
<1> SUFFICES ASSUME IInv, Bounds, AbsenceSoFar, outcome = "scored", AbsenceComesLast
             PROVE  /\ merge.present \subseteq counted
                    /\ \A f \in Scored \ merge.present :
                         scores[f].score = 0 /\ (f \in counted => SourceWeightDelta(f) = 0)
                    /\ \A high \in 0..Scale :
                         (\A f \in merge.present : scores[f].score <= high)
                           => overall.num <= high * overall.den
  BY DEF PresentFieldsDecide
<1>1. \A f \in Scored : Settled(f)
  <2> SUFFICES ASSUME NEW f \in Scored PROVE Settled(f)
    OBVIOUS
  <2>1. PICK i \in 1..Len(ScoredFields) : ScoredFields[i] = f
    BY OrderIsSequence DEF Scored, ToSet
  <2>2. i < field
    BY OrderIsSequence DEF Bounds
  <2> QED BY <2>1, <2>2 DEF AbsenceSoFar
<1>2. counted \subseteq Scored
  <2>1. \A i \in 1..(field - 1) : ScoredFields[i] \in Scored
    BY OrderIsSequence DEF Bounds, Scored, ToSet
  <2> QED BY <2>1 DEF IInv, TypeOK
<1>3. merge.present \subseteq Scored
  BY MergesAssumption DEF Bounds
<1>4. \A f \in Scored : f \in counted <=> f \in merge.present \/ SourceWeightDelta(f) = 0
  BY <1>1 DEF Settled
<1>5. \A f \in Scored \ merge.present : scores[f].score = 0
  BY <1>1 DEF Settled
<1>6. \A f \in Scored \ merge.present : f \in counted => SourceWeightDelta(f) = 0
  BY <1>4
<1>7. ASSUME NEW high \in 0..Scale, \A f \in merge.present : scores[f].score <= high
      PROVE  overall.num <= high * overall.den
  <2>1. \A f \in counted : scores[f].score \in 0..high
    <3>1. \A f \in counted : scores[f].score \in 0..Scale
      BY DEF IInv, TypeOK
    <3>2. \A f \in counted : scores[f].score <= high
      BY <1>2, <1>5, <1>7
    <3> QED BY <1>7, <3>1, <3>2
  <2>2. CASE total > 0
    BY <1>7, <2>1, <2>2, AverageIsBounded, ScaleAssumption DEF OverallWithinScores
  <2>3. CASE ~(total > 0)
    <3>1. overall.num = 0 /\ overall.den = 1
      BY <2>3 DEF IInv, OverallIsAverage, Average
    <3> QED BY <1>7, <3>1
  <2> QED BY <2>2, <2>3
<1> QED BY <1>3, <1>4, <1>5, <1>6, <1>7

-----------------------------------------------------------------------------
(* The trace.  The entries of a field, so far, lead from 0 to its score so *)
(* far: all of them to the score of a field that is done, the first        *)
(* step - 1 to running_score, none to 0.                                   *)
TraceEntry == [field : Scored, strategy : Strategies, old : 0..Scale, delta : Int, new : 0..Scale]

Asked(i) == IF i < field THEN Len(order) ELSE IF i = field THEN step - 1 ELSE 0

ScoreSoFar(i) ==
  IF i < field THEN scores[ScoredFields[i]].score ELSE IF i = field THEN running ELSE 0

TraceSoFar ==
  /\ trace \in Seq(TraceEntry)
  /\ \A i \in 1..Len(ScoredFields) :
       Explains(EntriesOf(ScoredFields[i]), Asked(i), ScoreSoFar(i))

\* An entry more is one more of its field, and none of any other.
LEMMA EntriesGrow ==
  ASSUME trace \in Seq(TraceEntry), NEW entry \in TraceEntry, trace' = Append(trace, entry),
         NEW f
  PROVE  EntriesOf(f)' = IF entry.field = f THEN Append(EntriesOf(f), entry) ELSE EntriesOf(f)
<1> DEFINE longer == Append(trace, entry)
           before == {i \in DOMAIN trace : trace[i].field = f}
           after == {i \in DOMAIN longer : longer[i].field = f}
<1>1. /\ Len(trace) \in Nat /\ DOMAIN trace = 1..Len(trace)
      /\ DOMAIN longer = 1..(Len(trace) + 1) /\ longer[Len(trace) + 1] = entry
      /\ \A i \in DOMAIN trace : longer[i] = trace[i]
  OBVIOUS
<1>2. \A i \in DOMAIN trace : i \in after <=> i \in before
  <2> HIDE DEF longer
  <2> QED BY <1>1
<1>3. Len(trace) + 1 \in after <=> entry.field = f
  <2> HIDE DEF longer
  <2> QED BY <1>1
<1>4. EntriesOf(f)' = At(longer, after) /\ EntriesOf(f) = At(trace, before)
  BY DEF EntriesOf
<1> HIDE DEF after, before
<1>5. At(trace, after) = At(trace, before)
  BY <1>2, AtAgrees
<1>6. At(longer, after) = IF Len(trace) + 1 \in after THEN Append(At(trace, after), entry)
                          ELSE At(trace, after)
  BY AtAppend
<1> QED BY <1>3, <1>4, <1>5, <1>6

\* A trace that explains a score so far explains the next, once the strategy
\* that made it has entered what it did.
LEMMA OneMoreEntry ==
  ASSUME NEW entries \in Seq(TraceEntry), NEW entry \in TraceEntry, NEW n \in Nat, NEW score,
         Explains(entries, n, score),
         entry.strategy = order[n + 1], entry.old = score,
         entry.new = Clamp(entry.old + entry.delta)
  PROVE  Explains(Append(entries, entry), n + 1, entry.new)
<1> DEFINE more == Append(entries, entry)
<1>1. Len(entries) = n /\ DOMAIN entries = 1..n
  BY DEF Explains
<1>2. DOMAIN more = 1..(n + 1) /\ more[n + 1] = entry /\ \A j \in 1..n : more[j] = entries[j]
  BY <1>1
<1> HIDE DEF more
<1>3. ASSUME NEW j \in 1..(n + 1)
      PROVE  /\ more[j].strategy = order[j]
             /\ more[j].old = IF j = 1 THEN 0 ELSE more[j - 1].new
             /\ more[j].new = Clamp(more[j].old + more[j].delta)
  <2>1. CASE j \in 1..n
    <3>1. j # 1 => j - 1 \in 1..n
      BY <2>1
    <3>2. /\ entries[j].strategy = order[j]
          /\ entries[j].old = IF j = 1 THEN 0 ELSE entries[j - 1].new
          /\ entries[j].new = Clamp(entries[j].old + entries[j].delta)
      BY <2>1 DEF Explains
    <3> QED BY <1>2, <2>1, <3>1, <3>2
  <2>2. CASE j = n + 1
    <3>1. score = IF n = 0 THEN 0 ELSE entries[n].new
      BY DEF Explains
    <3>2. (n = 0 <=> j = 1) /\ (n # 0 => j - 1 = n /\ n \in 1..n)
      BY <2>2
    <3> QED BY <1>2, <2>2, <3>1, <3>2
  <2> QED BY <2>1, <2>2
<1>4. n + 1 # 0 /\ entry.new = more[n + 1].new
  BY <1>2
<1>5. Explains(more, n + 1, entry.new)
  BY <1>2, <1>3, <1>4 DEF Explains
<1> QED BY <1>5 DEF more

LEMMA StrategyIsTraced ==
  ASSUME IInv, Bounds, TraceSoFar, RunStrategy
  PROVE  TraceSoFar'
<1> DEFINE f == ScoredFields[field]
           delta == Delta(order[step], f)
           entry == [field |-> f, strategy |-> order[step], old |-> running,
                     delta |-> delta, new |-> running']
<1>1. running \in 0..Scale
  BY DEF IInv, TypeOK
<1>2. /\ field \in 1..Len(ScoredFields) /\ f \in Scored
      /\ step \in 1..Len(order) /\ order[step] \in Strategies /\ delta \in Int
      /\ field' = field /\ step' = step + 1
      /\ running' = Clamp(running + delta) /\ running' \in 0..Scale
      /\ UNCHANGED <<scores, counted>>
  BY <1>1, StrategyRuns
<1>3. trace' = Append(trace, entry) /\ order' = order
  BY DEF RunStrategy
<1>4. /\ entry \in TraceEntry /\ entry.field = f /\ entry.strategy = order[step]
      /\ entry.old = running /\ entry.new = Clamp(entry.old + entry.delta)
      /\ entry.new = running'
  BY <1>1, <1>2 DEF TraceEntry
<1>5. trace' \in Seq(TraceEntry)
  <2> HIDE DEF entry
  <2> QED BY <1>3, <1>4 DEF TraceSoFar
<1>6. Len(order) \in Nat /\ Len(ScoredFields) \in Nat
  BY OrderIsSequence
<1>7. ASSUME NEW i \in 1..Len(ScoredFields)
      PROVE  Explains(EntriesOf(ScoredFields[i]), Asked(i), ScoreSoFar(i))'
  <2> DEFINE g == ScoredFields[i]
  <2>1. Explains(EntriesOf(g), Asked(i), ScoreSoFar(i))
    BY DEF TraceSoFar
  <2>2. EntriesOf(g)' = IF entry.field = g THEN Append(EntriesOf(g), entry) ELSE EntriesOf(g)
    <3> HIDE DEF entry, g
    <3>1. trace \in Seq(TraceEntry)
      BY DEF TraceSoFar
    <3> QED BY <1>3, <1>4, <3>1, EntriesGrow DEF g
  <2>3. CASE i = field
    <3>1. Asked(i) = step - 1 /\ ScoreSoFar(i) = running
      BY <2>3 DEF Asked, ScoreSoFar
    <3>2. Asked(i)' = step /\ ScoreSoFar(i)' = running'
      BY <1>2, <2>3 DEF Asked, ScoreSoFar
    <3>3. EntriesOf(g)' = Append(EntriesOf(g), entry)
      BY <1>4, <2>2, <2>3
    <3>4. EntriesOf(g) \in Seq(TraceEntry)
      BY AtPicks DEF TraceSoFar, EntriesOf
    <3> HIDE DEF entry, g
    <3>5. step - 1 \in Nat /\ (step - 1) + 1 = step
      BY <1>2
    <3>6. Explains(EntriesOf(g), step - 1, running)
      BY <2>1, <3>1 DEF g
    <3>7. Explains(Append(EntriesOf(g), entry), (step - 1) + 1, entry.new)
      BY <1>4, <3>4, <3>5, <3>6, OneMoreEntry
    <3>8. Explains(EntriesOf(g)', step, running')
      BY <1>4, <3>3, <3>5, <3>7
    <3>9. Explains(EntriesOf(g), Asked(i), ScoreSoFar(i))'
      BY <1>3, <3>2, <3>8 DEF Explains
    <3> QED BY <3>9 DEF g
  <2>4. CASE i # field
    <3>1. entry.field # g
      BY <1>2, <1>4, <2>4, OrderIsSequence, FieldsAssumption
    <3>2. Asked(i)' = Asked(i) /\ ScoreSoFar(i)' = ScoreSoFar(i)
      BY <1>2, <1>3, <2>4 DEF Asked, ScoreSoFar
    <3> HIDE DEF entry
    <3>3. EntriesOf(g)' = EntriesOf(g)
      BY <2>2, <3>1
    <3> QED BY <1>3, <2>1, <3>2, <3>3 DEF Explains
  <2> QED BY <2>3, <2>4
<1> QED BY <1>5, <1>7 DEF TraceSoFar

LEMMA TraceInductive ==
  /\ Init /\ Bounds => TraceSoFar
  /\ IInv /\ Bounds /\ TraceSoFar /\ [Next]_vars => TraceSoFar'
<1>1. ASSUME Init, Bounds PROVE TraceSoFar
  <2>1. trace \in Seq(TraceEntry) /\ DOMAIN trace = {}
    BY <1>1 DEF Init
  <2>2. \A f : EntriesOf(f) = <<>>
    BY <2>1, AtOfEmpty DEF EntriesOf
  <2>3. \A i \in 1..Len(ScoredFields) : Asked(i) = 0 /\ ScoreSoFar(i) = 0
    BY <1>1, OrderIsSequence DEF Init, Asked, ScoreSoFar
  <2>4. DOMAIN <<>> = 1..0 /\ \A j : j \notin 1..0
    OBVIOUS
  <2>5. Explains(<<>>, 0, 0)
    BY <2>4 DEF Explains
  <2> QED BY <2>1, <2>2, <2>3, <2>5 DEF TraceSoFar
<1>2. ASSUME IInv, Bounds, TraceSoFar, [Next]_vars PROVE TraceSoFar'
  <2>1. UNCHANGED <<merge, order>> /\ Len(order) \in Nat /\ Len(ScoredFields) \in Nat
    BY <1>2, StepsKeep, OrderIsSequence
  <2>2. CASE RunStrategy
    BY <1>2, <2>2, StrategyIsTraced
  <2>3. CASE FinishField
    <3>1. DOMAIN scores = {ScoredFields[i] : i \in 1..(field - 1)}
      BY <1>2 DEF IInv, TypeOK
    <3>2. /\ field \in 1..Len(ScoredFields) /\ step = Len(order) + 1
          /\ field' = field + 1 /\ step' = 1 /\ running' = 0
          /\ scores'[ScoredFields[field]].score = running
          /\ \A g \in DOMAIN scores : scores'[g] = scores[g]
          /\ trace' = trace
      BY <1>2, <2>3, <3>1, FieldFinishes
    <3>3. \A f : EntriesOf(f)' = EntriesOf(f)
      BY <3>2 DEF EntriesOf
    <3>4. ASSUME NEW i \in 1..Len(ScoredFields)
          PROVE  Asked(i)' = Asked(i) /\ ScoreSoFar(i)' = ScoreSoFar(i)
      <4>1. CASE i < field
        <5>1. ScoredFields[i] \in DOMAIN scores
          BY <3>1, <3>2, <4>1
        <5> QED BY <2>1, <3>2, <4>1, <5>1 DEF Asked, ScoreSoFar
      <4>2. CASE i = field
        BY <2>1, <3>2, <4>2 DEF Asked, ScoreSoFar
      <4>3. CASE i > field
        BY <2>1, <3>2, <4>3 DEF Asked, ScoreSoFar
      <4> QED BY <3>2, <4>1, <4>2, <4>3
    <3>5. ASSUME NEW i \in 1..Len(ScoredFields)
          PROVE  Explains(EntriesOf(ScoredFields[i]), Asked(i), ScoreSoFar(i))'
      <4>1. Explains(EntriesOf(ScoredFields[i]), Asked(i), ScoreSoFar(i))
        BY <1>2 DEF TraceSoFar
      <4> QED BY <2>1, <3>3, <3>4, <4>1 DEF Explains
    <3> QED BY <1>2, <3>2, <3>5 DEF TraceSoFar
  <2>4. CASE UNCHANGED <<field, step, running, excluded, scores, trace, penalties, bonuses,
                         counted>>
    BY <1>2, <2>1, <2>4 DEF TraceSoFar, Explains, EntriesOf, Asked, ScoreSoFar
  <2> QED BY <1>2, <2>2, <2>3, <2>4, StepsKeep
<1> QED BY <1>1, <1>2

LEMMA TraceIsTold == IInv /\ Bounds /\ TraceSoFar => TraceExplainsScores
<1> SUFFICES ASSUME IInv, Bounds, TraceSoFar, NEW f \in DOMAIN scores
             PROVE  Explains(EntriesOf(f), Len(order), scores[f].score)
  BY DEF TraceExplainsScores
<1>1. PICK i \in 1..(field - 1) : ScoredFields[i] = f
  BY DEF IInv, TypeOK
<1>2. i \in 1..Len(ScoredFields) /\ i < field
  BY OrderIsSequence DEF Bounds
<1>3. Asked(i) = Len(order) /\ ScoreSoFar(i) = scores[f].score
  BY <1>1, <1>2 DEF Asked, ScoreSoFar
<1> QED BY <1>1, <1>2, <1>3 DEF TraceSoFar

-----------------------------------------------------------------------------
ScoringInv ==
  IInv /\ Bounds /\ NotesJustified /\ PenaltiesComplete /\ AbsenceSoFar /\ TraceSoFar

LEMMA ScoringInductive == Spec => []ScoringInv
<1>1. Init => ScoringInv
  <2>1. Init => NotesJustified
    BY DEF Init, NotesJustified
  <2> QED BY <2>1, InitIInv, BoundsInductive, PenaltiesInductive, AbsenceInductive,
             TraceInductive DEF ScoringInv
<1>2. ScoringInv /\ [Next]_vars => ScoringInv'
  BY NextIInv, BoundsInductive, NextKeepsNotes, PenaltiesInductive, AbsenceInductive,
     TraceInductive DEF ScoringInv
<1> QED BY <1>1, <1>2, PTL DEF Spec

\* The report's calculation_trace accounts for every score in it: one entry
\* per strategy in the configured order, from 0 to the score of the field.
THEOREM TraceExplainsScoresHolds == Spec => []TraceExplainsScores
<1>1. ScoringInv => TraceExplainsScores
  BY TraceIsTold DEF ScoringInv
<1> QED BY <1>1, ScoringInductive, PTL

\* For any fields, weights and merges: where absence comes last, aggregate counts
\* every field that has a value and no other one whose sources have a weight, and
\* what it counts besides lifts the overall score above no field that has a value.
THEOREM PresentFieldsDecideHolds == Spec => []PresentFieldsDecide
<1>1. ScoringInv => PresentFieldsDecide
  BY AbsenceIsTold DEF ScoringInv
<1> QED BY <1>1, ScoringInductive, PTL

\* Where the order has conflict_penalty, the penalties of a report name the
\* fields whose records, or whose sub-fields' records, are in conflict.
THEOREM ConflictIsPenalisedHolds == Spec => []ConflictIsPenalised
<1>1. ScoringInv => ConflictIsPenalised
  BY PenaltiesTellConflicts DEF ScoringInv
<1> QED BY <1>1, ScoringInductive, PTL
=============================================================================
