----------------------------- MODULE Confidence -----------------------------
(***************************************************************************)
(* ConfidenceEngine.run: ConfidenceAggregator.aggregate of                 *)
(* confidence/aggregator.py with the four strategies of strategies.py, on  *)
(* the view of a merge that merge_metadata.py gives them.  One step is one *)
(* iteration of the inner loop (a strategy scores a field) or the end of   *)
(* an iteration of the outer one.                                          *)
(*                                                                         *)
(* Scores are integers out of Scale; what floats round is not modelled.    *)
(* The weighted average is kept as a fraction.                             *)
(***************************************************************************)
EXTENDS Lists

CONSTANTS
  None,
  Scale,          \* the score 1.0
  ScoredFields,   \* the fields to score, in order
  RecordedFields, \* the fields a merge report has records of, in order
  Parent,         \* recorded field -> what precedes the dot of its name, or None
  SourceWeight,   \* source -> base score, where the configuration has one
  Bonus, Penalty, \* of agreement and of conflict
  FieldWeight,    \* scored field -> weight in the average
  Orders,         \* strategy orders a configuration may name
  Merges          \* what the engine may be called on

DataSource == {"ATS", "RESUME"}
Strategies == {"source_weight", "agreement", "conflict_penalty", "missing_field"}
Scored == ToSet(ScoredFields)
Recorded == ToSet(RecordedFields)

\* [conflict, contributing, considered] of a field.
View == [conflict : BOOLEAN, contributing : Seq(DataSource), considered : Seq(DataSource)]

\* The constructors' defaults, 0.1 and 0.2: a registry name gives no other.
ASSUME ScaleAssumption == Scale \in Nat \ {0} /\ Bonus \in Nat \ {0} /\ Penalty \in Nat \ {0}
ASSUME FieldsAssumption ==
  /\ ScoredFields \in Seq(Scored) /\ RecordedFields \in Seq(Recorded)
  /\ \A i, j \in DOMAIN ScoredFields : ScoredFields[i] = ScoredFields[j] => i = j
ASSUME SourceWeightAssumption ==
  \E configured \in SUBSET DataSource : SourceWeight \in [configured -> Nat]
ASSUME FieldWeightAssumption == FieldWeight \in [Scored -> Nat]
ASSUME OrdersAssumption == \A o \in Orders : o \in Seq(ToSet(o))
\* A merge has a single source, or a record of every recorded field.  A field
\* that the golden record lacks was empty in every source, its sub-fields too:
\* nobody contributed to it and nothing was in conflict.
ASSUME MergesAssumption ==
  \A m \in Merges :
    /\ m.single \in DataSource \cup {None}
    /\ m.views \in [Recorded -> View]
    /\ m.present \subseteq Scored
    /\ m.single = None =>
         \A f \in Scored \ m.present : \A g \in Recorded :
           g = f \/ Parent[g] = f
             => m.views[g].contributing = <<>> /\ ~m.views[g].conflict

VARIABLES
  merge,       \* the merge metadata and which scored fields have a value
  order,       \* strategy_order of the configuration
  field,       \* index of the field being scored
  step,        \* index of the strategy about to score it
  running,     \* running_score
  excluded,    \* field_excluded
  scores,      \* field_scores: [score, source] of each field done
  trace,       \* calculation_trace
  penalties, bonuses,
  sum, total,  \* weighted_sum, weight_total
  counted,     \* history: the fields that entered the sums
  overall,     \* the overall score as a fraction [num, den]
  outcome

vars == <<merge, order, field, step, running, excluded, scores, trace,
          penalties, bonuses, sum, total, counted, overall, outcome>>

Init ==
  /\ merge \in Merges
  /\ order \in Orders
  /\ field = 1 /\ step = 1
  /\ running = 0
  /\ excluded = FALSE
  /\ scores = [f \in {} |-> 0]
  /\ trace = <<>> /\ penalties = <<>> /\ bonuses = <<>>
  /\ sum = 0 /\ total = 0
  /\ counted = {}
  /\ overall = None
  /\ outcome = "scoring"

-----------------------------------------------------------------------------
WithoutRepeats(sources) == At(sources, Firsts(sources))

Children(f) == At(RecordedFields, {i \in DOMAIN RecordedFields : Parent[RecordedFields[i]] = f})

\* Seeded fault: only the first recorded sub-field speaks for its parent.
Resolve_FirstChild(f) ==
  IF f \in Recorded THEN merge.views[f] ELSE merge.views[Children(f)[1]]

\* _resolve: a field's own record, or the union of its sub-fields' records
\* (of no records: no conflict and no sources, as for an unknown field).
Resolve(f) ==
  LET views == [i \in DOMAIN Children(f) |-> merge.views[Children(f)[i]]]
  IN  IF f \in Recorded THEN merge.views[f]
      ELSE [conflict |-> \E i \in DOMAIN views : views[i].conflict,
            contributing |->
              WithoutRepeats(FlattenSeq([i \in DOMAIN views |-> views[i].contributing])),
            considered |->
              WithoutRepeats(FlattenSeq([i \in DOMAIN views |-> views[i].considered]))]

\* MergeMetadata, from a merge report or from a single source.
Metadata(f) ==
  IF merge.single = None THEN Resolve(f)
  ELSE [conflict |-> FALSE, contributing |-> <<merge.single>>, considered |-> <<merge.single>>]

WeightOf(source) == IF source \in DOMAIN SourceWeight THEN SourceWeight[source] ELSE 0

SourceWeightDelta(f) ==
  LET considered == ToSet(Metadata(f).considered)
  IN  IF considered = {} THEN 0 ELSE Max({WeightOf(s) : s \in considered})

\* Seeded fault: several sources are rewarded even when they disagree.
AgreementDelta_ConflictToo(f) == IF Len(Metadata(f).contributing) > 1 THEN Bonus ELSE 0

AgreementDelta(f) ==
  IF Len(Metadata(f).contributing) > 1 /\ ~Metadata(f).conflict THEN Bonus ELSE 0

ConflictDelta(f) == IF Metadata(f).conflict THEN -Penalty ELSE 0

MissingDelta(f) == IF f \in merge.present THEN 0 ELSE -running

Delta(strategy, f) ==
  CASE strategy = "source_weight" -> SourceWeightDelta(f)
    [] strategy = "agreement" -> AgreementDelta(f)
    [] strategy = "conflict_penalty" -> ConflictDelta(f)
    [] OTHER -> MissingDelta(f)

PrimarySource(f) ==
  IF Metadata(f).considered = <<>> THEN "ATS" ELSE Metadata(f).considered[1]

\* Seeded fault: no lower bound.
Clamp_NoFloor(score) == IF score > Scale THEN Scale ELSE score

Clamp(score) == IF score < 0 THEN 0 ELSE IF score > Scale THEN Scale ELSE score

\* Seeded fault: whatever lowers a score keeps the field out of the average.
Excludes_AnyPenalty(strategy, delta) == delta < 0

Excludes(strategy, delta) == strategy = "missing_field" /\ delta < 0

-----------------------------------------------------------------------------
\* build_strategies refuses a name that is not in the registry.
RefuseOrder ==
  /\ outcome = "scoring" /\ field = 1 /\ step = 1
  /\ ~(ToSet(order) \subseteq Strategies)
  /\ outcome' = "ConfidenceError"
  /\ UNCHANGED <<merge, order, field, step, running, excluded, scores, trace,
                 penalties, bonuses, sum, total, counted, overall>>

Built == outcome = "scoring" /\ ToSet(order) \subseteq Strategies

RunStrategy ==
  /\ Built
  /\ field <= Len(ScoredFields) /\ step <= Len(order)
  /\ LET f == ScoredFields[field]
         delta == Delta(order[step], f)
         note == [field |-> f, strategy |-> order[step]]
     IN  /\ running' = Clamp(running + delta)
         /\ trace' = Append(trace, [field |-> f, strategy |-> order[step], old |-> running,
                                    delta |-> delta, new |-> running'])
         /\ excluded' = (excluded \/ Excludes(order[step], delta))
         /\ penalties' = IF delta < 0 THEN Append(penalties, note) ELSE penalties
         /\ bonuses' = IF delta > 0 THEN Append(bonuses, note) ELSE bonuses
  /\ step' = step + 1
  /\ UNCHANGED <<merge, order, field, scores, sum, total, counted, overall, outcome>>

\* Seeded fault: the next field starts from the score of this one.
Restart_Running == running

Restart == 0

FinishField ==
  /\ Built
  /\ field <= Len(ScoredFields) /\ step > Len(order)
  /\ LET f == ScoredFields[field]
         done == [score |-> running, source |-> PrimarySource(f)]
     IN  /\ scores' = [g \in DOMAIN scores \cup {f} |-> IF g = f THEN done ELSE scores[g]]
         /\ IF excluded THEN UNCHANGED <<sum, total, counted>>
            ELSE /\ sum' = sum + running * FieldWeight[f]
                 /\ total' = total + FieldWeight[f]
                 /\ counted' = counted \cup {f}
  /\ field' = field + 1 /\ step' = 1
  /\ running' = Restart
  /\ excluded' = FALSE
  /\ UNCHANGED <<merge, order, trace, penalties, bonuses, overall, outcome>>

\* Seeded fault: the weighted sum is divided by the number of fields.
Average_Unweighted ==
  IF total > 0 THEN [num |-> sum, den |-> Len(ScoredFields)] ELSE [num |-> 0, den |-> 1]

\* The clamped weighted average.
Average ==
  IF total > 0
  THEN [num |-> IF sum > Scale * total THEN Scale * total ELSE sum, den |-> total]
  ELSE [num |-> 0, den |-> 1]

Report ==
  /\ Built
  /\ field > Len(ScoredFields)
  /\ overall' = Average
  /\ outcome' = "scored"
  /\ UNCHANGED <<merge, order, field, step, running, excluded, scores, trace,
                 penalties, bonuses, sum, total, counted>>

Returned ==
  /\ outcome # "scoring"
  /\ UNCHANGED vars

Next == RefuseOrder \/ RunStrategy \/ FinishField \/ Report \/ Returned

Spec == Init /\ [][Next]_vars

-----------------------------------------------------------------------------
\* The types of the variables, and how far the loops have come.
TypeOK ==
  /\ field \in 1..(Len(ScoredFields) + 1) /\ step \in Nat \ {0}
  /\ running \in 0..Scale /\ excluded \in BOOLEAN
  /\ DOMAIN scores = {ScoredFields[i] : i \in 1..(field - 1)}
  /\ \A f \in DOMAIN scores : scores[f].score \in 0..Scale
  /\ sum \in Nat /\ total \in Nat
  /\ counted \subseteq DOMAIN scores
  /\ outcome \in {"scoring", "scored", "ConfidenceError"}

EntriesOf(f) == At(trace, {i \in DOMAIN trace : trace[i].field = f})

\* The entries are those of the first n strategies, each takes up the score
\* the one before left, and the last leaves the given one.
Explains(entries, n, score) ==
  /\ DOMAIN entries = 1..n
  /\ \A j \in 1..n :
       /\ entries[j].strategy = order[j]
       /\ entries[j].old = IF j = 1 THEN 0 ELSE entries[j - 1].new
       /\ entries[j].new = Clamp(entries[j].old + entries[j].delta)
  /\ score = IF n = 0 THEN 0 ELSE entries[n].new

\* The trace of a report explains its scores: the entries of a field, one per
\* strategy and in their order, lead from 0 to the field's score.
TraceExplainsScores ==
  \A f \in DOMAIN scores : Explains(EntriesOf(f), Len(order), scores[f].score)

\* The overall score lies between the lowest and the highest score of the
\* fields that count, whatever the weights: the clamp of it never bites.
OverallWithinScores ==
  outcome = "scored" =>
    \A low, high \in 0..Scale :
      (\A f \in counted : scores[f].score \in low..high) /\ total > 0
        => low * overall.den <= overall.num /\ overall.num <= high * overall.den

\* The orders in which absence has the last word on a score that the weight of
\* a source was added to before, as in the shipped configuration.
AbsenceComesLast ==
  /\ order # <<>> /\ order[Len(order)] = "missing_field"
  /\ "source_weight" \in ToSet(order)

\* The fields that have a value decide the overall score: each of them counts,
\* however low it scores, and the best of them bounds the average.  One without a
\* value scores 0, and it does not count if its sources have a weight.  (If they
\* have none it does: see AbsentFieldsAreExcluded.)
PresentFieldsDecide ==
  outcome = "scored" /\ AbsenceComesLast =>
    /\ merge.present \subseteq counted
    /\ \A f \in Scored \ merge.present :
         scores[f].score = 0 /\ (f \in counted => SourceWeightDelta(f) = 0)
    /\ \A high \in 0..Scale :
         (\A f \in merge.present : scores[f].score <= high) => overall.num <= high * overall.den

\* What aggregate says of the average: "Fields whose value is absent (driven to
\* score 0 by the missing-field strategy) are excluded from the weighted
\* average's denominator".
AbsentFieldsAreExcluded ==
  outcome = "scored" /\ AbsenceComesLast => counted \subseteq merge.present

Noted(notes, f, strategy) ==
  \E i \in DOMAIN notes : notes[i].field = f /\ notes[i].strategy = strategy

\* The merge has a record of a conflict, of the field or of a sub-field.
ConflictRecorded(f) ==
  /\ merge.single = None
  /\ \E g \in Recorded :
       (g = f \/ (f \notin Recorded /\ Parent[g] = f)) /\ merge.views[g].conflict

\* Where conflicts are penalised at all, a field costs a penalty exactly when
\* the merge recorded a conflict of the field or of one of its sub-fields: no
\* conflict is lost on the way.
ConflictIsPenalised ==
  outcome = "scored" /\ "conflict_penalty" \in ToSet(order) =>
    \A f \in Scored : Noted(penalties, f, "conflict_penalty") <=> ConflictRecorded(f)

\* A conflicted field of several sources is not rewarded for them, a parent of
\* one agreeing and one conflicting sub-field included.
NeverRewardedAndPenalised ==
  \A f \in Scored :
    ~(Noted(bonuses, f, "agreement") /\ Noted(penalties, f, "conflict_penalty"))
=============================================================================
