----------------------------- MODULE MCConfidence -----------------------------
(***************************************************************************)
(* Instance of Confidence for TLC.  The merges scored are merges of an ATS *)
(* and a resume candidate by MergeStrategies under the rules of            *)
(* config/merge_policy.yaml: skills by union, the others by priority.      *)
(* Scores are in tenths.                                                   *)
(***************************************************************************)
EXTENDS Confidence

CONSTANTS a, b         \* two values of a field

Strategy == INSTANCE MergeStrategies WITH
              CaseFold <- [s \in {a, b} |-> s], Attrs <- {}, Blank <- {}, Norm <- <<>>

MCScoredFields == <<"first_name", "contact", "skills">>
MCRecordedFields == <<"first_name", "skills", "contact.email", "contact.phone">>
MCParent ==
  [f \in Recorded |-> IF f \in {"contact.phone", "contact.email"} THEN "contact" ELSE None]
\* A configuration may leave a source out, which then weighs nothing.
MCSourceWeight == "ATS" :> 7
MCFieldWeight == "first_name" :> 2 @@ "contact" :> 3 @@ "skills" :> 1

Shipped == <<"source_weight", "agreement", "conflict_penalty", "missing_field">>
MCOrders ==
  {Shipped,
   <<"conflict_penalty", "agreement", "source_weight", "missing_field">>,
   <<"source_weight", "recency">>}

-----------------------------------------------------------------------------
\* What each source holds of each recorded field: a value of one source only,
\* the same value or different values.
Empty(f) == IF f = "skills" THEN <<>> ELSE None
Value(f, v) == IF f = "skills" THEN <<v>> ELSE v
Pair(x, y) == [s \in DataSource |-> IF s = "ATS" THEN x ELSE y]
Held(f) ==
  {Pair(x, y) : x \in {Empty(f), Value(f, a)},
                   y \in {Empty(f), Value(f, a), Value(f, b)}}
Holdings ==
  {h \in [Recorded -> UNION {Held(f) : f \in Recorded}] :
     /\ \A f \in Recorded : h[f] \in Held(f)
     /\ \E s \in DataSource : h["first_name"][s] # None
     /\ h["contact.email"]["RESUME"] # b
     /\ h["skills"]["RESUME"] = <<b>> => h["skills"]["ATS"] = <<a>>}

Resolved(f, held) ==
  LET values == [i \in 1..2 |-> LET s == <<"ATS", "RESUME">>[i]
                                IN  [source |-> s, value |-> held[s], confidence |-> None]]
      ats_first == <<"ATS", "RESUME">>
  IN  IF f = "skills"
      THEN Strategy!UnionStrategy(Strategy!MergeFlat(Strategy!Combined(values, ats_first)),
                                  values, ats_first)
      ELSE Strategy!SourcePriority(values, ats_first)

\* What from_merge_report makes of the records of such a merge.
ViewOf(f, held) ==
  [conflict |-> Resolved(f, held).conflict,
   contributing |-> Resolved(f, held).contributing,
   considered |-> <<"ATS", "RESUME">>]

Present(holding) ==
  {f \in Scored :
     \E g \in Recorded, s \in DataSource :
       (g = f \/ MCParent[g] = f) /\ holding[g][s] # Empty(g)}

Merge(single, h) ==
  [single |-> single, present |-> Present(h), holding |-> h,
   views |-> [f \in Recorded |-> ViewOf(f, h[f])]]

\* The views of a candidate that was not merged are not read.
MCMerges ==
  {Merge(None, h) : h \in Holdings}
  \cup UNION {{Merge(s, h) : h \in {h \in Holdings : \A f \in Recorded, t \in DataSource \ {s} :
                                                    h[f][t] = Empty(f)}} : s \in DataSource}

-----------------------------------------------------------------------------
\* "Rewards fields where multiple sources independently agreed"
\* (confidence/strategies.py:141): a rewarded field has a value, of its own or
\* of a sub-field, that both sources hold.
AgreementBonusMeansAgreement ==
  \A i \in DOMAIN bonuses : bonuses[i].strategy = "agreement" =>
    \E g \in Recorded :
      /\ g = bonuses[i].field \/ Parent[g] = bonuses[i].field
      /\ merge.holding[g]["ATS"] = merge.holding[g]["RESUME"]
      /\ merge.holding[g]["ATS"] # Empty(g)
=============================================================================
