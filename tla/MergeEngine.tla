----------------------------- MODULE MergeEngine -----------------------------
(***************************************************************************)
(* MergeEngine.merge of merge/merge_engine.py with the field resolvers it  *)
(* dispatches to: any number of single-source candidates become one golden *)
(* candidate and a report on how every field of it was decided.            *)
(*                                                                         *)
(* One step resolves one field, in the order of the two loops; the last    *)
(* step constructs the golden Candidate, whose model validators may still  *)
(* change or refuse what the resolvers decided.                            *)
(***************************************************************************)
EXTENDS MergeStrategies, Integers

CONSTANTS
  FieldOrder,   \* _TOP_LEVEL_FIELDS then _CONTACT_FIELDS
  Kind,         \* field -> "scalar", "flat" or "structured" (_resolver_for)
  Required,     \* fields without which there is no golden record
  NameKeyed,    \* structured fields the Candidate model deduplicates by name
  MaxLength,    \* list field -> max_length of the Candidate model
  Batches,      \* the lists of candidates handed to merge()
  Policies      \* merge policies: [rules : field -> rule, default : rule]

Fields == {FieldOrder[i] : i \in DOMAIN FieldOrder}

IsSequence(s) == s \in Seq({s[i] : i \in DOMAIN s})

Strategies == {"source_priority", "first_non_empty", "highest_confidence", "union"}

\* No field is listed twice, and each has a resolver.
ASSUME FieldsAssumption ==
  /\ IsSequence(FieldOrder)
  /\ \A i, j \in DOMAIN FieldOrder : FieldOrder[i] = FieldOrder[j] => i = j
  /\ \A f \in Fields : Kind[f] \in {"scalar", "flat", "structured"}

\* None is no source and no provenance entry; scores are in percent.  A candidate
\* whose source is not known has neither.
ASSUME BatchesAssumption ==
  \A candidates \in Batches :
    /\ IsSequence(candidates)
    /\ \A i \in DOMAIN candidates : \A f \in Fields :
         /\ candidates[i].known => candidates[i].source # None /\ <<candidates[i].id, f>> # None
         /\ candidates[i].confidence[f] \in Nat \cup {None}

\* What the loader lets pass (see Configuration).
ASSUME PoliciesAssumption ==
  \A p \in Policies : \A rule \in {p.default} \cup {p.rules[f] : f \in DOMAIN p.rules} :
    IsSequence(rule.priority) /\ rule.strategy \in Strategies

\* There are two data sources, and the loader lets no empty priority pass: at
\* most one of them is not ranked by a rule.
ASSUME RanksAssumption ==
  \A candidates \in Batches : \A i, j \in DOMAIN candidates :
    candidates[i].known /\ candidates[j].known /\ candidates[i].source # candidates[j].source =>
      \A p \in Policies : \A rule \in {p.default} \cup {p.rules[f] : f \in DOMAIN p.rules} :
        {candidates[i].source, candidates[j].source} \cap ToSet(rule.priority) # {}

\* The models of a candidate: it has every required field, a scalar is no list, a
\* string in a list is not blank and no list is too long.
ASSUME CandidatesAssumption ==
  \A candidates \in Batches : \A i \in DOMAIN candidates :
    LET values == candidates[i].values
    IN  /\ \A f \in Fields :
             IF Kind[f] = "scalar" THEN values[f] # <<>>
             ELSE /\ IsSequence(values[f]) /\ values[f] # None
                  /\ Kind[f] = "flat" => \A j \in DOMAIN values[f] : CaseFold[values[f][j]] # ""
        /\ \A f \in Required : ~IsEmpty(values[f])
        /\ \A f \in DOMAIN MaxLength : Len(values[f]) <= MaxLength[f]

ASSUME ModelsAssumption ==
  /\ Required \subseteq {f \in Fields : Kind[f] = "scalar"}
  /\ NameKeyed \subseteq {f \in Fields : Kind[f] = "structured"}
  /\ DOMAIN MaxLength \subseteq {f \in Fields : Kind[f] # "scalar"}
  /\ \A f \in DOMAIN MaxLength : MaxLength[f] \in Nat

\* The identity keys are attributes of the entries they tell apart.
ASSUME KeysAssumption ==
  \A p \in Policies : \A rule \in {p.default} \cup {p.rules[f] : f \in DOMAIN p.rules} :
    rule.identity_keys \subseteq Attrs

\* The items of all the candidates' lists.
ItemsOf(candidates, f) == UNION {ToSet(candidates[i].values[f]) : i \in DOMAIN candidates}

\* What such items are once their gaps are filled.
FilledFrom(items) == [Attrs -> {item[a] : item \in items, a \in Attrs}]

NoneIsNoListOf(items) == None \notin Seq(items)

ASSUME NoneAssumption ==
  \A candidates \in Batches : \A f \in Fields :
    /\ Kind[f] # "scalar" => NoneIsNoListOf(ItemsOf(candidates, f))
    /\ Kind[f] = "structured" => NoneIsNoListOf(FilledFrom(ItemsOf(candidates, f)))

VARIABLES
  batch,        \* the candidates
  policy,
  next,         \* index of the next field to resolve
  kwargs,       \* field -> resolved value, of the fields with a value
  provenance,   \* field -> provenance entry of the golden record
  records,      \* the FieldMergeRecords so far
  warnings,     \* the fields with a "sources disagree" warning
  outcome,      \* "running", then "golden" or the exception raised
  golden        \* the constructed Candidate

vars == <<batch, policy, next, kwargs, provenance, records, warnings, outcome, golden>>

\* A candidate is [id, source, known, values, confidence]: `known` says that
\* it carries provenance, which its parser wrote for every field with a value.
Entry(candidate, f) ==
  IF candidate.known /\ ~IsEmpty(candidate.values[f]) THEN <<candidate.id, f>> ELSE None

RuleFor(f) == IF f \in DOMAIN policy.rules THEN policy.rules[f] ELSE policy.default

\* A resolver refuses a rule that does not fit its kind of field.
RuleFits(f) ==
  CASE Kind[f] = "scalar" -> RuleFor(f).strategy # "union"
    [] Kind[f] = "flat" -> RuleFor(f).strategy = "union"
    [] OTHER -> RuleFor(f).strategy = "union" /\ RuleFor(f).identity_keys # {}

SourceValues(candidates, f) ==
  [i \in DOMAIN candidates |->
     [source |-> candidates[i].source,
      value |-> candidates[i].values[f],
      confidence |-> candidates[i].confidence[f]]]

Resolve(f, candidates) ==
  LET rule == RuleFor(f)
      values == SourceValues(candidates, f)
      combined == Combined(values, rule.priority)
      Union(merged) == UnionStrategy(merged, values, rule.priority)
  IN  CASE Kind[f] = "flat" -> Union(MergeFlat(combined))
        [] Kind[f] = "structured" -> Union(MergeStructured(combined, rule.identity_keys))
        [] Kind[f] = "scalar" /\ rule.strategy = "source_priority"
             -> SourcePriority(values, rule.priority)
        [] Kind[f] = "scalar" /\ rule.strategy = "first_non_empty"
             -> FirstNonEmpty(values, rule.priority)
        [] OTHER -> HighestConfidence(values, rule.priority)

-----------------------------------------------------------------------------
Init ==
  /\ batch \in Batches
  /\ policy \in Policies
  /\ next = 1
  /\ kwargs = [f \in {} |-> f]
  /\ provenance = [f \in {} |-> f]
  /\ records = <<>>
  /\ warnings = <<>>
  /\ outcome = "running"
  /\ golden = None

Put(map, key, value) ==
  [k \in DOMAIN map \cup {key} |-> IF k = key THEN value ELSE map[k]]

\* The source the golden record's provenance is taken from.
Winner(result) ==
  IF result.winner # None THEN result.winner
  ELSE IF result.contributing # <<>> THEN result.contributing[1] ELSE None

\* Seeded fault: the value is stored before it is looked at.
ApplyResult_EmptyToo(f, result) ==
  /\ kwargs' = Put(kwargs, f, result.value)
  /\ UNCHANGED provenance

\* Seeded fault: the first candidate with an entry, not the winning source.
ApplyResult_AnyEntry(f, result) ==
  IF IsEmpty(result.value) THEN UNCHANGED <<kwargs, provenance>>
  ELSE /\ kwargs' = Put(kwargs, f, result.value)
       /\ LET i == SelectInSeq(batch, LAMBDA c : Entry(c, f) # None)
          IN  provenance' = Put(provenance, f, Entry(batch[i], f))

\* _apply_result: the first candidate of the winning source is asked, and
\* only that one.
ApplyResult(f, result) ==
  IF IsEmpty(result.value) THEN UNCHANGED <<kwargs, provenance>>
  ELSE /\ kwargs' = Put(kwargs, f, result.value)
       /\ LET i == SelectInSeq(batch, LAMBDA c : c.source = Winner(result))
          IN  IF i = 0 \/ Entry(batch[i], f) = None THEN UNCHANGED provenance
              ELSE provenance' = Put(provenance, f, Entry(batch[i], f))

\* _record: one entry per source, a later candidate of the source replacing
\* an earlier one's.
SourceProvenance(f) ==
  LET having == {i \in DOMAIN batch : Entry(batch[i], f) # None}
      Of(s) == {i \in having : batch[i].source = s}
  IN  [s \in {batch[i].source : i \in having} |-> Entry(batch[Max(Of(s))], f)]

Record(f, result) ==
  [field |-> f,
   strategy |-> RuleFor(f).strategy,
   considered |-> [i \in DOMAIN batch |-> batch[i].source],
   contributing |-> result.contributing,
   conflict |-> result.conflict,
   chosen |-> result.value,
   provenance |-> SourceProvenance(f)]

AllKnown == \A i \in DOMAIN batch : batch[i].known

ResolveField ==
  /\ outcome = "running" /\ batch # <<>>
  /\ next <= Len(FieldOrder)
  /\ LET f == FieldOrder[next]
         result == Resolve(f, batch)
     IN  /\ AllKnown /\ RuleFits(f)
         /\ ApplyResult(f, result)
         /\ records' = Append(records, Record(f, result))
         /\ warnings' = IF result.conflict THEN Append(warnings, f) ELSE warnings
  /\ next' = next + 1
  /\ UNCHANGED <<batch, policy, outcome, golden>>

Fail(exception) ==
  /\ outcome' = exception
  /\ UNCHANGED <<batch, policy, next, kwargs, provenance, records, warnings, golden>>

RefuseEmptyBatch ==
  /\ outcome = "running" /\ batch = <<>>
  /\ Fail("MergeError")

\* A candidate without provenance has no source; a rule may not fit its field.
RefuseField ==
  /\ outcome = "running" /\ batch # <<>>
  /\ next <= Len(FieldOrder)
  /\ ~AllKnown \/ ~RuleFits(FieldOrder[next])
  /\ Fail("MergeError")

-----------------------------------------------------------------------------
\* Candidate(**kwargs): the before-validators deduplicate, absent fields take
\* their defaults.
Constructed(f) ==
  IF f \notin DOMAIN kwargs THEN IF Kind[f] = "scalar" THEN None ELSE <<>>
  ELSE IF Kind[f] = "flat"
  THEN Deduplicated(kwargs[f], [item \in ToSet(kwargs[f]) |-> item])
  ELSE IF f \in NameKeyed
  THEN Deduplicated(kwargs[f], [item \in ToSet(kwargs[f]) |-> CaseFold[item.name]])
  ELSE kwargs[f]

\* Seeded fault: a list of exactly the allowed length is refused.
TooLong_OffByOne == \E f \in DOMAIN MaxLength : Len(Constructed(f)) >= MaxLength[f]

TooLong == \E f \in DOMAIN MaxLength : Len(Constructed(f)) > MaxLength[f]

FieldsDone == outcome = "running" /\ batch # <<>> /\ next > Len(FieldOrder)

Construct ==
  /\ FieldsDone
  /\ Required \subseteq DOMAIN kwargs
  /\ ~TooLong
  /\ golden' = [values |-> [f \in Fields |-> Constructed(f)], provenance |-> provenance]
  /\ outcome' = "golden"
  /\ UNCHANGED <<batch, policy, next, kwargs, provenance, records, warnings>>

\* The required fields are looked at first, then the model refuses the lists.
RefuseGolden ==
  /\ FieldsDone
  /\ ~(Required \subseteq DOMAIN kwargs) \/ TooLong
  /\ Fail(IF Required \subseteq DOMAIN kwargs THEN "ValidationError" ELSE "MergeError")

Returned ==
  /\ outcome # "running"
  /\ UNCHANGED vars

Next ==
  \/ RefuseEmptyBatch
  \/ ResolveField
  \/ RefuseField
  \/ Construct
  \/ RefuseGolden
  \/ Returned

Spec == Init /\ [][Next]_vars

-----------------------------------------------------------------------------
TypeOK ==
  /\ policy \in Policies
  /\ next \in 1..(Len(FieldOrder) + 1)
  /\ outcome \in {"running", "golden", "MergeError", "ValidationError"}
  /\ Len(records) = next - 1
  /\ \A i \in DOMAIN records : records[i].field = FieldOrder[i]
  /\ DOMAIN kwargs \subseteq {FieldOrder[i] : i \in 1..(next - 1)}
  /\ \A f \in DOMAIN kwargs : ~IsEmpty(kwargs[f])
  /\ DOMAIN provenance \subseteq DOMAIN kwargs
  /\ golden = IF outcome # "golden" THEN None
              ELSE [values |-> [f \in Fields |-> Constructed(f)], provenance |-> provenance]

Candidates == {batch[i] : i \in DOMAIN batch}

\* No two candidates come from the same source, as in every run of the CLI.
DistinctSources ==
  \A i, j \in DOMAIN batch : batch[i].source = batch[j].source => i = j

\* The policy alone decides: with one candidate per source, handing them over
\* in the opposite order changes no value, winner, contribution or conflict.
OrderIrrelevant ==
  DistinctSources =>
    \A i \in DOMAIN records :
      LET mirrored == Resolve(records[i].field, Reverse(batch))
      IN  /\ records[i].chosen = mirrored.value
          /\ records[i].contributing = mirrored.contributing
          /\ records[i].conflict = mirrored.conflict

\* The golden record's provenance names the document its value came from:
\* the very value for a scalar, the best-ranked contribution for a list.
ProvenanceFollowsValue ==
  DistinctSources =>
    /\ DOMAIN provenance = DOMAIN kwargs
    /\ \A f \in DOMAIN provenance : \E c \in Candidates :
         /\ provenance[f] = Entry(c, f)
         /\ IF Kind[f] = "scalar"
            THEN c.values[f] = kwargs[f]
            ELSE \A d \in Candidates :
                   IsEmpty(d.values[f]) \/
                   Rank(RuleFor(f).priority, c.source) <= Rank(RuleFor(f).priority, d.source)

\* No source is outvoted without a trace.  A strategy that compares the values
\* records a conflict, and warns of it, exactly when two of them differ, whoever
\* supplied the losing one.  first_non_empty chooses without comparing and says
\* nothing even when they differ, whatever the docstring of StrategyResult says
\* of a conflict.  But the record of any field names every source that had a
\* value for it, each with the entry (the raw value) of a candidate that did.
DisagreementsCanBeTold ==
  \A i \in DOMAIN records :
    LET f == records[i].field
        having == {c \in Candidates : ~IsEmpty(c.values[f])}
        disagree == \E c, d \in having : c.values[f] # d.values[f]
        told == records[i].provenance
    IN  /\ records[i].conflict <=>
             disagree /\ RuleFor(f).strategy \notin {"first_non_empty", "union"}
        /\ records[i].conflict <=> \E j \in DOMAIN warnings : warnings[j] = f
        /\ DOMAIN told = {c.source : c \in having}
        /\ \A s \in DOMAIN told : \E c \in having : c.source = s /\ told[s] = Entry(c, f)

SameThing(f, a, b) ==
  IF Kind[f] = "flat" THEN CaseFold[a] = CaseFold[b]
  ELSE SameIdentity(a, b, RuleFor(f).identity_keys)

\* A union drops no source's data: each item of each candidate, two of the
\* same source included, is in the resolved list under its key exactly once.
UnionLosesNothing ==
  \A i \in DOMAIN records : Kind[records[i].field] # "scalar" =>
    \A item \in UNION {ToSet(c.values[records[i].field]) : c \in Candidates} :
      \E j \in DOMAIN records[i].chosen : \A k \in DOMAIN records[i].chosen :
        SameThing(records[i].field, item, records[i].chosen[k]) <=> k = j

\* Merging one candidate is a supported call: under a policy that fits the
\* fields it succeeds and gives back every scalar and all of the provenance.
SingleSourceMergeSucceeds ==
  Len(batch) = 1 /\ AllKnown /\ (\A f \in Fields : RuleFits(f)) =>
    /\ outcome \in {"running", "golden"}
    /\ outcome = "golden" =>
         \A f \in Fields :
           /\ Kind[f] = "scalar" => golden.values[f] = batch[1].values[f]
           /\ IF Entry(batch[1], f) = None THEN f \notin DOMAIN golden.provenance
              ELSE golden.provenance[f] = Entry(batch[1], f)

-----------------------------------------------------------------------------
\* The module's docstring: one golden Candidate "plus a MergeReport describing
\* exactly how it was built".
ReportDescribesGolden ==
  outcome = "golden" =>
    \A i \in DOMAIN records : golden.values[records[i].field] = records[i].chosen
=============================================================================
