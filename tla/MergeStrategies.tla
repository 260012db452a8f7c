--------------------------- MODULE MergeStrategies ---------------------------
(***************************************************************************)
(* The field-agnostic merge strategies of merge/strategies.py and the two  *)
(* list-merging functions of merge/resolvers.py they are applied with.     *)
(* A strategy maps source values ([source, value, confidence] records, one *)
(* per candidate) and a priority (a sequence of sources) to a result: the  *)
(* value, the winning source, the contributing sources and whether the     *)
(* sources were in conflict.                                               *)
(***************************************************************************)
EXTENDS ItemUnion

CONSTANTS
  None,       \* Python's None, also "no confidence" and "no source"
  CaseFold    \* str.strip().lower() on the strings that occur in lists

IsEmpty(value) == value \in {None, <<>>}

\* priority.index, or a rank after every listed source.
Rank(priority, source) ==
  LET i == SelectInSeq(priority, LAMBDA s : s = source)
  IN  IF i = 0 THEN Len(priority) + 1 ELSE i

NonEmpty(values) == At(values, {i \in DOMAIN values : ~IsEmpty(values[i].value)})

\* The values of the sources of one rank.
OfRank(values, priority, r) ==
  At(values, {i \in DOMAIN values : Rank(priority, values[i].source) = r})

\* Seeded fault: no sort, the values stay in the order of the candidates.
Ordered_AsGiven(values, priority) == NonEmpty(values)

\* Seeded fault: only the first value of each source is kept.
Ordered_Collapsed(values, priority) ==
  LET Same(r) == OfRank(NonEmpty(values), priority, r)
  IN  FlattenSeq([r \in 1..(Len(priority) + 1) |->
                    SubSeq(Same(r), 1, IF Same(r) = <<>> THEN 0 ELSE 1)])

\* Stable sort by rank: values of one source keep their relative order.
Ordered(values, priority) ==
  FlattenSeq([r \in 1..(Len(priority) + 1) |-> OfRank(NonEmpty(values), priority, r)])

Sources(ordered) == [i \in DOMAIN ordered |-> ordered[i].source]

Disagreement(ordered) ==
  \E i, j \in DOMAIN ordered : ordered[i].value # ordered[j].value

NoResult(empty) ==
  [value |-> empty, winner |-> None, contributing |-> <<>>, conflict |-> FALSE]

SourcePriority(values, priority) ==
  LET ordered == Ordered(values, priority)
  IN  IF ordered = <<>> THEN NoResult(None)
      ELSE [value |-> ordered[1].value,
            winner |-> ordered[1].source,
            contributing |-> Sources(ordered),
            conflict |-> Disagreement(ordered)]

FirstNonEmpty(values, priority) ==
  LET ordered == Ordered(values, priority)
  IN  IF ordered = <<>> THEN NoResult(None)
      ELSE [value |-> ordered[1].value,
            winner |-> ordered[1].source,
            contributing |-> <<ordered[1].source>>,
            conflict |-> FALSE]

\* The highest confidence; on a tie the better rank, then the earlier value.
\* `scored` is already in the order of the ranks.
MostConfident(scored) ==
  scored[CHOOSE i \in DOMAIN scored : \A j \in DOMAIN scored :
           \/ scored[i].confidence > scored[j].confidence
           \/ scored[i].confidence = scored[j].confidence /\ i <= j]

Scored(ordered) == At(ordered, {i \in DOMAIN ordered : ordered[i].confidence # None})

\* Seeded fault: only the values that carry a score can be in conflict.
HighestConfidence_ScoredOnly(values, priority) ==
  LET ordered == Ordered(values, priority)
      scored == Scored(ordered)
  IN  IF scored = <<>> THEN SourcePriority(values, priority)
      ELSE [value |-> MostConfident(scored).value,
            winner |-> MostConfident(scored).source,
            contributing |-> Sources(ordered),
            conflict |-> Disagreement(scored)]

HighestConfidence(values, priority) ==
  LET ordered == Ordered(values, priority)
      scored == Scored(ordered)
  IN  IF scored = <<>> THEN SourcePriority(values, priority)
      ELSE [value |-> MostConfident(scored).value,
            winner |-> MostConfident(scored).source,
            contributing |-> Sources(ordered),
            conflict |-> Disagreement(ordered)]

Combined(values, priority) ==
  LET ordered == Ordered(values, priority)
  IN  FlattenSeq([i \in DOMAIN ordered |-> ordered[i].value])

\* `merged` is what the resolver's merge function makes of Combined.
UnionStrategy(merged, values, priority) ==
  IF NonEmpty(values) = <<>> THEN NoResult(<<>>)
  ELSE [value |-> merged,
        winner |-> None,
        contributing |-> Sources(Ordered(values, priority)),
        conflict |-> FALSE]

-----------------------------------------------------------------------------
\* The list without the items whose key is blank or has occurred before.
Deduplicated(list, key) ==
  At(list, {i \in DOMAIN list : /\ key[list[i]] # ""
                                /\ \A j \in 1..(i - 1) : key[list[j]] # key[list[i]]})

MergeFlat(list) == Deduplicated(list, CaseFold)
=============================================================================
