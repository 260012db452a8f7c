--------------------------- MODULE StructuredMerge ---------------------------
(***************************************************************************)
(* The union of identity-keyed lists (experiences, education and           *)
(* certifications): StructuredListResolver._make_merge_fn of               *)
(* merge/resolvers.py.                                                     *)
(*                                                                         *)
(* The function walks the items of every non-empty source, the sources in  *)
(* priority order, and keeps two structures that must agree: the list      *)
(* `merged` it returns and the dictionary `seen` from identity key to the  *)
(* object currently standing for that key.  One step of this module is one *)
(* iteration of the inner loop.                                            *)
(***************************************************************************)
EXTENDS ItemUnion

CONSTANTS
  IdAttrs,   \* rule.identity_keys
  Values,    \* values an attribute may hold
  Items,     \* items a parser can produce
  Inputs     \* item sequences handed to the merge function

ASSUME IdAttrsAssumption == IdAttrs \subseteq Attrs
ASSUME ItemsAssumption == Items \subseteq [Attrs -> Values]
ASSUME InputsAssumption == Inputs \subseteq Seq(Items)

VARIABLES
  queue,     \* every item of every source, in the order of the two loops
  pos,       \* how many of them have been handled
  seen,      \* identity key -> the item kept for it
  merged     \* the list under construction

vars == <<queue, pos, seen, merged>>

Item == [Attrs -> Values]

KeyOf(item) == identity_key(item, IdAttrs)

\* list.index: the first position holding an equal item.
IndexOf(list, item) ==
  CHOOSE i \in DOMAIN list :
    /\ list[i] = item
    /\ \A j \in DOMAIN list : list[j] = item => i <= j

-----------------------------------------------------------------------------
Init ==
  /\ queue \in Inputs
  /\ pos = 0
  /\ seen = [k \in {} |-> k]
  /\ merged = <<>>

Incoming == queue[pos + 1]

\* Seeded fault: the key of an appended item is not recorded.
AppendNew_KeyNotRecorded ==
  /\ pos < Len(queue)
  /\ KeyOf(Incoming) \notin DOMAIN seen
  /\ merged' = Append(merged, Incoming)
  /\ pos' = pos + 1
  /\ UNCHANGED <<queue, seen>>

AppendNew ==
  /\ pos < Len(queue)
  /\ KeyOf(Incoming) \notin DOMAIN seen
  /\ seen' = [k \in DOMAIN seen \cup {KeyOf(Incoming)} |->
                IF k \in DOMAIN seen THEN seen[k] ELSE Incoming]
  /\ merged' = Append(merged, Incoming)
  /\ pos' = pos + 1
  /\ UNCHANGED queue

\* Seeded fault: the dictionary keeps the object the list no longer holds.
FillExisting_SeenStale ==
  /\ pos < Len(queue)
  /\ KeyOf(Incoming) \in DOMAIN seen
  /\ LET existing == seen[KeyOf(Incoming)]
     IN  /\ Fillable(existing, Incoming) # {}
         /\ merged' = [merged EXCEPT ![IndexOf(merged, existing)] =
                                      FillMissing(existing, Incoming)]
  /\ pos' = pos + 1
  /\ UNCHANGED <<queue, seen>>

\* Seeded fault: the gaps of the most recent entry are filled, whatever its key.
FillExisting_MostRecent ==
  /\ pos < Len(queue)
  /\ KeyOf(Incoming) \in DOMAIN seen
  /\ LET existing == merged[Len(merged)]
     IN  /\ Fillable(existing, Incoming) # {}
         /\ merged' = [merged EXCEPT ![Len(merged)] = FillMissing(existing, Incoming)]
  /\ pos' = pos + 1
  /\ UNCHANGED <<queue, seen>>

\* Seeded fault: a filled entry is removed and appended again.
FillExisting_MovedToEnd ==
  /\ pos < Len(queue)
  /\ KeyOf(Incoming) \in DOMAIN seen
  /\ LET key == KeyOf(Incoming)
         filled == FillMissing(seen[key], Incoming)
         Other(item) == item # seen[key]
     IN  /\ Fillable(seen[key], Incoming) # {}
         /\ merged' = Append(SelectSeq(merged, Other), filled)
         /\ seen' = [seen EXCEPT ![key] = filled]
  /\ pos' = pos + 1
  /\ UNCHANGED queue

FillExisting ==
  /\ pos < Len(queue)
  /\ KeyOf(Incoming) \in DOMAIN seen
  /\ LET key == KeyOf(Incoming)
         filled == FillMissing(seen[key], Incoming)
     IN  /\ Fillable(seen[key], Incoming) # {}
         /\ merged' = [merged EXCEPT ![IndexOf(merged, seen[key])] = filled]
         /\ seen' = [seen EXCEPT ![key] = filled]
  /\ pos' = pos + 1
  /\ UNCHANGED queue

\* Seeded fault: an item that adds nothing is kept beside its entry.
KeepExisting_AsDuplicate ==
  /\ pos < Len(queue)
  /\ KeyOf(Incoming) \in DOMAIN seen
  /\ Fillable(seen[KeyOf(Incoming)], Incoming) = {}
  /\ merged' = Append(merged, Incoming)
  /\ pos' = pos + 1
  /\ UNCHANGED <<queue, seen>>

KeepExisting ==
  /\ pos < Len(queue)
  /\ KeyOf(Incoming) \in DOMAIN seen
  /\ Fillable(seen[KeyOf(Incoming)], Incoming) = {}
  /\ pos' = pos + 1
  /\ UNCHANGED <<queue, seen, merged>>

\* The loops are over and the list has been returned.
Returned ==
  /\ pos = Len(queue)
  /\ UNCHANGED vars

Next == AppendNew \/ FillExisting \/ KeepExisting \/ Returned

Spec == Init /\ [][Next]_vars

-----------------------------------------------------------------------------
TypeOK ==
  /\ queue \in Seq(Items)
  /\ pos \in 0..Len(queue)
  /\ merged \in Seq(Item)
  /\ DOMAIN seen = {KeyOf(queue[j]) : j \in 1..pos}
  /\ \A k \in DOMAIN seen : seen[k] \in Item

KeyAt(i) == KeyOf(queue[i])

\* Filling gaps (identity attributes included) never moves an item to another
\* key, no two positions of the result share a key, and each position holds
\* the very item the dictionary holds for its key: the list lookup by value
\* therefore finds the object it means.
SeenMirrorsMerged ==
  /\ \A k \in DOMAIN seen : KeyOf(seen[k]) = k
  /\ \A i, j \in DOMAIN merged :
       KeyOf(merged[i]) = KeyOf(merged[j]) => i = j
  /\ \A i \in DOMAIN merged :
       /\ KeyOf(merged[i]) \in DOMAIN seen
       /\ seen[KeyOf(merged[i])] = merged[i]
  /\ \A k \in DOMAIN seen : \E i \in DOMAIN merged : merged[i] = seen[k]

\* Field-level priority: for every key and attribute, the first item of that
\* key (the sources are in priority order) with a usable value decides it, so
\* no lower-priority source loses data the higher one did not have, and none
\* overrides what the higher one had.
FirstUsableWins ==
  \A j \in 1..pos, a \in Attrs :
    /\ queue[j][a] \notin Blank
    /\ \A i \in 1..(j - 1) : KeyAt(i) = KeyAt(j) => queue[i][a] \in Blank
    => seen[KeyAt(j)][a] = queue[j][a]

\* Nothing is invented: every attribute of every entry of the result is that
\* attribute of some handled item with the same identity.
NothingInvented ==
  \A i \in DOMAIN merged, a \in Attrs :
    \E j \in 1..pos :
      /\ KeyAt(j) = KeyOf(merged[i])
      /\ queue[j][a] = merged[i][a]

\* Entries stand in the order in which their keys first occurred: gap-filling
\* from a later source never reorders the timeline.
FirstSeenOrder ==
  \A i, k \in DOMAIN merged :
    i < k => \E j \in 1..pos :
               /\ KeyAt(j) = KeyOf(merged[i])
               /\ \A h \in 1..j : KeyAt(h) # KeyOf(merged[k])

\* The loop with its two data structures computes what MergeStructured says of
\* the whole list at once, which is what the merge engine is built on.
LoopComputesMergeStructured ==
  merged = MergeStructured(SubSeq(queue, 1, pos), IdAttrs)

\* A usable value, once in the result, is never overwritten or dropped, and
\* its entry keeps its position.
NeverOverwritten ==
  [][\A i \in DOMAIN merged :
       /\ i \in DOMAIN merged'
       /\ \A a \in Attrs : merged[i][a] \notin Blank => merged'[i][a] = merged[i][a]]_vars

-----------------------------------------------------------------------------
(***************************************************************************)
(* Refinement: forgetting the order of the list and the dictionary, the    *)
(* loop absorbs the items into a keyed union.                              *)
(***************************************************************************)
Union == INSTANCE KeyedUnion WITH
           entries <- {merged[i] : i \in DOMAIN merged},
           Key <- KeyOf

\* The loop implements the keyed union: each iteration absorbs one item or
\* changes nothing a caller can see.
ImplementsKeyedUnion == Union!Spec
=============================================================================
