------------------------ MODULE StructuredMergeProofs ------------------------
(***************************************************************************)
(* Proofs about StructuredMerge: type correctness, the agreement of the    *)
(* list with the dictionary, what the result holds and in which order, the *)
(* action property that nothing is overwritten, and the refinement.        *)
(*                                                                         *)
(* SeenMirrorsMerged is inductive together with TypeOK; every other        *)
(* property is inductive relative to the two of them.                      *)
(***************************************************************************)
EXTENDS StructuredMerge, SequenceLemmas

-----------------------------------------------------------------------------
\* A gap is filled with a value of the same attribute, so the result is an
\* item of the same class.
LEMMA FillIsItem ==
  ASSUME NEW existing \in Item, NEW incoming \in Item
  PROVE  FillMissing(existing, incoming) \in Item
BY DEF FillMissing, Item

\* The key ignores what a fill can change: an identity attribute is only
\* filled from an item with the same key.
LEMMA FillKeepsKey ==
  ASSUME NEW existing \in Item, NEW incoming \in Item,
         KeyOf(existing) = KeyOf(incoming)
  PROVE  KeyOf(FillMissing(existing, incoming)) = KeyOf(existing)
<1> DEFINE filled == FillMissing(existing, incoming)
<1>1. ASSUME NEW a \in IdAttrs
      PROVE  Norm[filled[a]] = Norm[existing[a]]
  <2>1. a \in Attrs
    BY IdAttrsAssumption
  <2>2. Norm[existing[a]] = KeyOf(existing)[a]
    BY DEF KeyOf, identity_key
  <2>3. Norm[incoming[a]] = KeyOf(incoming)[a]
    BY DEF KeyOf, identity_key
  <2>4. filled[a] = existing[a] \/ filled[a] = incoming[a]
    BY <2>1 DEF FillMissing
  <2> QED
    BY <2>2, <2>3, <2>4
<1> QED
  BY <1>1 DEF KeyOf, identity_key

\* list.index finds the one position whose item is the dictionary's object.
LEMMA IndexFindsIt ==
  ASSUME TypeOK, SeenMirrorsMerged, NEW k \in DOMAIN seen
  PROVE  /\ IndexOf(merged, seen[k]) \in DOMAIN merged
         /\ merged[IndexOf(merged, seen[k])] = seen[k]
<1> DEFINE Hit(i) == /\ merged[i] = seen[k]
                     /\ \A j \in DOMAIN merged : merged[j] = seen[k] => i <= j
<1>1. DOMAIN merged \subseteq Int
  BY DEF TypeOK
<1>2. PICK i \in DOMAIN merged : merged[i] = seen[k]
  BY DEF SeenMirrorsMerged
<1>3. \A j \in DOMAIN merged : merged[j] = seen[k] => j = i
  BY <1>2 DEF SeenMirrorsMerged
<1>4. Hit(i)
  BY <1>1, <1>2, <1>3
<1>5. \E n \in DOMAIN merged : Hit(n)
  BY <1>4
<1> QED
  BY <1>5 DEF IndexOf

\* What the three kinds of iteration do to the two structures, in the form
\* the invariance proofs use.
LEMMA AppendEffect ==
  ASSUME TypeOK, AppendNew
  PROVE  /\ Incoming \in Items /\ Incoming \in Item
         /\ pos \in Nat /\ pos + 1 \in 1..Len(queue) /\ pos' = pos + 1
         /\ queue' = queue /\ queue \in Seq(Items)
         /\ merged' \in Seq(Item) /\ Len(merged') = Len(merged) + 1
         /\ merged'[Len(merged) + 1] = Incoming
         /\ \A i \in DOMAIN merged : i \in DOMAIN merged' /\ merged'[i] = merged[i]
         /\ DOMAIN merged' = DOMAIN merged \cup {Len(merged) + 1}
         /\ Len(merged) + 1 \notin DOMAIN merged
         /\ DOMAIN seen' = DOMAIN seen \cup {KeyOf(Incoming)}
         /\ seen'[KeyOf(Incoming)] = Incoming
         /\ \A k \in DOMAIN seen : seen'[k] = seen[k]
<1>1. /\ pos \in Nat /\ pos + 1 \in 1..Len(queue) /\ queue \in Seq(Items)
  BY DEF TypeOK, AppendNew
<1>2. Incoming \in Items /\ Incoming \in Item
  BY <1>1, ItemsAssumption DEF Incoming, Item
<1>3. merged \in Seq(Item) /\ merged' = Append(merged, Incoming)
  BY DEF TypeOK, AppendNew
<1>4. /\ merged' \in Seq(Item) /\ Len(merged') = Len(merged) + 1
      /\ merged'[Len(merged) + 1] = Incoming
      /\ \A i \in DOMAIN merged : i \in DOMAIN merged' /\ merged'[i] = merged[i]
      /\ DOMAIN merged' = DOMAIN merged \cup {Len(merged) + 1}
      /\ Len(merged) + 1 \notin DOMAIN merged
  BY <1>2, <1>3
<1>5. /\ DOMAIN seen' = DOMAIN seen \cup {KeyOf(Incoming)}
      /\ seen'[KeyOf(Incoming)] = Incoming
      /\ \A k \in DOMAIN seen : seen'[k] = seen[k]
  BY DEF AppendNew
<1> QED
  BY <1>1, <1>2, <1>4, <1>5 DEF AppendNew

LEMMA FillEffect ==
  ASSUME TypeOK, SeenMirrorsMerged, FillExisting
  PROVE  \E i \in DOMAIN merged :
           LET key == KeyOf(Incoming)
               filled == FillMissing(merged[i], Incoming)
           IN  /\ Incoming \in Items /\ Incoming \in Item /\ filled \in Item
               /\ pos \in Nat /\ pos + 1 \in 1..Len(queue) /\ pos' = pos + 1
               /\ queue' = queue /\ queue \in Seq(Items)
               /\ key \in DOMAIN seen /\ merged[i] = seen[key]
               /\ KeyOf(merged[i]) = key /\ KeyOf(filled) = key
               /\ merged' \in Seq(Item) /\ DOMAIN merged' = DOMAIN merged
               /\ merged'[i] = filled
               /\ \A j \in DOMAIN merged : j # i => merged'[j] = merged[j]
               /\ DOMAIN seen' = DOMAIN seen /\ seen'[key] = filled
               /\ \A k \in DOMAIN seen : k # key => seen'[k] = seen[k]
<1> DEFINE key == KeyOf(Incoming)
           i == IndexOf(merged, seen[key])
           filled == FillMissing(merged[i], Incoming)
<1>1. pos \in Nat /\ pos + 1 \in 1..Len(queue) /\ queue \in Seq(Items)
  BY DEF TypeOK, FillExisting
<1>2. Incoming \in Items /\ Incoming \in Item
  BY <1>1, ItemsAssumption DEF Incoming, Item
<1>3. key \in DOMAIN seen /\ queue' = queue /\ pos' = pos + 1
  BY DEF FillExisting
<1>4. i \in DOMAIN merged /\ merged[i] = seen[key]
  BY <1>3, IndexFindsIt
<1>5. merged[i] \in Item /\ KeyOf(merged[i]) = key
  BY <1>3, <1>4 DEF TypeOK, SeenMirrorsMerged
<1>6. filled \in Item /\ KeyOf(filled) = key
  BY <1>2, <1>5, FillIsItem, FillKeepsKey
<1>7. merged' = [merged EXCEPT ![i] = filled] /\ seen' = [seen EXCEPT ![key] = filled]
  BY <1>4 DEF FillExisting
<1>8. /\ merged' \in Seq(Item) /\ DOMAIN merged' = DOMAIN merged
      /\ merged'[i] = filled
      /\ \A j \in DOMAIN merged : j # i => merged'[j] = merged[j]
  BY <1>4, <1>6, <1>7 DEF TypeOK
<1>9. /\ DOMAIN seen' = DOMAIN seen /\ seen'[key] = filled
      /\ \A k \in DOMAIN seen : k # key => seen'[k] = seen[k]
  BY <1>3, <1>7
<1> QED
  BY <1>1, <1>2, <1>3, <1>4, <1>5, <1>6, <1>8, <1>9

LEMMA KeepEffect ==
  ASSUME TypeOK, KeepExisting
  PROVE  /\ Incoming \in Items /\ Incoming \in Item
         /\ pos \in Nat /\ pos + 1 \in 1..Len(queue) /\ pos' = pos + 1
         /\ queue' = queue /\ queue \in Seq(Items)
         /\ KeyOf(Incoming) \in DOMAIN seen
         /\ Fillable(seen[KeyOf(Incoming)], Incoming) = {}
         /\ merged' = merged /\ seen' = seen
<1>1. pos \in Nat /\ pos + 1 \in 1..Len(queue) /\ queue \in Seq(Items)
  BY DEF TypeOK, KeepExisting
<1>2. Incoming \in Items /\ Incoming \in Item
  BY <1>1, ItemsAssumption DEF Incoming, Item
<1> QED
  BY <1>1, <1>2 DEF KeepExisting

-----------------------------------------------------------------------------
\* The inductive core: the types, and the dictionary and the list agreeing.
Core == TypeOK /\ SeenMirrorsMerged

\* The keys of the handled items, one item later.
LEMMA HandledKeys ==
  ASSUME pos \in Nat, pos + 1 \in 1..Len(queue), pos' = pos + 1, queue' = queue
  PROVE  {KeyOf(queue'[j]) : j \in 1..pos'}
           = {KeyOf(queue[j]) : j \in 1..pos} \cup {KeyOf(Incoming)}
<1>1. 1..pos' = (1..pos) \cup {pos + 1}
  OBVIOUS
<1> QED
  BY <1>1 DEF Incoming

LEMMA InitCore == Init => Core
<1> SUFFICES ASSUME Init PROVE Core
  OBVIOUS
<1>1. queue \in Seq(Items) /\ pos = 0 /\ merged = <<>> /\ DOMAIN seen = {}
  BY InputsAssumption DEF Init
<1>2. TypeOK
  BY <1>1 DEF TypeOK
<1>3. SeenMirrorsMerged
  BY <1>1 DEF SeenMirrorsMerged
<1> QED
  BY <1>2, <1>3 DEF Core

LEMMA AppendCore == Core /\ AppendNew => Core'
<1> SUFFICES ASSUME TypeOK, SeenMirrorsMerged, AppendNew PROVE TypeOK' /\ SeenMirrorsMerged'
  BY DEF Core
<1> DEFINE key == KeyOf(Incoming)
<1>1. key \notin DOMAIN seen
  BY DEF AppendNew
<1>2. TypeOK'
  <2>1. DOMAIN seen' = {KeyOf(queue'[j]) : j \in 1..pos'}
    BY AppendEffect, HandledKeys DEF TypeOK
  <2>2. \A k \in DOMAIN seen' : seen'[k] \in Item
    BY AppendEffect DEF TypeOK
  <2> QED
    BY <2>1, <2>2, AppendEffect DEF TypeOK
<1>3. SeenMirrorsMerged'
  <2>1. \A k \in DOMAIN seen' : KeyOf(seen'[k]) = k
    BY AppendEffect DEF SeenMirrorsMerged
  <2>2. \A i \in DOMAIN merged' :
          \/ i \in DOMAIN merged /\ merged'[i] = merged[i] /\ KeyOf(merged'[i]) # key
          \/ i = Len(merged) + 1 /\ merged'[i] = Incoming
    BY <1>1, AppendEffect DEF SeenMirrorsMerged
  <2>3. \A i, j \in DOMAIN merged' :
          KeyOf(merged'[i]) = KeyOf(merged'[j]) => i = j
    BY <2>2 DEF SeenMirrorsMerged
  <2>4. \A i \in DOMAIN merged' :
          /\ KeyOf(merged'[i]) \in DOMAIN seen'
          /\ seen'[KeyOf(merged'[i])] = merged'[i]
    BY <2>2, AppendEffect DEF SeenMirrorsMerged
  <2>5. \A k \in DOMAIN seen' : \E i \in DOMAIN merged' : merged'[i] = seen'[k]
    BY AppendEffect DEF SeenMirrorsMerged
  <2> QED
    BY <2>1, <2>3, <2>4, <2>5 DEF SeenMirrorsMerged
<1> QED
  BY <1>2, <1>3

LEMMA FillCore == Core /\ FillExisting => Core'
<1> SUFFICES ASSUME TypeOK, SeenMirrorsMerged, FillExisting PROVE TypeOK' /\ SeenMirrorsMerged'
  BY DEF Core
<1> DEFINE key == KeyOf(Incoming)
<1>1. PICK i \in DOMAIN merged :
        LET filled == FillMissing(merged[i], Incoming)
        IN  /\ Incoming \in Items /\ Incoming \in Item /\ filled \in Item
            /\ pos \in Nat /\ pos + 1 \in 1..Len(queue) /\ pos' = pos + 1
            /\ queue' = queue /\ queue \in Seq(Items)
            /\ key \in DOMAIN seen /\ merged[i] = seen[key]
            /\ KeyOf(merged[i]) = key /\ KeyOf(filled) = key
            /\ merged' \in Seq(Item) /\ DOMAIN merged' = DOMAIN merged
            /\ merged'[i] = filled
            /\ \A j \in DOMAIN merged : j # i => merged'[j] = merged[j]
            /\ DOMAIN seen' = DOMAIN seen /\ seen'[key] = filled
            /\ \A k \in DOMAIN seen : k # key => seen'[k] = seen[k]
  BY FillEffect
<1>2. TypeOK'
  <2>1. DOMAIN seen' = {KeyOf(queue'[j]) : j \in 1..pos'}
    BY <1>1, HandledKeys DEF TypeOK
  <2>2. \A k \in DOMAIN seen' : seen'[k] \in Item
    BY <1>1 DEF TypeOK
  <2>3. queue' \in Seq(Items) /\ pos' \in 0..Len(queue') /\ merged' \in Seq(Item)
    BY <1>1
  <2> QED
    BY <2>1, <2>2, <2>3 DEF TypeOK
<1>3. \A j \in DOMAIN merged' : KeyOf(merged'[j]) = KeyOf(merged[j])
  BY <1>1
<1>4. \A j \in DOMAIN merged : j # i => KeyOf(merged[j]) # key
  BY <1>1 DEF SeenMirrorsMerged
<1>5. SeenMirrorsMerged'
  <2>1. \A k \in DOMAIN seen' : KeyOf(seen'[k]) = k
    BY <1>1 DEF SeenMirrorsMerged
  <2>2. \A j, k \in DOMAIN merged' :
          KeyOf(merged'[j]) = KeyOf(merged'[k]) => j = k
    BY <1>1, <1>3 DEF SeenMirrorsMerged
  <2>3. \A j \in DOMAIN merged' :
          /\ KeyOf(merged'[j]) \in DOMAIN seen'
          /\ seen'[KeyOf(merged'[j])] = merged'[j]
    BY <1>1, <1>3, <1>4 DEF SeenMirrorsMerged
  <2>4. \A k \in DOMAIN seen' : \E j \in DOMAIN merged' : merged'[j] = seen'[k]
    BY <1>1, <1>4 DEF SeenMirrorsMerged
  <2> QED
    BY <2>1, <2>2, <2>3, <2>4 DEF SeenMirrorsMerged
<1> QED
  BY <1>2, <1>5

LEMMA KeepCore == Core /\ KeepExisting => Core'
<1> SUFFICES ASSUME TypeOK, SeenMirrorsMerged, KeepExisting PROVE TypeOK' /\ SeenMirrorsMerged'
  BY DEF Core
<1>1. DOMAIN seen' = {KeyOf(queue'[j]) : j \in 1..pos'}
  BY KeepEffect, HandledKeys DEF TypeOK
<1>2. queue' \in Seq(Items) /\ pos' \in 0..Len(queue') /\ merged' \in Seq(Item)
  BY KeepEffect DEF TypeOK
<1>3. \A k \in DOMAIN seen' : seen'[k] \in Item
  BY KeepEffect DEF TypeOK
<1>4. TypeOK'
  BY <1>1, <1>2, <1>3 DEF TypeOK
<1>5. SeenMirrorsMerged'
  BY KeepEffect DEF SeenMirrorsMerged
<1> QED
  BY <1>4, <1>5

LEMMA StutterCore == Core /\ UNCHANGED vars => Core'
BY DEF Core, TypeOK, SeenMirrorsMerged, vars

LEMMA CoreInvariant == Spec => []Core
<1>1. Core /\ [Next]_vars => Core'
  BY AppendCore, FillCore, KeepCore, StutterCore DEF Next, Returned
<1> QED
  BY InitCore, <1>1, PTL DEF Spec

\* The structures keep their types, and the dictionary's keys are exactly the
\* keys of the items handled so far.
THEOREM TypeCorrect == Spec => []TypeOK
<1>1. Core => TypeOK
  BY DEF Core
<1> QED
  BY CoreInvariant, <1>1, PTL

\* The list and the dictionary of _make_merge_fn never drift apart, whatever
\* the items and however many sources repeat a key.
THEOREM SeenMirrorsMergedHolds == Spec => []SeenMirrorsMerged
<1>1. Core => SeenMirrorsMerged
  BY DEF Core
<1> QED
  BY CoreInvariant, <1>1, PTL

-----------------------------------------------------------------------------
\* One iteration in the vocabulary of keys: what the remaining theorems need
\* to know of a step, whichever of the three it is.
LEMMA StepEffect ==
  ASSUME TypeOK, SeenMirrorsMerged, AppendNew \/ FillExisting \/ KeepExisting
  PROVE  /\ pos \in Nat /\ pos + 1 \in 1..Len(queue) /\ pos' = pos + 1 /\ queue' = queue
         /\ DOMAIN merged \subseteq DOMAIN merged'
         /\ DOMAIN merged \subseteq Nat /\ DOMAIN merged' \subseteq Nat
         /\ \A i \in DOMAIN merged :
              /\ KeyOf(merged'[i]) = KeyOf(merged[i])
              /\ \A a \in Attrs :
                   \/ merged'[i][a] = merged[i][a]
                   \/ /\ merged[i][a] \in Blank
                      /\ merged'[i][a] = Incoming[a]
                      /\ KeyOf(Incoming) = KeyOf(merged[i])
         /\ \A i \in DOMAIN merged' \ DOMAIN merged :
              /\ merged'[i] = Incoming
              /\ \A k \in DOMAIN merged : k < i
              /\ \A k \in DOMAIN merged' \ DOMAIN merged : k = i
              /\ KeyOf(Incoming) \notin DOMAIN seen
<1>1. CASE AppendNew
  <2>1. DOMAIN merged = 1..Len(merged) /\ Len(merged) \in Nat
    BY DEF TypeOK
  <2>2. KeyOf(Incoming) \notin DOMAIN seen
    BY <1>1 DEF AppendNew
  <2> QED
    BY <1>1, <2>1, <2>2, AppendEffect
<1>2. CASE FillExisting
  <2>1. PICK i \in DOMAIN merged :
          LET key == KeyOf(Incoming)
              filled == FillMissing(merged[i], Incoming)
          IN  /\ pos \in Nat /\ pos + 1 \in 1..Len(queue) /\ pos' = pos + 1
              /\ queue' = queue
              /\ KeyOf(merged[i]) = key /\ KeyOf(filled) = key
              /\ DOMAIN merged' = DOMAIN merged
              /\ merged'[i] = filled
              /\ \A j \in DOMAIN merged : j # i => merged'[j] = merged[j]
    BY <1>2, FillEffect
  <2>2. \A a \in Attrs :
          \/ FillMissing(merged[i], Incoming)[a] = merged[i][a]
          \/ /\ merged[i][a] \in Blank
             /\ FillMissing(merged[i], Incoming)[a] = Incoming[a]
    BY DEF FillMissing, Fillable
  <2>3. DOMAIN merged \subseteq Nat
    BY DEF TypeOK
  <2> QED
    BY <2>1, <2>2, <2>3
<1>3. CASE KeepExisting
  <2>1. DOMAIN merged \subseteq Nat
    BY DEF TypeOK
  <2> QED
    BY <1>3, <2>1, KeepEffect
<1> QED
  BY <1>1, <1>2, <1>3

-----------------------------------------------------------------------------
LEMMA InventedStep ==
  Core /\ NothingInvented /\ (AppendNew \/ FillExisting \/ KeepExisting) => NothingInvented'
<1> SUFFICES ASSUME TypeOK, SeenMirrorsMerged, NothingInvented,
                    AppendNew \/ FillExisting \/ KeepExisting,
                    NEW i \in DOMAIN merged', NEW a \in Attrs
             PROVE  \E j \in 1..pos' :
                      /\ KeyOf(queue'[j]) = KeyOf(merged'[i])
                      /\ queue'[j][a] = merged'[i][a]
  BY DEF Core, NothingInvented, KeyAt
<1>1. 1..pos \subseteq 1..pos' /\ pos + 1 \in 1..pos' /\ queue' = queue
  BY StepEffect
<1>2. CASE i \in DOMAIN merged /\ merged'[i][a] = merged[i][a]
  <2>1. PICK j \in 1..pos : /\ KeyOf(queue[j]) = KeyOf(merged[i])
                            /\ queue[j][a] = merged[i][a]
    BY <1>2 DEF NothingInvented, KeyAt
  <2> QED
    BY <1>1, <1>2, <2>1, StepEffect
<1>3. CASE i \in DOMAIN merged /\ merged'[i][a] # merged[i][a]
  <2>1. /\ merged'[i][a] = queue[pos + 1][a]
        /\ KeyOf(queue[pos + 1]) = KeyOf(merged'[i])
    BY <1>3, StepEffect DEF Incoming
  <2> QED
    BY <1>1, <2>1
<1>4. CASE i \notin DOMAIN merged
  BY <1>1, <1>4, StepEffect DEF Incoming
<1> QED
  BY <1>2, <1>3, <1>4

LEMMA InitInvented == Init => NothingInvented
BY DEF Init, NothingInvented

LEMMA CoreWithInvented == Spec => [](Core /\ NothingInvented)
<1>1. Init => Core /\ NothingInvented
  BY InitCore, InitInvented
<1>2. NothingInvented /\ UNCHANGED vars => NothingInvented'
  BY DEF NothingInvented, KeyAt, vars
<1>3. Core /\ NothingInvented /\ [Next]_vars => (Core /\ NothingInvented)'
  BY <1>2, AppendCore, FillCore, KeepCore, StutterCore, InventedStep DEF Next, Returned
<1> QED
  BY <1>1, <1>3, PTL DEF Spec

\* Every attribute of every entry was said by some source about that entry.
THEOREM NothingInventedHolds == Spec => []NothingInvented
BY CoreWithInvented, PTL

-----------------------------------------------------------------------------
\* If no handled item of the incoming item's key has a usable value at `a`,
\* then neither has the entry.
LEMMA StillBlank ==
  ASSUME TypeOK, SeenMirrorsMerged, NothingInvented, NEW a \in Attrs,
         KeyOf(Incoming) \in DOMAIN seen,
         \A i \in 1..pos : KeyAt(i) = KeyOf(Incoming) => queue[i][a] \in Blank
  PROVE  seen[KeyOf(Incoming)][a] \in Blank
<1>1. PICK i \in DOMAIN merged : merged[i] = seen[KeyOf(Incoming)]
  BY DEF SeenMirrorsMerged
<1>2. KeyOf(merged[i]) = KeyOf(Incoming)
  BY <1>1 DEF SeenMirrorsMerged
<1>3. PICK j \in 1..pos : KeyAt(j) = KeyOf(merged[i]) /\ queue[j][a] = merged[i][a]
  BY DEF NothingInvented
<1> QED
  BY <1>1, <1>2, <1>3

LEMMA FirstUsableStep ==
  Core /\ NothingInvented /\ FirstUsableWins /\ (AppendNew \/ FillExisting \/ KeepExisting)
    => FirstUsableWins'
<1> SUFFICES ASSUME TypeOK, SeenMirrorsMerged, NothingInvented, FirstUsableWins,
                    AppendNew \/ FillExisting \/ KeepExisting,
                    NEW j \in 1..pos', NEW a \in Attrs,
                    queue'[j][a] \notin Blank,
                    \A i \in 1..(j - 1) :
                      KeyOf(queue'[i]) = KeyOf(queue'[j]) => queue'[i][a] \in Blank
             PROVE  seen'[KeyOf(queue'[j])][a] = queue'[j][a]
  BY DEF Core, FirstUsableWins, KeyAt
<1> DEFINE key == KeyOf(Incoming)
<1>1. queue' = queue /\ pos \in Nat /\ pos' = pos + 1
  BY StepEffect
<1>2. CASE j \in 1..pos
  <2>1. seen[KeyOf(queue[j])][a] = queue[j][a]
    BY <1>1, <1>2 DEF FirstUsableWins, KeyAt
  <2>2. KeyOf(queue[j]) \in DOMAIN seen
    BY <1>2 DEF TypeOK
  <2>3. CASE AppendNew
    BY <1>1, <2>1, <2>2, <2>3, AppendEffect DEF AppendNew
  <2>4. CASE FillExisting
    <3>1. \A k \in DOMAIN seen : k # key => seen'[k] = seen[k]
      BY <2>4, FillEffect
    <3>2. key \in DOMAIN seen /\ seen'[key] = FillMissing(seen[key], Incoming)
      BY <2>4, FillEffect
    <3>3. seen[key][a] \notin Blank => seen'[key][a] = seen[key][a]
      BY <3>2 DEF FillMissing, Fillable
    <3> QED
      BY <1>1, <2>1, <2>2, <3>1, <3>3
  <2>5. CASE KeepExisting
    BY <1>1, <2>1, <2>5, KeepEffect
  <2> QED
    BY <2>3, <2>4, <2>5
<1>3. CASE j = pos + 1
  <2>1. queue[j] = Incoming /\ Incoming[a] \notin Blank
    BY <1>1, <1>3 DEF Incoming
  <2>2. \A i \in 1..pos : KeyAt(i) = key => queue[i][a] \in Blank
    BY <1>1, <1>3 DEF KeyAt, Incoming
  <2>3. CASE AppendNew
    BY <1>1, <2>1, <2>3, AppendEffect
  <2>4. CASE FillExisting
    <3>1. key \in DOMAIN seen /\ seen'[key] = FillMissing(seen[key], Incoming)
      BY <2>4, FillEffect
    <3>2. seen[key][a] \in Blank
      BY <2>2, <3>1, StillBlank
    <3>3. seen'[key][a] = Incoming[a]
      BY <2>1, <3>1, <3>2 DEF FillMissing, Fillable
    <3> QED
      BY <1>1, <2>1, <3>3
  <2>5. CASE KeepExisting
    <3>1. key \in DOMAIN seen /\ Fillable(seen[key], Incoming) = {}
      BY <2>5, KeepEffect
    <3>2. seen[key][a] \in Blank
      BY <2>2, <3>1, StillBlank
    <3>3. a \in Fillable(seen[key], Incoming)
      BY <2>1, <3>2 DEF Fillable
    <3> QED
      BY <3>1, <3>3
  <2> QED
    BY <2>3, <2>4, <2>5
<1> QED
  BY <1>1, <1>2, <1>3

LEMMA InitFirstUsable == Init => FirstUsableWins
<1> SUFFICES ASSUME Init PROVE FirstUsableWins
  OBVIOUS
<1>1. 1..pos = {}
  BY DEF Init
<1> QED
  BY <1>1 DEF FirstUsableWins

\* Field-level priority holds for any number of sources and items: the first
\* item of a key with a usable value decides the attribute.
THEOREM FirstUsableWinsHolds == Spec => []FirstUsableWins
<1> DEFINE IInv == Core /\ NothingInvented /\ FirstUsableWins
<1>1. FirstUsableWins /\ UNCHANGED vars => FirstUsableWins'
  BY DEF FirstUsableWins, KeyAt, vars
<1>2. Core /\ NothingInvented /\ FirstUsableWins /\ [Next]_vars => FirstUsableWins'
  BY <1>1, FirstUsableStep DEF Next, Returned
<1> QED
  BY InitFirstUsable, <1>2, CoreWithInvented, PTL DEF Spec

-----------------------------------------------------------------------------
LEMMA OrderStep ==
  Core /\ FirstSeenOrder /\ (AppendNew \/ FillExisting \/ KeepExisting) => FirstSeenOrder'
<1> SUFFICES ASSUME TypeOK, SeenMirrorsMerged, FirstSeenOrder,
                    AppendNew \/ FillExisting \/ KeepExisting,
                    NEW i \in DOMAIN merged', NEW k \in DOMAIN merged', i < k
             PROVE  \E j \in 1..pos' :
                      /\ KeyOf(queue'[j]) = KeyOf(merged'[i])
                      /\ \A h \in 1..j :
                           KeyOf(queue'[h]) # KeyOf(merged'[k])
  BY DEF Core, FirstSeenOrder, KeyAt
<1>1. queue' = queue /\ pos \in Nat /\ pos' = pos + 1
  BY StepEffect
<1>2. i \in DOMAIN merged
  <2>1. i \in Nat /\ k \in Nat
    BY StepEffect
  <2>2. CASE k \in DOMAIN merged /\ i \notin DOMAIN merged
    BY <2>1, <2>2, StepEffect
  <2>3. CASE k \notin DOMAIN merged /\ i \notin DOMAIN merged
    BY <2>1, <2>3, StepEffect
  <2> QED
    BY <2>2, <2>3
<1>3. KeyOf(merged'[i]) = KeyOf(merged[i])
  BY <1>2, StepEffect
<1>4. CASE k \in DOMAIN merged
  <2>1. PICK j \in 1..pos :
          /\ KeyOf(queue[j]) = KeyOf(merged[i])
          /\ \A h \in 1..j : KeyOf(queue[h]) # KeyOf(merged[k])
    BY <1>2, <1>4 DEF FirstSeenOrder, KeyAt
  <2>2. KeyOf(merged'[k]) = KeyOf(merged[k])
    BY <1>4, StepEffect
  <2> QED
    BY <1>1, <1>3, <2>1, <2>2
<1>5. CASE k \notin DOMAIN merged
  <2>1. merged'[k] = Incoming /\ KeyOf(Incoming) \notin DOMAIN seen
    BY <1>5, StepEffect
  <2>2. \A h \in 1..pos : KeyOf(queue[h]) # KeyOf(merged'[k])
    BY <2>1 DEF TypeOK
  <2>3. PICK j \in 1..pos : KeyOf(queue[j]) = KeyOf(merged[i])
    <3>1. KeyOf(merged[i]) \in DOMAIN seen
      BY <1>2 DEF SeenMirrorsMerged
    <3> QED
      BY <3>1 DEF TypeOK
  <2> QED
    BY <1>1, <1>3, <2>2, <2>3
<1> QED
  BY <1>4, <1>5

\* The merged list is in the order in which identities first occurred.
THEOREM FirstSeenOrderHolds == Spec => []FirstSeenOrder
<1>1. Init => FirstSeenOrder
  BY DEF Init, FirstSeenOrder
<1>2. FirstSeenOrder /\ UNCHANGED vars => FirstSeenOrder'
  BY DEF FirstSeenOrder, KeyAt, vars
<1>3. Core /\ FirstSeenOrder /\ [Next]_vars => FirstSeenOrder'
  BY <1>2, OrderStep DEF Next, Returned
<1> QED
  BY <1>1, <1>3, CoreInvariant, PTL DEF Spec

-----------------------------------------------------------------------------
\* No step of the merge loses a usable value or moves an entry.
THEOREM NeverOverwrittenHolds == Spec => NeverOverwritten
<1> DEFINE Kept == \A i \in DOMAIN merged :
                     /\ i \in DOMAIN merged'
                     /\ \A a \in Attrs :
                          merged[i][a] \notin Blank => merged'[i][a] = merged[i][a]
<1>1. ASSUME Core, AppendNew \/ FillExisting \/ KeepExisting PROVE Kept
  BY <1>1, StepEffect DEF Core
<1>2. ASSUME UNCHANGED vars PROVE Kept
  BY <1>2 DEF vars
<1>3. Core /\ [Next]_vars => [Kept]_vars
  BY <1>1, <1>2 DEF Next, Returned
<1> QED
  BY <1>3, CoreInvariant, PTL DEF Spec, NeverOverwritten

-----------------------------------------------------------------------------
LEMMA AbsorbStep ==
  ASSUME Core, AppendNew \/ FillExisting \/ KeepExisting
  PROVE  [Union!Next]_{merged[i] : i \in DOMAIN merged}
<1> DEFINE Entries == {merged[i] : i \in DOMAIN merged}
<1>0. TypeOK /\ SeenMirrorsMerged
  BY DEF Core
<1>1. CASE AppendNew
  <2>1. Union!Absent(Incoming)
    <3>1. KeyOf(Incoming) \notin DOMAIN seen
      BY <1>1 DEF AppendNew
    <3> QED
      BY <1>0, <3>1 DEF Union!Absent, SeenMirrorsMerged
  <2>2. Entries' = Entries \cup {Incoming}
    BY <1>0, <1>1, AppendEffect
  <2>3. Incoming \in Items
    BY <1>0, <1>1, AppendEffect
  <2>4. \E item \in Items : Union!Absent(item) /\ Entries' = Entries \cup {item}
    BY <2>1, <2>2, <2>3 DEF Union!Absent
  <2> QED
    BY <2>4 DEF Union!Next, Union!Introduce
<1>2. CASE FillExisting
  <2>1. PICK i \in DOMAIN merged :
          /\ Incoming \in Items
          /\ KeyOf(merged[i]) = KeyOf(Incoming)
          /\ DOMAIN merged' = DOMAIN merged
          /\ merged'[i] = FillMissing(merged[i], Incoming)
          /\ \A j \in DOMAIN merged : j # i => merged'[j] = merged[j]
    BY <1>0, <1>2, FillEffect
  <2>2. FillMissing(merged[i], Incoming) = Union!Supplement(merged[i], Incoming)
    BY DEF FillMissing, Fillable, Union!Supplement
  <2>3. \A j \in DOMAIN merged : j # i => merged[j] # merged[i]
    BY <1>0 DEF SeenMirrorsMerged
  <2>4. Entries' = (Entries \ {merged[i]}) \cup {Union!Supplement(merged[i], Incoming)}
    BY <2>1, <2>2, <2>3
  <2>5. \E item \in Items, e \in Entries :
          /\ KeyOf(e) = KeyOf(item)
          /\ Entries' = (Entries \ {e}) \cup {Union!Supplement(e, item)}
    BY <2>1, <2>4 DEF Union!Supplement
  <2> QED
    BY <2>5 DEF Union!Next, Union!Enrich
<1>3. CASE KeepExisting
  BY <1>3 DEF KeepExisting
<1> QED
  BY <1>1, <1>2, <1>3

\* The loop with its list, dictionary and object identities implements the
\* keyed union: its result depends on nothing else of their state.
THEOREM Refinement == Spec => ImplementsKeyedUnion
<1>1. Init => Union!Init
  BY DEF Init, Union!Init
<1>2. Core /\ [Next]_vars => [Union!Next]_{merged[i] : i \in DOMAIN merged}
  <2>1. ASSUME Core, UNCHANGED vars
        PROVE  UNCHANGED {merged[i] : i \in DOMAIN merged}
    BY <2>1 DEF vars
  <2> QED
    BY <2>1, AbsorbStep DEF Next, Returned
<1> QED
  BY <1>1, <1>2, CoreInvariant, PTL DEF Spec, ImplementsKeyedUnion, Union!Spec

-----------------------------------------------------------------------------
(* The loop computes what MergeStructured says of the whole list. *)

\* Item j introduced its key.
FirstAt(j) == \A i \in 1..(j - 1) : KeyAt(i) # KeyAt(j)

\* An attribute without a usable value is as the item that introduced the entry
\* had it: Blank has more than one member.
BlankAsIntroduced ==
  \A j \in 1..pos, a \in Attrs :
    FirstAt(j) /\ seen[KeyAt(j)][a] \in Blank => seen[KeyAt(j)][a] = queue[j][a]

LEMMA BlankStep ==
  Core /\ BlankAsIntroduced /\ (AppendNew \/ FillExisting \/ KeepExisting) => BlankAsIntroduced'
<1> SUFFICES ASSUME TypeOK, SeenMirrorsMerged, BlankAsIntroduced,
                    AppendNew \/ FillExisting \/ KeepExisting,
                    NEW j \in 1..pos', NEW a \in Attrs,
                    \A i \in 1..(j - 1) : KeyOf(queue'[i]) # KeyOf(queue'[j]),
                    seen'[KeyOf(queue'[j])][a] \in Blank
             PROVE  seen'[KeyOf(queue'[j])][a] = queue'[j][a]
  BY DEF Core, BlankAsIntroduced, FirstAt, KeyAt
<1> DEFINE key == KeyOf(Incoming)
<1>1. queue' = queue /\ pos \in Nat /\ pos' = pos + 1
  BY StepEffect
<1>2. CASE j \in 1..pos
  <2>1. KeyOf(queue[j]) \in DOMAIN seen
    BY <1>2 DEF TypeOK
  <2>2. seen[KeyOf(queue[j])][a] \in Blank => seen[KeyOf(queue[j])][a] = queue[j][a]
    BY <1>1, <1>2 DEF BlankAsIntroduced, FirstAt, KeyAt
  <2>3. CASE AppendNew
    BY <1>1, <2>1, <2>2, <2>3, AppendEffect
  <2>4. CASE FillExisting
    <3>1. \A k \in DOMAIN seen : k # key => seen'[k] = seen[k]
      BY <2>4, FillEffect
    <3>2. key \in DOMAIN seen /\ seen'[key] = FillMissing(seen[key], Incoming)
      BY <2>4, FillEffect
    <3>3. seen'[key][a] \in Blank => seen'[key][a] = seen[key][a]
      BY <3>2 DEF FillMissing, Fillable
    <3> QED
      BY <1>1, <2>1, <2>2, <3>1, <3>3
  <2>5. CASE KeepExisting
    BY <1>1, <2>2, <2>5, KeepEffect
  <2> QED
    BY <2>3, <2>4, <2>5
<1>3. CASE j = pos + 1
  <2>1. key \notin DOMAIN seen
    BY <1>1, <1>3 DEF TypeOK, Incoming
  <2>2. AppendNew
    BY <2>1 DEF FillExisting, KeepExisting
  <2> QED
    BY <1>1, <1>3, <2>2, AppendEffect DEF Incoming
<1> QED
  BY <1>1, <1>2, <1>3

LEMMA InitBlank == Init => BlankAsIntroduced
<1> SUFFICES ASSUME Init PROVE BlankAsIntroduced
  OBVIOUS
<1>1. 1..pos = {}
  BY DEF Init
<1> QED
  BY <1>1 DEF BlankAsIntroduced

\* The position at which a key first occurred.
FirstOf(k) ==
  CHOOSE j \in 1..pos : KeyAt(j) = k /\ FirstAt(j)

LEMMA FirstOccurrence ==
  ASSUME TypeOK, NEW j \in 1..pos
  PROVE  LET f == FirstOf(KeyAt(j))
         IN  /\ f \in 1..pos /\ KeyAt(f) = KeyAt(j) /\ FirstAt(f)
             /\ f <= j /\ (FirstAt(j) => f = j)
<1> DEFINE S == {i \in 1..pos : KeyAt(i) = KeyAt(j)}
<1>0. pos \in Nat
  BY DEF TypeOK
<1>1. S \subseteq Nat /\ S # {}
  BY <1>0
<1>2. PICK i \in S : \A h \in S : i <= h
  <2> HIDE DEF S
  <2> QED
    BY <1>1, LeastElement
<1>3. FirstAt(i)
  BY <1>0, <1>2 DEF FirstAt
<1>4. \E h \in 1..pos : KeyAt(h) = KeyAt(j) /\ FirstAt(h)
  BY <1>2, <1>3
<1> DEFINE f == FirstOf(KeyAt(j))
<1>5. f \in 1..pos /\ KeyAt(f) = KeyAt(j) /\ FirstAt(f)
  BY <1>4 DEF FirstOf
<1> HIDE DEF f
<1>6. f <= j
  BY <1>0, <1>5 DEF FirstAt
<1>7. FirstAt(j) => f = j
  BY <1>0, <1>5, <1>6 DEF FirstAt
<1> QED
  BY <1>5, <1>6, <1>7 DEF f

\* What stands for a key is what the handled items of the key make together.
LEMMA SeenIsGathered ==
  ASSUME Core, NothingInvented, FirstUsableWins, BlankAsIntroduced,
         NEW j \in 1..pos, FirstAt(j)
  PROVE  Gathered(SubSeq(queue, 1, pos), j, IdAttrs) = seen[KeyAt(j)]
<1> DEFINE list == SubSeq(queue, 1, pos)
<1>1. /\ TypeOK /\ SeenMirrorsMerged /\ pos \in Nat
      /\ DOMAIN list = 1..pos /\ \A h \in 1..pos : list[h] = queue[h]
  BY DEF Core, TypeOK
<1>2. KeyAt(j) \in DOMAIN seen /\ seen[KeyAt(j)] \in Item
  BY <1>1 DEF TypeOK, KeyAt
<1> HIDE DEF list
<1>3. ASSUME NEW a \in Attrs
      PROVE  Gathered(list, j, IdAttrs)[a] = seen[KeyAt(j)][a]
  <2> DEFINE usable == {h \in 1..pos : KeyAt(h) = KeyAt(j) /\ queue[h][a] \notin Blank}
  <2>1. Gathered(list, j, IdAttrs)[a] =
          IF usable = {} THEN list[j][a] ELSE list[Min(usable)][a]
    <3>1. usable = {h \in DOMAIN list : /\ SameIdentity(list[h], list[j], IdAttrs)
                                        /\ list[h][a] \notin Blank}
      BY <1>1 DEF KeyAt, KeyOf, SameIdentity
    <3> HIDE DEF usable
    <3> QED
      BY <3>1 DEF Gathered
  <2>2. CASE usable = {}
    <3>1. PICK i \in DOMAIN merged : merged[i] = seen[KeyAt(j)]
      BY <1>1, <1>2 DEF SeenMirrorsMerged
    <3>2. KeyOf(merged[i]) = KeyAt(j)
      BY <1>1, <1>2, <3>1 DEF SeenMirrorsMerged
    <3>3. PICK h \in 1..pos : KeyAt(h) = KeyOf(merged[i]) /\ queue[h][a] = merged[i][a]
      BY DEF NothingInvented
    <3>4. seen[KeyAt(j)][a] \in Blank
      BY <2>2, <3>1, <3>2, <3>3
    <3>5. seen[KeyAt(j)][a] = queue[j][a]
      BY <3>4 DEF BlankAsIntroduced
    <3> QED
      BY <1>1, <2>1, <2>2, <3>5
  <2>3. CASE usable # {}
    <3>1. usable \subseteq Nat
      BY <1>1
    <3>2. Min(usable) \in usable /\ \A h \in usable : Min(usable) <= h
      <4> HIDE DEF usable
      <4>1. \E x \in usable : \A y \in usable : x <= y
        BY <2>3, <3>1, LeastElement
      <4> QED
        BY <4>1 DEF Min
    <3>3. PICK m \in usable : m = Min(usable) /\ \A h \in usable : m <= h
      BY <3>2
    <3>4. \A i \in 1..(m - 1) : KeyAt(i) = KeyAt(m) => queue[i][a] \in Blank
      BY <1>1, <3>3
    <3>5. seen[KeyAt(m)][a] = queue[m][a]
      BY <3>3, <3>4 DEF FirstUsableWins
    <3> QED
      BY <1>1, <2>1, <2>3, <3>3, <3>5
  <2> QED
    BY <2>2, <2>3
<1>4. Gathered(list, j, IdAttrs) = [a \in Attrs |-> Gathered(list, j, IdAttrs)[a]]
  BY DEF Gathered
<1>5. seen[KeyAt(j)] = [a \in Attrs |-> seen[KeyAt(j)][a]]
  BY <1>2 DEF Item
<1> QED
  BY <1>3, <1>4, <1>5 DEF list

\* Both lists hold the same entries in the order in which their keys first
\* occurred, and these positions differ: there is one such list.
LEMMA LoopResult ==
  ASSUME Core, NothingInvented, FirstUsableWins, FirstSeenOrder, BlankAsIntroduced
  PROVE  LoopComputesMergeStructured
<1> DEFINE list == SubSeq(queue, 1, pos)
           gathered == [i \in DOMAIN list |-> Gathered(list, i, IdAttrs)]
           firsts == {i \in DOMAIN list :
                        \A j \in 1..(i - 1) : ~SameIdentity(list[j], list[i], IdAttrs)}
           result == At(gathered, firsts)
           rank == [e \in Item |-> IF KeyOf(e) \in DOMAIN seen THEN FirstOf(KeyOf(e)) ELSE 0]
<1>1. /\ TypeOK /\ SeenMirrorsMerged /\ pos \in Nat /\ merged \in Seq(Item)
      /\ DOMAIN list = 1..pos /\ \A h \in 1..pos : list[h] = queue[h]
  BY DEF Core, TypeOK
<1>2. MergeStructured(list, IdAttrs) = result
  BY DEF MergeStructured
<1>3. firsts = {j \in 1..pos : FirstAt(j)}
  <2> HIDE DEF list
  <2>1. \A j \in 1..pos : \A i \in 1..(j - 1) : i \in 1..pos
    BY <1>1
  <2> QED
    BY <1>1, <2>1 DEF FirstAt, KeyAt, KeyOf, SameIdentity
<1>4. \A j \in 1..pos : FirstAt(j) => gathered[j] = seen[KeyAt(j)]
  BY <1>1, SeenIsGathered
<1>5. \A j \in 1..pos : gathered[j] \in Item
  <2> SUFFICES ASSUME NEW j \in 1..pos, NEW a \in Attrs
               PROVE  Gathered(list, j, IdAttrs)[a] \in Values
    BY <1>1 DEF Gathered, Item
  <2>1. \A h \in 1..pos : list[h][a] \in Values
    BY <1>1, ItemsAssumption DEF TypeOK
  <2> HIDE DEF list
  <2> DEFINE usable == {h \in DOMAIN list : /\ SameIdentity(list[h], list[j], IdAttrs)
                                            /\ list[h][a] \notin Blank}
  <2>2. Gathered(list, j, IdAttrs)[a] = IF usable = {} THEN list[j][a] ELSE list[Min(usable)][a]
    BY DEF Gathered
  <2>3. usable \subseteq 1..pos
    BY <1>1
  <2> HIDE DEF usable
  <2>4. ASSUME usable # {} PROVE Min(usable) \in usable
    <3>1. usable \subseteq Nat
      BY <1>1, <2>3
    <3>2. \E x \in usable : \A y \in usable : x <= y
      BY <2>4, <3>1, LeastElement
    <3> QED
      BY <3>2 DEF Min
  <2> QED
    BY <2>1, <2>2, <2>3, <2>4
<1>6. gathered \in Seq(Item) /\ DOMAIN gathered = 1..pos
  <2>1. gathered = [j \in 1..pos |-> gathered[j]]
    BY <1>1
  <2> HIDE DEF gathered
  <2>2. gathered \in [1..pos -> Item]
    BY <1>5, <2>1
  <2> QED
    BY <1>1, <2>1, <2>2, SeqDef
<1> HIDE DEF list, gathered, firsts
<1>7. result \in Seq(Item) /\ \E from : Picks(result, gathered, firsts, from)
  <2>1. result = At(gathered, firsts)
    OBVIOUS
  <2> HIDE DEF result
  <2> QED
    BY <1>6, <2>1, AtPicks
<1> HIDE DEF result
<1>8. PICK from : Picks(result, gathered, firsts, from)
  BY <1>7
<1>9. \A p \in DOMAIN result : /\ from[p] \in 1..pos /\ FirstAt(from[p])
                               /\ result[p] = seen[KeyAt(from[p])]
  BY <1>3, <1>4, <1>6, <1>8 DEF Picks
<1>10. \A k \in DOMAIN seen : \E j \in 1..pos : KeyAt(j) = k
  BY <1>1 DEF TypeOK, KeyAt
<1>11. \A k \in DOMAIN seen : /\ FirstOf(k) \in 1..pos /\ KeyAt(FirstOf(k)) = k
                              /\ FirstAt(FirstOf(k))
  BY <1>1, <1>10, FirstOccurrence
<1>12. \A j \in 1..pos : KeyAt(j) \in DOMAIN seen
  BY <1>1 DEF TypeOK, KeyAt
<1>13. rank \in [Item -> Int]
  BY <1>1, <1>11
<1>14. \A p \in DOMAIN result : rank[result[p]] = from[p]
  <2> SUFFICES ASSUME NEW p \in DOMAIN result PROVE rank[result[p]] = from[p]
    OBVIOUS
  <2>1. KeyAt(from[p]) \in DOMAIN seen
    BY <1>9, <1>12
  <2>2. KeyOf(result[p]) = KeyAt(from[p]) /\ result[p] \in Item
    BY <1>1, <1>9, <2>1 DEF SeenMirrorsMerged, TypeOK
  <2>3. FirstOf(KeyAt(from[p])) = from[p]
    BY <1>1, <1>9, FirstOccurrence
  <2> QED
    BY <2>1, <2>2, <2>3
<1>15. \A i \in DOMAIN merged : /\ KeyOf(merged[i]) \in DOMAIN seen /\ merged[i] \in Item
                                /\ seen[KeyOf(merged[i])] = merged[i]
                                /\ rank[merged[i]] = FirstOf(KeyOf(merged[i]))
  BY <1>1 DEF SeenMirrorsMerged
<1> HIDE DEF rank
<1>16. Ascending(result, rank)
  BY <1>8, <1>14 DEF Ascending, Picks
<1>17. Ascending(merged, rank)
  <2> SUFFICES ASSUME NEW i \in DOMAIN merged, NEW k \in DOMAIN merged, i < k
               PROVE  rank[merged[i]] < rank[merged[k]]
    BY DEF Ascending
  <2>1. PICK j \in 1..pos : /\ KeyAt(j) = KeyOf(merged[i])
                            /\ \A h \in 1..j : KeyAt(h) # KeyOf(merged[k])
    BY DEF FirstSeenOrder
  <2>2. FirstOf(KeyOf(merged[i])) <= j
    BY <1>1, <2>1, FirstOccurrence
  <2>3. /\ FirstOf(KeyOf(merged[k])) \in 1..pos
        /\ KeyAt(FirstOf(KeyOf(merged[k]))) = KeyOf(merged[k])
        /\ FirstOf(KeyOf(merged[i])) \in 1..pos
    BY <1>11, <1>15
  <2>4. FirstOf(KeyOf(merged[k])) > j
    BY <1>1, <2>1, <2>3
  <2> QED
    BY <1>1, <1>15, <2>2, <2>3, <2>4
<1>18. \A i \in DOMAIN merged : \E p \in DOMAIN result : merged[i] = result[p]
  <2> SUFFICES ASSUME NEW i \in DOMAIN merged PROVE \E p \in DOMAIN result : merged[i] = result[p]
    OBVIOUS
  <2>1. PICK f \in 1..pos : FirstAt(f) /\ KeyAt(f) = KeyOf(merged[i])
    BY <1>11, <1>15
  <2>2. PICK p \in DOMAIN result : from[p] = f
    BY <1>3, <1>6, <1>8, <2>1 DEF Picks
  <2> QED
    BY <1>9, <1>15, <2>1, <2>2
<1>19. \A p \in DOMAIN result : \E i \in DOMAIN merged : result[p] = merged[i]
  BY <1>1, <1>9, <1>12 DEF SeenMirrorsMerged
<1>20. merged = result
  BY <1>1, <1>7, <1>13, <1>16, <1>17, <1>18, <1>19, AscendingIsUnique
<1> QED
  BY <1>2, <1>20 DEF LoopComputesMergeStructured, list

\* The loop, its list and its dictionary compute MergeStructured, the definition
\* the merge engine's results are stated with, of what has been handled so far.
THEOREM LoopComputesMergeStructuredHolds == Spec => []LoopComputesMergeStructured
<1>1. BlankAsIntroduced /\ UNCHANGED vars => BlankAsIntroduced'
  BY DEF BlankAsIntroduced, FirstAt, KeyAt, vars
<1>2. Core /\ BlankAsIntroduced /\ [Next]_vars => BlankAsIntroduced'
  BY <1>1, BlankStep DEF Next, Returned
<1>3. Spec => []BlankAsIntroduced
  BY InitBlank, <1>2, CoreInvariant, PTL DEF Spec
<1>4. Core /\ NothingInvented /\ FirstUsableWins /\ FirstSeenOrder /\ BlankAsIntroduced
        => LoopComputesMergeStructured
  BY LoopResult
<1> QED
  BY <1>3, <1>4, CoreWithInvented, FirstUsableWinsHolds, FirstSeenOrderHolds, PTL
=============================================================================
