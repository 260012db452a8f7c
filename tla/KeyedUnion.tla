----------------------------- MODULE KeyedUnion -----------------------------
(***************************************************************************)
(* What the merge of an identity-keyed list promises to its callers,       *)
(* whatever data structures compute it: a set of entries, at most one per  *)
(* identity key, into which items are absorbed one at a time.  An item     *)
(* with a new key becomes an entry; an item whose key is already present   *)
(* only supplies the attributes its entry has no usable value for.         *)
(***************************************************************************)
CONSTANTS
  Attrs,    \* attribute names of one item
  Blank,    \* the values that count as "no usable value"
  Items,    \* the items a source may supply
  Key(_)    \* the identity key of an item

VARIABLE entries

Absent(item) == \A e \in entries : Key(e) # Key(item)

\* Attribute by attribute, the older entry wins unless only the newer item
\* has something to say.
Supplement(e, item) ==
  [a \in Attrs |-> IF e[a] \in Blank /\ item[a] \notin Blank THEN item[a] ELSE e[a]]

Init == entries = {}

Introduce(item) ==
  /\ Absent(item)
  /\ entries' = entries \cup {item}

Enrich(e, item) ==
  /\ Key(e) = Key(item)
  /\ entries' = (entries \ {e}) \cup {Supplement(e, item)}

Next ==
  \E item \in Items :
    \/ Introduce(item)
    \/ \E e \in entries : Enrich(e, item)

Spec == Init /\ [][Next]_entries
=============================================================================
