------------------------------ MODULE ItemUnion ------------------------------
(***************************************************************************)
(* Items of an identity-keyed list and how those of one identity combine:  *)
(* identity_key of merge/identity.py, StructuredListResolver's             *)
(* _fill_missing_fields of merge/resolvers.py for two items, and what its  *)
(* _make_merge_fn makes of a whole list.                                   *)
(***************************************************************************)
EXTENDS Lists

CONSTANTS
  Attrs,     \* the attributes of the item's model class
  Blank,     \* None and the empty string
  Norm       \* identity._norm: what of a value takes part in a key

identity_key(item, fields) == [a \in fields |-> Norm[item[a]]]

\* Attributes of the kept item that the incoming one can fill.
Fillable(existing, incoming) ==
  {a \in Attrs : existing[a] \in Blank /\ incoming[a] \notin Blank}

\* Seeded fault: last write wins instead of filling gaps only.
FillMissing_LastWins(existing, incoming) ==
  [a \in Attrs |-> IF incoming[a] \notin Blank THEN incoming[a] ELSE existing[a]]

FillMissing(existing, incoming) ==
  [a \in Attrs |-> IF a \in Fillable(existing, incoming) THEN incoming[a] ELSE existing[a]]

-----------------------------------------------------------------------------
SameIdentity(a, b, identity_keys) ==
  identity_key(a, identity_keys) = identity_key(b, identity_keys)

\* Item i with its gaps filled by the first item of its identity that can.
Gathered(list, i, identity_keys) ==
  [a \in Attrs |->
     LET usable == {j \in DOMAIN list : /\ SameIdentity(list[j], list[i], identity_keys)
                                        /\ list[j][a] \notin Blank}
     IN  IF usable = {} THEN list[i][a] ELSE list[Min(usable)][a]]

\* One entry for each identity, where it first occurs: what the loop that
\* StructuredMerge models iteration by iteration makes of the whole list.
MergeStructured(list, identity_keys) ==
  At([i \in DOMAIN list |-> Gathered(list, i, identity_keys)],
     {i \in DOMAIN list : \A j \in 1..(i - 1) : ~SameIdentity(list[j], list[i], identity_keys)})
=============================================================================
