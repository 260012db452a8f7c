-------------------------- MODULE MCStructuredMerge --------------------------
(***************************************************************************)
(* Instance of StructuredMerge for TLC: certifications, whose identity is  *)
(* (name, issuer).  "acme" and "Acme," differ only in case and             *)
(* punctuation; an issuer of "-" is a value, yet nothing of it takes part  *)
(* in a key, so it fills an issuer of None under the same key.             *)
(***************************************************************************)
EXTENDS StructuredMerge

CONSTANTS
  None,                 \* Python's None
  MaxItems              \* bound on the number of items merged

MCAttrs == {"name", "issuer", "issued_date", "expiry_date"}
MCIdAttrs == {"name", "issuer"}
MCBlank == {None}
MCValues == {None, "acme", "Acme,", "zeta", "-", "2019", "2020", "2024"}
MCNorm ==
  [v \in MCValues |->
     CASE v \in {None, "-"} -> ""
       [] v \in {"acme", "Acme,"} -> "acme"
       [] OTHER -> v]
MCItems ==
  [name : {"acme", "Acme,", "zeta"},
   issuer : {None, "-"},
   issued_date : {None, "2019", "2020"},
   expiry_date : {None, "2024"}]
MCInputs == BoundedSeq(MCItems, MaxItems)
=============================================================================
