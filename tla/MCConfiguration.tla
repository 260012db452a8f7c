--------------------------- MODULE MCConfiguration ---------------------------
(***************************************************************************)
(* Instance of Configuration for TLC: two files, two paths that may lead   *)
(* to the same one, the builder's loader and another.  The contents differ *)
(* in whether they load, in their version and in whom they are fit for.    *)
(***************************************************************************)
EXTENDS Configuration, TLC

Content(read, version, body) == [read |-> read, version |-> version, body |-> body]

Good == Content("mapping", "1.0", "first")
Better == Content("mapping", "1.0", "second")
Misfit == Content("mapping", "1.0", "misfit")
Old == Content("mapping", "0.9", "first")
New == Content("mapping", "1.1", "first")

MCContents ==
  {Good, Better, Misfit, Old, New, Content("mapping", None, "first"),
   Content("missing", None, None), Content("undecodable", None, None)}

MCTextRank == "0.9" :> 1 @@ "1.0" :> 2 @@ "1.1" :> 3
MCPathOf ==
  [r \in Roles |-> IF r \in {"confidence", "policy"} THEN "engines.yaml" ELSE "rules.yaml"]
MCUsableFor ==
  [r \in Roles |-> IF r \in {"confidence", "validation"} THEN {Good, Better}
                   ELSE {Good, Better, Old}]
=============================================================================
