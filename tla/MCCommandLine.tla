---------------------------- MODULE MCCommandLine ----------------------------
(***************************************************************************)
(* Instance of CommandLine for TLC: two ATS records, two resumes and one   *)
(* file no parser accepts, on four paths.  One document set stands for     *)
(* each thing the stages can find in one: an invalid single source (a2), a *)
(* refused merge (a2 with r2), a merge with a conflict (a1 with either     *)
(* resume) and a merge whose entries break a model validator (a1 with r2). *)
(***************************************************************************)
EXTENDS CommandLine

MCSourceOf ==
  [d \in {"a1", "a2", "r1", "r2", "broken"} |-> IF d \in {"a1", "a2"} THEN ATS ELSE RESUME]
MCParsable == {"a1", "a2", "r1", "r2"}
MCInvalid == {{"a2"}, {"a2", "r1"}, {"a1", "r2"}}
MCQuestionable == {{"r1"}, {"a1", "r1"}}
MCUnmergeable == {{"a2", "r2"}}
MCConflicting == {{"a1", "r1"}, {"a1", "r2"}}
MCMisfits == {{"a1", "r2"}}

MCSuffix ==
  [p \in {"ats.json", "resume.pdf", "out.json", "notes.txt"} |->
     CASE p = "resume.pdf" -> "resume" [] p = "notes.txt" -> "other" [] OTHER -> "json"]
MCOutputs == {None, "out.json"}
MCFormats == {"canonical", "unknown"}
MCExternal ==
  [p \in DOMAIN MCSuffix |->
     CASE p = "ats.json" -> {NoFile, Document("a1"), Document("a2")}
       [] p = "resume.pdf" -> {NoFile, Document("r1"), Document("r2"), Document("broken")}
       [] p = "out.json" -> {NoFile}
       [] OTHER -> {Document("a1")}]
=============================================================================
