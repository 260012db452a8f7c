----------------------------- MODULE ResumeLines -----------------------------
(***************************************************************************)
(* What the two line automata of ResumeParser share: the lines in which    *)
(* the date extractor finds a range, and the absent value.  A line stands  *)
(* for all lines that the regular expressions and word lists classify      *)
(* alike.                                                                  *)
(***************************************************************************)
EXTENDS Naturals, Sequences

CONSTANTS
  None,
  Line,        \* the lines a resume may have
  DateLines    \* those a date range is found in

\* A text quotes lines whole, or the pieces that separators split them into.
Parts == {"whole", "left", "right", "first", "rest"}

\* Positions of lines, and texts, are told from the absent value.
ASSUME NoneAssumption == None \notin Nat /\ None \notin Seq(Nat \X Parts)
=============================================================================
