---------------------------- MODULE ResumeDocument ----------------------------
(***************************************************************************)
(* From the resume file to the lines of its sections: the file checks, the *)
(* text extractor, the name detector and the section detector, in the      *)
(* order ResumeParser.parse runs them.                                     *)
(*                                                                         *)
(* A document is a sequence of lines in the order in which they stand.  A  *)
(* line belongs to a block (a PDF text block, a DOCX paragraph or table    *)
(* cell); a PDF block has a page, row and column, a DOCX block a source.   *)
(***************************************************************************)
EXTENDS ResumeLines, Integers, SequencesExt, FiniteSetsExt

CONSTANTS
  Resumes,        \* files: suffix, state ("ok", "invalid" or "corrupt"), spans
  Marked,         \* line -> the same line with a bullet marker
  HeaderOf,       \* line -> the section it is an alias of, "stop" or "none"
  Words,          \* line -> number of words
  ProperLines,    \* lines all of whose words are capitalised
  Denylist,       \* those that never are a name
  ContactLines,   \* lines with an email, phone number or profile URL
  LocationLines   \* lines shaped "City, Region"

\* A span of text as the document holds it: the fields of both formats.
Spans ==
  [line : Line, block : Nat, page : Nat, row : Nat, column : Nat,
   source : {"body", "table", "header", "footer"}, listed : BOOLEAN]

\* A document has finitely many spans, in an order.
ASSUME SpansAreSequences == \A r \in Resumes : r.spans \in Seq(Spans)

\* A marker makes a line of a line.
ASSUME MarkedIsLine == \A line \in Line : Marked[line] \in Line

SectionName == {"skills", "languages", "experience", "education", "certifications"}
AllowedSuffixes == {".pdf", ".docx"}

VARIABLES
  resume,     \* the file
  reading,    \* "file", "text", "name", "sections", "done", or the error raised
  text,       \* the lines extracted, in their order
  name,       \* the lines the name is read from, or None
  header_at,  \* the position of the last section header dealt with
  bodies      \* section -> the lines of its body, <<>> if there is none

documentVars == <<resume, reading, text, name, header_at, bodies>>

DocumentInit ==
  /\ resume \in Resumes
  /\ reading = "file"
  /\ text = <<>>
  /\ name = None
  /\ header_at = 0
  /\ bodies = [s \in SectionName |-> <<>>]

\* The suffix is looked at before the file.
ValidateFile ==
  /\ reading = "file"
  /\ reading' = IF resume.suffix \notin AllowedSuffixes THEN "UnsupportedFormatError"
                ELSE IF resume.state = "invalid" THEN "FileReadError" ELSE "text"
  /\ UNCHANGED <<resume, text, name, header_at, bodies>>

-----------------------------------------------------------------------------
SourceRank == [body |-> 1, table |-> 2, header |-> 3, footer |-> 4]

\* PDF blocks are sorted by page, row and column; of a DOCX all paragraphs come
\* first, then all table cells, then the page header and footer.
Place(span) ==
  IF resume.suffix = ".pdf" THEN <<span.page, span.row, span.column>>
  ELSE <<SourceRank[span.source], 0, 0>>

Before(p, q) ==
  LET a == Place(resume.spans[p])
      b == Place(resume.spans[q])
  IN  \/ \E c \in 1..3 : a[c] < b[c] /\ \A d \in 1..(c - 1) : a[d] = b[d]
      \/ a = b /\ p < q

\* A paragraph of a Word list gets the marker its text does not have.
LineOf(span) == IF span.listed THEN Marked[span.line] ELSE span.line

\* How many spans are sorted before the given one.
Rank(q) == Cardinality({r \in DOMAIN resume.spans : Before(r, q)})

Extracted ==
  [p \in DOMAIN resume.spans |->
     LET span == resume.spans[CHOOSE q \in DOMAIN resume.spans : Rank(q) = p - 1]
     IN  [line |-> LineOf(span), block |-> span.block, page |-> span.page,
          isolated |-> span.source # "table"]]

\* A corrupt or encrypted file; a document without text.
ExtractText ==
  /\ reading = "text"
  /\ IF resume.state = "corrupt" THEN reading' = "CorruptedFileError" /\ UNCHANGED text
     ELSE IF resume.spans = <<>> THEN reading' = "TextExtractionError" /\ UNCHANGED text
     ELSE reading' = "name" /\ text' = Extracted
  /\ UNCHANGED <<resume, name, header_at, bodies>>

-----------------------------------------------------------------------------
BlockOf(p) == {q \in DOMAIN text : text[q].block = text[p].block}
WordsIn(positions) == MapThenSumSet(LAMBDA q : Words[text[q].line], positions)
IsHeaderAlias(p) == HeaderOf[text[p].line] \in SectionName

\* NameDetector._as_name of a block, or of a single line.
LooksLikeName(positions) ==
  /\ WordsIn(positions) \in 2..4
  /\ \A q \in positions : text[q].line \in ProperLines
  /\ ~\E q \in positions : positions = {q} /\ text[q].line \in Denylist

LinesAt(positions) == {text[q].line : q \in positions}

\* The block at the top of the first page is not asked to be no header.
TopBlockIsName == text[1].page = 0 /\ text[1].isolated /\ LooksLikeName(BlockOf(1))

\* The first five lines.
Candidates ==
  {p \in 1..5 \cap DOMAIN text :
     ~IsHeaderAlias(p) /\ text[p].line \notin ContactLines /\ LooksLikeName({p})}

DetectName ==
  /\ reading = "name"
  /\ name' = CASE TopBlockIsName -> LinesAt(BlockOf(1))
               [] ~TopBlockIsName /\ Candidates # {} -> LinesAt({Min(Candidates)})
               [] OTHER -> None
  /\ reading' = "sections"
  /\ UNCHANGED <<resume, text, header_at, bodies>>

-----------------------------------------------------------------------------
StartsBlock(p) == \A q \in BlockOf(p) : p <= q

\* The section whose header the block of line p is.  A stop header may be
\* decorated, so that its block may have more words.
HeaderAt(p) ==
  CASE BlockOf(p) = {p} /\ IsHeaderAlias(p) -> HeaderOf[text[p].line]
    [] StartsBlock(p) /\ HeaderOf[text[p].line] = "stop" /\ WordsIn(BlockOf(p)) <= 5 -> "stop"
    [] OTHER -> "none"

\* From p on, q is the first header, or the end of the document.
NextHeader(p, q) ==
  /\ q \in DOMAIN text => HeaderAt(q) # "none"
  /\ \A r \in (p + 1)..(q - 1) : HeaderAt(r) = "none"

Body(start, end) == [j \in 1..(end - start - 1) |-> text[start + j].line]

\* Seeded fault: a later section of the same name replaces the first.
SetBody_LastWins(section, body) ==
  IF section = "stop" \/ body = <<>> THEN bodies ELSE [bodies EXCEPT ![section] = body]

\* The first section of a name that has a body wins.
SetBody(section, body) ==
  IF section = "stop" \/ body = <<>> \/ bodies[section] # <<>> THEN bodies
  ELSE [bodies EXCEPT ![section] = body]

DetectSection ==
  /\ reading = "sections"
  /\ \E start \in (header_at + 1)..Len(text), end \in (header_at + 2)..(Len(text) + 1) :
       /\ start < end
       /\ NextHeader(header_at, start) /\ NextHeader(start, end)
       /\ bodies' = SetBody(HeaderAt(start), Body(start, end))
       /\ header_at' = start
  /\ UNCHANGED <<resume, reading, text, name>>

EndDetection ==
  /\ reading = "sections"
  /\ NextHeader(header_at, Len(text) + 1)
  /\ reading' = "done"
  /\ UNCHANGED <<resume, text, name, header_at, bodies>>

DocumentNext == ValidateFile \/ ExtractText \/ DetectName \/ DetectSection \/ EndDetection

DocumentErrors ==
  {"UnsupportedFormatError", "FileReadError", "CorruptedFileError", "TextExtractionError"}

-----------------------------------------------------------------------------
(* What the mapper takes from the text above and beside the sections.      *)

\* The first of the lines; none if there is none.
FirstOf(positions) == IF positions = {} THEN None ELSE Min(positions)

ContactAt == FirstOf({p \in DOMAIN text : text[p].line \in ContactLines})

\* extract_location sees six lines of the text above the first alias line.
LocationAt ==
  FirstOf({p \in 1..6 \cap DOMAIN text :
             text[p].line \in LocationLines /\ ~\E q \in 1..p : IsHeaderAlias(q)})

-----------------------------------------------------------------------------
(* Properties.                                                             *)

\* The lines between a header and the next one, of all sections and stop
\* sections.
RunAfter(h) == {q \in DOMAIN text : q > h /\ \A r \in (h + 1)..q : HeaderAt(r) = "none"}
HeadersWithText(section) == {h \in DOMAIN text : HeaderAt(h) = section /\ RunAfter(h) # {}}

\* Each section the detector returns is the unbroken run of lines under the
\* first header of its name that has any; a name that was never a header with
\* lines under it has no section.
SectionsReadAsTheyStand ==
  reading = "done" =>
    \A section \in SectionName :
      IF HeadersWithText(section) = {} THEN bodies[section] = <<>>
      ELSE LET h == Min(HeadersWithText(section))
           IN  /\ Len(bodies[section]) = Cardinality(RunAfter(h))
               /\ \A j \in DOMAIN bodies[section] : bodies[section][j] = text[h + j].line

=============================================================================
