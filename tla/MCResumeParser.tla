---------------------------- MODULE MCResumeParser ----------------------------
(***************************************************************************)
(* Four families of resumes: one long section of each kind; two sections;  *)
(* varied structure (headers that repeat or have nothing under them, table *)
(* cells, page headers, rows, columns and pages, lines that share a        *)
(* block); and files that cannot be read.                                  *)
(***************************************************************************)
EXTENDS ResumeParser

CONSTANTS
  ExperienceKinds, CommonExperience,   \* all kinds of lines, and those of long sections
  EducationKinds, CommonEducation,
  StructuralKinds, PlacedKinds, RepeatedKinds,   \* lines of resumes of varied structure
  MaxKinds, MaxCommon                  \* lines per section

ListTokens ==
  [a_b |-> <<"a", ",", "b">>, upper_a |-> <<"A">>, labelled |-> <<"label:", "a">>,
   number |-> <<"number">>, dashed |-> <<"-", "b", "-">>, blank_items |-> <<",", ",", "a">>,
   opens |-> <<"a", "(", "b", ",">>, closes |-> <<"c", ")">>,
   numbered |-> <<"a", ")", "b", "(", "c", ",">>, stray |-> <<")", ",", "a">>,
   nested |-> <<"a", "(", "b", ",", "(", "c", ")", ",", ")", ",", "b">>]
LanguageTokens ==
  [native |-> <<"a", "(", "native", ")">>, plain |-> <<"A">>, only |-> <<"(", "native", ")">>,
   two |-> <<"a", "-", "native", ",", "b">>, unclosed |-> <<"b", "(", "Native">>]
HeaderSections ==
  ("Experience" :> "experience") @@ ("Work Experience" :> "experience") @@
  ("Education" :> "education") @@ ("Skills" :> "skills") @@ ("Languages" :> "languages") @@
  ("Certifications" :> "certifications") @@ ("Projects" :> "stop") @@
  ("Professional Summary" :> "stop")

MCLine ==
  ExperienceKinds \cup EducationKinds \cup DOMAIN ListTokens \cup DOMAIN LanguageTokens
    \cup DOMAIN HeaderSections \cup {"full name", "contact", "bad contact"}

MCSegments ==
  [line \in PipeLines |->
     CASE line = "pipe_0" -> 0 [] line \in {"pipe_1", "pipe_1_split"} -> 1 [] OTHER -> 2]
MCTokens ==
  [line \in MCLine |-> IF line \in DOMAIN ListTokens THEN ListTokens[line]
                       ELSE IF line \in DOMAIN LanguageTokens THEN LanguageTokens[line]
                       ELSE <<line>>]
MCLower(token) == CASE token = "A" -> "a" [] token = "Native" -> "native" [] OTHER -> token
MCHeaderOf ==
  [line \in MCLine |-> IF line \in DOMAIN HeaderSections THEN HeaderSections[line] ELSE "none"]
MCWords ==
  [line \in MCLine |->
     IF line \in DOMAIN HeaderSections \ {"Work Experience", "Professional Summary"}
     THEN 1 ELSE 2]
MCMarked == [line \in MCLine |-> IF line = "head" THEN "bullet" ELSE line]
MCMaxLength ==
  [experiences |-> 3, education |-> 2, skills |-> 4, languages |-> 2, certifications |-> 4]

-----------------------------------------------------------------------------
\* A span of a document, and a PDF with one block per line.
Span(line, block, page, row, column, source, listed) ==
  [line |-> line, block |-> block, page |-> page, row |-> row, column |-> column,
   source |-> source, listed |-> listed]
File(suffix, state, spans) == [suffix |-> suffix, state |-> state, spans |-> spans]
Pdf(document) ==
  File(".pdf", "ok",
       [j \in DOMAIN document |-> Span(document[j], j, 0, j, 1, "body", FALSE)])

LongSections ==
  {<<"Experience">> \o s : s \in BoundedSeq(ExperienceKinds, MaxKinds)
                                \cup BoundedSeq(CommonExperience, MaxCommon)}
    \cup {<<"Education">> \o s : s \in BoundedSeq(EducationKinds, MaxKinds)
                                     \cup BoundedSeq(CommonEducation, MaxCommon)}
    \cup {<<"Skills">> \o s : s \in BoundedSeq(DOMAIN ListTokens, MaxKinds)}
    \cup {<<"Languages">> \o s : s \in BoundedSeq(DOMAIN LanguageTokens, MaxKinds)}
TwoSections ==
  {<<"Experience">> \o e \o <<"Certifications", "a_b", "Education">> \o s :
     e \in BoundedSeq(CommonExperience, 1), s \in BoundedSeq(CommonEducation, 2)}

\* Word lists, table cells, page headers and footers; rows and columns of two
\* pages; the first two lines in one block.
Docx(document, sources, listed) ==
  File(".docx", "ok",
       [j \in DOMAIN document |->
          Span(document[j], j, 0, 0, 0, sources[j], listed /\ sources[j] = "body")])
Placed(document, pages, rows, columns) ==
  File(".pdf", "ok",
       [j \in DOMAIN document |-> Span(document[j], j, pages[j], rows[j], columns[j], "body", FALSE)])
Blocks(document) ==
  File(".pdf", "ok",
       [j \in DOMAIN document |->
          Span(document[j], IF j = 2 THEN 1 ELSE j, 0, IF j = 2 THEN 1 ELSE j, 1, "body", FALSE)])

Three(kinds) == [1..3 -> kinds]
Structures ==
  {Pdf(d) : d \in BoundedSeq(StructuralKinds, 3) \cup BoundedSeq(RepeatedKinds, 5)}
    \cup {Blocks(d) : d \in Three(StructuralKinds)}
    \cup {Docx(d, s, FALSE) : d \in Three(PlacedKinds), s \in Three({"body", "table", "header"})}
    \cup {Docx(d, s, TRUE) : d \in Three({"Experience", "head", "date"}),
                             s \in Three({"body", "footer"})}
    \cup {Placed(d, p, r, c) : d \in Three(PlacedKinds), p \in Three({0, 1}),
                               r \in Three({1, 2}), c \in {<<1, 1, 1>>, <<1, 2, 1>>, <<2, 1, 1>>}}
Unreadable ==
  {File(suffix, state, Pdf(d).spans) :
     suffix \in {".pdf", ".docx", ".txt"}, state \in {"ok", "invalid", "corrupt"},
     d \in {<<>>, <<"full name", "Skills", "a_b">>}}

MCResumes ==
  {Pdf(<<"full name">> \o d) : d \in LongSections}
    \cup {Pdf(top \o d) : top \in {<<"contact">>, <<"full name", "bad contact">>,
                                     <<"full name", "contact">>}, d \in TwoSections}
    \cup Structures \cup Unreadable
=============================================================================
