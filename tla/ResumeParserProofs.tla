-------------------------- MODULE ResumeParserProofs --------------------------
(***************************************************************************)
(* For resumes of any length: what an education entry says stands between  *)
(* its institution and the next heading; no institution with a degree is   *)
(* forgotten; the sections are the runs of lines under their headers; the  *)
(* experience entries are the groups their lines tell; the lists are what  *)
(* the list sections say; the candidate has all of it that is complete;    *)
(* and type correctness of the parse as a whole.                           *)
(*                                                                         *)
(* Each property is strengthened to what holds while the loop runs: what   *)
(* is pending and becomes an entry only later, the degrees already read,   *)
(* the headers already dealt with, the groups built so far and the lines   *)
(* under way.  Nothing is pending before the sections are read, and their  *)
(* bodies are sequences of lines, so that the positions of the lines are   *)
(* those the cursors run over.  The loops of the list extractors are       *)
(* functions of how far they are, and followed by induction.               *)
(***************************************************************************)
EXTENDS ResumeParser, SequenceLemmas, FiniteSetTheorems

\* The positions between an institution and q hold no heading.
NoHeading(p, q) == \A r \in (p + 1)..q : r \in DOMAIN lines => ~Heading(r)

Belongs(p, a) == a \in Nat /\ p < a /\ a \in DOMAIN lines /\ NoHeading(p, a)

PendingBelongs ==
  /\ \E S : lines \in Seq(S)
  /\ at \in Nat \ {0}
  /\ institution # None =>
       /\ institution \in Nat /\ institution < at
       /\ NoHeading(institution, at - 1)
       /\ \A a \in {degree, dates, gpa} \ {None} : Belongs(institution, a)

EntriesBelong ==
  /\ education \in Seq([institution : Nat, degree : Nat \cup {None},
                        dates : Nat \cup {None}, gpa : Nat \cup {None}])
  /\ \A e \in DOMAIN education :
       \A a \in AttributesOf(education[e]) : Belongs(education[e].institution, a)

\* Until the sections are known.
NothingRead ==
  phase = "read" => at = 1 /\ institution = None /\ education = <<>>

BodiesAreLines ==
  /\ DOMAIN bodies = SectionName
  /\ \A s \in SectionName : \E S : bodies[s] \in Seq(S)

EducationInv == PendingBelongs /\ EntriesBelong /\ NothingRead /\ BodiesAreLines

-----------------------------------------------------------------------------
LEMMA InitEducationInv == Init => EducationInv
<1> SUFFICES ASSUME Init PROVE EducationInv
  OBVIOUS
<1>1. lines = <<>> /\ education = <<>> /\ institution = None /\ at = 1
  BY DEF Init, EducationInit
<1>2. bodies = [s \in SectionName |-> <<>>]
  BY DEF Init, DocumentInit
<1>3. \A S : <<>> \in Seq(S)
  OBVIOUS
<1> QED BY <1>1, <1>2, <1>3 DEF EducationInv, PendingBelongs, EntriesBelong, NothingRead,
              BodiesAreLines

\* A body is the sequence of the lines between two headers.
LEMMA BodyIsSequence ==
  ASSUME NEW start \in Int, NEW end \in Int, start < end
  PROVE  \E S : Body(start, end) \in Seq(S)
<1> DEFINE n == end - start - 1
           S == {text[start + j].line : j \in 1..n}
<1>1. n \in Nat
  OBVIOUS
<1>2. Body(start, end) \in [1..n -> S]
  BY DEF Body
<1> HIDE DEF n, S
<1>3. Body(start, end) \in Seq(S)
  BY <1>1, <1>2, SeqDef
<1> QED BY <1>3

\* What the detectors do leaves the bodies sequences.
LEMMA DocumentKeepsBodies ==
  ASSUME BodiesAreLines, DocumentNext PROVE BodiesAreLines'
<1>1. CASE ValidateFile \/ ExtractText \/ DetectName \/ EndDetection
  BY <1>1 DEF ValidateFile, ExtractText, DetectName, EndDetection, BodiesAreLines
<1>2. CASE DetectSection
  <2>1. PICK start \in (header_at + 1)..Len(text), end \in (header_at + 2)..(Len(text) + 1) :
          start < end /\ bodies' = SetBody(HeaderAt(start), Body(start, end))
    BY <1>2 DEF DetectSection
  <2> DEFINE section_ == HeaderAt(start)
             body == Body(start, end)
  <2>2. CASE bodies' = bodies
    BY <2>2 DEF BodiesAreLines
  <2>3. CASE bodies' = [bodies EXCEPT ![section_] = body]
    <3>1. \E S : body \in Seq(S)
      BY <2>1, BodyIsSequence
    <3> HIDE DEF section_, body
    <3> QED BY <2>3, <3>1 DEF BodiesAreLines
  <2> QED BY <2>1, <2>2, <2>3 DEF SetBody
<1> QED BY <1>1, <1>2 DEF DocumentNext

\* What is flushed belongs to the institution it is flushed for.
LEMMA FlushedBelongs ==
  ASSUME EducationInv, education' = Flushed, lines' = lines
  PROVE  EntriesBelong'
<1>1. CASE institution # None /\ degree # None /\ ~skip_entry
  <2> DEFINE new == [institution |-> institution, degree |-> degree,
                     dates |-> dates, gpa |-> gpa]
  <2>1. education' = Append(education, new)
    BY <1>1 DEF Flushed
  <2>2. /\ institution \in Nat
        /\ \A a \in {degree, dates, gpa} \ {None} : Belongs(institution, a)
    BY <1>1 DEF EducationInv, PendingBelongs
  <2>3. {degree, dates, gpa} \subseteq Nat \cup {None}
    BY <2>2 DEF Belongs
  <2>4. new \in [institution : Nat, degree : Nat \cup {None},
                 dates : Nat \cup {None}, gpa : Nat \cup {None}]
    BY <2>2, <2>3
  <2>5. education' \in Seq([institution : Nat, degree : Nat \cup {None},
                            dates : Nat \cup {None}, gpa : Nat \cup {None}])
    BY <2>1, <2>4 DEF EducationInv, EntriesBelong
  <2>6. ASSUME NEW e \in DOMAIN education', NEW a \in AttributesOf(education'[e])
        PROVE  Belongs(education'[e].institution, a)
    <3>1. CASE e \in DOMAIN education
      <4>1. education'[e] = education[e]
        BY <2>1, <3>1 DEF EducationInv, EntriesBelong
      <4> QED BY <4>1, <3>1, <2>6 DEF EducationInv, EntriesBelong
    <3>2. CASE e \notin DOMAIN education
      <4>1. education'[e] = new
        BY <2>1, <2>4, <3>2 DEF EducationInv, EntriesBelong
      <4>2. a \in {degree, dates, gpa} \ {None}
        BY <4>1, <2>6 DEF AttributesOf
      <4> QED BY <4>1, <4>2, <2>2
    <3> QED BY <3>1, <3>2
  <2>7. \A p, a : Belongs(p, a)' = Belongs(p, a)
    BY DEF Belongs, NoHeading, Heading
  <2> QED BY <2>5, <2>6, <2>7 DEF EntriesBelong, AttributesOf
<1>2. CASE ~(institution # None /\ degree # None /\ ~skip_entry)
  <2>1. education' = education
    BY <1>2 DEF Flushed
  <2> QED BY <2>1 DEF EducationInv, EntriesBelong, Belongs, NoHeading, Heading, AttributesOf
<1> QED BY <1>1, <1>2

\* A line that is not a heading extends what belongs to the institution.
LEMMA ReadingOn ==
  ASSUME EducationInv, institution # None, at \in DOMAIN lines, ~Heading(at)
  PROVE  NoHeading(institution, at) /\ Belongs(institution, at)
<1>1. institution \in Nat /\ institution < at /\ at \in Nat
      /\ NoHeading(institution, at - 1)
  BY DEF EducationInv, PendingBelongs
<1>2. ASSUME NEW r \in (institution + 1)..at, r \in DOMAIN lines PROVE ~Heading(r)
  <2>1. CASE r = at
    BY <2>1
  <2>2. CASE r # at
    <3>1. r \in (institution + 1)..(at - 1)
      BY <1>1, <2>2
    <3> QED BY <3>1, <1>1, <1>2 DEF NoHeading
  <2> QED BY <2>1, <2>2
<1> QED BY <1>1, <1>2 DEF NoHeading, Belongs

\* The lines that do not start an entry are no headings.
LEMMA AttributeLines ==
  TakeDates \/ TakeGPA \/ TakeDegree \/ SkipLine => ~Heading(at)
BY DEF TakeDates, TakeGPA, TakeDegree, SkipLine, Plain, IsDegree, IsPlace, Here, Heading

LEMMA EducationStep ==
  ASSUME EducationInv, EducationNext PROVE (PendingBelongs /\ EntriesBelong)'
<1> USE NoneAssumption
<1>1. CASE TakeDates \/ TakeGPA \/ TakeDegree \/ SkipLine
  <2>1. /\ lines' = lines /\ education' = education /\ institution' = institution
        /\ at' = at + 1 /\ at \in 1..Len(lines)
        /\ {degree', dates', gpa'} \subseteq {degree, dates, gpa, at}
    BY <1>1 DEF TakeDates, TakeGPA, TakeDegree, SkipLine, Reading, EducationInv, PendingBelongs
  <2>2. at \in DOMAIN lines /\ at \in Nat
    BY <2>1 DEF EducationInv, PendingBelongs
  <2>3. ~Heading(at)
    BY <1>1, AttributeLines
  <2>4. EntriesBelong'
    BY <2>1 DEF EducationInv, EntriesBelong, Belongs, NoHeading, Heading, AttributesOf
  <2>5. ASSUME institution # None
        PROVE  /\ NoHeading(institution, at)
               /\ \A a \in {degree', dates', gpa'} \ {None} : Belongs(institution, a)
    BY <2>1, <2>2, <2>3, <2>5, ReadingOn DEF EducationInv, PendingBelongs
  <2>6. \A p, a : Belongs(p, a)' = Belongs(p, a) /\ NoHeading(p, a)' = NoHeading(p, a)
    BY <2>1 DEF Belongs, NoHeading, Heading
  <2>7. at' - 1 = at /\ at' \in Nat \ {0}
    BY <2>1, <2>2
  <2>8. PendingBelongs'
    <3>1. institution' # None =>
            /\ institution' \in Nat /\ institution' < at'
            /\ NoHeading(institution, at' - 1)
            /\ \A a \in {degree', dates', gpa'} \ {None} : Belongs(institution, a)
      BY <2>1, <2>5, <2>7 DEF EducationInv, PendingBelongs
    <3> QED BY <3>1, <2>1, <2>6, <2>7 DEF EducationInv, PendingBelongs, Belongs, NoHeading, Heading
  <2> QED BY <2>4, <2>8
<1>2. CASE StartEntry
  <2>1. EntriesBelong'
    BY <1>2, FlushedBelongs DEF StartEntry
  <2>2. PendingBelongs'
    BY <1>2 DEF StartEntry, EducationInv, PendingBelongs, NoHeading
  <2> QED BY <2>1, <2>2
<1>3. CASE FlushLast
  <2>1. EntriesBelong'
    BY <1>3, FlushedBelongs DEF FlushLast
  <2>2. /\ UNCHANGED <<lines, institution, degree, dates, gpa>>
        /\ at = Len(lines) + 1 /\ at' = at + 1
    BY <1>3 DEF FlushLast
  <2>3. at \notin DOMAIN lines /\ at \in Nat
    BY <2>2 DEF EducationInv, PendingBelongs
  <2>4. institution # None => NoHeading(institution, at)
    BY <2>3 DEF EducationInv, PendingBelongs, NoHeading
  <2>5. \A p, a : Belongs(p, a)' = Belongs(p, a) /\ NoHeading(p, a)' = NoHeading(p, a)
    BY <2>2 DEF Belongs, NoHeading, Heading
  <2>6. PendingBelongs'
    BY <2>2, <2>3, <2>4, <2>5 DEF EducationInv, PendingBelongs, Belongs, NoHeading, Heading
  <2> QED BY <2>1, <2>6
<1> QED BY <1>1, <1>2, <1>3 DEF EducationNext

\* Lines that are not touched keep what belongs to them.
LEMMA EducationUnchanged ==
  ASSUME PendingBelongs, EntriesBelong, UNCHANGED educationVars
  PROVE  (PendingBelongs /\ EntriesBelong)'
BY DEF educationVars, PendingBelongs, EntriesBelong, Belongs, NoHeading, Heading, AttributesOf

LEMMA NextEducationInv == EducationInv /\ [Next]_vars => EducationInv'
<1> SUFFICES ASSUME EducationInv, [Next]_vars PROVE EducationInv'
  OBVIOUS
<1>1. CASE ReadDocument
  <2>1. (PendingBelongs /\ EntriesBelong)'
    BY <1>1, EducationUnchanged DEF ReadDocument, EducationInv
  <2>2. BodiesAreLines'
    BY <1>1, DocumentKeepsBodies DEF ReadDocument, EducationInv
  <2>3. NothingRead'
    BY <1>1 DEF ReadDocument, EducationInv, NothingRead, educationVars, mapperVars
  <2> QED BY <2>1, <2>2, <2>3 DEF EducationInv
<1>2. CASE StartAssembly
  <2>1. /\ at = 1 /\ institution = None /\ education = <<>>
        /\ UNCHANGED <<at, institution, education, bodies>>
        /\ lines' = bodies["education"] /\ phase' = "lists"
    BY <1>2 DEF StartAssembly, EducationInv, NothingRead, documentVars
  <2>2. BodiesAreLines'
    BY <2>1 DEF EducationInv, BodiesAreLines
  <2>3. \E S : lines' \in Seq(S)
    BY <2>1 DEF EducationInv, BodiesAreLines, SectionName
  <2>4. PendingBelongs'
    BY <2>1, <2>3 DEF PendingBelongs
  <2>5. EntriesBelong'
    BY <2>1 DEF EntriesBelong
  <2> QED BY <2>1, <2>2, <2>4, <2>5 DEF EducationInv, NothingRead
<1>3. CASE BuildEducation
  <2>1. (PendingBelongs /\ EntriesBelong)'
    BY <1>3, EducationStep DEF BuildEducation
  <2>2. BodiesAreLines' /\ NothingRead'
    BY <1>3 DEF BuildEducation, EducationInv, BodiesAreLines, NothingRead, documentVars,
                mapperVars
  <2> QED BY <2>1, <2>2 DEF EducationInv
<1>4. CASE /\ UNCHANGED <<documentVars, educationVars>>
           /\ phase = "read" => phase' \in {"read", "refused"}
           /\ phase # "read" => phase' # "read"
  <2>1. (PendingBelongs /\ EntriesBelong)'
    BY <1>4, EducationUnchanged DEF EducationInv
  <2>2. BodiesAreLines' /\ NothingRead'
    BY <1>4 DEF EducationInv, BodiesAreLines, NothingRead, documentVars, educationVars
  <2> QED BY <2>1, <2>2 DEF EducationInv
<1>5. \/ ReadDocument \/ StartAssembly \/ BuildEducation
      \/ /\ UNCHANGED <<documentVars, educationVars>>
         /\ phase = "read" => phase' \in {"read", "refused"}
         /\ phase # "read" => phase' # "read"
  BY DEF Next, vars, RefuseDocument, BuildLists, BuildExperience, RefuseNameless, RefuseContact,
         MapFields, MapExperience, EndExperience, MapEducation, EndEducation, RefuseEntry,
         RefuseCandidate, BuildCandidate, Returned, EntriesUnchanged, Refuse, Assembled, mapperVars
<1> QED BY <1>1, <1>2, <1>3, <1>4, <1>5

\* No attribute of an education entry of _build_education_entries crosses over
\* from another institution or from a skipped school, whatever the lines.
THEOREM AttributesStay == Spec => []AttributesStayWithTheirEntry
<1>1. EducationInv => AttributesStayWithTheirEntry
  <2> SUFFICES ASSUME EducationInv, NEW e \in DOMAIN education,
                      NEW a \in AttributesOf(education[e])
               PROVE  /\ education[e].institution < a
                      /\ ~\E p \in (education[e].institution + 1)..a : Heading(p)
    BY DEF AttributesStayWithTheirEntry
  <2>1. Belongs(education[e].institution, a)
    BY DEF EducationInv, EntriesBelong
  <2>2. a \in 1..Len(lines)
    BY <2>1 DEF Belongs, EducationInv, PendingBelongs
  <2>3. education[e].institution \in Nat
    <3>1. education[e] \in [institution : Nat, degree : Nat \cup {None},
                            dates : Nat \cup {None}, gpa : Nat \cup {None}]
      <4>1. \A S, q : q \in Seq(S) => \A j \in DOMAIN q : q[j] \in S
        OBVIOUS
      <4> QED BY <4>1 DEF EducationInv, EntriesBelong
    <3> QED BY <3>1
  <2>4. \A p \in (education[e].institution + 1)..a : p \in DOMAIN lines
    BY <2>2, <2>3 DEF EducationInv, PendingBelongs
  <2> QED BY <2>1, <2>4 DEF Belongs, NoHeading
<1> QED BY <1>1, InitEducationInv, NextEducationInv, PTL DEF Spec

-----------------------------------------------------------------------------
(* The degrees of the education section.                                   *)

\* Line p is an institution that is no school, and d the first degree line
\* after it, before any heading.
DegreeOf(p, d) ==
  /\ p < d /\ Heading(p) /\ lines[p] \notin SchoolLines
  /\ lines[d] \in DegreeLines \ (SchoolLines \cup DateLines \cup GPALines)
  /\ ~\E q \in (p + 1)..d : Heading(q) \/ (q < d /\ lines[q] \in DegreeLines)

Kept(p, d) ==
  \E e \in DOMAIN education : education[e].institution = p /\ education[e].degree >= d

Pending(p, d) ==
  institution = p /\ degree # None /\ degree >= d /\ ~skip_entry /\ at <= Len(lines) + 1

Awaited(p) == institution = p /\ degree = None /\ ~skip_entry

DegreesSoFar ==
  \A p, d \in DOMAIN lines :
    DegreeOf(p, d) =>
      /\ p < at /\ at <= d => Awaited(p)
      /\ d < at => Kept(p, d) \/ Pending(p, d)

DegreeInv ==
  /\ EducationInv
  /\ at <= Len(lines) + 2
  /\ DegreesSoFar

\* Flushing keeps what was kept and what was pending.
LEMMA FlushedIsKept ==
  ASSUME EducationInv, education' = Flushed, NEW p \in Nat, NEW d \in Nat,
         Kept(p, d) \/ Pending(p, d)
  PROVE  Kept(p, d)'
<1> DEFINE E == [institution : Nat, degree : Nat \cup {None},
                 dates : Nat \cup {None}, gpa : Nat \cup {None}]
           new == [institution |-> institution, degree |-> degree,
                   dates |-> dates, gpa |-> gpa]
<1>1. education \in Seq(E)
  BY DEF EducationInv, EntriesBelong
<1>2. CASE institution # None /\ degree # None /\ ~skip_entry
  <2>1. education' = Append(education, new)
    BY <1>2 DEF Flushed
  <2>2. new \in E
    BY <1>2 DEF EducationInv, PendingBelongs, Belongs
  <2>3. /\ Len(education) \in Nat /\ DOMAIN education = 1..Len(education)
        /\ DOMAIN education' = 1..(Len(education) + 1)
        /\ \A e \in 1..Len(education) : education'[e] = education[e]
        /\ education'[Len(education) + 1] = new
    <3> HIDE DEF E, new
    <3> QED BY <1>1, <2>1, <2>2
  <2>4. CASE Kept(p, d)
    BY <2>3, <2>4 DEF Kept
  <2>5. CASE Pending(p, d)
    <3>1. new.institution = p /\ new.degree >= d
      BY <2>5 DEF Pending
    <3>2. Len(education) + 1 \in DOMAIN education'
      BY <2>3
    <3> QED BY <2>3, <3>1, <3>2 DEF Kept
  <2> QED BY <2>4, <2>5
<1>3. CASE ~(institution # None /\ degree # None /\ ~skip_entry)
  <2>1. education' = education
    BY <1>3 DEF Flushed
  <2>2. ~Pending(p, d)
    BY <1>3, NoneAssumption DEF Pending
  <2> QED BY <2>1, <2>2 DEF Kept
<1> QED BY <1>2, <1>3

LEMMA DegreeStep ==
  ASSUME DegreeInv, EducationNext
  PROVE  DegreesSoFar' /\ at' <= Len(lines') + 2
<1> USE NoneAssumption
<1>1. /\ lines' = lines /\ at \in Nat \ {0} /\ Len(lines) \in Nat
      /\ DOMAIN lines = 1..Len(lines) /\ at' = at + 1 /\ at <= Len(lines) + 1
      /\ DegreesSoFar
  BY DEF DegreeInv, EducationInv, PendingBelongs, EducationNext, TakeDates, TakeGPA,
         TakeDegree, SkipLine, StartEntry, FlushLast, Reading
<1>2. \A p, d : DegreeOf(p, d)' <=> DegreeOf(p, d)
  BY <1>1 DEF DegreeOf, Heading
<1>3. SUFFICES ASSUME NEW p \in DOMAIN lines, NEW d \in DOMAIN lines, DegreeOf(p, d)
               PROVE  /\ p < at + 1 /\ at + 1 <= d => Awaited(p)'
                      /\ d < at + 1 => Kept(p, d)' \/ Pending(p, d)'
  BY <1>1, <1>2 DEF DegreesSoFar
<1>4. /\ p \in Nat \ {0} /\ d \in Nat /\ p < d /\ d <= Len(lines)
      /\ p < at /\ at <= d => Awaited(p)
      /\ d < at => Kept(p, d) \/ Pending(p, d)
  BY <1>1, <1>3 DEF DegreesSoFar, DegreeOf
<1>5. CASE TakeDates \/ TakeGPA \/ TakeDegree \/ SkipLine
  <2>1. /\ UNCHANGED <<institution, skip_entry, education>> /\ at <= Len(lines)
        /\ degree' = degree \/ degree' = at
        /\ degree' # degree => lines[at] \in DegreeLines
        /\ ~Heading(at)
    BY <1>5, AttributeLines
    DEF TakeDates, TakeGPA, TakeDegree, SkipLine, Reading, IsDegree, Here
  <2>2. ASSUME p < at + 1, at + 1 <= d PROVE Awaited(p)'
    <3>1. p # at
      BY <1>3, <2>1 DEF DegreeOf
    <3>2. at \in (p + 1)..d /\ at < d
      BY <1>1, <1>4, <2>2, <3>1
    <3>3. lines[at] \notin DegreeLines
      BY <1>3, <3>2 DEF DegreeOf
    <3>4. Awaited(p)
      BY <1>1, <1>4, <2>2, <3>1
    <3> QED BY <2>1, <3>3, <3>4 DEF Awaited
  <2>3. ASSUME d < at + 1 PROVE Kept(p, d)' \/ Pending(p, d)'
    <3>1. CASE d = at
      <4>1. Awaited(p)
        BY <1>4, <3>1
      <4>2. TakeDegree
        BY <1>3, <1>5, <3>1
        DEF DegreeOf, TakeDates, TakeGPA, SkipLine, IsDegree, Plain, Here
      <4> QED BY <1>1, <1>4, <2>1, <3>1, <4>1, <4>2 DEF Awaited, Pending, TakeDegree
    <3>2. CASE d # at
      <4>1. d < at
        BY <1>1, <1>4, <2>3, <3>2
      <4>2. CASE Kept(p, d)
        BY <2>1, <4>2 DEF Kept
      <4>3. CASE Pending(p, d)
        BY <1>1, <1>4, <2>1, <4>1, <4>3 DEF Pending
      <4> QED BY <1>4, <4>1, <4>2, <4>3
    <3> QED BY <3>1, <3>2
  <2> QED BY <2>2, <2>3
<1>6. CASE StartEntry
  <2>1. /\ education' = Flushed /\ institution' = at /\ degree' = None
        /\ skip_entry' = (lines[at] \in SchoolLines)
        /\ ~IsDegree /\ ~IsPlace /\ Plain /\ Here \notin FigureLines
    BY <1>6 DEF StartEntry, Here
  <2>2. ASSUME p < at + 1, at + 1 <= d PROVE Awaited(p)'
    <3>1. CASE p = at
      BY <1>3, <2>1, <3>1 DEF DegreeOf, Awaited
    <3>2. CASE p # at
      <4>1. Awaited(p) /\ at \in (p + 1)..d /\ at < d
        BY <1>1, <1>4, <2>2, <3>2
      <4>2. ~Heading(at) /\ lines[at] \notin DegreeLines
        BY <1>3, <4>1 DEF DegreeOf
      <4>3. lines[at] \notin PlaceLines
        BY <1>1, <1>4, <2>1, <4>1 DEF IsPlace, Awaited, Here
      <4> QED BY <2>1, <4>2, <4>3 DEF Heading, Plain, Here
    <3> QED BY <3>1, <3>2
  <2>3. ASSUME d < at + 1 PROVE Kept(p, d)'
    <3>1. d # at
      BY <1>3, <2>1 DEF DegreeOf, IsDegree, Plain, Here
    <3>2. Kept(p, d) \/ Pending(p, d)
      BY <1>1, <1>4, <2>3, <3>1
    <3> QED BY <1>4, <2>1, <3>2, FlushedIsKept DEF DegreeInv
  <2> QED BY <2>2, <2>3
<1>7. CASE FlushLast
  <2>1. education' = Flushed /\ at = Len(lines) + 1
    BY <1>7 DEF FlushLast
  <2>2. Kept(p, d) \/ Pending(p, d)
    BY <1>1, <1>4, <2>1
  <2>3. Kept(p, d)'
    BY <1>4, <2>1, <2>2, FlushedIsKept DEF DegreeInv
  <2> QED BY <1>1, <1>4, <2>1, <2>3
<1> QED BY <1>5, <1>6, <1>7 DEF EducationNext

LEMMA DegreesUnchanged ==
  ASSUME DegreeInv, UNCHANGED educationVars
  PROVE  DegreesSoFar' /\ at' <= Len(lines') + 2
BY DEF DegreeInv, DegreesSoFar, DegreeOf, Heading, Awaited, Kept, Pending, educationVars

LEMMA NextDegreeInv == DegreeInv /\ [Next]_vars => DegreeInv'
<1> SUFFICES ASSUME DegreeInv, [Next]_vars PROVE DegreeInv'
  OBVIOUS
<1>1. EducationInv'
  BY NextEducationInv DEF DegreeInv
<1>2. CASE UNCHANGED educationVars
  BY <1>1, <1>2, DegreesUnchanged DEF DegreeInv
<1>3. CASE StartAssembly
  <2>1. at' = 1
    BY <1>3 DEF StartAssembly, DegreeInv, EducationInv, NothingRead
  <2>2. Len(lines') \in Nat /\ DOMAIN lines' = 1..Len(lines')
    BY <1>1 DEF EducationInv, PendingBelongs
  <2>3. DegreesSoFar'
    BY <2>1, <2>2 DEF DegreesSoFar, DegreeOf
  <2> QED BY <1>1, <2>1, <2>2, <2>3 DEF DegreeInv
<1>4. CASE BuildEducation
  <2>1. EducationNext
    BY <1>4 DEF BuildEducation
  <2> QED BY <1>1, <2>1, DegreeStep DEF DegreeInv
<1>5. StartAssembly \/ BuildEducation \/ UNCHANGED educationVars
  BY DEF Next, vars, ReadDocument, RefuseDocument, BuildLists, BuildExperience,
         RefuseNameless, RefuseContact, MapFields, MapExperience, EndExperience, MapEducation,
         EndEducation, RefuseEntry, RefuseCandidate, BuildCandidate, Returned, EntriesUnchanged
<1> QED BY <1>2, <1>3, <1>4, <1>5

LEMMA InitDegreeInv == Init => DegreeInv
<1> SUFFICES ASSUME Init PROVE DegreeInv
  OBVIOUS
<1>1. lines = <<>> /\ at = 1
  BY DEF Init, EducationInit
<1>2. Len(lines) = 0 /\ DOMAIN lines = {}
  BY <1>1
<1>3. DegreesSoFar
  BY <1>2 DEF DegreesSoFar
<1> QED BY <1>1, <1>2, <1>3, InitEducationInv DEF DegreeInv

\* Every institution that is not a school and is followed by a degree line
\* before the next heading has an entry at the end of the section, with that
\* degree line or a later one: nothing between makes the loop forget it.
THEOREM DegreesAreKeptHolds == Spec => []DegreesAreKept
<1>1. DegreeInv => DegreesAreKept
  <2> SUFFICES ASSUME DegreeInv, EducationDone, NEW p \in DOMAIN lines, NEW d \in DOMAIN lines,
                      DegreeOf(p, d)
               PROVE  Kept(p, d)
    BY DEF DegreesAreKept, DegreeOf, Kept
  <2>1. /\ Len(lines) \in Nat /\ d \in 1..Len(lines) /\ at = Len(lines) + 2
    BY DEF DegreeInv, EducationInv, PendingBelongs, EducationDone
  <2>2. Kept(p, d) \/ Pending(p, d)
    BY <2>1 DEF DegreeInv, DegreesSoFar
  <2> QED BY <2>1, <2>2 DEF Pending
<1> QED BY <1>1, InitDegreeInv, NextDegreeInv, PTL DEF Spec

-----------------------------------------------------------------------------
(* The section detector.                                                   *)

TextIsSequence == Len(text) \in Nat /\ DOMAIN text = 1..Len(text)

\* A body is the text of the run of lines under header h.
Tells(body, h) ==
  /\ Len(body) = Cardinality(RunAfter(h))
  /\ \A j \in DOMAIN body : body[j] = text[h + j].line

\* What the property says at the end, of the headers dealt with so far.
BodiesTellTheText ==
  \A s \in SectionName :
    /\ \A h \in HeadersWithText(s) :
         h <= header_at /\ (\A g \in HeadersWithText(s) : h <= g) => Tells(bodies[s], h)
    /\ (\A h \in HeadersWithText(s) : header_at < h) => bodies[s] = <<>>

DocumentInv ==
  /\ resume \in Resumes
  /\ TextIsSequence
  /\ header_at \in 0..Len(text)
  /\ DOMAIN bodies = SectionName
  /\ reading \notin {"sections", "done"} =>
       header_at = 0 /\ \A s \in SectionName : bodies[s] = <<>>
  /\ BodiesTellTheText
  /\ reading = "done" => NextHeader(header_at, Len(text) + 1)

\* The lines under a header form a finite set, and the run ends at the next
\* header.
LEMMA RunIsFinite ==
  ASSUME TextIsSequence, NEW h
  PROVE  IsFiniteSet(RunAfter(h)) /\ (Cardinality(RunAfter(h)) = 0 <=> RunAfter(h) = {})
<1>1. IsFiniteSet(1..Len(text))
  BY FS_Interval DEF TextIsSequence
<1>2. RunAfter(h) \in SUBSET (1..Len(text))
  BY DEF RunAfter, TextIsSequence
<1>3. IsFiniteSet(RunAfter(h))
  BY <1>1, <1>2, FS_Subset
<1> QED BY <1>3, FS_EmptySet

LEMMA RunUntilNextHeader ==
  ASSUME TextIsSequence, NEW start \in 1..Len(text), NEW end \in 2..(Len(text) + 1),
         start < end, NextHeader(start, end)
  PROVE  /\ RunAfter(start) = (start + 1)..(end - 1)
         /\ Cardinality(RunAfter(start)) = end - start - 1
         /\ Tells(Body(start, end), start)
         /\ Body(start, end) = <<>> <=> RunAfter(start) = {}
<1>1. ASSUME NEW q \in RunAfter(start) PROVE q \in (start + 1)..(end - 1)
  <2>1. q \in 1..Len(text) /\ q > start /\ \A r \in (start + 1)..q : HeaderAt(r) = "none"
    BY DEF RunAfter, TextIsSequence
  <2>2. ~(end <= q)
    <3> SUFFICES ASSUME end <= q PROVE FALSE
      OBVIOUS
    <3>1. end \in (start + 1)..q /\ end \in DOMAIN text
      BY <2>1 DEF TextIsSequence
    <3> QED BY <2>1, <3>1 DEF NextHeader
  <2> QED BY <2>1, <2>2
<1>2. ASSUME NEW q \in (start + 1)..(end - 1) PROVE q \in RunAfter(start)
  <2>1. q \in DOMAIN text /\ q > start
    BY DEF TextIsSequence
  <2>2. \A r \in (start + 1)..q : r \in (start + 1)..(end - 1)
    OBVIOUS
  <2> QED BY <2>1, <2>2 DEF RunAfter, NextHeader
<1>3. RunAfter(start) = (start + 1)..(end - 1)
  BY <1>1, <1>2
<1>4. Cardinality(RunAfter(start)) = end - start - 1
  <2>1. start + 1 \in Int /\ end - 1 \in Int
    BY DEF TextIsSequence
  <2>2. Cardinality((start + 1)..(end - 1)) =
          IF start + 1 > end - 1 THEN 0 ELSE (end - 1) - (start + 1) + 1
    BY <2>1, FS_Interval
  <2> QED BY <1>3, <2>1, <2>2
<1>5. Len(Body(start, end)) = end - start - 1 /\ DOMAIN Body(start, end) = 1..(end - start - 1)
  <2>1. \E S : Body(start, end) \in Seq(S)
    BY BodyIsSequence
  <2>2. DOMAIN Body(start, end) = 1..(end - start - 1) /\ end - start - 1 \in Nat
    BY DEF Body
  <2> QED BY <2>1, <2>2, LenProperties
<1>6. \A j \in DOMAIN Body(start, end) : Body(start, end)[j] = text[start + j].line
  BY DEF Body
<1>7. Body(start, end) = <<>> <=> end - start - 1 = 0
  <2>1. \E S : Body(start, end) \in Seq(S)
    BY BodyIsSequence
  <2> QED BY <1>5, <2>1, EmptySeq
<1> QED BY <1>3, <1>4, <1>5, <1>6, <1>7 DEF Tells

\* What the lines say and where the headers are is given by the text.
LEMMA SameText ==
  ASSUME text' = text
  PROVE  /\ TextIsSequence <=> TextIsSequence'
         /\ \A p, q : NextHeader(p, q)' <=> NextHeader(p, q)
         /\ \A s : HeadersWithText(s)' = HeadersWithText(s)
         /\ \A b, h : Tells(b, h)' <=> Tells(b, h)
BY DEF TextIsSequence, NextHeader, HeadersWithText, RunAfter, Tells, HeaderAt, BlockOf,
       WordsIn, StartsBlock, IsHeaderAlias

LEMMA HeaderNames ==
  ASSUME NEW p
  PROVE  HeaderAt(p) \in SectionName \cup {"stop", "none"}
BY DEF HeaderAt, IsHeaderAlias

\* Dealing with the next header keeps what the bodies tell.
LEMMA DetectSectionKeeps ==
  ASSUME DocumentInv, DetectSection
  PROVE  DocumentInv'
<1>1. PICK start \in (header_at + 1)..Len(text), end \in (header_at + 2)..(Len(text) + 1) :
        /\ start < end
        /\ NextHeader(header_at, start) /\ NextHeader(start, end)
        /\ bodies' = SetBody(HeaderAt(start), Body(start, end))
        /\ header_at' = start
  BY DEF DetectSection
<1>2. /\ UNCHANGED <<resume, reading, text, name>> /\ reading = "sections"
      /\ TextIsSequence
      /\ DOMAIN bodies = SectionName
      /\ BodiesTellTheText
      /\ header_at \in 0..Len(text)
      /\ start \in 1..Len(text) /\ end \in 2..(Len(text) + 1)
  BY <1>1 DEF DetectSection, DocumentInv, TextIsSequence
<1> DEFINE found == HeaderAt(start)
           body == Body(start, end)
<1>3. /\ RunAfter(start) = {} <=> body = <<>>
      /\ Tells(body, start)
  BY <1>1, <1>2, RunUntilNextHeader
<1>4. found \in SectionName \cup {"stop"} /\ "stop" \notin SectionName
  BY <1>1, <1>2, HeaderNames DEF NextHeader, TextIsSequence, SectionName
<1>5. \A s \in SectionName : \A h \in HeadersWithText(s) :
        /\ h \in 1..Len(text) /\ HeaderAt(h) = s /\ RunAfter(h) # {}
        /\ h <= start => h <= header_at \/ h = start
  <2> SUFFICES ASSUME NEW s \in SectionName, NEW h \in HeadersWithText(s), h <= start
               PROVE  h <= header_at \/ h = start
    BY <1>2 DEF HeadersWithText, TextIsSequence
  <2>1. h \in 1..Len(text) /\ HeaderAt(h) # "none"
    BY <1>2 DEF HeadersWithText, TextIsSequence, SectionName
  <2>2. h \notin (header_at + 1)..(start - 1)
    BY <1>1, <2>1 DEF NextHeader
  <2> QED BY <1>2, <2>1, <2>2
<1> HIDE DEF found, body
<1>6. ASSUME NEW s \in SectionName
      PROVE  /\ \A h \in HeadersWithText(s) :
                  h <= start /\ (\A g \in HeadersWithText(s) : h <= g) => Tells(bodies'[s], h)
             /\ (\A h \in HeadersWithText(s) : start < h) => bodies'[s] = <<>>
  <2>1. CASE start \notin HeadersWithText(s)
    <3>1. found # s \/ body = <<>>
      BY <1>2, <1>3, <2>1 DEF HeadersWithText, TextIsSequence, found
    <3>2. bodies'[s] = bodies[s]
      BY <1>1, <1>2, <1>4, <3>1 DEF SetBody, found, body
    <3>3. \A h \in HeadersWithText(s) : h <= start <=> h <= header_at
      BY <1>1, <1>2, <1>5, <2>1
    <3>4. \A h \in HeadersWithText(s) : start < h <=> header_at < h
      BY <1>1, <1>2, <1>5, <3>3
    <3> QED BY <1>2, <3>2, <3>3, <3>4 DEF BodiesTellTheText
  <2>2. CASE start \in HeadersWithText(s)
    <3>1. found = s /\ body # <<>> /\ found # "stop"
      BY <1>3, <1>4, <1>5, <2>2 DEF found
    <3>2. CASE bodies[s] = <<>>
      <4>1. bodies'[s] = body
        BY <1>1, <1>2, <3>1, <3>2 DEF SetBody, found, body
      <4>2. ASSUME NEW h \in HeadersWithText(s), h <= header_at,
                   \A g \in HeadersWithText(s) : h <= g
            PROVE  FALSE
        <5>1. Tells(<<>>, h)
          BY <1>2, <3>2, <4>2 DEF BodiesTellTheText
        <5>2. Cardinality(RunAfter(h)) = 0
          BY <5>1 DEF Tells
        <5>3. RunAfter(h) = {}
          BY <1>2, <5>2, RunIsFinite
        <5> QED BY <1>5, <5>3
      <4> QED BY <1>3, <1>5, <2>2, <4>1, <4>2
    <3>3. CASE bodies[s] # <<>>
      <4>1. bodies' = bodies
        BY <1>1, <3>1, <3>3 DEF SetBody, found, body
      <4>2. PICK g \in HeadersWithText(s) : ~(header_at < g)
        BY <1>2, <3>3 DEF BodiesTellTheText
      <4>3. g < start
        BY <1>1, <1>2, <1>5, <4>2
      <4>4. \A h \in HeadersWithText(s) :
              h <= start /\ (\A g_ \in HeadersWithText(s) : h <= g_) => h <= header_at
        BY <1>2, <1>5, <4>2, <4>3
      <4> QED BY <1>2, <2>2, <4>1, <4>4 DEF BodiesTellTheText
    <3> QED BY <3>2, <3>3
  <2> QED BY <2>1, <2>2
<1>7. BodiesTellTheText'
  BY <1>1, <1>2, <1>6, SameText DEF BodiesTellTheText
<1>8. DOMAIN bodies' = SectionName
  BY <1>1, <1>2 DEF SetBody
<1> QED BY <1>1, <1>2, <1>7, <1>8, SameText DEF DocumentInv

\* The extracted text has a line for every span.
LEMMA ExtractedIsSequence ==
  ASSUME resume \in Resumes
  PROVE  /\ Len(Extracted) = Len(resume.spans) /\ Len(resume.spans) \in Nat
         /\ DOMAIN Extracted = 1..Len(resume.spans)
<1> DEFINE n == Len(resume.spans)
           S == {Extracted[p] : p \in 1..n}
<1>1. n \in Nat /\ DOMAIN resume.spans = 1..n
  BY SpansAreSequences
<1>2. Extracted = [p \in 1..n |-> Extracted[p]]
  BY <1>1 DEF Extracted
<1> HIDE DEF n
<1>3. Extracted \in [1..n -> S]
  BY <1>2
<1>4. Extracted \in Seq(S)
  BY <1>1, <1>3, SeqDef
<1>5. DOMAIN Extracted = 1..Len(Extracted) /\ Len(Extracted) \in Nat
  BY <1>4, LenProperties
<1>6. DOMAIN Extracted = 1..n
  BY <1>3
<1>7. Len(Extracted) = n
  <2>1. ASSUME NEW m \in Nat PROVE Cardinality(1..m) = m
    BY FS_Interval
  <2> QED BY <1>1, <1>5, <1>6, <2>1
<1> QED BY <1>1, <1>6, <1>7 DEF n

\* Before a header is dealt with the bodies are empty, as the text requires.
LEMMA NothingDetected ==
  ASSUME TextIsSequence, header_at = 0, \A s \in SectionName : bodies[s] = <<>>
  PROVE  BodiesTellTheText
BY DEF BodiesTellTheText, HeadersWithText, TextIsSequence

LEMMA ExtractTextKeeps ==
  ASSUME DocumentInv, ExtractText
  PROVE  DocumentInv'
<1>1. /\ header_at = 0 /\ \A s \in SectionName : bodies[s] = <<>>
      /\ UNCHANGED <<resume, name, header_at, bodies>>
      /\ reading' \notin {"sections", "done"}
  BY DEF DocumentInv, ExtractText
<1>2. Len(text') \in Nat /\ DOMAIN text' = 1..Len(text')
  BY ExtractedIsSequence DEF DocumentInv, ExtractText, TextIsSequence
<1>3. TextIsSequence'
  BY <1>2 DEF TextIsSequence
<1>4. BodiesTellTheText'
  BY <1>1, <1>2 DEF BodiesTellTheText, HeadersWithText
<1> QED BY <1>1, <1>2, <1>3, <1>4 DEF DocumentInv

LEMMA DocumentStep ==
  ASSUME DocumentInv, DocumentNext
  PROVE  DocumentInv'
<1>1. CASE ValidateFile \/ DetectName \/ EndDetection
  <2>1. /\ UNCHANGED <<resume, text, header_at, bodies>>
        /\ reading' \notin {"sections", "done"} \/ reading \in {"name", "sections"}
        /\ reading \notin {"sections", "done"} \/ reading = "sections"
        /\ reading' = "done" => NextHeader(header_at, Len(text) + 1)
    BY <1>1 DEF ValidateFile, DetectName, EndDetection
  <2>2. reading' \notin {"sections", "done"} => reading \notin {"sections", "done"}
    BY <1>1 DEF ValidateFile, DetectName, EndDetection
  <2>3. BodiesTellTheText'
    BY <2>1, SameText DEF DocumentInv, BodiesTellTheText
  <2> QED BY <2>1, <2>2, <2>3, SameText DEF DocumentInv
<1>2. CASE ExtractText
  BY <1>2, ExtractTextKeeps
<1>3. CASE DetectSection
  BY <1>3, DetectSectionKeeps
<1> QED BY <1>1, <1>2, <1>3 DEF DocumentNext

LEMMA DocumentUnchanged ==
  ASSUME DocumentInv, UNCHANGED documentVars
  PROVE  DocumentInv'
<1>1. UNCHANGED <<resume, reading, text, name, header_at, bodies>>
  BY DEF documentVars
<1>2. BodiesTellTheText'
  BY <1>1, SameText DEF DocumentInv, BodiesTellTheText
<1> QED BY <1>1, <1>2, SameText DEF DocumentInv

LEMMA InitDocumentInv == Init => DocumentInv
<1> SUFFICES ASSUME Init PROVE DocumentInv
  OBVIOUS
<1>1. /\ resume \in Resumes /\ reading = "file" /\ text = <<>> /\ header_at = 0
      /\ bodies = [s \in SectionName |-> <<>>]
  BY DEF Init, DocumentInit
<1>2. TextIsSequence
  BY <1>1, EmptySeq DEF TextIsSequence
<1>3. BodiesTellTheText
  BY <1>1, <1>2, NothingDetected
<1> QED BY <1>1, <1>2, <1>3 DEF DocumentInv

\* Only ReadDocument touches the document.
LEMMA NextDocumentInv == DocumentInv /\ [Next]_vars => DocumentInv'
<1> SUFFICES ASSUME DocumentInv, [Next]_vars PROVE DocumentInv'
  OBVIOUS
<1>1. CASE ReadDocument
  BY <1>1, DocumentStep DEF ReadDocument
<1>2. ReadDocument \/ UNCHANGED documentVars
  BY DEF Next, vars, RefuseDocument, StartAssembly, BuildLists, BuildExperience, BuildEducation,
         RefuseNameless, RefuseContact, MapFields, MapExperience, EndExperience, MapEducation,
         EndEducation, RefuseEntry, RefuseCandidate, BuildCandidate, Returned, EntriesUnchanged
<1> QED BY <1>1, <1>2, DocumentUnchanged

\* Each section detect_sections returns is the unbroken run of lines under the
\* first header of its name that has any, for every text and every order of
\* its headers: headers that repeat, stand at the end, have nothing under them
\* or stop a section.
THEOREM SectionsHold == Spec => []SectionsReadAsTheyStand
<1>1. DocumentInv => SectionsReadAsTheyStand
  <2> SUFFICES ASSUME DocumentInv, reading = "done", NEW s \in SectionName
               PROVE  IF HeadersWithText(s) = {} THEN bodies[s] = <<>>
                      ELSE Tells(bodies[s], Min(HeadersWithText(s)))
    BY DEF SectionsReadAsTheyStand, Tells
  <2>1. BodiesTellTheText /\ NextHeader(header_at, Len(text) + 1) /\ TextIsSequence
        /\ header_at \in 0..Len(text)
    BY DEF DocumentInv
  <2>2. CASE HeadersWithText(s) = {}
    BY <2>1, <2>2 DEF BodiesTellTheText
  <2>3. CASE HeadersWithText(s) # {}
    <3>1. HeadersWithText(s) \subseteq Nat
      BY <2>1 DEF HeadersWithText, TextIsSequence
    <3>2. \E h \in HeadersWithText(s) : \A g \in HeadersWithText(s) : h <= g
      BY <2>3, <3>1, LeastElement
    <3>3. /\ Min(HeadersWithText(s)) \in HeadersWithText(s)
          /\ \A g \in HeadersWithText(s) : Min(HeadersWithText(s)) <= g
      BY <3>2 DEF Min
    <3>4. \A h \in HeadersWithText(s) : h <= header_at
      <4> SUFFICES ASSUME NEW h \in HeadersWithText(s), ~(h <= header_at) PROVE FALSE
        OBVIOUS
      <4>1. h \in 1..Len(text) /\ HeaderAt(h) # "none"
        BY <2>1 DEF HeadersWithText, TextIsSequence, SectionName
      <4>2. h \in (header_at + 1)..((Len(text) + 1) - 1)
        BY <2>1, <4>1 DEF TextIsSequence
      <4> QED BY <2>1, <4>1, <4>2 DEF NextHeader
    <3> QED BY <2>1, <2>3, <3>3, <3>4 DEF BodiesTellTheText
  <2> QED BY <2>2, <2>3
<1> QED BY <1>1, InitDocumentInv, NextDocumentInv, PTL DEF Spec

-----------------------------------------------------------------------------
(* Type correctness of the whole parser.                                   *)

DocumentTyped ==
  /\ reading \in {"file", "text", "name", "sections", "done"} \cup DocumentErrors
  /\ Len(text) \in {0, Len(resume.spans)}
  /\ \A s \in SectionName : Len(bodies[s]) < Len(text) + 1

ExperienceTyped ==
  /\ \E S : section \in Seq(S)
  /\ \E S : experience \in Seq(S)
  /\ flow \in {"route", "newline", "pipe", "done"}
  /\ i \in 1..(Len(section) + 1)
  /\ pending \in Seq(DOMAIN section) /\ k \in 1..(Len(pending) + 1)
  /\ header \in Seq(DOMAIN section) /\ description \in Seq(DOMAIN section)
  /\ dated \in DOMAIN section \cup {None}

EducationTyped == {institution, degree, dates, gpa} \subseteq DOMAIN lines \cup {None}

MapperTyped ==
  /\ phase \in Phases
  /\ refusal # None <=> phase = "refused"
  /\ next_entry \in 1..(Len(experience) + Len(education) + 1)
  /\ \E S : experiences \in Seq(S)
  /\ \A entry \in ToSet(experiences) : entry.company # None /\ entry.title # None
  /\ provenance \subseteq {"name", "contact", "location", "experiences", "education"} \cup Lists

\* Until the sections are known.
NotStarted ==
  phase = "read" =>
    /\ i = 1 /\ k = 1 /\ dated = None
    /\ pending = <<>> /\ header = <<>> /\ description = <<>>
    /\ degree = None /\ dates = None /\ gpa = None

ParserInv ==
  /\ DocumentInv /\ DegreeInv
  /\ DocumentTyped /\ ExperienceTyped /\ EducationTyped /\ MapperTyped
  /\ NotStarted

LEMMA DocumentStepTyped ==
  ASSUME DocumentInv, BodiesAreLines, DocumentTyped, DocumentNext
  PROVE  DocumentTyped'
<1>1. CASE ValidateFile \/ DetectName \/ EndDetection
  BY <1>1 DEF DocumentTyped, DocumentErrors, ValidateFile, DetectName, EndDetection
<1>2. CASE ExtractText
  <2>1. /\ \A s \in SectionName : bodies'[s] = <<>>
        /\ resume' = resume
        /\ reading' \in {"CorruptedFileError", "TextExtractionError", "name"}
        /\ text' = text \/ text' = Extracted
    BY <1>2 DEF ExtractText, DocumentInv
  <2>2. Len(text') \in {0, Len(resume.spans)} /\ Len(text') \in Nat
    BY <2>1, ExtractedIsSequence DEF DocumentTyped, DocumentInv, TextIsSequence
  <2> QED BY <2>1, <2>2 DEF DocumentTyped, DocumentErrors
<1>3. CASE DetectSection
  <2>1. PICK start \in (header_at + 1)..Len(text), end \in (header_at + 2)..(Len(text) + 1) :
          /\ start < end /\ NextHeader(start, end)
          /\ bodies' = SetBody(HeaderAt(start), Body(start, end))
    BY <1>3 DEF DetectSection
  <2>2. /\ start \in 1..Len(text) /\ end \in 2..(Len(text) + 1) /\ Len(text) \in Nat
        /\ TextIsSequence
    BY <2>1 DEF DocumentInv, TextIsSequence
  <2>3. Len(Body(start, end)) < Len(text) + 1
    BY <2>1, <2>2, RunUntilNextHeader DEF Tells
  <2>4. UNCHANGED <<resume, reading, text>>
    BY <1>3 DEF DetectSection
  <2>5. \A s \in SectionName : bodies'[s] = bodies[s] \/ bodies'[s] = Body(start, end)
    BY <2>1 DEF SetBody, DocumentInv
  <2> QED BY <2>3, <2>4, <2>5 DEF DocumentTyped
<1> QED BY <1>1, <1>2, <1>3 DEF DocumentNext

\* What the loops of _build_experience_entries hold are positions of lines.
LEMMA ExperienceStepTyped ==
  ASSUME ExperienceTyped, ExperienceNext
  PROVE  ExperienceTyped' /\ Len(experience') >= Len(experience) /\ section' = section
<1> DEFINE n == Len(section)
           P == DOMAIN section
<1>1. n \in Nat /\ P = 1..n /\ Len(pending) \in Nat /\ Len(experience) \in Nat
  BY DEF ExperienceTyped
<1>2. ASSUME NEW entry, experience' = Append(experience, entry)
      PROVE  (\E S : experience' \in Seq(S)) /\ Len(experience') = Len(experience) + 1
             /\ Len(experience) \in Nat
  <2>1. PICK S : experience \in Seq(S)
    BY DEF ExperienceTyped
  <2>2. experience \in Seq(S \cup {entry})
    BY <2>1, LenProperties, SeqDef
  <2> QED BY <1>2, <2>2
<1>3. CASE RouteLine \/ MeetPipe \/ PipeBullet \/ EndOfSection
  <2>1. /\ UNCHANGED <<section, k, header, dated, experience>>
        /\ flow' \in {"route", "newline", "pipe", "done"}
        /\ i' = i \/ (i <= n /\ i' = i + 1)
    BY <1>3 DEF RouteLine, MeetPipe, PipeBullet, EndOfSection, ExperienceTyped
  <2>2. /\ pending' \in Seq(P) /\ Len(pending') >= Len(pending)
        /\ description' \in Seq(P)
    <3>1. i <= n => i \in P
      BY <1>1 DEF ExperienceTyped
    <3>2. CASE RouteLine
      BY <1>1, <3>1, <3>2 DEF RouteLine, ExperienceTyped
    <3>3. CASE PipeBullet
      BY <1>1, <3>1, <3>3 DEF PipeBullet, ExperienceTyped
    <3>4. CASE MeetPipe \/ EndOfSection
      BY <1>1, <3>4 DEF MeetPipe, EndOfSection, ExperienceTyped
    <3> QED BY <1>3, <3>2, <3>3, <3>4
  <2>3. i' \in 1..(n + 1) /\ k \in 1..(Len(pending') + 1)
    BY <1>1, <2>1, <2>2 DEF ExperienceTyped
  <2> QED BY <1>1, <2>1, <2>2, <2>3 DEF ExperienceTyped
<1>4. CASE ClosePipe
  BY <1>1, <1>2, <1>4 DEF ExperienceTyped, ClosePipe
<1>5. CASE SkipBullet \/ TakeHeader \/ TakeDate \/ TakeBullet
  <2>1. k \in DOMAIN pending /\ pending[k] \in P /\ k + 1 \in 1..(Len(pending) + 1)
    BY <1>1, <1>5 DEF ExperienceTyped, InNewline, SkipBullet, TakeHeader, TakeDate, TakeBullet
  <2>2. /\ UNCHANGED <<section, i, pending, flow, experience>> /\ k' = k + 1
        /\ header' = header \/ header' = Append(header, pending[k])
        /\ description' = description \/ description' = Append(description, pending[k])
        /\ dated' \in {dated, pending[k]}
    BY <1>5 DEF SkipBullet, TakeHeader, TakeDate, TakeBullet
  <2>3. header' \in Seq(P) /\ description' \in Seq(P)
    <3>1. header \in Seq(P) /\ description \in Seq(P) /\ pending[k] \in P
      BY <2>1 DEF ExperienceTyped
    <3> HIDE DEF P
    <3> QED BY <2>2, <3>1, AppendProperties
  <2> QED BY <1>1, <2>1, <2>2, <2>3 DEF ExperienceTyped
<1>6. CASE CloseRun
  <2>1. experience' = experience \/ \E entry : experience' = Append(experience, entry)
    BY <1>6 DEF CloseRun
  <2>2. (\E S : experience' \in Seq(S)) /\ Len(experience') >= Len(experience)
    BY <1>2, <2>1 DEF ExperienceTyped
  <2> QED BY <1>1, <1>6, <2>2 DEF ExperienceTyped, CloseRun
<1>7. CASE EndNewline
  BY <1>1, <1>7 DEF ExperienceTyped, EndNewline
<1> QED BY <1>3, <1>4, <1>5, <1>6, <1>7 DEF ExperienceNext

LEMMA EducationStepTyped ==
  ASSUME DegreeInv, EducationTyped, EducationNext
  PROVE  EducationTyped' /\ Len(education') >= Len(education) /\ lines' = lines
<1>1. /\ DOMAIN lines = 1..Len(lines) /\ Len(lines) \in Nat /\ at \in Nat \ {0}
      /\ \E S : education \in Seq(S)
  BY DEF DegreeInv, EducationInv, PendingBelongs, EntriesBelong
<1>2. /\ lines' = lines
      /\ {institution', degree', dates', gpa'} \subseteq
           {institution, degree, dates, gpa, None} \cup ({at} \cap 1..Len(lines))
  BY <1>1 DEF EducationNext, TakeDates, TakeGPA, TakeDegree, SkipLine, StartEntry, FlushLast,
     Reading
<1>3. education' = education \/ \E entry : education' = Append(education, entry)
  BY DEF EducationNext, TakeDates, TakeGPA, TakeDegree, SkipLine, StartEntry, FlushLast, Flushed
<1>4. Len(education') >= Len(education)
  <2>1. PICK S : education \in Seq(S)
    BY <1>1
  <2>2. ASSUME NEW entry, education' = Append(education, entry)
        PROVE  Len(education') = Len(education) + 1
    <3>1. education \in Seq(S \cup {entry})
      BY <2>1, LenProperties, SeqDef
    <3> QED BY <2>2, <3>1
  <2>3. Len(education) \in Nat
    BY <2>1
  <2> QED BY <1>3, <2>2, <2>3
<1> QED BY <1>1, <1>2, <1>4 DEF EducationTyped

LEMMA Refused ==
  ASSUME MapperTyped, NEW error \in DocumentErrors \cup {"MappingError"}, Refuse(error),
         UNCHANGED <<experience, education>>
  PROVE  MapperTyped' /\ phase' = "refused"
<1>1. [error |-> error, phase |-> phase] # None
  BY RefusalsAreNotNone DEF MapperTyped
<1>2. /\ phase' = "refused" /\ refusal' # None
      /\ UNCHANGED <<items, next_entry, experiences, educations, provenance>>
  BY <1>1 DEF Refuse
<1> QED BY <1>2 DEF MapperTyped, Phases

\* The steps that change neither the document nor what the loops hold.
LEMMA LinesUnchanged ==
  ASSUME UNCHANGED <<documentVars, experienceVars, educationVars>>
  PROVE  /\ DocumentTyped => DocumentTyped'
         /\ ExperienceTyped => ExperienceTyped'
         /\ EducationTyped => EducationTyped'
         /\ UNCHANGED <<experience, education>>
<1>1. DocumentTyped => DocumentTyped'
  BY DEF documentVars, DocumentTyped
<1>2. ExperienceTyped => ExperienceTyped'
  BY DEF experienceVars, ExperienceTyped
<1>3. EducationTyped => EducationTyped'
  BY DEF educationVars, EducationTyped
<1> QED BY <1>1, <1>2, <1>3 DEF experienceVars, educationVars

\* A longer list of entries is a list, and what holds of the entry added and of
\* the others holds of all.
LEMMA EntryAdded ==
  ASSUME NEW mapped, NEW entry, \E S : mapped \in Seq(S)
  PROVE  /\ \E S : Append(mapped, entry) \in Seq(S)
         /\ ToSet(Append(mapped, entry)) = ToSet(mapped) \cup {entry}
<1>1. PICK S : mapped \in Seq(S)
  OBVIOUS
<1>2. mapped \in Seq(S \cup {entry})
  BY <1>1, LenProperties, SeqDef
<1>3. Append(mapped, entry) \in Seq(S \cup {entry})
  BY <1>2
<1>4. /\ DOMAIN mapped = 1..Len(mapped) /\ Len(mapped) \in Nat
      /\ DOMAIN Append(mapped, entry) = 1..(Len(mapped) + 1)
      /\ \A a \in 1..Len(mapped) : Append(mapped, entry)[a] = mapped[a]
      /\ Append(mapped, entry)[Len(mapped) + 1] = entry
  BY <1>2
<1>5. ToSet(Append(mapped, entry)) = ToSet(mapped) \cup {entry}
  BY <1>4 DEF ToSet
<1> QED BY <1>3, <1>5

\* The errors of the mapper and of the document end the parse.
LEMMA RefuseTyped ==
  ASSUME ParserInv,
         \/ RefuseDocument \/ RefuseNameless \/ RefuseContact \/ RefuseEntry
         \/ RefuseCandidate
  PROVE  /\ DocumentTyped' /\ ExperienceTyped' /\ EducationTyped' /\ MapperTyped'
         /\ NotStarted'
<1>1. /\ UNCHANGED <<documentVars, experienceVars, educationVars>>
      /\ \E error \in DocumentErrors \cup {"MappingError"} : Refuse(error)
  BY DEF RefuseDocument, RefuseNameless, RefuseContact, RefuseEntry, RefuseCandidate
<1>2. MapperTyped' /\ phase' = "refused"
  BY <1>1, Refused, LinesUnchanged DEF ParserInv
<1> QED BY <1>1, <1>2, LinesUnchanged DEF ParserInv, NotStarted

\* The steps of the mapper.
LEMMA MapperStepTyped ==
  ASSUME ParserInv,
         \/ BuildLists \/ MapFields \/ MapExperience \/ EndExperience
         \/ MapEducation \/ EndEducation \/ BuildCandidate
  PROVE  /\ DocumentTyped' /\ ExperienceTyped' /\ EducationTyped' /\ MapperTyped'
         /\ NotStarted'
<1>1. /\ UNCHANGED <<documentVars, experienceVars, educationVars>>
      /\ phase # "read" /\ phase' # "read" /\ refusal' = refusal
      /\ phase # "refused" /\ phase' # "refused" /\ phase' \in Phases
  BY DEF BuildLists, MapFields, MapExperience, EndExperience, MapEducation, EndEducation,
         BuildCandidate, EntriesUnchanged, Assembled, ParserInv, MapperTyped, Phases
<1>2. /\ DocumentTyped' /\ ExperienceTyped' /\ EducationTyped' /\ NotStarted'
      /\ UNCHANGED <<experience, education>>
  BY <1>1, LinesUnchanged DEF ParserInv, NotStarted
<1>3. /\ Len(experience) \in Nat /\ DOMAIN experience = 1..Len(experience)
      /\ Len(education) \in Nat /\ DOMAIN education = 1..Len(education)
  BY DEF ParserInv, ExperienceTyped, DegreeInv, EducationInv, EntriesBelong
<1>4. next_entry' \in 1..(Len(experience) + Len(education) + 1)
  BY <1>3 DEF BuildLists, MapFields, MapExperience, EndExperience, MapEducation, EndEducation,
              BuildCandidate, EntriesUnchanged, ParserInv, MapperTyped
<1>5. provenance' \subseteq
        {"name", "contact", "location", "experiences", "education"} \cup Lists
  BY DEF BuildLists, MapFields, MapExperience, EndExperience, MapEducation, EndEducation,
         BuildCandidate, ParserInv, MapperTyped, Recorded, Lists
<1>6. /\ \E S : experiences' \in Seq(S)
      /\ \A entry \in ToSet(experiences') : entry.company # None /\ entry.title # None
  <2>1. CASE experiences' = experiences
    BY <2>1 DEF ParserInv, MapperTyped
  <2>2. CASE MapExperience
    <3>1. ASSUME NEW entry, ExperienceOutcome(entry) # "MappingError"
          PROVE  entry.company # None /\ entry.title # None
      BY <3>1 DEF ExperienceOutcome
    <3>2. \/ experiences' = experiences
          \/ \E entry : /\ experiences' = Append(experiences, entry)
                        /\ entry.company # None /\ entry.title # None
      BY <2>2, <3>1 DEF MapExperience
    <3>3. CASE experiences' # experiences
      <4>1. PICK entry : /\ experiences' = Append(experiences, entry)
                         /\ entry.company # None /\ entry.title # None
        BY <3>2, <3>3
      <4>2. /\ \E S : experiences \in Seq(S)
            /\ \A e \in ToSet(experiences) : e.company # None /\ e.title # None
        BY DEF ParserInv, MapperTyped
      <4>3. /\ \E S : Append(experiences, entry) \in Seq(S)
            /\ ToSet(Append(experiences, entry)) = ToSet(experiences) \cup {entry}
        BY <4>2, EntryAdded
      <4> QED BY <4>1, <4>2, <4>3
    <3> QED BY <2>1, <3>3
  <2>3. experiences' = experiences \/ MapExperience
    BY DEF BuildLists, MapFields, EndExperience, MapEducation, EndEducation, BuildCandidate
  <2> QED BY <2>1, <2>2, <2>3
<1>7. MapperTyped'
  BY <1>1, <1>2, <1>4, <1>5, <1>6 DEF ParserInv, MapperTyped
<1> QED BY <1>2, <1>7

\* The steps that read the sections.
LEMMA ReadingStepTyped ==
  ASSUME ParserInv,
         ReadDocument \/ StartAssembly \/ BuildExperience \/ BuildEducation
  PROVE  /\ DocumentTyped' /\ ExperienceTyped' /\ EducationTyped' /\ MapperTyped'
         /\ NotStarted'
<1>1. CASE ReadDocument
  <2>1. /\ DocumentNext
        /\ UNCHANGED <<experienceVars, educationVars, mapperVars>>
    BY <1>1 DEF ReadDocument
  <2>2. DocumentTyped'
    BY <2>1, DocumentStepTyped DEF ParserInv, DegreeInv, EducationInv
  <2>3. ExperienceTyped' /\ EducationTyped' /\ MapperTyped' /\ NotStarted'
    BY <2>1 DEF ParserInv, ExperienceTyped, EducationTyped, MapperTyped, NotStarted,
                experienceVars, educationVars, mapperVars
  <2> QED BY <2>2, <2>3
<1>2. CASE StartAssembly
  <2>1. /\ i = 1 /\ k = 1 /\ dated = None
        /\ pending = <<>> /\ header = <<>> /\ description = <<>>
        /\ institution = None /\ degree = None /\ dates = None /\ gpa = None
    BY <1>2 DEF StartAssembly, ParserInv, NotStarted, DegreeInv, EducationInv, NothingRead
  <2>2. /\ section' = bodies["experience"] /\ phase' = "lists" /\ phase = "read"
        /\ UNCHANGED <<resume, reading, text, bodies>>
        /\ UNCHANGED <<i, pending, flow, k, header, dated, description, experience>>
        /\ UNCHANGED <<institution, degree, dates, gpa, education>>
        /\ UNCHANGED <<refusal, next_entry, experiences, provenance>>
    BY <1>2 DEF StartAssembly, documentVars
  <2>3. \E S : section' \in Seq(S)
    BY <2>2 DEF ParserInv, DegreeInv, EducationInv, BodiesAreLines, SectionName
  <2>4. Len(section') \in Nat
    BY <2>3
  <2>5. ExperienceTyped'
    BY <2>1, <2>2, <2>3, <2>4, EmptySeq DEF ParserInv, ExperienceTyped
  <2>6. DocumentTyped' /\ EducationTyped' /\ NotStarted'
    BY <2>1, <2>2 DEF ParserInv, DocumentTyped, EducationTyped, NotStarted
  <2>7. MapperTyped'
    BY <2>2 DEF ParserInv, MapperTyped, Phases
  <2> QED BY <2>5, <2>6, <2>7
<1>3. CASE BuildExperience
  <2>1. /\ ExperienceNext /\ phase # "read"
        /\ UNCHANGED <<documentVars, educationVars, mapperVars>>
    BY <1>3 DEF BuildExperience
  <2>2. ExperienceTyped' /\ Len(experience') >= Len(experience)
    BY <2>1, ExperienceStepTyped DEF ParserInv
  <2>3. Len(experience) \in Nat /\ Len(experience') \in Nat /\ Len(education) \in Nat
    BY <2>2 DEF ParserInv, ExperienceTyped, DegreeInv, EducationInv, EntriesBelong
  <2>4. MapperTyped'
    BY <2>1, <2>2, <2>3 DEF ParserInv, MapperTyped, mapperVars, educationVars
  <2> QED BY <2>1, <2>2, <2>4 DEF ParserInv, DocumentTyped, EducationTyped, NotStarted,
             documentVars, educationVars, mapperVars
<1>4. CASE BuildEducation
  <2>1. /\ EducationNext /\ phase # "read"
        /\ UNCHANGED <<documentVars, experienceVars, mapperVars>>
    BY <1>4 DEF BuildEducation
  <2>2. EducationTyped' /\ Len(education') >= Len(education)
    BY <2>1, EducationStepTyped DEF ParserInv
  <2>3. DegreeInv'
    BY NextDegreeInv, <1>4 DEF ParserInv, Next
  <2>4. Len(experience) \in Nat /\ Len(education') \in Nat /\ Len(education) \in Nat
    BY <2>3 DEF ParserInv, ExperienceTyped, DegreeInv, EducationInv, EntriesBelong
  <2>5. MapperTyped'
    BY <2>1, <2>2, <2>4 DEF ParserInv, MapperTyped, mapperVars, experienceVars
  <2>6. DocumentTyped' /\ ExperienceTyped' /\ NotStarted'
    BY <2>1 DEF ParserInv, DocumentTyped, ExperienceTyped, NotStarted, documentVars,
                experienceVars, mapperVars
  <2> QED BY <2>2, <2>5, <2>6
<1> QED BY <1>1, <1>2, <1>3, <1>4

LEMMA NextParserInv == ParserInv /\ [Next]_vars => ParserInv'
<1> SUFFICES ASSUME ParserInv, [Next]_vars PROVE ParserInv'
  OBVIOUS
<1>1. DocumentInv' /\ DegreeInv'
  BY NextDocumentInv, NextDegreeInv DEF ParserInv
<1>2. CASE ReadDocument \/ StartAssembly \/ BuildExperience \/ BuildEducation
  BY <1>1, <1>2, ReadingStepTyped DEF ParserInv
<1>3. CASE \/ BuildLists \/ MapFields \/ MapExperience \/ EndExperience
           \/ MapEducation \/ EndEducation \/ BuildCandidate
  BY <1>1, <1>3, MapperStepTyped DEF ParserInv
<1>4. CASE \/ RefuseDocument \/ RefuseNameless \/ RefuseContact \/ RefuseEntry
           \/ RefuseCandidate
  BY <1>1, <1>4, RefuseTyped DEF ParserInv
<1>5. CASE UNCHANGED vars
  <2>1. UNCHANGED <<documentVars, experienceVars, educationVars, mapperVars>>
    BY <1>5 DEF vars
  <2>2. DocumentTyped' /\ ExperienceTyped' /\ EducationTyped'
    BY <2>1, LinesUnchanged DEF ParserInv
  <2>3. MapperTyped' /\ NotStarted'
    BY <2>1 DEF ParserInv, MapperTyped, NotStarted, experienceVars, educationVars, mapperVars
  <2> QED BY <1>1, <2>2, <2>3 DEF ParserInv
<1> QED BY <1>2, <1>3, <1>4, <1>5 DEF Next, Returned

LEMMA InitParserInv == Init => ParserInv
<1> SUFFICES ASSUME Init PROVE ParserInv
  OBVIOUS
<1>1. DocumentInv /\ DegreeInv
  BY InitDocumentInv, InitDegreeInv
<1>2. /\ reading = "file" /\ text = <<>> /\ bodies = [s \in SectionName |-> <<>>]
      /\ section = <<>> /\ i = 1 /\ k = 1 /\ pending = <<>> /\ flow = "route"
      /\ header = <<>> /\ dated = None /\ description = <<>> /\ experience = <<>>
      /\ institution = None /\ degree = None /\ dates = None /\ gpa = None
      /\ education = <<>> /\ phase = "read" /\ refusal = None /\ next_entry = 1
      /\ experiences = <<>> /\ provenance = {}
  BY DEF Init, DocumentInit, ExperienceInit, EducationInit
<1>3. \A S : <<>> \in Seq(S) /\ Len(<<>>) = 0 /\ DOMAIN <<>> = {}
  BY EmptySeq
<1>4. DocumentTyped /\ EducationTyped /\ NotStarted
  BY <1>2, <1>3 DEF DocumentTyped, EducationTyped, NotStarted
<1>5. ExperienceTyped
  BY <1>2, <1>3 DEF ExperienceTyped
<1>6. MapperTyped
  BY <1>2, <1>3 DEF MapperTyped, Phases, ToSet
<1> QED BY <1>1, <1>4, <1>5, <1>6 DEF ParserInv

\* Wherever a parse stands: the cursors of all its loops stay within their
\* lists, whatever lines are pending are lines of the section, a refusal is
\* recorded exactly if the parse was refused, and every experience mapped names
\* its company and title.
THEOREM TypeCorrect == Spec => []TypeOK
<1>1. ParserInv => TypeOK
  <2> SUFFICES ASSUME ParserInv PROVE TypeOK
    OBVIOUS
  <2>1. ToSet(pending) \cup ToSet(header) \cup ToSet(description) \subseteq DOMAIN section
    <3>1. \A S, q : q \in Seq(S) => ToSet(q) \subseteq S
      BY DEF ToSet
    <3> QED BY <3>1 DEF ParserInv, ExperienceTyped
  <2>2. at \in 1..(Len(lines) + 2)
    BY DEF ParserInv, DegreeInv, EducationInv, PendingBelongs
  <2> QED BY <2>1, <2>2 DEF ParserInv, TypeOK, DocumentTyped, ExperienceTyped, EducationTyped,
             MapperTyped, DocumentInv
<1> QED BY <1>1, InitParserInv, NextParserInv, PTL DEF Spec

-----------------------------------------------------------------------------
(* The entries of the experience section.                                  *)

\* The line the newline flow is at stands right after those it has read, and
\* the lines it was given stand side by side before the cursor.
FirstPending == i - Len(pending)
Current == FirstPending + k - 1

PendingInv ==
  /\ \A j \in DOMAIN pending : pending[j] = FirstPending + j - 1 /\ ~IsPipe(pending[j])
  /\ flow \in {"pipe", "done"} => pending = <<>>
  /\ flow # "newline" => k = 1 /\ header = <<>> /\ dated = None

Built(p) == experience = EntriesUpTo(p)

\* Only bullets stand between, or no pipe line does.
Follow(p, q) == \A r \in (p + 1)..(q - 1) : IsBullet(r)
NoPipe(p, q) == \A r \in (p + 1)..(q - 1) : ~IsPipe(r)
Between(p, q) == Positions((p + 1)..(q - 1))

\* A run of lines for the newline flow begins at the first line or after the
\* bullets of a pipe line.
RunBegins(p) == p = 1 \/ \E q \in 1..(p - 1) : PipeStart(q) /\ Follow(q, p)

Routing ==
  /\ description = <<>>
  /\ i <= Len(section) => ~AttachedToPipe(i)
  /\ RunBegins(FirstPending)
  /\ Built(FirstPending - 1)

Undated(p) == header = HeadersOf(p) /\ description = <<>> /\ Built(p - 1)
Dating(p) ==
  /\ DateStart(dated) /\ dated < p
  /\ header = HeadersOf(dated)
  /\ Follow(dated, p) /\ NoPipe(dated, p) /\ description = Between(dated, p)
  /\ Built(dated - 1)

Running ==
  /\ i <= Len(section) => PipeStart(i)
  /\ dated = None => Undated(Current)
  /\ dated # None => Dating(Current)

Attaching(p) ==
  /\ p \in 1..(i - 1) /\ PipeStart(p)
  /\ Follow(p, i) /\ description = Between(p, i)
  /\ Built(p - 1)

GroupInv ==
  /\ PendingInv
  /\ flow = "route" => Routing
  /\ flow = "newline" => Running
  /\ flow = "pipe" => \E p \in Nat : p = i - 1 - Len(description) /\ Attaching(p)
  /\ flow = "done" => i > Len(section) /\ Built(Len(section))

LinesKnown == Len(section) \in Nat /\ DOMAIN section = 1..Len(section)

\* A bullet is attached to a pipe line exactly if the line before is one, or is
\* attached itself; other lines never are.
LEMMA AttachedStep ==
  ASSUME NEW p \in Nat \ {0}
  PROVE  /\ AttachedToPipe(p) => IsBullet(p)
         /\ AttachedToPipe(p + 1) => IsPipe(p) \/ AttachedToPipe(p)
<1>1. ASSUME AttachedToPipe(p) PROVE IsBullet(p)
  <2>1. PICK q \in 1..(p - 1) : \A r \in (q + 1)..p : IsBullet(r)
    BY <1>1 DEF AttachedToPipe
  <2> QED BY <2>1
<1>2. ASSUME AttachedToPipe(p + 1), ~IsPipe(p) PROVE AttachedToPipe(p)
  <2>1. PICK q \in 1..p : IsPipe(q) /\ \A r \in (q + 1)..(p + 1) : IsBullet(r)
    BY <1>2 DEF AttachedToPipe
  <2>2. q \in 1..(p - 1)
    BY <1>2, <2>1
  <2>3. \A r \in (q + 1)..p : IsBullet(r)
    BY <2>1
  <2> QED BY <2>1, <2>2, <2>3 DEF AttachedToPipe
<1> QED BY <1>1, <1>2

\* The bullets right after a pipe line start no entry.
LEMMA FollowersAttached ==
  ASSUME NEW p \in Nat \ {0}, NEW q \in Nat, PipeStart(p), Follow(p, q)
  PROVE  \A r \in (p + 1)..(q - 1) : IsBullet(r) /\ ~PipeStart(r) /\ ~Starts(r) /\ ~Listed(r)
<1> SUFFICES ASSUME NEW r \in (p + 1)..(q - 1)
             PROVE  IsBullet(r) /\ ~PipeStart(r) /\ ~Starts(r) /\ ~Listed(r)
  OBVIOUS
<1>1. IsBullet(r)
  BY DEF Follow
<1>2. AttachedToPipe(r)
  <2>1. p \in 1..(r - 1) /\ IsPipe(p)
    BY DEF PipeStart
  <2>2. \A h \in (p + 1)..r : IsBullet(h)
    BY DEF Follow
  <2> QED BY <2>1, <2>2 DEF AttachedToPipe
<1> QED BY <1>1, <1>2 DEF PipeStart, Starts, DateStart, Listed

\* Bullets that are no pipe lines start none.
LEMMA BulletsStartNothing ==
  ASSUME NEW r, IsBullet(r), ~IsPipe(r) PROVE ~PipeStart(r) /\ ~Starts(r) /\ ~Listed(r)
BY DEF PipeStart, Starts, DateStart, Listed

\* A position after all the others is put last.
LEMMA PositionsGrow ==
  ASSUME LinesKnown, NEW some, NEW m \in DOMAIN section,
         \A q \in some : q \in DOMAIN section => q < m
  PROVE  Positions(some \cup {m}) = Append(Positions(some), m)
<1> DEFINE list == [q \in DOMAIN section |-> q]
<1>1. list \in Seq(Nat) /\ DOMAIN list = DOMAIN section
  <2>1. list \in [1..Len(section) -> Nat]
    BY DEF LinesKnown
  <2> HIDE DEF list
  <2> QED BY <2>1, SeqDef DEF LinesKnown
<1>2. list[m] = m
  OBVIOUS
<1> HIDE DEF list
<1>3. At(list, some \cup {m}) = Append(At(list, some), list[m])
  BY <1>1, AtGrows
<1> QED BY <1>2, <1>3 DEF Positions, list

LEMMA NoPositions ==
  ASSUME LinesKnown PROVE Positions({}) = <<>>
<1> DEFINE list == [q \in DOMAIN section |-> q]
<1>1. list \in Seq(Nat) /\ DOMAIN list = DOMAIN section
  <2>1. list \in [1..Len(section) -> Nat]
    BY DEF LinesKnown
  <2> HIDE DEF list
  <2> QED BY <2>1, SeqDef DEF LinesKnown
<1> HIDE DEF list
<1>2. At(list, {}) = <<>>
  BY <1>1, AtNone
<1> QED BY <1>2 DEF Positions, list

\* One more line adds its entry, or none.
LEMMA EntriesGrow ==
  ASSUME LinesKnown, NEW p \in DOMAIN section
  PROVE  EntriesUpTo(p) = IF Listed(p) THEN Append(EntriesUpTo(p - 1), EntryAt(p))
                          ELSE EntriesUpTo(p - 1)
<1> DEFINE list == [q \in DOMAIN section |-> EntryAt(q)]
           T == {EntryAt(q) : q \in DOMAIN section}
           UpTo(m) == {q \in DOMAIN section : q <= m /\ Listed(q)}
<1>1. list \in Seq(T) /\ DOMAIN list = DOMAIN section /\ list[p] = EntryAt(p)
  <2>1. list \in [1..Len(section) -> T] /\ list[p] = EntryAt(p)
    BY DEF LinesKnown
  <2> HIDE DEF list, T
  <2> QED BY <2>1, SeqDef DEF LinesKnown
<1>2. p \in Nat /\ DOMAIN section \subseteq Nat
  BY DEF LinesKnown
<1>3. UpTo(p) = IF Listed(p) THEN UpTo(p - 1) \cup {p} ELSE UpTo(p - 1)
  BY <1>2
<1>4. \A q \in DOMAIN list \cap UpTo(p - 1) : q < p
  BY <1>2
<1>5. EntriesUpTo(p) = At(list, UpTo(p)) /\ EntriesUpTo(p - 1) = At(list, UpTo(p - 1))
  BY DEF EntriesUpTo
<1> HIDE DEF list, T, UpTo
<1>6. At(list, UpTo(p - 1) \cup {p}) = Append(At(list, UpTo(p - 1)), list[p])
  BY <1>1, <1>4, AtGrows
<1> QED BY <1>1, <1>3, <1>5, <1>6

\* Lines that start no entry add none.
LEMMA EntriesStay ==
  ASSUME LinesKnown, NEW p \in Nat, NEW q \in Nat, p <= q,
         \A r \in (p + 1)..q : ~Listed(r)
  PROVE  EntriesUpTo(q) = EntriesUpTo(p)
<1>1. {r \in DOMAIN section : r <= q /\ Listed(r)} = {r \in DOMAIN section : r <= p /\ Listed(r)}
  BY DEF LinesKnown
<1> QED BY <1>1 DEF EntriesUpTo

\* A header line is taken after those before it, a bullet is none.
LEMMA HeadersGrow ==
  ASSUME LinesKnown, NEW p \in DOMAIN section, ~Starts(p)
  PROVE  HeadersOf(p + 1) = IF IsBullet(p) THEN HeadersOf(p) ELSE Append(HeadersOf(p), p)
<1> DEFINE Of(m) == {q \in 1..(m - 1) : ~IsBullet(q) /\ \A r \in q..(m - 1) : ~Starts(r)}
<1>1. p \in Nat \ {0} /\ p + 1 - 1 = p
  BY DEF LinesKnown
<1>2. Of(p + 1) = IF IsBullet(p) THEN Of(p) ELSE Of(p) \cup {p}
  <2>1. ASSUME NEW q \in Of(p + 1) PROVE q \in Of(p) \/ (q = p /\ ~IsBullet(p))
    BY <1>1
  <2>2. ASSUME NEW q \in Of(p) PROVE q \in Of(p + 1)
    <3>1. q \in 1..p /\ ~IsBullet(q)
      BY <1>1
    <3>2. \A r \in q..p : ~Starts(r)
      <4>1. \A r \in q..p : r \in q..(p - 1) \/ r = p
        BY <1>1, <3>1
      <4> QED BY <4>1
    <3> QED BY <1>1, <3>1, <3>2
  <2>3. ~IsBullet(p) => p \in Of(p + 1)
    <3>1. p \in 1..p /\ \A r \in p..p : r = p
      BY <1>1
    <3> QED BY <1>1, <3>1
  <2>4. p \notin Of(p) /\ (IsBullet(p) => p \notin Of(p + 1))
    BY <1>1
  <2> HIDE DEF Of
  <2> QED BY <2>1, <2>2, <2>3, <2>4
<1>3. \A q \in Of(p) : q \in DOMAIN section => q < p
  BY <1>1
<1>4. HeadersOf(p + 1) = Positions(Of(p + 1)) /\ HeadersOf(p) = Positions(Of(p))
  BY DEF HeadersOf
<1> HIDE DEF Of
<1> QED BY <1>2, <1>3, <1>4, PositionsGrow

\* After a line that starts an entry and its bullets there are no headers.
LEMMA NoHeaders ==
  ASSUME LinesKnown, NEW q \in Nat \ {0},
         q = 1 \/ \E p \in 1..(q - 1) : Starts(p) /\ Follow(p, q)
  PROVE  HeadersOf(q) = <<>>
<1> DEFINE Of == {h \in 1..(q - 1) : ~IsBullet(h) /\ \A r \in h..(q - 1) : ~Starts(r)}
<1>1. CASE q = 1
  <2>1. Of = {}
    BY <1>1
  <2> HIDE DEF Of
  <2> QED BY <2>1, NoPositions DEF HeadersOf, Of
<1>2. CASE \E p \in 1..(q - 1) : Starts(p) /\ Follow(p, q)
  <2>1. PICK p \in 1..(q - 1) : Starts(p) /\ Follow(p, q)
    BY <1>2
  <2>2. ASSUME NEW h \in Of PROVE FALSE
    <3>1. CASE h <= p
      <4>1. p \in h..(q - 1)
        BY <3>1
      <4> QED BY <2>1, <4>1
    <3>2. CASE h > p
      <4>1. h \in (p + 1)..(q - 1)
        BY <3>2
      <4> QED BY <2>1, <4>1 DEF Follow
    <3> QED BY <3>1, <3>2
  <2>3. Of = {}
    BY <2>2
  <2> HIDE DEF Of
  <2> QED BY <2>3, NoPositions DEF HeadersOf, Of
<1> QED BY <1>1, <1>2

\* The bullets of an entry end where a line is no bullet or starts an entry.
LEMMA BulletsEnd ==
  ASSUME LinesKnown, NEW p \in Nat, NEW q \in Nat, p < q, q <= Len(section) + 1,
         \A r \in (p + 1)..(q - 1) : IsBullet(r) /\ ~PipeStart(r),
         q <= Len(section) => ~IsBullet(q) \/ PipeStart(q)
  PROVE  BulletsOf(p) = Between(p, q)
<1> DEFINE Of == {h \in (p + 1)..Len(section) :
                    \A r \in (p + 1)..h : IsBullet(r) /\ ~PipeStart(r)}
<1>1. ASSUME NEW h \in Of PROVE h \in (p + 1)..(q - 1)
  <2>1. CASE q <= h
    <3>1. q \in (p + 1)..h /\ q <= Len(section)
      BY <2>1 DEF LinesKnown
    <3> QED BY <3>1
  <2> QED BY <2>1
<1>2. ASSUME NEW h \in (p + 1)..(q - 1) PROVE h \in Of
  <2>1. h \in (p + 1)..Len(section) /\ \A r \in (p + 1)..h : r \in (p + 1)..(q - 1)
    BY DEF LinesKnown
  <2> QED BY <2>1
<1>3. Of = (p + 1)..(q - 1)
  <2> HIDE DEF Of
  <2> QED BY <1>1, <1>2
<1> QED BY <1>3 DEF BulletsOf, Between

\* The section is not changed while its entries are built.
LEMMA SectionKept ==
  ASSUME section' = section
  PROVE  /\ LinesKnown' = LinesKnown
         /\ \A p : /\ IsPipe(p)' = IsPipe(p) /\ IsBullet(p)' = IsBullet(p)
                   /\ AttachedToPipe(p)' = AttachedToPipe(p)
                   /\ PipeStart(p)' = PipeStart(p) /\ DateStart(p)' = DateStart(p)
                   /\ HeadersOf(p)' = HeadersOf(p) /\ EntriesUpTo(p)' = EntriesUpTo(p)
         /\ \A p, q : /\ Follow(p, q)' = Follow(p, q) /\ NoPipe(p, q)' = NoPipe(p, q)
                      /\ Between(p, q)' = Between(p, q)
<1>1. \A p : IsPipe(p)' = IsPipe(p) /\ IsBullet(p)' = IsBullet(p) /\ IsDated(p)' = IsDated(p)
  BY DEF IsPipe, IsBullet, IsDated
<1>2. \A p : AttachedToPipe(p)' = AttachedToPipe(p)
  BY <1>1 DEF AttachedToPipe
<1>3. \A p : /\ PipeStart(p)' = PipeStart(p) /\ DateStart(p)' = DateStart(p)
             /\ Starts(p)' = Starts(p)
  BY <1>1, <1>2 DEF PipeStart, DateStart, Starts
<1>4. \A some : Positions(some)' = Positions(some)
  BY DEF Positions
<1>5. \A p : HeadersOf(p)' = HeadersOf(p) /\ BulletsOf(p)' = BulletsOf(p)
  BY DEF HeadersOf, BulletsOf, IsBullet, Starts, PipeStart, DateStart, IsPipe, IsDated,
         AttachedToPipe, Positions
<1>6. \A p : EntryAt(p)' = EntryAt(p) /\ WhoOf(p)' = WhoOf(p)
  BY DEF EntryAt, WhoOf, Entry, PipeCompanyTitle, ResolveCompanyTitle, HeadersOf, BulletsOf,
         IsBullet, Starts, PipeStart, DateStart, IsPipe, IsDated, Splits, SplitTitleCompany,
         AttachedToPipe, Positions
<1>7. \A p : EntriesUpTo(p)' = EntriesUpTo(p)
  <2>1. \A p : Listed(p)' = Listed(p)
    BY <1>3, <1>6 DEF Listed
  <2> QED BY <1>6, <2>1 DEF EntriesUpTo
<1>8. LinesKnown' = LinesKnown
  BY DEF LinesKnown
<1>9. \A p, q : /\ Follow(p, q)' = Follow(p, q) /\ NoPipe(p, q)' = NoPipe(p, q)
                /\ Between(p, q)' = Between(p, q)
  BY DEF Follow, NoPipe, Between, IsBullet, IsPipe, Positions
<1> QED BY <1>1, <1>2, <1>3, <1>5, <1>7, <1>8, <1>9

\* Where the loops stand.
LEMMA WhereTheyStand ==
  ASSUME ExperienceTyped, PendingInv
  PROVE  /\ LinesKnown /\ i \in Nat \ {0} /\ i <= Len(section) + 1 /\ Len(pending) \in Nat
         /\ FirstPending \in Nat \ {0} /\ FirstPending <= i
         /\ Current \in Nat \ {0} /\ FirstPending <= Current /\ Current <= i
         /\ k <= Len(pending) =>
              /\ pending[k] = Current /\ Current < i /\ Current \in DOMAIN section
              /\ ~IsPipe(Current)
         /\ k > Len(pending) => Current = i
         /\ pending = <<>> => FirstPending = i
         /\ dated # None => dated \in Nat \ {0} /\ dated \in DOMAIN section
<1>1. /\ LinesKnown /\ i \in 1..(Len(section) + 1)
      /\ Len(pending) \in Nat /\ DOMAIN pending = 1..Len(pending)
      /\ k \in 1..(Len(pending) + 1) /\ \A j \in DOMAIN pending : pending[j] \in DOMAIN section
      /\ dated \in DOMAIN section \cup {None}
      /\ pending = <<>> => Len(pending) = 0
  BY DEF ExperienceTyped, LinesKnown
<1>2. FirstPending = i - Len(pending) /\ Current = FirstPending + k - 1 /\ FirstPending \in Int
  BY <1>1 DEF FirstPending, Current, LinesKnown
<1>3. \A j \in DOMAIN pending : pending[j] = FirstPending + j - 1 /\ ~IsPipe(pending[j])
  BY DEF PendingInv
<1>4. FirstPending \in Nat \ {0}
  <2>1. CASE Len(pending) = 0
    BY <1>1, <1>2, <2>1 DEF LinesKnown
  <2>2. CASE Len(pending) # 0
    <3>1. 1 \in DOMAIN pending
      BY <1>1, <2>2
    <3>2. pending[1] \in 1..Len(section) /\ pending[1] = FirstPending + 1 - 1
      BY <1>1, <1>3, <3>1 DEF LinesKnown
    <3> QED BY <1>2, <3>2
  <2> QED BY <2>1, <2>2
<1>5. k <= Len(pending) =>
        pending[k] = Current /\ Current < i /\ Current \in DOMAIN section /\ ~IsPipe(Current)
  <2> SUFFICES ASSUME k <= Len(pending)
               PROVE  /\ pending[k] = Current /\ Current < i
                      /\ Current \in DOMAIN section /\ ~IsPipe(Current)
    OBVIOUS
  <2>1. k \in DOMAIN pending
    BY <1>1
  <2> QED BY <1>1, <1>2, <1>3, <2>1 DEF LinesKnown
<1>6. /\ i \in Nat \ {0} /\ i <= Len(section) + 1 /\ k \in Nat \ {0} /\ k <= Len(pending) + 1
  BY <1>1 DEF LinesKnown
<1>7. /\ FirstPending <= i /\ Current \in Nat \ {0} /\ FirstPending <= Current /\ Current <= i
      /\ k > Len(pending) => Current = i
      /\ Len(pending) = 0 => FirstPending = i
  <2> DEFINE l == Len(pending)
  <2>1. l \in Nat /\ FirstPending = i - l /\ Current = FirstPending + k - 1 /\ k <= l + 1
    BY <1>1, <1>2, <1>6
  <2> HIDE DEF l
  <2>2. /\ FirstPending <= i /\ Current \in Nat \ {0} /\ FirstPending <= Current /\ Current <= i
    BY <2>1, <1>4, <1>6
  <2>3. k > l => Current = i
    BY <2>1, <1>4, <1>6
  <2>4. l = 0 => FirstPending = i
    BY <2>1, <1>4, <1>6
  <2> QED BY <2>2, <2>3, <2>4 DEF l
<1>8. dated # None => dated \in Nat \ {0} /\ dated \in DOMAIN section
  BY <1>1 DEF LinesKnown
<1> QED BY <1>1, <1>4, <1>5, <1>6, <1>7, <1>8

\* What a handed-over run starts from.
LEMMA RunStarts ==
  ASSUME ExperienceTyped, PendingInv, Routing, k = 1, dated = None, header = <<>>
  PROVE  Undated(Current)
<1>1. LinesKnown /\ FirstPending \in Nat \ {0} /\ Current = FirstPending
  BY WhereTheyStand DEF Current
<1>2. FirstPending = 1 \/ \E p \in 1..(FirstPending - 1) : Starts(p) /\ Follow(p, FirstPending)
  BY DEF Routing, RunBegins, Starts
<1>3. HeadersOf(FirstPending) = <<>>
  BY <1>1, <1>2, NoHeaders
<1> QED BY <1>1, <1>3 DEF Routing, Undated

\* The outer loop.
LEMMA RouteStep ==
  ASSUME ExperienceTyped, GroupInv, RouteLine \/ MeetPipe \/ EndOfSection
  PROVE  GroupInv'
<1>1. /\ PendingInv /\ Routing /\ flow = "route" /\ k = 1 /\ dated = None /\ header = <<>>
      /\ description = <<>>
  BY DEF GroupInv, PendingInv, Routing, RouteLine, MeetPipe, EndOfSection
<1>2. /\ LinesKnown /\ i \in Nat \ {0} /\ FirstPending \in Nat \ {0}
      /\ Len(pending) \in Nat /\ DOMAIN pending = 1..Len(pending) /\ i <= Len(section) + 1
      /\ pending = <<>> => FirstPending = i
  BY <1>1, WhereTheyStand DEF ExperienceTyped
<1>3. /\ UNCHANGED <<section, k, header, dated, description, experience>>
  BY DEF RouteLine, MeetPipe, EndOfSection
<1>4. CASE RouteLine
  <2>1. /\ flow' = "route" /\ i' = i + 1 /\ pending' = Append(pending, i) /\ ~IsPipe(i)
        /\ i <= Len(section)
    BY <1>4, <1>1 DEF RouteLine
  <2>2. /\ Len(pending') = Len(pending) + 1 /\ DOMAIN pending' = 1..(Len(pending) + 1)
        /\ pending'[Len(pending) + 1] = i
        /\ \A j \in DOMAIN pending : pending'[j] = pending[j]
    BY <2>1, <1>2 DEF ExperienceTyped
  <2>3. FirstPending' = FirstPending /\ FirstPending = i - Len(pending)
    <3> DEFINE l == Len(pending)
    <3>1. FirstPending' = (i + 1) - (l + 1) /\ FirstPending = i - l
      BY <2>1, <2>2 DEF FirstPending
    <3>2. l \in Nat /\ i \in Nat
      BY <1>2
    <3> HIDE DEF l
    <3>3. FirstPending' = FirstPending
      BY <3>1, <3>2
    <3> QED BY <3>1, <3>3 DEF l
  <2>4. \A j \in DOMAIN pending' : pending'[j] = FirstPending + j - 1 /\ ~IsPipe(pending'[j])
    <3> SUFFICES ASSUME NEW j \in DOMAIN pending'
                 PROVE  pending'[j] = FirstPending + j - 1 /\ ~IsPipe(pending'[j])
      OBVIOUS
    <3>1. CASE j \in DOMAIN pending
      BY <2>2, <3>1, <1>1 DEF PendingInv
    <3>2. CASE j = Len(pending) + 1
      <4>1. pending'[j] = i /\ ~IsPipe(i)
        BY <2>1, <2>2, <3>2
      <4>2. FirstPending + j - 1 = i
        <5> DEFINE l == Len(pending)
        <5>1. j = l + 1 /\ FirstPending = i - l /\ l \in Nat /\ i \in Nat
          BY <2>3, <3>2, <1>2
        <5> HIDE DEF l
        <5> QED BY <5>1
      <4> QED BY <4>1, <4>2
    <3> QED BY <2>2, <3>1, <3>2, <1>2
  <2>5. ~AttachedToPipe(i + 1)
    BY <2>1, <1>1, <1>2, AttachedStep DEF Routing
  <2>6. PendingInv'
    BY <2>1, <2>3, <2>4, <1>1, <1>3, SectionKept DEF PendingInv
  <2>7. Routing'
    <3>1. description' = <<>> /\ ~AttachedToPipe(i)' /\ Built(FirstPending - 1)'
      BY <2>1, <2>3, <2>5, <1>1, <1>3, SectionKept DEF Routing, Built
    <3>2. RunBegins(FirstPending)'
      BY <2>3, <1>1, <1>3, SectionKept DEF Routing, RunBegins
    <3> QED BY <2>1, <3>1, <3>2 DEF Routing
  <2> QED BY <2>1, <2>6, <2>7 DEF GroupInv
<1>5. CASE MeetPipe /\ pending = <<>>
  <2>1. /\ flow' = "pipe" /\ i' = i + 1 /\ IsPipe(i) /\ i <= Len(section) /\ pending' = pending
    BY <1>5 DEF MeetPipe
  <2>2. PendingInv'
    BY <2>1, <1>1, <1>3, <1>5 DEF PendingInv
  <2>3. PipeStart(i) /\ Built(i - 1)
    BY <2>1, <1>1, <1>2, <1>5 DEF Routing, PipeStart
  <2>4. Follow(i, i + 1) /\ Between(i, i + 1) = <<>>
    <3>1. (i + 1)..((i + 1) - 1) = {}
      BY <1>2
    <3> QED BY <3>1, <1>2, NoPositions DEF Follow, Between
  <2>5. PICK p \in Nat : p = i
    BY <1>2
  <2>6. p = i' - 1 - Len(description') /\ p \in 1..(i' - 1)
    <3>1. Len(description') = 0
      BY <1>1, <1>3
    <3> QED BY <2>1, <2>5, <3>1, <1>2
  <2>7. PipeStart(p)' /\ Follow(p, i' )  /\ description' = Between(p, i') /\ Built(p - 1)'
    BY <2>1, <2>3, <2>4, <2>5, <1>1, <1>3, SectionKept DEF Built
  <2>8. Attaching(p)'
    <3>1. Follow(p, i)' /\ (description = Between(p, i))'
      BY <2>7, <1>3 DEF Follow, Between, Positions, IsBullet
    <3> QED BY <2>6, <2>7, <3>1 DEF Attaching
  <2> QED BY <2>1, <2>2, <2>6, <2>8 DEF GroupInv
<1>6. CASE (MeetPipe \/ EndOfSection) /\ pending # <<>>
  <2>1. /\ flow' = "newline" /\ i' = i /\ pending' = pending
        /\ i <= Len(section) => IsPipe(i)
    BY <1>6, <1>2 DEF MeetPipe, EndOfSection, LinesKnown
  <2>2. PendingInv'
    <3>1. FirstPending' = FirstPending
      BY <2>1 DEF FirstPending
    <3> QED BY <2>1, <3>1, <1>1, <1>3, SectionKept DEF PendingInv
  <2>3. Running'
    <3>1. Undated(Current) /\ Current' = Current
      BY <2>1, <1>1, <1>3, RunStarts DEF Current, FirstPending
    <3>2. i <= Len(section) => PipeStart(i)
      BY <2>1, <1>1 DEF Routing, PipeStart
    <3> QED BY <2>1, <3>1, <3>2, <1>1, <1>3, SectionKept DEF Running, Undated, Built
  <2> QED BY <2>1, <2>2, <2>3 DEF GroupInv
<1>7. CASE EndOfSection /\ pending = <<>>
  <2>1. flow' = "done" /\ i' = i /\ pending' = pending /\ i > Len(section)
    BY <1>7 DEF EndOfSection
  <2>2. PendingInv'
    BY <2>1, <1>1, <1>3, <1>7 DEF PendingInv
  <2>3. i - 1 = Len(section) /\ Built(Len(section))
    BY <2>1, <1>1, <1>2, <1>7 DEF Routing, LinesKnown
  <2> QED BY <2>1, <2>2, <2>3, <1>3, SectionKept DEF GroupInv, Built
<1> QED BY <1>4, <1>5, <1>6, <1>7

\* The pipe flow.
LEMMA PipeStep ==
  ASSUME ExperienceTyped, GroupInv, PipeBullet \/ ClosePipe
  PROVE  GroupInv'
<1> PICK p \in Nat : flow = "pipe" => p = i - 1 - Len(description) /\ Attaching(p)
  BY DEF GroupInv
<1>1. /\ PendingInv /\ Attaching(p) /\ flow = "pipe" /\ pending = <<>>
      /\ k = 1 /\ dated = None /\ header = <<>> /\ p = i - 1 - Len(description)
  BY DEF GroupInv, PendingInv, PipeBullet, ClosePipe
<1>2. /\ LinesKnown /\ i \in Nat \ {0} /\ Len(description) \in Nat
      /\ i <= Len(section) + 1 /\ p \in 1..(i - 1) /\ p \in Nat \ {0}
      /\ description \in Seq(DOMAIN section)
      /\ p = i - 1 - Len(description)
  BY <1>1, WhereTheyStand DEF ExperienceTyped, Attaching
<1>3. UNCHANGED <<section, pending, k, header, dated>>
  BY DEF PipeBullet, ClosePipe
<1>4. CASE PipeBullet
  <2>1. /\ flow' = "pipe" /\ i' = i + 1 /\ description' = Append(description, i)
        /\ experience' = experience /\ IsBullet(i) /\ i \in DOMAIN section
    BY <1>1, <1>2, <1>4 DEF PipeBullet, LinesKnown
  <2>2. Len(description') = Len(description) + 1
    BY <2>1, <1>2
  <2>3. i' - 1 - Len(description') = p /\ p \in 1..(i' - 1)
    BY <2>1, <2>2, <1>2
  <2>4. Follow(p, i + 1)
    <3>1. \A r \in (p + 1)..((i + 1) - 1) : r \in (p + 1)..(i - 1) \/ r = i
      BY <1>2
    <3> QED BY <2>1, <3>1, <1>1 DEF Attaching, Follow
  <2>5. Between(p, i + 1) = Append(description, i)
    <3>1. (p + 1)..((i + 1) - 1) = ((p + 1)..(i - 1)) \cup {i}
      BY <1>2
    <3>2. \A q \in (p + 1)..(i - 1) : q \in DOMAIN section => q < i
      BY <1>2
    <3>3. Positions(((p + 1)..(i - 1)) \cup {i}) = Append(Positions((p + 1)..(i - 1)), i)
      BY <2>1, <3>2, <1>2, PositionsGrow
    <3> QED BY <3>1, <3>3, <1>1 DEF Attaching, Between
  <2>6. Attaching(p)'
    <3>1. PipeStart(p)' /\ Built(p - 1)'
      BY <2>1, <1>1, <1>3, SectionKept DEF Attaching, Built
    <3>2. Follow(p, i)' /\ (description = Between(p, i))'
      BY <2>1, <2>4, <2>5, <1>3 DEF Follow, Between, Positions, IsBullet
    <3> QED BY <2>3, <3>1, <3>2 DEF Attaching
  <2>7. PendingInv'
    BY <2>1, <1>1, <1>3 DEF PendingInv
  <2> QED BY <2>1, <2>3, <2>6, <2>7 DEF GroupInv
<1>5. CASE ClosePipe
  <2>1. /\ flow' = "route" /\ i' = i /\ description' = <<>>
        /\ i <= Len(section) => ~IsBullet(i)
        /\ experience' = Append(experience, Entry(PipeCompanyTitle(p), p, description))
    BY <1>1, <1>5 DEF ClosePipe
  <2>2. PipeStart(p) /\ Follow(p, i) /\ description = Between(p, i) /\ Built(p - 1)
    BY <1>1 DEF Attaching
  <2>3. \A r \in (p + 1)..(i - 1) : IsBullet(r) /\ ~PipeStart(r) /\ ~Listed(r)
    BY <2>2, <1>2, FollowersAttached
  <2>4. BulletsOf(p) = description
    <3>1. p < i
      BY <1>2
    <3> QED BY <2>1, <2>2, <2>3, <3>1, <1>2, BulletsEnd
  <2>5. EntryAt(p) = Entry(PipeCompanyTitle(p), p, description) /\ Listed(p)
    BY <2>2, <2>4 DEF EntryAt, WhoOf, Listed
  <2>6. experience' = EntriesUpTo(p)
    <3>1. p \in DOMAIN section
      BY <1>2 DEF LinesKnown
    <3>2. EntriesUpTo(p) = Append(EntriesUpTo(p - 1), EntryAt(p))
      BY <2>5, <3>1, <1>2, EntriesGrow
    <3> QED BY <2>1, <2>2, <2>5, <3>2 DEF Built
  <2>7. EntriesUpTo(i - 1) = EntriesUpTo(p)
    <3>1. p \in Nat /\ i - 1 \in Nat /\ p <= i - 1
      BY <1>2
    <3> QED BY <2>3, <3>1, <1>2, EntriesStay
  <2>8. i <= Len(section) => ~AttachedToPipe(i)
    BY <2>1, <1>2, AttachedStep
  <2>9. FirstPending' = i
    BY <2>1, <1>1, <1>2, <1>3 DEF FirstPending
  <2>10. RunBegins(i)
    BY <2>2, <1>2 DEF RunBegins
  <2>11. Routing'
    <3>1. description' = <<>> /\ (i' <= Len(section') => ~AttachedToPipe(i)')
          /\ Built(FirstPending - 1)'
      BY <2>1, <2>6, <2>7, <2>8, <2>9, <1>3, SectionKept DEF Built
    <3>2. RunBegins(FirstPending)'
      BY <2>9, <2>10, <1>3, SectionKept DEF RunBegins
    <3> QED BY <3>1, <3>2 DEF Routing
  <2>12. PendingInv'
    BY <2>1, <1>1, <1>3 DEF PendingInv
  <2> QED BY <2>1, <2>11, <2>12 DEF GroupInv
<1> QED BY <1>4, <1>5

\* A step to the next of the lines handed over.
LEMMA NextPending ==
  ASSUME ExperienceTyped, GroupInv, SkipBullet \/ TakeHeader \/ TakeDate \/ TakeBullet
  PROVE  /\ UNCHANGED <<section, i, pending, flow, experience>>
         /\ flow = "newline" /\ flow' = "newline"
         /\ LinesKnown /\ Current \in DOMAIN section /\ Current \in Nat \ {0}
         /\ pending[k] = Current /\ ~IsPipe(Current) /\ ~PipeStart(Current)
         /\ Current' = Current + 1 /\ PendingInv'
         /\ i <= Len(section) => PipeStart(i)
         /\ dated = None => Undated(Current)
         /\ dated # None => Dating(Current)
<1>1. /\ flow = "newline" /\ k <= Len(pending) /\ k' = k + 1
      /\ UNCHANGED <<section, i, pending, flow, experience>>
  BY DEF InNewline, SkipBullet, TakeHeader, TakeDate, TakeBullet
<1>2. PendingInv /\ Running
  BY <1>1 DEF GroupInv
<1>3. /\ LinesKnown /\ FirstPending \in Nat \ {0} /\ Current \in Nat \ {0}
      /\ Current \in DOMAIN section /\ pending[k] = Current /\ ~IsPipe(Current)
  BY <1>1, <1>2, WhereTheyStand
<1>4. FirstPending' = FirstPending
  BY <1>1 DEF FirstPending
<1>5. Current' = Current + 1
  <2>1. Current' = FirstPending + (k + 1) - 1 /\ Current = FirstPending + k - 1 /\ k \in Nat
    BY <1>1, <1>4 DEF Current, ExperienceTyped
  <2> QED BY <2>1, <1>3
<1>6. PendingInv'
  BY <1>1, <1>2, <1>4, SectionKept DEF PendingInv
<1> QED BY <1>1, <1>2, <1>3, <1>5, <1>6 DEF Running, PipeStart

\* The newline flow reads a line.
LEMMA NewlineStep ==
  ASSUME ExperienceTyped, GroupInv, SkipBullet \/ TakeHeader \/ TakeDate \/ TakeBullet
  PROVE  GroupInv'
<1> PICK c \in Nat : c = Current
  BY NextPending
<1>1. /\ UNCHANGED <<section, i, pending, flow, experience>>
      /\ flow = "newline" /\ flow' = "newline"
      /\ LinesKnown /\ c \in DOMAIN section /\ c \in Nat \ {0}
      /\ pending[k] = c /\ ~IsPipe(c) /\ ~PipeStart(c)
      /\ Current' = c + 1 /\ PendingInv'
      /\ i <= Len(section) => PipeStart(i)
      /\ dated = None => Undated(c)
      /\ dated # None => Dating(c)
  BY NextPending
<1>2. c + 1 - 1 = c
  BY <1>1
<1>3. CASE SkipBullet \/ TakeHeader
  <2>1. /\ dated = None /\ dated' = None /\ description' = description
        /\ IF IsBullet(c) THEN header' = header
           ELSE header' = Append(header, c) /\ ~IsDated(c)
    BY <1>1, <1>3 DEF SkipBullet, TakeHeader
  <2>2. ~Starts(c) /\ ~Listed(c)
    BY <2>1, <1>1 DEF Starts, PipeStart, DateStart, Listed
  <2>3. header' = HeadersOf(c + 1)
    BY <2>1, <2>2, <1>1, HeadersGrow DEF Undated
  <2>4. Built(c)
    BY <2>1, <2>2, <1>1, EntriesGrow DEF Undated, Built
  <2>5. Undated(c + 1)'
    BY <2>1, <2>3, <2>4, <1>1, <1>2, SectionKept DEF Undated, Built
  <2> QED BY <2>1, <2>5, <1>1, SectionKept DEF GroupInv, Running
<1>4. CASE TakeDate
  <2>1. /\ dated = None /\ dated' = c /\ header' = header /\ description' = description
        /\ ~IsBullet(c) /\ IsDated(c) /\ dated' # None
    BY <1>1, <1>4, NoneAssumption DEF TakeDate
  <2>2. DateStart(c) /\ c < c + 1
    BY <2>1, <1>1 DEF DateStart
  <2>3. Follow(c, c + 1) /\ NoPipe(c, c + 1) /\ Between(c, c + 1) = <<>>
    <3>1. (c + 1)..((c + 1) - 1) = {}
      BY <1>1
    <3> QED BY <3>1, <1>1, NoPositions DEF Follow, NoPipe, Between
  <2>4. Dating(c + 1)'
    BY <2>1, <2>2, <2>3, <1>1, SectionKept DEF Undated, Dating, Built
  <2> QED BY <2>1, <2>4, <1>1, SectionKept DEF GroupInv, Running
<1>5. CASE TakeBullet
  <2>1. /\ dated # None /\ dated' = dated /\ header' = header /\ IsBullet(c)
        /\ description' = Append(description, c)
    BY <1>1, <1>5 DEF TakeBullet
  <2>2. Dating(c) /\ dated \in Nat /\ dated < c
    BY <2>1, <1>1 DEF Dating, ExperienceTyped, LinesKnown
  <2>3. Follow(dated, c + 1) /\ NoPipe(dated, c + 1)
    <3>1. \A r \in (dated + 1)..((c + 1) - 1) : r \in (dated + 1)..(c - 1) \/ r = c
      BY <2>2, <1>1
    <3> QED BY <2>1, <2>2, <3>1, <1>1 DEF Dating, Follow, NoPipe
  <2>4. Between(dated, c + 1) = Append(description, c)
    <3>1. (dated + 1)..((c + 1) - 1) = ((dated + 1)..(c - 1)) \cup {c}
      BY <2>2, <1>1
    <3>2. \A q \in (dated + 1)..(c - 1) : q \in DOMAIN section => q < c
      BY <2>2, <1>1
    <3>3. Positions(((dated + 1)..(c - 1)) \cup {c}) = Append(Positions((dated + 1)..(c - 1)), c)
      BY <3>2, <1>1, PositionsGrow
    <3> QED BY <2>2, <3>1, <3>3 DEF Dating, Between
  <2>5. dated < c + 1
    BY <2>2, <1>1
  <2>6. Dating(c + 1)'
    BY <2>1, <2>2, <2>3, <2>4, <2>5, <1>1, SectionKept DEF Dating, Built
  <2> QED BY <2>1, <2>6, <1>1, SectionKept DEF GroupInv, Running
<1> QED BY <1>3, <1>4, <1>5

\* The newline flow closes an entry, or ends.
LEMMA NewlineEnds ==
  ASSUME ExperienceTyped, GroupInv, CloseRun \/ EndNewline
  PROVE  GroupInv'
<1>1. /\ flow = "newline" /\ PendingInv /\ Running /\ UNCHANGED section
  BY DEF CloseRun, EndNewline, GroupInv
<1> PICK c \in Nat : c = Current
  BY <1>1, WhereTheyStand
<1>2. /\ LinesKnown /\ i \in Nat \ {0} /\ i <= Len(section) + 1 /\ Len(pending) \in Nat
      /\ c \in Nat \ {0} /\ c <= i
      /\ k <= Len(pending) => /\ pending[k] = c /\ c < i /\ c \in DOMAIN section /\ ~IsPipe(c)
      /\ k > Len(pending) => c = i
      /\ dated # None => dated \in Nat \ {0} /\ dated \in DOMAIN section
      /\ k \in Nat
  BY <1>1, WhereTheyStand DEF ExperienceTyped
<1>3. c <= Len(section) + 1 /\ Len(section) \in Nat
  BY <1>2 DEF LinesKnown
<1>4. CASE CloseRun
  <2> DEFINE who == ResolveCompanyTitle(header, dated)
  <2>1. /\ dated # None
        /\ k <= Len(pending) => ~IsBullet(c)
        /\ experience' = (IF who.company = None THEN experience
                          ELSE Append(experience, Entry(who, dated, description)))
        /\ header' = <<>> /\ dated' = None /\ description' = <<>>
        /\ UNCHANGED <<section, i, pending, flow, k>>
    BY <1>2, <1>4 DEF CloseRun
  <2>2. Dating(c)
    BY <2>1, <1>1 DEF Running
  <2>3. /\ DateStart(dated) /\ dated < c /\ header = HeadersOf(dated) /\ Follow(dated, c)
        /\ description = Between(dated, c) /\ Built(dated - 1)
        /\ dated \in Nat \ {0} /\ dated \in DOMAIN section
    BY <2>1, <2>2, <1>2 DEF Dating
  <2>4. \A r \in (dated + 1)..(c - 1) : IsBullet(r) /\ ~PipeStart(r) /\ ~Listed(r)
    <3> SUFFICES ASSUME NEW r \in (dated + 1)..(c - 1)
                 PROVE  IsBullet(r) /\ ~PipeStart(r) /\ ~Listed(r)
      OBVIOUS
    <3>1. IsBullet(r)
      BY <2>3 DEF Follow
    <3>2. ~IsPipe(r)
      BY <2>2 DEF Dating, NoPipe
    <3> QED BY <3>1, <3>2, BulletsStartNothing
  <2>5. c <= Len(section) => ~IsBullet(c) \/ PipeStart(c)
    BY <2>1, <1>1, <1>2 DEF Running
  <2>6. BulletsOf(dated) = description
    BY <2>3, <2>4, <2>5, <1>2, <1>3, BulletsEnd
  <2>7. ~PipeStart(dated)
    BY <2>3 DEF DateStart, PipeStart
  <2>8. /\ WhoOf(dated) = who /\ EntryAt(dated) = Entry(who, dated, description)
        /\ Listed(dated) <=> who.company # None
    BY <2>3, <2>6, <2>7 DEF EntryAt, WhoOf, Listed
  <2> HIDE DEF who
  <2>9. experience' = EntriesUpTo(dated)
    BY <2>1, <2>3, <2>8, <1>2, EntriesGrow DEF Built
  <2>10. EntriesUpTo(c - 1) = EntriesUpTo(dated)
    <3>1. c - 1 \in Nat /\ dated <= c - 1
      BY <2>3, <1>2
    <3> QED BY <2>3, <2>4, <3>1, <1>2, EntriesStay
  <2>11. HeadersOf(c) = <<>>
    <3>1. dated \in 1..(c - 1) /\ Starts(dated)
      BY <2>3, <1>2 DEF Starts
    <3> QED BY <2>3, <3>1, <1>2, NoHeaders
  <2>12. Current' = c /\ FirstPending' = FirstPending
    BY <2>1 DEF Current, FirstPending
  <2>13. Undated(c)'
    BY <2>1, <2>9, <2>10, <2>11, SectionKept DEF Undated, Built
  <2>14. PendingInv'
    BY <2>1, <2>12, <1>1, SectionKept DEF PendingInv
  <2> QED BY <2>1, <2>12, <2>13, <2>14, <1>1, SectionKept DEF GroupInv, Running
<1>5. CASE EndNewline
  <2>1. /\ dated = None /\ k > Len(pending) /\ pending' = <<>> /\ k' = 1 /\ header' = <<>>
        /\ UNCHANGED <<section, dated, description, experience>>
        /\ IF i <= Len(section) THEN flow' = "pipe" /\ i' = i + 1
           ELSE flow' = "done" /\ i' = i
    BY <1>5 DEF EndNewline
  <2>2. c = i /\ Undated(c) /\ Built(i - 1) /\ description = <<>>
    BY <2>1, <1>1, <1>2 DEF Running, Undated
  <2>3. PendingInv'
    BY <2>1, <1>1 DEF PendingInv
  <2>4. CASE i <= Len(section)
    <3>1. PipeStart(i) /\ flow' = "pipe" /\ i' = i + 1
      BY <2>1, <2>4, <1>1 DEF Running
    <3>2. PICK p \in Nat : p = i
      BY <1>2
    <3>3. Follow(p, i') /\ Between(p, i') = <<>>
      <4>1. (p + 1)..(i' - 1) = {}
        BY <3>1, <3>2
      <4> QED BY <4>1, <1>2, NoPositions DEF Follow, Between
    <3>4. p = i' - 1 - Len(description') /\ p \in 1..(i' - 1)
      <4>1. Len(description') = 0
        BY <2>1, <2>2
      <4> QED BY <3>1, <3>2, <4>1, <1>2
    <3>5. Attaching(p)'
      <4>1. PipeStart(p)' /\ Built(p - 1)'
        BY <2>1, <2>2, <3>1, <3>2, SectionKept DEF Built
      <4>2. Follow(p, i)' /\ (description = Between(p, i))'
        BY <2>1, <2>2, <3>3 DEF Follow, Between, Positions, IsBullet
      <4> QED BY <3>4, <4>1, <4>2 DEF Attaching
    <3> QED BY <2>3, <3>1, <3>4, <3>5 DEF GroupInv
  <2>5. CASE i > Len(section)
    <3>1. i - 1 = Len(section) /\ flow' = "done" /\ i' = i
      BY <2>1, <2>5, <1>2, <1>3
    <3> QED BY <2>1, <2>2, <2>3, <3>1, SectionKept DEF GroupInv, Built
  <2> QED BY <2>4, <2>5, <1>2, <1>3
<1> QED BY <1>4, <1>5

LEMMA ExperienceStep ==
  ASSUME ExperienceTyped, GroupInv, ExperienceNext PROVE GroupInv'
BY RouteStep, PipeStep, NewlineStep, NewlineEnds DEF ExperienceNext

\* Before the first line nothing is built.
Fresh ==
  /\ LinesKnown
  /\ i = 1 /\ k = 1 /\ pending = <<>> /\ flow = "route" /\ header = <<>> /\ dated = None
  /\ description = <<>> /\ experience = <<>>

LEMMA GroupStart == Fresh => GroupInv
<1> SUFFICES ASSUME Fresh PROVE GroupInv
  OBVIOUS
<1> USE DEF Fresh
<1>1. FirstPending = 1
  BY DEF FirstPending
<1>2. EntriesUpTo(0) = <<>>
  <2> DEFINE list == [q \in DOMAIN section |-> EntryAt(q)]
             none == {q \in DOMAIN section : q <= 0 /\ Listed(q)}
  <2>1. list \in Seq({EntryAt(q) : q \in DOMAIN section}) /\ none = {}
    <3>1. none = {}
      BY DEF LinesKnown
    <3> DEFINE T == {EntryAt(q) : q \in DOMAIN section}
    <3>2. list \in [1..Len(section) -> T]
      BY DEF LinesKnown
    <3> HIDE DEF list, T
    <3>3. list \in Seq(T)
      BY <3>2, SeqDef DEF LinesKnown
    <3> QED BY <3>1, <3>3 DEF T
  <2> HIDE DEF list, none
  <2>2. At(list, none) = <<>>
    BY <2>1, AtNone
  <2> QED BY <2>2 DEF EntriesUpTo, list, none
<1>3. ~AttachedToPipe(1)
  BY DEF AttachedToPipe
<1>4. PendingInv
  BY DEF PendingInv
<1>5. Routing
  BY <1>1, <1>2, <1>3 DEF Routing, RunBegins, Built
<1> QED BY <1>4, <1>5 DEF GroupInv

ExperienceInv ==
  /\ ParserInv
  /\ GroupInv
  /\ phase = "read" => flow = "route" /\ experience = <<>>

LEMMA InitExperienceInv == Init => ExperienceInv
<1> SUFFICES ASSUME Init PROVE ExperienceInv
  OBVIOUS
<1>1. /\ section = <<>> /\ i = 1 /\ k = 1 /\ pending = <<>> /\ flow = "route"
      /\ header = <<>> /\ dated = None /\ description = <<>> /\ experience = <<>>
  BY DEF Init, ExperienceInit
<1>2. LinesKnown
  BY <1>1 DEF LinesKnown
<1> QED BY <1>1, <1>2, InitParserInv, GroupStart DEF ExperienceInv, Fresh

LEMMA NextExperienceInv == ExperienceInv /\ [Next]_vars => ExperienceInv'
<1> SUFFICES ASSUME ExperienceInv, [Next]_vars PROVE ExperienceInv'
  OBVIOUS
<1>1. ParserInv'
  BY NextParserInv DEF ExperienceInv
<1>2. CASE StartAssembly
  <2>1. /\ i = 1 /\ k = 1 /\ dated = None /\ flow = "route" /\ experience = <<>>
        /\ pending = <<>> /\ header = <<>> /\ description = <<>>
    BY <1>2 DEF StartAssembly, ExperienceInv, ParserInv, NotStarted
  <2>2. /\ UNCHANGED <<i, pending, flow, k, header, dated, description, experience>>
        /\ phase' = "lists"
    BY <1>2 DEF StartAssembly
  <2>3. LinesKnown'
    BY <1>1 DEF ParserInv, ExperienceTyped, LinesKnown
  <2>4. GroupInv'
    <3>1. Fresh'
      BY <2>1, <2>2, <2>3 DEF Fresh
    <3> QED BY <3>1, GroupStart, PTL
  <2> QED BY <1>1, <2>2, <2>4 DEF ExperienceInv
<1>3. CASE BuildExperience
  <2>1. ExperienceNext /\ phase = "assemble" /\ phase' = phase
    BY <1>3 DEF BuildExperience, mapperVars
  <2>2. GroupInv'
    BY <2>1, ExperienceStep DEF ExperienceInv, ParserInv
  <2> QED BY <1>1, <2>1, <2>2 DEF ExperienceInv
<1>4. CASE UNCHANGED experienceVars /\ (phase' = "read" => phase = "read")
  <2>1. UNCHANGED <<section, i, pending, flow, k, header, dated, description, experience>>
    BY <1>4 DEF experienceVars
  <2>2. GroupInv'
    BY <2>1, SectionKept DEF ExperienceInv, GroupInv, PendingInv, Routing, Running, Attaching,
       Undated, Dating, Built, RunBegins, FirstPending, Current
  <2> QED BY <1>1, <1>4, <2>1, <2>2 DEF ExperienceInv
<1>5. \/ StartAssembly \/ BuildExperience
      \/ UNCHANGED experienceVars /\ (phase' = "read" => phase = "read")
  BY DEF Next, vars, ReadDocument, RefuseDocument, BuildLists, BuildEducation, RefuseNameless,
         RefuseContact, MapFields, MapExperience, EndExperience, MapEducation, EndEducation,
         RefuseEntry, RefuseCandidate, BuildCandidate, Returned, EntriesUnchanged, Refuse,
         mapperVars
<1> QED BY <1>2, <1>3, <1>4, <1>5

\* Whatever the order of header lines, bullets, date lines and pipe lines, and
\* however many there are, the two loops of _build_experience_entries build
\* exactly the entries that the positions of the lines tell.
THEOREM EntriesAreGroupedHolds == Spec => []EntriesAreGrouped
<1>1. ExperienceInv => EntriesAreGrouped
  BY DEF ExperienceInv, GroupInv, Built, EntriesAreGrouped, Grouping
<1> QED BY <1>1, InitExperienceInv, NextExperienceInv, PTL DEF Spec

-----------------------------------------------------------------------------
(* The experiences of the candidate.                                       *)

\* What Positions returns holds the positions, and no other.
LEMMA PositionsHeld ==
  ASSUME LinesKnown, NEW some
  PROVE  /\ Positions(some) \in Seq(Nat)
         /\ ToSet(Positions(some)) \subseteq some
<1> DEFINE list == [q \in DOMAIN section |-> q]
           found == Positions(some)
<1>1. list \in Seq(Nat) /\ \A q \in DOMAIN list : list[q] = q
  <2>1. list \in [1..Len(section) -> Nat] /\ \A q \in DOMAIN list : list[q] = q
    BY DEF LinesKnown
  <2> HIDE DEF list
  <2> QED BY <2>1, SeqDef DEF LinesKnown
<1>2. found = At(list, some)
  BY DEF Positions
<1> HIDE DEF list, found
<1>3. PICK from : found \in Seq(Nat) /\ Picks(found, list, some, from)
  BY <1>1, <1>2, AtPicks
<1>4. \A p \in DOMAIN found : found[p] \in some
  BY <1>1, <1>3 DEF Picks
<1> QED BY <1>3, <1>4 DEF ToSet, found

\* A text made of the given lines.
TextOf(t, P) == t \in Seq(Nat \X Parts) /\ \A part \in ToSet(t) : part[1] \in P

\* Company and title are both known or both unknown, and made of the date or
\* pipe line itself and its header lines.
LEMMA WhoIsTold ==
  ASSUME LinesKnown, NEW p \in DOMAIN section, Starts(p)
  PROVE  \/ WhoOf(p).company = None /\ WhoOf(p).title = None
         \/ /\ TextOf(WhoOf(p).company, {p} \cup ToSet(HeadersOf(p)))
            /\ TextOf(WhoOf(p).title, {p} \cup ToSet(HeadersOf(p)))
<1> DEFINE P == {p} \cup ToSet(HeadersOf(p))
           h == HeadersOf(p)
<1>1. p \in Nat /\ p \in P /\ h \in Seq(Nat) /\ ToSet(h) \subseteq P
  BY PositionsHeld DEF HeadersOf, LinesKnown
<1> HIDE DEF P, h
<1>2. \A q \in Nat \cap P, part \in Parts : TextOf(<<<<q, part>>>>, P)
  <2> SUFFICES ASSUME NEW q \in Nat \cap P, NEW part \in Parts
               PROVE  TextOf(<<<<q, part>>>>, P)
    OBVIOUS
  <2> DEFINE one == <<q, part>>
  <2>1. one \in Nat \X Parts /\ one[1] = q
    OBVIOUS
  <2> HIDE DEF one
  <2>2. <<one>> \in Seq(Nat \X Parts) /\ DOMAIN <<one>> = {1} /\ <<one>>[1] = one
    BY <2>1
  <2>3. \A e \in ToSet(<<one>>) : e = one
    BY <2>2 DEF ToSet
  <2> QED BY <2>1, <2>2, <2>3 DEF TextOf, one
<1>3. \A s \in Seq(Nat) : ToSet(s) \subseteq P => TextOf(Joined(s), P)
  <2> SUFFICES ASSUME NEW s \in Seq(Nat), ToSet(s) \subseteq P PROVE TextOf(Joined(s), P)
    OBVIOUS
  <2> DEFINE t == [j \in DOMAIN s |-> <<s[j], "whole">>]
  <2>1. /\ DOMAIN t = 1..Len(s) /\ Len(s) \in Nat
        /\ \A j \in DOMAIN t : t[j] \in Nat \X Parts /\ t[j][1] = s[j] /\ j \in DOMAIN s
    BY DEF Parts
  <2>2. t \in [1..Len(s) -> Nat \X Parts]
    <3>1. t = [j \in 1..Len(s) |-> t[j]]
      OBVIOUS
    <3> HIDE DEF t
    <3> QED BY <2>1, <3>1
  <2>3. Joined(s) = t
    BY DEF Joined
  <2> HIDE DEF t
  <2>4. t \in Seq(Nat \X Parts)
    BY <2>1, <2>2, SeqDef
  <2>5. \A j \in DOMAIN s : s[j] \in P
    BY DEF ToSet
  <2>6. \A part \in ToSet(t) : part[1] \in P
    BY <2>1, <2>5 DEF ToSet
  <2> QED BY <2>3, <2>4, <2>6 DEF TextOf
<1>4. {"left", "right", "whole", "first", "rest"} \subseteq Parts
  BY DEF Parts
<1>5. \A q \in Nat \cap P :
        /\ TextOf(SplitTitleCompany(q).company, P) /\ TextOf(SplitTitleCompany(q).title, P)
        /\ TextOf(FirstAndRest(q).company, P) /\ TextOf(FirstAndRest(q).title, P)
        /\ TextOf(Whole(q), P)
  BY <1>2, <1>4 DEF SplitTitleCompany, FirstAndRest, Whole
<1>6. CASE PipeStart(p)
  <2>1. WhoOf(p) \in {Unresolved, FirstAndRest(p), SplitTitleCompany(p),
                      [company |-> Whole(p), title |-> Whole(p)]}
    BY <1>6 DEF WhoOf, PipeCompanyTitle
  <2>2. /\ TextOf([company |-> Whole(p), title |-> Whole(p)].company, P)
        /\ TextOf([company |-> Whole(p), title |-> Whole(p)].title, P)
    BY <1>1, <1>5
  <2>3. CASE WhoOf(p) = Unresolved
    BY <2>3 DEF Unresolved
  <2>4. CASE WhoOf(p) = [company |-> Whole(p), title |-> Whole(p)]
    BY <2>2, <2>4 DEF P
  <2>5. CASE WhoOf(p) \in {FirstAndRest(p), SplitTitleCompany(p)}
    BY <1>1, <1>5, <2>5 DEF P
  <2> QED BY <2>1, <2>3, <2>4, <2>5
<1>7. CASE ~PipeStart(p)
  <2>1. WhoOf(p) = ResolveCompanyTitle(h, p)
    BY <1>7 DEF WhoOf, h
  <2>2. h # <<>> => Last(h) \in P /\ Last(h) \in Nat /\ h[1] \in P /\ h[1] \in Nat
    <3> SUFFICES ASSUME h # <<>> PROVE Last(h) \in P /\ Last(h) \in Nat /\ h[1] \in P /\ h[1] \in Nat
      OBVIOUS
    <3>1. Len(h) \in DOMAIN h /\ 1 \in DOMAIN h
      BY <1>1
    <3> QED BY <1>1, <3>1 DEF Last, ToSet
  <2>3. Len(h) > 1 => Front(h) \in Seq(Nat) /\ ToSet(Front(h)) \subseteq P
    <3> SUFFICES ASSUME Len(h) > 1 PROVE Front(h) \in Seq(Nat) /\ ToSet(Front(h)) \subseteq P
      OBVIOUS
    <3>1. Front(h) \in Seq(Nat) /\ Len(Front(h)) = Len(h) - 1
          /\ \A j \in 1..(Len(h) - 1) : Front(h)[j] = h[j]
      BY <1>1 DEF Front
    <3>2. \A j \in DOMAIN Front(h) : Front(h)[j] = h[j] /\ j \in DOMAIN h
      <4>1. DOMAIN Front(h) = 1..(Len(h) - 1) /\ DOMAIN h = 1..Len(h) /\ Len(h) \in Nat
        <5> DEFINE f == Front(h)
        <5>1. f \in Seq(Nat) /\ Len(f) = Len(h) - 1
          BY <3>1
        <5> HIDE DEF f
        <5>2. DOMAIN f = 1..(Len(h) - 1)
          BY <5>1
        <5> QED BY <1>1, <5>2 DEF f
      <4> QED BY <3>1, <4>1
    <3> QED BY <1>1, <3>1, <3>2 DEF ToSet
  <2>4. \/ WhoOf(p) \in {Unresolved, SplitTitleCompany(p)}
        \/ WhoOf(p) = [company |-> Joined(h), title |-> Whole(p)]
        \/ /\ Len(h) > 1
           /\ WhoOf(p) = [company |-> Joined(Front(h)), title |-> Whole(Last(h))]
        \/ Len(h) = 1 /\ WhoOf(p) = SplitTitleCompany(h[1])
    BY <2>1 DEF ResolveCompanyTitle
  <2>5. CASE WhoOf(p) = Unresolved
    BY <2>5 DEF Unresolved
  <2>6. CASE WhoOf(p) = SplitTitleCompany(p)
    BY <1>1, <1>5, <2>6 DEF P
  <2>7. CASE WhoOf(p) = [company |-> Joined(h), title |-> Whole(p)]
    <3>1. TextOf(Joined(h), P) /\ TextOf(Whole(p), P)
      BY <1>1, <1>3, <1>5
    <3> QED BY <2>7, <3>1 DEF P
  <2>8. CASE Len(h) > 1 /\ WhoOf(p) = [company |-> Joined(Front(h)), title |-> Whole(Last(h))]
    <3>1. h # <<>>
      BY <1>1, <2>8
    <3>2. TextOf(Joined(Front(h)), P) /\ TextOf(Whole(Last(h)), P)
      BY <1>3, <1>5, <2>2, <2>3, <2>8, <3>1
    <3> QED BY <2>8, <3>2 DEF P
  <2>9. CASE Len(h) = 1 /\ WhoOf(p) = SplitTitleCompany(h[1])
    <3>1. h # <<>>
      BY <1>1, <2>9
    <3> QED BY <1>5, <2>2, <2>9, <3>1 DEF P
  <2> QED BY <2>4, <2>5, <2>6, <2>7, <2>8, <2>9
<1> QED BY <1>6, <1>7

\* Two entries take nothing from the same line.
LEMMA EntriesApart ==
  ASSUME LinesKnown, NEW p \in DOMAIN section, NEW q \in DOMAIN section, p < q,
         Starts(p), Starts(q), EntryAt(p).company # None, EntryAt(q).company # None
  PROVE  LinesOf(EntryAt(p)) \cap LinesOf(EntryAt(q)) = {}
<1> DEFINE H(m) == ToSet(HeadersOf(m))
           B(m) == ToSet(BulletsOf(m))
<1>1. ASSUME NEW m \in DOMAIN section
      PROVE  /\ H(m) \subseteq {r \in 1..(m - 1) : ~IsBullet(r) /\ \A h \in r..(m - 1) : ~Starts(h)}
             /\ B(m) \subseteq {r \in (m + 1)..Len(section) :
                                  \A h \in (m + 1)..r : IsBullet(h) /\ ~PipeStart(h)}
  BY PositionsHeld DEF HeadersOf, BulletsOf
<1>2. ASSUME NEW m \in DOMAIN section, Starts(m), EntryAt(m).company # None
      PROVE  LinesOf(EntryAt(m)) \subseteq H(m) \cup {m} \cup B(m)
  <2>1. /\ EntryAt(m).company = WhoOf(m).company /\ EntryAt(m).title = WhoOf(m).title
        /\ EntryAt(m).date = m /\ EntryAt(m).description = BulletsOf(m)
    BY DEF EntryAt, Entry
  <2>2. TextOf(EntryAt(m).company, {m} \cup H(m)) /\ TextOf(EntryAt(m).title, {m} \cup H(m))
    BY <1>2, <2>1, WhoIsTold
  <2>3. \A part \in TextsOf(EntryAt(m)) : part[1] \in {m} \cup H(m)
    BY <2>2 DEF TextsOf, TextOf
  <2> HIDE DEF H
  <2> QED BY <2>1, <2>3 DEF LinesOf
<1>3. p \in Nat /\ q \in Nat /\ Len(section) \in Nat
  BY DEF LinesKnown
<1>4. \A r \in H(q) : r \in Nat /\ r > p /\ r < q /\ ~IsBullet(r)
  <2> SUFFICES ASSUME NEW r \in H(q) PROVE r \in Nat /\ r > p /\ r < q /\ ~IsBullet(r)
    OBVIOUS
  <2>1. r \in 1..(q - 1) /\ ~IsBullet(r) /\ \A h \in r..(q - 1) : ~Starts(h)
    BY <1>1
  <2>2. ~(r <= p)
    <3> SUFFICES ASSUME r <= p PROVE FALSE
      OBVIOUS
    <3>1. p \in r..(q - 1)
      BY <1>3, <2>1
    <3> QED BY <2>1, <3>1
  <2> QED BY <1>3, <2>1, <2>2
<1>5. \A r \in B(p) : r \in Nat /\ r > p /\ r < q /\ IsBullet(r)
  <2> SUFFICES ASSUME NEW r \in B(p) PROVE r \in Nat /\ r > p /\ r < q /\ IsBullet(r)
    OBVIOUS
  <2>1. r \in (p + 1)..Len(section) /\ \A h \in (p + 1)..r : IsBullet(h) /\ ~PipeStart(h)
    BY <1>1
  <2>2. r \in (p + 1)..r
    BY <1>3, <2>1
  <2>3. ~(q <= r)
    <3> SUFFICES ASSUME q <= r PROVE FALSE
      OBVIOUS
    <3>1. q \in (p + 1)..r
      BY <1>3, <2>1
    <3> QED BY <2>1, <3>1 DEF Starts, DateStart
  <2> QED BY <1>3, <2>1, <2>2, <2>3
<1>6. (\A r \in H(p) : r \in Nat /\ r < p) /\ (\A r \in B(q) : r \in Nat /\ r > q)
  BY <1>1, <1>3
<1>7. LinesOf(EntryAt(p)) \subseteq H(p) \cup {p} \cup B(p)
      /\ LinesOf(EntryAt(q)) \subseteq H(q) \cup {q} \cup B(q)
  BY <1>2
<1> HIDE DEF H, B
<1>8. ASSUME NEW r \in LinesOf(EntryAt(p)), r \in LinesOf(EntryAt(q)) PROVE FALSE
  <2>1. r \in H(p) \/ r = p \/ r \in B(p)
    BY <1>7
  <2>2. r \in H(q) \/ r = q \/ r \in B(q)
    BY <1>7, <1>8
  <2>3. r \in H(p) \/ r = p => r \in Nat /\ r <= p
    BY <1>3, <1>6
  <2>4. r \in B(p) => r \in Nat /\ r > p /\ r < q /\ IsBullet(r)
    BY <1>5
  <2>5. r \in H(q) => r \in Nat /\ r > p /\ r < q /\ ~IsBullet(r)
    BY <1>4
  <2>6. r = q \/ r \in B(q) => r \in Nat /\ r >= q
    BY <1>3, <1>6
  <2> QED BY <1>3, <2>1, <2>2, <2>3, <2>4, <2>5, <2>6
<1> QED BY <1>8

\* Where the entries of the section stand.
EntriesAt(from) ==
  /\ \A j \in DOMAIN Grouping : /\ from[j] \in DOMAIN section /\ Listed(from[j])
                                /\ Grouping[j] = EntryAt(from[j])
  /\ \A a, b \in DOMAIN Grouping : a < b => from[a] < from[b]

LEMMA GroupingStands ==
  ASSUME LinesKnown
  PROVE  (\E T : Grouping \in Seq(T)) /\ \E from : EntriesAt(from)
<1> DEFINE list == [q \in DOMAIN section |-> EntryAt(q)]
           some == {q \in DOMAIN section : q <= Len(section) /\ Listed(q)}
           T == {EntryAt(q) : q \in DOMAIN section}
<1>1. list \in Seq(T) /\ DOMAIN list = DOMAIN section
      /\ \A q \in DOMAIN section : list[q] = EntryAt(q)
  <2>1. list \in [1..Len(section) -> T] /\ \A q \in DOMAIN section : list[q] = EntryAt(q)
    BY DEF LinesKnown
  <2> HIDE DEF list, T
  <2> QED BY <2>1, SeqDef DEF LinesKnown
<1>2. Grouping = At(list, some)
  BY DEF Grouping, EntriesUpTo
<1>3. \A q \in some : q \in DOMAIN section /\ Listed(q)
  OBVIOUS
<1> HIDE DEF list, some, T
<1>4. PICK from : Grouping \in Seq(T) /\ Picks(Grouping, list, some, from)
  BY <1>1, <1>2, AtPicks
<1>5. EntriesAt(from)
  BY <1>1, <1>3, <1>4 DEF Picks, EntriesAt
<1> QED BY <1>4, <1>5

\* An entry of the section names both company and title or neither.
LEMMA BothOrNeither ==
  ASSUME LinesKnown, NEW j \in DOMAIN Grouping
  PROVE  Grouping[j].company = None <=> Grouping[j].title = None
<1>1. PICK from : EntriesAt(from)
  BY GroupingStands
<1>2. /\ from[j] \in DOMAIN section /\ Starts(from[j]) /\ Grouping[j] = EntryAt(from[j])
  BY <1>1 DEF EntriesAt, Listed, Starts
<1>3. Grouping[j].company = WhoOf(from[j]).company /\ Grouping[j].title = WhoOf(from[j]).title
  BY <1>2 DEF EntryAt, Entry
<1>4. \A t, P : TextOf(t, P) => t # None
  BY NoneAssumption DEF TextOf
<1> QED BY <1>2, <1>3, <1>4, WhoIsTold

MappedSoFar ==
  {j \in DOMAIN experience : j < next_entry /\ Complete(experience[j])}
AllMapped == {j \in DOMAIN experience : Complete(experience[j])}

Unmapped ==
  phase \in {"read", "lists", "assemble"} =>
    experiences = <<>> /\ educations = <<>> /\ next_entry = 1
Mapping ==
  phase = "experience" =>
    /\ experiences = At(experience, MappedSoFar)
    /\ educations = <<>> /\ provenance \cap {"experiences", "education"} = {}
Mapped ==
  /\ phase \in {"education", "build", "candidate"} =>
       /\ experiences = At(experience, AllMapped)
       /\ "experiences" \in provenance <=> experiences # <<>>
  /\ phase = "education" => "education" \notin provenance
  /\ phase \in {"build", "candidate"} => ("education" \in provenance <=> educations # <<>>)

ItemsOf ==
  [skills |-> ListItems(bodies["skills"]), languages |-> Languages(bodies["languages"]),
   certifications |-> ListItems(bodies["certifications"])]

MapperInv ==
  /\ ExperienceInv
  /\ phase \in {"experience", "education", "build", "candidate"} => flow = "done"
  /\ phase \notin {"read", "lists", "refused"} => items = ItemsOf
  /\ Unmapped /\ Mapping /\ Mapped

\* An entry is mapped exactly if it is complete.
LEMMA MappingStep ==
  ASSUME MapperInv, MapExperience PROVE Mapping'
<1>1. /\ phase = "experience" /\ next_entry \in DOMAIN experience /\ next_entry' = next_entry + 1
      /\ UNCHANGED <<section, experience, educations, provenance>>
      /\ ExperienceOutcome(experience[next_entry]) # "ValidationError"
      /\ experiences' = IF ExperienceOutcome(experience[next_entry]) = "MappingError"
                        THEN experiences ELSE Append(experiences, experience[next_entry])
  BY DEF MapExperience, EntriesUnchanged, experienceVars
<1>2. /\ flow = "done" /\ experience = Grouping /\ LinesKnown
      /\ experiences = At(experience, MappedSoFar)
      /\ educations = <<>> /\ provenance \cap {"experiences", "education"} = {}
  BY <1>1 DEF MapperInv, Mapping, ExperienceInv, GroupInv, Built, Grouping, ParserInv,
              ExperienceTyped, LinesKnown
<1>3. PICK S : experience \in Seq(S)
  BY DEF MapperInv, ExperienceInv, ParserInv, ExperienceTyped
<1>4. DOMAIN experience = 1..Len(experience) /\ Len(experience) \in Nat /\ next_entry \in Nat
  BY <1>1, <1>3
<1> DEFINE entry == experience[next_entry]
<1>5. entry.company = None <=> entry.title = None
  BY <1>1, <1>2, BothOrNeither
<1>6. ExperienceOutcome(entry) = "MappingError" <=> ~Complete(entry)
  BY <1>5 DEF ExperienceOutcome, Complete
<1>7. {j \in DOMAIN experience : j < next_entry + 1 /\ Complete(experience[j])}
        = IF Complete(entry) THEN MappedSoFar \cup {next_entry} ELSE MappedSoFar
  <2>1. \A j \in DOMAIN experience : j < next_entry + 1 <=> (j < next_entry \/ j = next_entry)
    BY <1>4
  <2> QED BY <2>1, <1>1 DEF MappedSoFar
<1>8. At(experience, MappedSoFar \cup {next_entry}) = Append(At(experience, MappedSoFar), entry)
  <2>1. \A q \in DOMAIN experience \cap MappedSoFar : q < next_entry
    BY DEF MappedSoFar
  <2> QED BY <2>1, <1>1, <1>3, AtGrows
<1>9. experiences' = At(experience, {j \in DOMAIN experience :
                                       j < next_entry + 1 /\ Complete(experience[j])})
  <2> HIDE DEF entry
  <2>1. CASE Complete(entry)
    BY <2>1, <1>1, <1>2, <1>6, <1>7, <1>8 DEF entry
  <2>2. CASE ~Complete(entry)
    BY <2>2, <1>1, <1>2, <1>6, <1>7 DEF entry
  <2> QED BY <2>1, <2>2
<1>10. MappedSoFar' = {j \in DOMAIN experience : j < next_entry + 1 /\ Complete(experience[j])}
  BY <1>1 DEF MappedSoFar, Complete
<1> QED BY <1>1, <1>2, <1>9, <1>10 DEF Mapping

\* With the last entry all are mapped.
LEMMA MappingEnds ==
  ASSUME MapperInv, EndExperience PROVE Mapped'
<1>1. /\ phase = "experience" /\ next_entry = Len(experience) + 1 /\ phase' = "education"
      /\ UNCHANGED <<section, experience, experiences, educations>>
      /\ provenance' = IF experiences = <<>> THEN provenance
                       ELSE provenance \cup {"experiences"}
  BY DEF EndExperience, EntriesUnchanged, experienceVars
<1>2. /\ experiences = At(experience, MappedSoFar)
      /\ provenance \cap {"experiences", "education"} = {}
  BY <1>1 DEF MapperInv, Mapping
<1>3. DOMAIN experience = 1..Len(experience) /\ Len(experience) \in Nat
  BY DEF MapperInv, ExperienceInv, ParserInv, ExperienceTyped
<1>4. AllMapped = MappedSoFar
  BY <1>1, <1>3 DEF AllMapped, MappedSoFar
<1>5. AllMapped' = AllMapped
  BY <1>1 DEF AllMapped, Complete
<1>6. "experiences" \in provenance' <=> experiences' # <<>>
  BY <1>1, <1>2
<1>7. "education" \notin provenance'
  BY <1>1, <1>2
<1> QED BY <1>1, <1>2, <1>4, <1>5, <1>6, <1>7 DEF Mapped

LEMMA InitMapperInv == Init => MapperInv
<1> SUFFICES ASSUME Init PROVE MapperInv
  OBVIOUS
<1>1. phase = "read" /\ experiences = <<>> /\ educations = <<>> /\ next_entry = 1
  BY DEF Init
<1> QED BY <1>1, InitExperienceInv DEF MapperInv, Unmapped, Mapping, Mapped

\* The sections are read and the lists built before anything is mapped.
LEMMA NothingMapped ==
  ASSUME MapperInv, ExperienceInv',
         ReadDocument \/ StartAssembly \/ BuildLists \/ BuildExperience \/ BuildEducation
  PROVE  MapperInv'
<1>1. /\ phase \in {"read", "lists", "assemble"} /\ phase' \in {"read", "lists", "assemble"}
      /\ UNCHANGED <<experiences, educations, next_entry>>
  BY DEF ReadDocument, StartAssembly, BuildLists, BuildExperience, BuildEducation, mapperVars
<1>2. phase' = "assemble" => items' = ItemsOf'
  <2>1. CASE BuildLists
    BY <2>1 DEF BuildLists, ItemsOf, documentVars
  <2>2. CASE BuildExperience \/ BuildEducation
    <3>1. /\ phase = "assemble" /\ UNCHANGED <<bodies, items>>
      BY <2>2 DEF BuildExperience, BuildEducation, mapperVars, documentVars
    <3> QED BY <3>1 DEF MapperInv, ItemsOf
  <2>3. CASE ReadDocument \/ StartAssembly
    BY <2>3 DEF ReadDocument, StartAssembly, mapperVars
  <2> QED BY <2>1, <2>2, <2>3
<1>3. Unmapped'
  BY <1>1 DEF MapperInv, Unmapped
<1>4. Mapping' /\ Mapped'
  BY <1>1 DEF Mapping, Mapped
<1> QED BY <1>1, <1>2, <1>3, <1>4 DEF MapperInv

\* The other steps of the mapper.
LEMMA OtherMapperSteps ==
  ASSUME MapperInv, MapFields \/ MapEducation \/ EndEducation \/ BuildCandidate
  PROVE  Mapping' /\ Mapped'
<1>1. UNCHANGED <<section, experience, experiences>>
  BY DEF MapFields, MapEducation, EndEducation, BuildCandidate, EntriesUnchanged, experienceVars
<1>2. AllMapped' = AllMapped
  BY <1>1 DEF AllMapped, Complete
<1>3. CASE MapFields
  <2>1. /\ phase = "assemble" /\ phase' = "experience"
        /\ UNCHANGED <<next_entry, educations>>
        /\ provenance' \subseteq {"name", "contact", "location", "skills", "languages"}
    BY <1>3 DEF MapFields, Assembled, Recorded
  <2>2. experiences = <<>> /\ educations = <<>> /\ next_entry = 1
    BY <2>1 DEF MapperInv, Unmapped
  <2>3. DOMAIN experience = 1..Len(experience) /\ \E S : experience \in Seq(S)
    BY DEF MapperInv, ExperienceInv, ParserInv, ExperienceTyped
  <2>4. MappedSoFar' = {}
    <3>1. ~\E j \in DOMAIN experience : j < 1
      BY <2>3
    <3> QED BY <1>1, <2>1, <2>2, <3>1 DEF MappedSoFar
  <2>5. At(experience, {}) = <<>>
    BY <2>3, AtNone
  <2>6. provenance' \cap {"experiences", "education"} = {}
    BY <2>1
  <2> QED BY <1>1, <2>1, <2>2, <2>4, <2>5, <2>6 DEF Mapping, Mapped
<1>4. CASE MapEducation
  <2>1. phase = "education" /\ phase' = phase /\ provenance' = provenance
    BY <1>4 DEF MapEducation
  <2> QED BY <1>1, <1>2, <2>1 DEF MapperInv, Mapping, Mapped
<1>5. CASE EndEducation
  <2>1. /\ phase = "education" /\ phase' = "build" /\ educations' = educations
        /\ provenance' = IF educations = <<>> THEN provenance ELSE provenance \cup {"education"}
    BY <1>5 DEF EndEducation
  <2>2. /\ experiences = At(experience, AllMapped) /\ "education" \notin provenance
        /\ "experiences" \in provenance <=> experiences # <<>>
    BY <2>1 DEF MapperInv, Mapped
  <2>3. /\ "experiences" \in provenance' <=> experiences # <<>>
        /\ "education" \in provenance' <=> educations # <<>>
    BY <2>1, <2>2
  <2> QED BY <1>1, <1>2, <2>1, <2>2, <2>3 DEF Mapping, Mapped
<1>6. CASE BuildCandidate
  <2>1. /\ phase = "build" /\ phase' = "candidate" /\ educations' = educations
        /\ provenance' \in {provenance, provenance \cup {"certifications"}}
    BY <1>6 DEF BuildCandidate, Recorded
  <2>2. /\ experiences = At(experience, AllMapped)
        /\ "experiences" \in provenance <=> experiences # <<>>
        /\ "education" \in provenance <=> educations # <<>>
    BY <2>1 DEF MapperInv, Mapped
  <2>3. /\ "experiences" \in provenance' <=> experiences # <<>>
        /\ "education" \in provenance' <=> educations # <<>>
    BY <2>1, <2>2
  <2> QED BY <1>1, <1>2, <2>1, <2>2, <2>3 DEF Mapping, Mapped
<1> QED BY <1>3, <1>4, <1>5, <1>6

LEMMA NextMapperInv == MapperInv /\ [Next]_vars => MapperInv'
<1> SUFFICES ASSUME MapperInv, [Next]_vars PROVE MapperInv'
  OBVIOUS
<1>1. ExperienceInv'
  BY NextExperienceInv DEF MapperInv
<1>2. CASE ReadDocument \/ StartAssembly \/ BuildLists \/ BuildExperience \/ BuildEducation
  BY <1>1, <1>2, NothingMapped
<1>3. CASE \/ RefuseDocument \/ RefuseNameless \/ RefuseContact \/ RefuseEntry
           \/ RefuseCandidate
  <2>1. phase' = "refused"
    BY <1>3 DEF RefuseDocument, RefuseNameless, RefuseContact, RefuseEntry, RefuseCandidate,
                Refuse
  <2> QED BY <1>1, <2>1 DEF MapperInv, Unmapped, Mapping, Mapped
<1>4. CASE \/ MapFields \/ MapExperience \/ EndExperience
           \/ MapEducation \/ EndEducation \/ BuildCandidate
  <2>1. /\ phase \in {"assemble", "experience", "education", "build"}
        /\ phase' \in {"experience", "education", "build", "candidate"}
        /\ flow = "done" /\ UNCHANGED <<flow, bodies, items>>
    BY <1>4 DEF MapFields, MapExperience, EndExperience, MapEducation, EndEducation,
                BuildCandidate, EntriesUnchanged, Assembled, MapperInv, documentVars,
                experienceVars
  <2>2. Mapping' /\ Mapped'
    <3>1. CASE MapExperience
      <4>1. phase' = "experience"
        BY <3>1 DEF MapExperience
      <4> QED BY <3>1, <4>1, MappingStep DEF Mapped
    <3>2. CASE EndExperience
      <4>1. phase' = "education"
        BY <3>2 DEF EndExperience
      <4> QED BY <3>2, <4>1, MappingEnds DEF Mapping
    <3> QED BY <1>4, <3>1, <3>2, OtherMapperSteps
  <2>3. items' = ItemsOf'
    BY <2>1 DEF MapperInv, ItemsOf
  <2> QED BY <1>1, <2>1, <2>2, <2>3 DEF MapperInv, Unmapped
<1>5. CASE UNCHANGED vars
  <2>1. UNCHANGED <<phase, flow, bodies, items, section, experience, next_entry, experiences,
                    educations, provenance>>
    BY <1>5 DEF vars, documentVars, experienceVars, mapperVars
  <2>2. MappedSoFar' = MappedSoFar /\ AllMapped' = AllMapped /\ ItemsOf' = ItemsOf
    BY <2>1 DEF MappedSoFar, AllMapped, Complete, ItemsOf
  <2> QED BY <1>1, <2>1, <2>2 DEF MapperInv, Unmapped, Mapping, Mapped
<1> QED BY <1>2, <1>3, <1>4, <1>5 DEF Next, Returned

\* The candidate the parser returns has one experience for each group of lines
\* that names company and title and has a readable date, in the order of the
\* resume, and no line speaks for two of them; and the fields that
\* ResumeMapper records are those it has entries for.
THEOREM CandidateTellsTheResumeHolds == Spec => []CandidateTellsTheResume
<1>1. MapperInv => CandidateTellsTheResume
  <2> SUFFICES ASSUME MapperInv, phase = "candidate"
               PROVE  /\ experiences = At(Grouping, {j \in DOMAIN Grouping : Complete(Grouping[j])})
                      /\ \A a, b \in DOMAIN experiences :
                           a # b => LinesOf(experiences[a]) \cap LinesOf(experiences[b]) = {}
                      /\ \A a \in DOMAIN experiences : \A b \in DOMAIN experiences :
                           a < b => experiences[a].date < experiences[b].date
                      /\ "experiences" \in provenance <=> experiences # <<>>
                      /\ "education" \in provenance <=> educations # <<>>
    BY DEF CandidateTellsTheResume
  <2> DEFINE some == {j \in DOMAIN Grouping : Complete(Grouping[j])}
  <2>1. /\ experience = Grouping /\ LinesKnown
        /\ experiences = At(experience, AllMapped)
        /\ "experiences" \in provenance <=> experiences # <<>>
        /\ "education" \in provenance <=> educations # <<>>
    BY DEF MapperInv, Mapped, ExperienceInv, GroupInv, Built, Grouping, ParserInv,
           ExperienceTyped, LinesKnown
  <2>2. experiences = At(Grouping, some)
    BY <2>1 DEF AllMapped
  <2>3. PICK from : EntriesAt(from)
    BY <2>1, GroupingStands
  <2>4. PICK T : Grouping \in Seq(T)
    BY <2>1, GroupingStands
  <2>5. PICK place : experiences \in Seq(T) /\ Picks(experiences, Grouping, some, place)
    BY <2>2, <2>4, AtPicks
  <2>6. DOMAIN experiences = 1..Len(experiences) /\ Len(experiences) \in Nat
    BY <2>5
  <2>7. ASSUME NEW a \in DOMAIN experiences
        PROVE  /\ place[a] \in DOMAIN Grouping /\ experiences[a] = EntryAt(from[place[a]])
               /\ from[place[a]] \in DOMAIN section /\ Starts(from[place[a]])
               /\ EntryAt(from[place[a]]).company # None
               /\ experiences[a].date = from[place[a]]
    <3>1. /\ place[a] \in DOMAIN Grouping \cap some /\ experiences[a] = Grouping[place[a]]
      BY <2>5 DEF Picks
    <3>2. /\ Complete(Grouping[place[a]])
          /\ Grouping[place[a]] = EntryAt(from[place[a]])
          /\ from[place[a]] \in DOMAIN section /\ Listed(from[place[a]])
      BY <2>3, <3>1 DEF EntriesAt
    <3>3. EntryAt(from[place[a]]).date = from[place[a]]
      BY DEF EntryAt, Entry
    <3> QED BY <3>1, <3>2, <3>3 DEF Complete, Listed, Starts
  <2>8. ASSUME NEW a \in DOMAIN experiences, NEW b \in DOMAIN experiences, a < b
        PROVE  from[place[a]] < from[place[b]]
    BY <2>3, <2>5, <2>7, <2>8 DEF Picks, EntriesAt
  <2>9. ASSUME NEW a \in DOMAIN experiences, NEW b \in DOMAIN experiences, a < b
        PROVE  LinesOf(experiences[a]) \cap LinesOf(experiences[b]) = {}
    BY <2>1, <2>7, <2>8, <2>9, EntriesApart
  <2>10. ASSUME NEW a \in DOMAIN experiences, NEW b \in DOMAIN experiences, a # b
         PROVE  LinesOf(experiences[a]) \cap LinesOf(experiences[b]) = {}
    <3>1. a < b \/ b < a
      BY <2>6, <2>10
    <3> QED BY <2>9, <3>1
  <2>11. \A a \in DOMAIN experiences : \A b \in DOMAIN experiences :
           a < b => experiences[a].date < experiences[b].date
    BY <2>7, <2>8
  <2> QED BY <2>1, <2>2, <2>10, <2>11
<1> QED BY <1>1, InitMapperInv, NextMapperInv, PTL DEF Spec

-----------------------------------------------------------------------------
(* The lines of a document are those of its spans.                         *)

\* The key by which two spans are sorted, the earlier first where it is alike.
Precedes(a, b, p, q) ==
  \/ a[1] < b[1]
  \/ a[1] = b[1] /\ a[2] < b[2]
  \/ a[1] = b[1] /\ a[2] = b[2] /\ a[3] < b[3]
  \/ a[1] = b[1] /\ a[2] = b[2] /\ a[3] = b[3] /\ p < q

LEMMA PlaceTyped ==
  ASSUME NEW span \in Spans
  PROVE  Place(span) \in Nat \X Nat \X Nat
BY DEF Place, Spans, SourceRank

\* Before is a strict total order of the spans.
LEMMA BeforeIsOrder ==
  ASSUME resume \in Resumes
  PROVE  /\ DOMAIN resume.spans = 1..Len(resume.spans) /\ Len(resume.spans) \in Nat
         /\ \A p, q \in DOMAIN resume.spans : p # q => Before(p, q) \/ Before(q, p)
         /\ \A p \in DOMAIN resume.spans : ~Before(p, p)
         /\ \A p, q, r \in DOMAIN resume.spans :
              Before(p, q) /\ Before(q, r) => Before(p, r)
<1> DEFINE D == DOMAIN resume.spans
           place == [p \in D |-> Place(resume.spans[p])]
<1>1. /\ resume.spans \in Seq(Spans) /\ DOMAIN resume.spans = 1..Len(resume.spans)
      /\ Len(resume.spans) \in Nat
  BY SpansAreSequences
<1>2. /\ place \in [D -> Nat \X Nat \X Nat] /\ D \subseteq Nat
      /\ \A p \in D : place[p] = Place(resume.spans[p])
  <2>1. \A p \in D : resume.spans[p] \in Spans
    BY <1>1
  <2>2. \A p \in D : Place(resume.spans[p]) \in Nat \X Nat \X Nat
    BY <2>1, PlaceTyped
  <2> QED BY <1>1, <2>2
<1>3. ASSUME NEW p \in D, NEW q \in D
      PROVE  Before(p, q) <=> Precedes(place[p], place[q], p, q)
  <2> DEFINE a == place[p]
             b == place[q]
  <2>1. /\ a \in Nat \X Nat \X Nat /\ b \in Nat \X Nat \X Nat
        /\ a = Place(resume.spans[p]) /\ b = Place(resume.spans[q])
    BY <1>2
  <2>2. Before(p, q) <=> \/ \E c \in 1..3 : a[c] < b[c] /\ \A d \in 1..(c - 1) : a[d] = b[d]
                         \/ a = b /\ p < q
    BY <2>1 DEF Before
  <2> HIDE DEF a, b
  <2>3. (\E c \in 1..3 : a[c] < b[c] /\ \A d \in 1..(c - 1) : a[d] = b[d])
          <=> \/ a[1] < b[1]
              \/ a[1] = b[1] /\ a[2] < b[2]
              \/ a[1] = b[1] /\ a[2] = b[2] /\ a[3] < b[3]
    <3>1. 1..3 = {1, 2, 3} /\ 1..(1 - 1) = {} /\ 1..(2 - 1) = {1} /\ 1..(3 - 1) = {1, 2}
      OBVIOUS
    <3> QED BY <3>1
  <2>4. a = b <=> a[1] = b[1] /\ a[2] = b[2] /\ a[3] = b[3]
    BY <2>1
  <2>5. Before(p, q) <=> Precedes(a, b, p, q)
    BY <2>2, <2>3, <2>4 DEF Precedes
  <2> QED BY <2>5 DEF a, b
<1> HIDE DEF D, place
<1>4. \A p \in D : place[p][1] \in Nat /\ place[p][2] \in Nat /\ place[p][3] \in Nat /\ p \in Nat
  BY <1>2
<1>5. /\ \A p, q \in D : p # q => Before(p, q) \/ Before(q, p)
      /\ \A p \in D : ~Before(p, p)
  BY <1>3, <1>4 DEF Precedes
<1>6. ASSUME NEW p \in D, NEW q \in D, NEW r \in D, Before(p, q), Before(q, r)
      PROVE  Before(p, r)
  <2>1. /\ Precedes(place[p], place[q], p, q) /\ Precedes(place[q], place[r], q, r)
    BY <1>3, <1>6
  <2>2. Precedes(place[p], place[r], p, r)
    BY <1>4, <2>1 DEF Precedes
  <2> QED BY <1>3, <2>2
<1> QED BY <1>1, <1>5, <1>6 DEF D

\* A span is sorted to every position: there are as many ranks as spans, and no
\* two spans have the same.
LEMMA RanksAreTaken ==
  ASSUME resume \in Resumes
  PROVE  \A p \in DOMAIN resume.spans : \E q \in DOMAIN resume.spans : Rank(q) = p - 1
<1> DEFINE n == Len(resume.spans)
           D == 1..n
           Earlier(q) == {r \in D : Before(r, q)}
           rank == [q \in D |-> Rank(q)]
<1>1. /\ DOMAIN resume.spans = D /\ n \in Nat
      /\ \A p, q \in D : p # q => Before(p, q) \/ Before(q, p)
      /\ \A p \in D : ~Before(p, p)
      /\ \A p, q, r \in D : Before(p, q) /\ Before(q, r) => Before(p, r)
  BY BeforeIsOrder
<1>2. IsFiniteSet(D) /\ Cardinality(D) = n
  BY <1>1, FS_Interval
<1>3. \A q \in D : Rank(q) = Cardinality(Earlier(q))
  BY <1>1 DEF Rank
<1> HIDE DEF n
<1>4. ASSUME NEW q \in D
      PROVE  /\ Earlier(q) \subseteq D /\ Earlier(q) # D
             /\ IsFiniteSet(Earlier(q)) /\ Rank(q) \in 0..(n - 1)
  <2>1. Earlier(q) \subseteq D /\ Earlier(q) # D
    BY <1>1
  <2>2. /\ IsFiniteSet(Earlier(q)) /\ Cardinality(Earlier(q)) \in Nat
        /\ Cardinality(Earlier(q)) < n
    BY <1>2, <2>1, FS_Subset, FS_CardinalityType
  <2> QED BY <1>1, <1>3, <2>1, <2>2
<1>5. \A q \in D : Rank(q) \in Int
  <2> SUFFICES ASSUME NEW q \in D PROVE Rank(q) \in Int
    OBVIOUS
  <2>1. Rank(q) \in 0..(n - 1) /\ n \in Nat
    BY <1>1, <1>4
  <2> QED BY <2>1
<1>6. ASSUME NEW p \in D, NEW q \in D, Before(p, q) PROVE Rank(p) < Rank(q)
  <2>1. Earlier(p) \subseteq Earlier(q) /\ Earlier(p) # Earlier(q)
    BY <1>1, <1>6
  <2>2. /\ Cardinality(Earlier(p)) <= Cardinality(Earlier(q))
        /\ Cardinality(Earlier(p)) # Cardinality(Earlier(q))
    BY <1>4, <2>1, FS_Subset
  <2>3. \A r \in D : Cardinality(Earlier(r)) \in Int
    BY <1>3, <1>5
  <2> HIDE DEF Earlier
  <2> QED BY <1>3, <2>2, <2>3
<1>7. rank \in [D -> 0..(n - 1)] /\ \A p, q \in D : p # q => rank[p] # rank[q]
  <2>1. \A p \in D : Rank(p) \in Int
    BY <1>5
  <2>2. \A p, q \in D : p # q => Rank(p) < Rank(q) \/ Rank(q) < Rank(p)
    BY <1>1, <1>6
  <2>3. \A p, q \in D : p # q => Rank(p) # Rank(q)
    BY <2>1, <2>2
  <2> QED BY <1>4, <2>3
<1>8. rank \in Injection(D, 0..(n - 1))
  BY <1>7 DEF Injection, IsInjective
<1>9. IsFiniteSet(0..(n - 1)) /\ Cardinality(0..(n - 1)) = n
  <2> DEFINE last == n - 1
  <2>1. last \in Int /\ (0 > last <=> n = 0) /\ last - 0 + 1 = n
    BY <1>1
  <2> HIDE DEF last
  <2>2. IsFiniteSet(0..last) /\ Cardinality(0..last) = n
    BY <2>1, FS_Interval
  <2> QED BY <2>2 DEF last
<1>10. rank \in Surjection(D, 0..(n - 1))
  BY <1>2, <1>8, <1>9, FS_Injection
<1> SUFFICES ASSUME NEW p \in D PROVE \E q \in D : Rank(q) = p - 1
  BY <1>1
<1>11. p - 1 \in 0..(n - 1)
  BY <1>1
<1>12. \E q \in D : rank[q] = p - 1
  BY <1>10, <1>11 DEF Surjection
<1> QED BY <1>12

\* Every line extracted is a line of a span, with a marker or without.
LEMMA ExtractedLines ==
  ASSUME resume \in Resumes, NEW p \in DOMAIN Extracted
  PROVE  Extracted[p].line \in Line
<1>1. p \in DOMAIN resume.spans /\ resume.spans \in Seq(Spans)
  BY SpansAreSequences DEF Extracted
<1> DEFINE q == CHOOSE q \in DOMAIN resume.spans : Rank(q) = p - 1
<1>2. q \in DOMAIN resume.spans
  BY <1>1, RanksAreTaken
<1>3. Extracted[p].line = LineOf(resume.spans[q])
  BY <1>1 DEF Extracted
<1> HIDE DEF q
<1>4. resume.spans[q] \in Spans
  BY <1>1, <1>2
<1> QED BY <1>3, <1>4, MarkedIsLine DEF LineOf, Spans

\* The text and the bodies of its sections hold lines.
LinesInv ==
  /\ \A p \in DOMAIN text : text[p].line \in Line
  /\ \A s \in SectionName : bodies[s] \in Seq(Line)

LEMMA BodyHoldsLines ==
  ASSUME TextIsSequence, \A p \in DOMAIN text : text[p].line \in Line,
         NEW start \in Nat, NEW end \in 1..(Len(text) + 1), start < end
  PROVE  Body(start, end) \in Seq(Line)
<1> DEFINE n == end - start - 1
<1>1. n \in Nat /\ \A j \in 1..n : start + j \in DOMAIN text
  BY DEF TextIsSequence
<1>2. Body(start, end) \in [1..n -> Line]
  BY <1>1 DEF Body
<1> HIDE DEF n
<1> QED BY <1>1, <1>2, SeqDef

\* The document's steps keep it so.
LEMMA LinesStep ==
  ASSUME DocumentInv, LinesInv, DocumentNext
  PROVE  LinesInv'
<1>1. resume \in Resumes /\ TextIsSequence /\ header_at \in 0..Len(text) /\ Len(text) \in Nat
      /\ DOMAIN bodies = SectionName
  BY DEF DocumentInv, TextIsSequence
<1>2. CASE ValidateFile \/ DetectName \/ EndDetection
  BY <1>2 DEF LinesInv, ValidateFile, DetectName, EndDetection
<1>3. CASE ExtractText
  <2>1. bodies' = bodies /\ (text' = text \/ text' = Extracted)
    BY <1>3 DEF ExtractText
  <2>2. \A p \in DOMAIN Extracted : Extracted[p].line \in Line
    BY <1>1, ExtractedLines
  <2> QED BY <2>1, <2>2 DEF LinesInv
<1>4. CASE DetectSection
  <2>1. PICK start \in (header_at + 1)..Len(text), end \in (header_at + 2)..(Len(text) + 1) :
          start < end /\ bodies' = SetBody(HeaderAt(start), Body(start, end))
    BY <1>4 DEF DetectSection
  <2>2. text' = text
    BY <1>4 DEF DetectSection
  <2> DEFINE section_ == HeaderAt(start)
             body == Body(start, end)
  <2>3. body \in Seq(Line)
    BY <1>1, <2>1, BodyHoldsLines DEF LinesInv
  <2>4. bodies' = bodies \/ bodies' = [bodies EXCEPT ![section_] = body]
    BY <2>1 DEF SetBody
  <2> HIDE DEF section_, body
  <2> QED BY <1>1, <2>2, <2>3, <2>4 DEF LinesInv
<1> QED BY <1>2, <1>3, <1>4 DEF DocumentNext

LEMMA InitLinesInv == Init => LinesInv
BY EmptySeq DEF Init, DocumentInit, LinesInv

LEMMA NextLinesInv == DocumentInv /\ LinesInv /\ [Next]_vars => LinesInv'
<1> SUFFICES ASSUME DocumentInv, LinesInv, [Next]_vars PROVE LinesInv'
  OBVIOUS
<1>1. CASE ReadDocument
  BY <1>1, LinesStep DEF ReadDocument
<1>2. CASE UNCHANGED documentVars
  BY <1>2 DEF LinesInv, documentVars
<1>3. ReadDocument \/ UNCHANGED documentVars
  BY DEF Next, vars, RefuseDocument, StartAssembly, BuildLists, BuildExperience, BuildEducation,
         RefuseNameless, RefuseContact, MapFields, MapExperience, EndExperience, MapEducation,
         EndEducation, RefuseEntry, RefuseCandidate, BuildCandidate, Returned, EntriesUnchanged
<1> QED BY <1>1, <1>2, <1>3

-----------------------------------------------------------------------------
(* The lists: what the extractors' loops make of the texts.                *)

\* The loop that keeps what is new, step by step.
LEMMA DistinctLoop ==
  ASSUME NEW T, NEW items_ \in Seq(Seq(T))
  PROVE  \E kept \in [0..Len(items_) -> Seq(Seq(T))] :
           /\ kept[0] = <<>>
           /\ \A n \in 1..Len(items_) : kept[n] = KeepNew(kept[n - 1], items_[n])
           /\ Distinct(items_) = kept[Len(items_)]
<1> DEFINE l == Len(items_)
           S == Seq(Seq(T))
           base == <<>>
           step == [x \in S \X (1..l) |-> KeepNew(x[1], items_[x[2]])]
           Solves(f) == f = [n \in 0..l |-> IF n = 0 THEN <<>> ELSE KeepNew(f[n - 1], items_[n])]
<1>1. l \in Nat /\ base \in S /\ \A n \in 1..l : items_[n] \in Seq(T)
  OBVIOUS
<1>2. \A kept \in S, n \in 1..l : KeepNew(kept, items_[n]) \in S
  BY <1>1 DEF KeepNew
<1> HIDE DEF l, S, base
<1>3. /\ step \in [S \X (1..l) -> S]
      /\ \A kept \in S, n \in 1..l : step[<<kept, n>>] = KeepNew(kept, items_[n])
  BY <1>2
<1> HIDE DEF step
<1>4. PICK f : f \in [0..l -> S] /\ f[0] = base /\ \A n \in 1..l : f[n] = step[<<f[n - 1], n>>]
  <2>1. \E f : Runs(f, l, S, base, step)
    BY <1>1, <1>3, LoopExists
  <2> QED BY <2>1 DEF Runs
<1>5. \A n \in 1..l : n \in 0..l /\ n - 1 \in 0..l /\ n # 0
  BY <1>1
<1>6. \A n \in 0..l : n = 0 \/ n \in 1..l
  BY <1>1
<1>7. Solves(f)
  <2>1. \A n \in 1..l : f[n] = KeepNew(f[n - 1], items_[n])
    BY <1>3, <1>4, <1>5
  <2>2. \A n \in 0..l : f[n] = IF n = 0 THEN <<>> ELSE KeepNew(f[n - 1], items_[n])
    BY <1>4, <1>6, <2>1 DEF base
  <2> QED BY <1>4, <2>2
<1>8. \E kept : Solves(kept) /\ Distinct(items_) = kept[l]
  BY <1>7 DEF Distinct, l
<1>9. PICK kept : Solves(kept) /\ Distinct(items_) = kept[l]
  BY <1>8
<1>10. \A n \in 0..l : kept[n] = IF n = 0 THEN <<>> ELSE KeepNew(kept[n - 1], items_[n])
  BY <1>9
<1>11. kept = [n \in 0..l |-> kept[n]]
  BY <1>9
<1>12. kept[0] = base /\ \A n \in 1..l : kept[n] = KeepNew(kept[n - 1], items_[n])
  BY <1>1, <1>5, <1>10 DEF base
<1>13. kept \in [0..l -> S]
  <2>1. \A n \in 1..l : kept[n - 1] \in S => kept[n] \in S
    BY <1>2, <1>12
  <2> HIDE DEF Solves
  <2> QED BY <1>1, <1>11, <1>12, <2>1, LoopTyped
<1> QED BY <1>9, <1>12, <1>13 DEF l, S, base

\* A list that is not empty is its front and its last element.
LEMMA FrontAndLast ==
  ASSUME NEW T, NEW list \in Seq(T), list # <<>>
  PROVE  /\ Front(list) \in Seq(T) /\ Last(list) \in T
         /\ Len(Front(list)) = Len(list) - 1
         /\ \A j \in 1..(Len(list) - 1) : Front(list)[j] = list[j]
         /\ list = Append(Front(list), Last(list))
<1> DEFINE n == Len(list)
<1>1. n \in Nat /\ n # 0 /\ DOMAIN list = 1..n
  OBVIOUS
<1>2. /\ Front(list) \in Seq(T) /\ Len(Front(list)) = n - 1
      /\ \A j \in 1..(n - 1) : Front(list)[j] = list[j]
  BY <1>1 DEF Front
<1>3. Last(list) \in T /\ Last(list) = list[n]
  BY <1>1 DEF Last
<1> DEFINE front == Front(list)
           last == Last(list)
           both == Append(front, last)
<1> HIDE DEF n, front, last
<1>4. both \in Seq(T) /\ Len(both) = n /\ both[n] = last /\ \A j \in 1..(n - 1) : both[j] = front[j]
  BY <1>1, <1>2, <1>3 DEF front, last
<1>5. \A j \in 1..n : both[j] = list[j]
  BY <1>1, <1>2, <1>3, <1>4 DEF front, last
<1>6. list = both
  BY <1>4, <1>5, SeqEqual DEF n
<1> QED BY <1>2, <1>3, <1>6 DEF n, front, last

LEMMA JoinedText ==
  ASSUME NEW T, NEW joined \in Seq(Seq(T)), NEW text_ \in Seq(T)
  PROVE  JoinNext(joined, text_) \in Seq(Seq(T))
<1>1. CASE joined # <<>> /\ LeavesOpen(Last(joined))
  <2>1. Front(joined) \in Seq(Seq(T)) /\ Last(joined) \in Seq(T)
    BY <1>1, FrontAndLast
  <2> QED BY <1>1, <2>1 DEF JoinNext
<1>2. CASE ~(joined # <<>> /\ LeavesOpen(Last(joined)))
  BY <1>2 DEF JoinNext
<1> QED BY <1>1, <1>2

\* The loop that joins the lines, step by step.
LEMMA JoinLoop ==
  ASSUME NEW T, NEW texts \in Seq(Seq(T))
  PROVE  \E joined \in [0..Len(texts) -> Seq(Seq(T))] :
           /\ joined[0] = <<>>
           /\ \A n \in 1..Len(texts) : joined[n] = JoinNext(joined[n - 1], texts[n])
           /\ JoinDanglingParens(texts) = joined[Len(texts)]
<1> DEFINE l == Len(texts)
           S == Seq(Seq(T))
           base == <<>>
           step == [x \in S \X (1..l) |-> JoinNext(x[1], texts[x[2]])]
           Solves(f) == f = [n \in 0..l |-> IF n = 0 THEN <<>> ELSE JoinNext(f[n - 1], texts[n])]
<1>1. l \in Nat /\ base \in S /\ \A n \in 1..l : texts[n] \in Seq(T)
  OBVIOUS
<1>2. \A joined \in S, n \in 1..l : JoinNext(joined, texts[n]) \in S
  BY <1>1, JoinedText
<1> HIDE DEF l, S, base
<1>3. /\ step \in [S \X (1..l) -> S]
      /\ \A joined \in S, n \in 1..l : step[<<joined, n>>] = JoinNext(joined, texts[n])
  BY <1>2
<1> HIDE DEF step
<1>4. PICK f : f \in [0..l -> S] /\ f[0] = base /\ \A n \in 1..l : f[n] = step[<<f[n - 1], n>>]
  <2>1. \E f : Runs(f, l, S, base, step)
    BY <1>1, <1>3, LoopExists
  <2> QED BY <2>1 DEF Runs
<1>5. \A n \in 1..l : n \in 0..l /\ n - 1 \in 0..l /\ n # 0
  BY <1>1
<1>6. \A n \in 0..l : n = 0 \/ n \in 1..l
  BY <1>1
<1>7. Solves(f)
  <2>1. \A n \in 1..l : f[n] = JoinNext(f[n - 1], texts[n])
    BY <1>3, <1>4, <1>5
  <2>2. \A n \in 0..l : f[n] = IF n = 0 THEN <<>> ELSE JoinNext(f[n - 1], texts[n])
    BY <1>4, <1>6, <2>1 DEF base
  <2> QED BY <1>4, <2>2
<1>8. \E joined : Solves(joined) /\ JoinDanglingParens(texts) = joined[l]
  BY <1>7 DEF JoinDanglingParens, l
<1>9. PICK joined : Solves(joined) /\ JoinDanglingParens(texts) = joined[l]
  BY <1>8
<1>10. \A n \in 0..l : joined[n] = IF n = 0 THEN <<>> ELSE JoinNext(joined[n - 1], texts[n])
  BY <1>9
<1>11. joined = [n \in 0..l |-> joined[n]]
  BY <1>9
<1>12. joined[0] = base /\ \A n \in 1..l : joined[n] = JoinNext(joined[n - 1], texts[n])
  BY <1>1, <1>5, <1>10 DEF base
<1>13. joined \in [0..l -> S]
  <2>1. \A n \in 1..l : joined[n - 1] \in S => joined[n] \in S
    BY <1>2, <1>12
  <2> HIDE DEF Solves
  <2> QED BY <1>1, <1>11, <1>12, <2>1, LoopTyped
<1> QED BY <1>9, <1>12, <1>13 DEF l, S, base

SplitStates(T) == [parts : Seq(Seq(T)), buf : Seq(T), depth : Nat]

\* What a token does to the state.
LEMMA SplitTyped ==
  ASSUME NEW T, NEW state \in SplitStates(T), NEW token \in T
  PROVE  /\ SplitStep(state, token) \in SplitStates(T)
         /\ token = "," /\ state.depth = 0 =>
              SplitStep(state, token)
                = [parts |-> Append(state.parts, state.buf), buf |-> <<>>, depth |-> state.depth]
         /\ ~(token = "," /\ state.depth = 0) =>
              SplitStep(state, token)
                = [parts |-> state.parts, buf |-> Append(state.buf, token),
                   depth |-> IF token = "(" THEN state.depth + 1
                             ELSE IF token = ")" /\ state.depth # 0 THEN state.depth - 1
                             ELSE state.depth]
<1> DEFINE next == SplitStep(state, token)
           added == [parts |-> state.parts, buf |-> Append(state.buf, token), depth |-> state.depth]
<1>1. /\ state.parts \in Seq(Seq(T)) /\ state.buf \in Seq(T) /\ state.depth \in Nat
      /\ Append(state.buf, token) \in Seq(T) /\ Append(state.parts, state.buf) \in Seq(Seq(T))
  BY DEF SplitStates
<1>2. AddToken(state, token) = added
  <2> DEFINE read == Append(state.buf, token)
  <2> HIDE DEF read
  <2>1. [state EXCEPT !.buf = read]
          = [parts |-> state.parts, buf |-> read, depth |-> state.depth]
    BY DEF SplitStates
  <2> QED BY <2>1 DEF AddToken, read
<1>3. CASE token = "("
  <2>1. next = [AddToken(state, token) EXCEPT !.depth = @ + 1]
    BY <1>3 DEF SplitStep
  <2>2. next = [added EXCEPT !.depth = added.depth + 1]
    BY <1>2, <2>1
  <2>3. next = [parts |-> state.parts, buf |-> Append(state.buf, token), depth |-> state.depth + 1]
    BY <2>2
  <2>4. next \in SplitStates(T)
    BY <1>1, <2>3 DEF SplitStates
  <2> HIDE DEF next
  <2> QED BY <1>3, <2>3, <2>4 DEF next
<1>4. CASE token = ")"
  <2> DEFINE d == IF state.depth # 0 THEN state.depth - 1 ELSE state.depth
  <2>1. next = [AddToken(state, token) EXCEPT !.depth = IF @ = 0 THEN 0 ELSE @ - 1]
    BY <1>4 DEF SplitStep
  <2>2. next = [added EXCEPT !.depth = IF added.depth = 0 THEN 0 ELSE added.depth - 1]
    BY <1>2, <2>1
  <2>3. (IF added.depth = 0 THEN 0 ELSE added.depth - 1) = d /\ d \in Nat
    BY <1>1
  <2> HIDE DEF d
  <2>4. next = [parts |-> state.parts, buf |-> Append(state.buf, token), depth |-> d]
    BY <2>2, <2>3
  <2>5. next \in SplitStates(T)
    BY <1>1, <2>3, <2>4 DEF SplitStates
  <2> HIDE DEF next
  <2> QED BY <1>4, <2>4, <2>5 DEF next, d
<1>5. CASE token = "," /\ state.depth = 0
  <2>1. next = [state EXCEPT !.parts = Append(@, state.buf), !.buf = <<>>]
    BY <1>5 DEF SplitStep
  <2>2. next = [parts |-> Append(state.parts, state.buf), buf |-> <<>>, depth |-> state.depth]
    BY <2>1 DEF SplitStates
  <2>3. next \in SplitStates(T)
    BY <1>1, <2>2 DEF SplitStates
  <2> HIDE DEF next
  <2> QED BY <1>5, <2>2, <2>3 DEF next
<1>6. CASE token \notin {"(", ")"} /\ ~(token = "," /\ state.depth = 0)
  <2>1. next = added
    BY <1>2, <1>6 DEF SplitStep
  <2>2. next \in SplitStates(T)
    BY <1>1, <2>1 DEF SplitStates
  <2> HIDE DEF next
  <2> QED BY <1>6, <2>1, <2>2 DEF next
<1> QED BY <1>3, <1>4, <1>5, <1>6

\* The loop that splits a line, step by step.
LEMMA SplitLoop ==
  ASSUME NEW T, NEW line_ \in Seq(T)
  PROVE  \E state \in [0..Len(line_) -> SplitStates(T)] :
           /\ state[0] = [parts |-> <<>>, buf |-> <<>>, depth |-> 0]
           /\ \A n \in 1..Len(line_) : state[n] = SplitStep(state[n - 1], line_[n])
           /\ SplitRespectingParens(line_)
                = Append(state[Len(line_)].parts, state[Len(line_)].buf)
<1> DEFINE l == Len(line_)
           S == SplitStates(T)
           base == [parts |-> <<>>, buf |-> <<>>, depth |-> 0]
           step == [x \in S \X (1..l) |-> SplitStep(x[1], line_[x[2]])]
           Solves(f) == f = [n \in 0..l |-> IF n = 0 THEN [parts |-> <<>>, buf |-> <<>>, depth |-> 0]
                                             ELSE SplitStep(f[n - 1], line_[n])]
<1>1. l \in Nat /\ base \in S /\ \A n \in 1..l : line_[n] \in T
  BY DEF SplitStates
<1>2. \A state \in S, n \in 1..l : SplitStep(state, line_[n]) \in S
  BY <1>1, SplitTyped
<1> HIDE DEF l, S, base
<1>3. /\ step \in [S \X (1..l) -> S]
      /\ \A state \in S, n \in 1..l : step[<<state, n>>] = SplitStep(state, line_[n])
  BY <1>2
<1> HIDE DEF step
<1>4. PICK f : f \in [0..l -> S] /\ f[0] = base /\ \A n \in 1..l : f[n] = step[<<f[n - 1], n>>]
  <2>1. \E f : Runs(f, l, S, base, step)
    BY <1>1, <1>3, LoopExists
  <2> QED BY <2>1 DEF Runs
<1>5. \A n \in 1..l : n \in 0..l /\ n - 1 \in 0..l /\ n # 0
  BY <1>1
<1>6. \A n \in 0..l : n = 0 \/ n \in 1..l
  BY <1>1
<1>7. Solves(f)
  <2>1. \A n \in 1..l : f[n] = SplitStep(f[n - 1], line_[n])
    BY <1>3, <1>4, <1>5
  <2>2. \A n \in 0..l : f[n] = IF n = 0 THEN [parts |-> <<>>, buf |-> <<>>, depth |-> 0]
                                ELSE SplitStep(f[n - 1], line_[n])
    BY <1>4, <1>6, <2>1 DEF base
  <2> QED BY <1>4, <2>2
<1>8. \E state : Solves(state) /\ SplitRespectingParens(line_) = Append(state[l].parts, state[l].buf)
  BY <1>7 DEF SplitRespectingParens, l
<1>9. PICK state : Solves(state) /\ SplitRespectingParens(line_) = Append(state[l].parts, state[l].buf)
  BY <1>8
<1>10. \A n \in 0..l : state[n] = IF n = 0 THEN [parts |-> <<>>, buf |-> <<>>, depth |-> 0]
                                   ELSE SplitStep(state[n - 1], line_[n])
  BY <1>9
<1>11. state = [n \in 0..l |-> state[n]]
  BY <1>9
<1>12. state[0] = base /\ \A n \in 1..l : state[n] = SplitStep(state[n - 1], line_[n])
  BY <1>1, <1>5, <1>10 DEF base
<1>13. state \in [0..l -> S]
  <2>1. \A n \in 1..l : state[n - 1] \in S => state[n] \in S
    BY <1>2, <1>12
  <2> HIDE DEF Solves
  <2> QED BY <1>1, <1>11, <1>12, <2>1, LoopTyped
<1> QED BY <1>9, <1>12, <1>13 DEF l, S, base

\* A piece of a list that is read on by one element.
LEMMA PieceGrows ==
  ASSUME NEW T, NEW list \in Seq(T), NEW n \in Nat, n + 1 \in DOMAIN list, NEW m \in 1..(n + 1)
  PROVE  /\ SubSeq(list, m, n) \in Seq(T)
         /\ SubSeq(list, m, n + 1) = Append(SubSeq(list, m, n), list[n + 1])
<1>1. /\ n + 1 \in 1..Len(list) /\ m \in 1..Len(list) /\ n + 1 \in m..Len(list)
      /\ (n + 1) - 1 = n /\ list[n + 1] \in T /\ m \in Int /\ n \in Int
      /\ \A j \in m..n : list[j] \in T
  OBVIOUS
<1>2. SubSeq(list, m, n) \in Seq(T)
  BY <1>1, SubSeqProperties
<1>3. SubSeq(list, m, n + 1) = SubSeq(list, m, n) \o <<list[n + 1]>>
  BY <1>1, SubSeqRecursiveSecond
<1> QED BY <1>1, <1>2, <1>3, AppendIsConcat

\* Only the last of the lines joined so far may leave a parenthesis open.
Closed(texts) == \A j \in 1..(Len(texts) - 1) : ~LeavesOpen(texts[j])

LEMMA JoinStep ==
  ASSUME NEW T, NEW joined \in Seq(Seq(T)), Closed(joined), NEW text_ \in Seq(T)
  PROVE  /\ FlattenSeq(JoinNext(joined, text_)) = FlattenSeq(joined) \o text_
         /\ Closed(JoinNext(joined, text_))
<1>1. CASE joined # <<>> /\ LeavesOpen(Last(joined))
  <2> DEFINE front == Front(joined)
             last == Last(joined)
  <2>1. /\ front \in Seq(Seq(T)) /\ last \in Seq(T)
        /\ Len(front) = Len(joined) - 1 /\ Len(joined) \in Nat
        /\ \A j \in 1..(Len(joined) - 1) : front[j] = joined[j]
        /\ joined = Append(front, last)
    <3> DEFINE U == Seq(T)
    <3>1. joined \in Seq(U) /\ Len(joined) \in Nat
      OBVIOUS
    <3> HIDE DEF U
    <3>2. /\ front \in Seq(U) /\ last \in U
          /\ Len(front) = Len(joined) - 1
          /\ \A j \in 1..(Len(joined) - 1) : front[j] = joined[j]
          /\ joined = Append(front, last)
      BY <1>1, <3>1, FrontAndLast
    <3> QED BY <3>1, <3>2 DEF U
  <2>2. JoinNext(joined, text_) = Append(front, last \o text_)
    BY <1>1 DEF JoinNext
  <2> HIDE DEF front, last
  <2>3. /\ last \o text_ \in Seq(T) /\ FlattenSeq(front) \in Seq(T)
    BY <2>1, FlattenPlaces
  <2>4. FlattenSeq(joined) = FlattenSeq(front) \o last
    BY <2>1, FlattenAppend
  <2>5. FlattenSeq(JoinNext(joined, text_)) = FlattenSeq(front) \o (last \o text_)
    BY <2>1, <2>2, <2>3, FlattenAppend
  <2>6. FlattenSeq(JoinNext(joined, text_)) = FlattenSeq(joined) \o text_
    BY <2>1, <2>3, <2>4, <2>5, ConcatAssociative
  <2> DEFINE next == JoinNext(joined, text_)
  <2>7. /\ Len(next) = Len(front) + 1
        /\ \A j \in 1..Len(front) : next[j] = front[j]
    BY <2>1, <2>2, <2>3, AppendProperties
  <2>8. \A j \in 1..Len(front) : ~LeavesOpen(front[j])
    BY <2>1 DEF Closed
  <2>9. Len(front) \in Nat
    BY <2>1
  <2> DEFINE l == Len(front)
  <2> HIDE DEF next, l
  <2>10. Closed(next)
    <3>1. Len(next) - 1 = l
      BY <2>7, <2>9 DEF l
    <3>2. \A j \in 1..l : next[j] = front[j] /\ ~LeavesOpen(front[j])
      BY <2>7, <2>8 DEF l
    <3> QED BY <3>1, <3>2 DEF Closed
  <2> QED BY <2>6, <2>10 DEF next
<1>2. CASE ~(joined # <<>> /\ LeavesOpen(Last(joined)))
  <2> DEFINE next == JoinNext(joined, text_)
             l == Len(joined)
  <2>1. next = Append(joined, text_) /\ l \in Nat
    BY <1>2 DEF JoinNext
  <2>2. FlattenSeq(next) = FlattenSeq(joined) \o text_
    BY <2>1, FlattenAppend
  <2>3. Len(next) = l + 1 /\ \A j \in 1..l : next[j] = joined[j]
    BY <2>1, AppendProperties
  <2>4. l # 0 => ~LeavesOpen(joined[l])
    BY <1>2 DEF Last
  <2>5. \A j \in 1..(l - 1) : ~LeavesOpen(joined[j])
    BY DEF Closed
  <2> HIDE DEF next, l
  <2>6. \A j \in 1..l : ~LeavesOpen(joined[j])
    BY <2>1, <2>4, <2>5
  <2>7. Closed(next)
    BY <2>1, <2>3, <2>6 DEF Closed
  <2> QED BY <2>2, <2>7 DEF next
<1> QED BY <1>1, <1>2

\* Joining lines drops nothing and leaves no parenthesis open but in the last.
LEMMA JoiningTells ==
  ASSUME NEW T, NEW texts \in Seq(Seq(T))
  PROVE  /\ JoinDanglingParens(texts) \in Seq(Seq(T))
         /\ FlattenSeq(JoinDanglingParens(texts)) = FlattenSeq(texts)
         /\ Closed(JoinDanglingParens(texts))
<1> DEFINE l == Len(texts)
<1>1. PICK joined \in [0..l -> Seq(Seq(T))] :
        /\ joined[0] = <<>>
        /\ \A n \in 1..l : joined[n] = JoinNext(joined[n - 1], texts[n])
        /\ JoinDanglingParens(texts) = joined[l]
  BY JoinLoop
<1>2. l \in Nat /\ DOMAIN texts = 1..l
  OBVIOUS
<1> HIDE DEF l
<1> DEFINE Joined_(n) == FlattenSeq(joined[n]) = FlattenSeq(SubSeq(texts, 1, n)) /\ Closed(joined[n])
           Told == {n \in Nat : n <= l => Joined_(n)}
<1>3. 0 \in Told
  <2>1. SubSeq(texts, 1, 0) = <<>>
    BY SubSeqEmpty
  <2>2. Closed(<<>>)
    BY DEF Closed
  <2> QED BY <1>1, <2>1, <2>2
<1>4. ASSUME NEW n \in Nat, n \in Told PROVE n + 1 \in Told
  <2> SUFFICES ASSUME n + 1 <= l PROVE Joined_(n + 1)
    OBVIOUS
  <2>1. /\ n + 1 \in 1..l /\ (n + 1) - 1 = n /\ n \in 0..l /\ n + 1 \in DOMAIN texts /\ 1 \in 1..(n + 1)
    BY <1>2
  <2>2. /\ joined[n] \in Seq(Seq(T)) /\ Joined_(n)
        /\ joined[n + 1] = JoinNext(joined[n], texts[n + 1])
        /\ texts[n + 1] \in Seq(T)
    <3>1. joined[n] \in Seq(Seq(T)) /\ texts[n + 1] \in Seq(T)
      BY <1>1, <2>1
    <3>2. joined[n + 1] = JoinNext(joined[n], texts[n + 1])
      BY <1>1, <2>1
    <3>3. Joined_(n)
      <4>1. n <= l
        BY <1>2
      <4> QED BY <1>4, <4>1
    <3> QED BY <3>1, <3>2, <3>3
  <2>3. /\ SubSeq(texts, 1, n) \in Seq(Seq(T))
        /\ SubSeq(texts, 1, n + 1) = Append(SubSeq(texts, 1, n), texts[n + 1])
    BY <2>1, PieceGrows
  <2>4. FlattenSeq(SubSeq(texts, 1, n + 1)) = FlattenSeq(SubSeq(texts, 1, n)) \o texts[n + 1]
    BY <2>2, <2>3, FlattenAppend
  <2>5. /\ FlattenSeq(joined[n + 1]) = FlattenSeq(joined[n]) \o texts[n + 1]
        /\ Closed(joined[n + 1])
    BY <2>2, JoinStep
  <2> QED BY <2>2, <2>4, <2>5
<1> HIDE DEF Told
<1>5. l \in Told
  BY <1>2, <1>3, <1>4, SetInduction
<1>6. Joined_(l)
  BY <1>2, <1>5 DEF Told
<1>7. SubSeq(texts, 1, l) = texts
  BY SubSeqFull DEF l
<1>8. joined[l] \in Seq(Seq(T))
  BY <1>1, <1>2
<1> QED BY <1>1, <1>6, <1>7, <1>8

\* A text that is not blank first stands where it is new.
LEMMA FirstOfItem ==
  ASSUME NEW T, NEW list \in Seq(Seq(T)), NEW j \in DOMAIN list, list[j] # <<>>
  PROVE  \E h \in NewItems(list) : h <= j /\ ItemKey(list[h]) = ItemKey(list[j])
<1> DEFINE Same == {h \in 1..j : ItemKey(list[h]) = ItemKey(list[j])}
<1>1. Len(list) \in Nat /\ DOMAIN list = 1..Len(list)
  OBVIOUS
<1>2. j \in Nat /\ j \in 1..j /\ 1..j \subseteq DOMAIN list
  BY <1>1
<1>3. PICK h \in Same : \A g \in Same : h <= g
  <2>1. Same \subseteq Nat /\ Same # {}
    BY <1>2
  <2> HIDE DEF Same
  <2> QED BY <2>1, LeastElement
<1>4. h \in 1..j /\ h \in DOMAIN list /\ ItemKey(list[h]) = ItemKey(list[j])
  BY <1>2
<1>5. list[h] # <<>>
  <2>1. DOMAIN list[h] = DOMAIN list[j]
    BY <1>4 DEF ItemKey
  <2>2. list[h] \in Seq(T) /\ list[j] \in Seq(T)
    BY <1>4
  <2> DEFINE item == list[j]
  <2>3. DOMAIN list[j] # {}
    <3>1. item \in Seq(T) /\ item # <<>>
      BY <2>2
    <3> HIDE DEF item
    <3>2. DOMAIN item = 1..Len(item) /\ Len(item) \in Nat /\ Len(item) # 0
      BY <3>1, EmptySeq
    <3>3. 1 \in DOMAIN item
      BY <3>2
    <3> QED BY <3>3 DEF item
  <2> QED BY <2>1, <2>3
<1>6. ASSUME NEW g \in 1..(h - 1) PROVE ItemKey(list[g]) # ItemKey(list[h])
  <2>1. g \in 1..j /\ ~(h <= g)
    BY <1>2, <1>4
  <2> QED BY <1>3, <1>4, <2>1
<1> QED BY <1>2, <1>4, <1>5, <1>6 DEF NewItems

\* Dropping what is blank or repeats leaves the new ones in their order.
LEMMA DistinctTells ==
  ASSUME NEW T, NEW list \in Seq(Seq(T))
  PROVE  /\ Distinct(list) = At(list, NewItems(list))
         /\ Distinct(list) \in Seq(Seq(T))
<1> DEFINE l == Len(list)
           New(n) == {j \in NewItems(list) : j <= n}
<1>1. PICK kept \in [0..l -> Seq(Seq(T))] :
        /\ kept[0] = <<>>
        /\ \A n \in 1..l : kept[n] = KeepNew(kept[n - 1], list[n])
        /\ Distinct(list) = kept[l]
  BY DistinctLoop
<1>2. l \in Nat /\ DOMAIN list = 1..l
  OBVIOUS
<1> HIDE DEF l
<1>3. NewItems(list) \subseteq DOMAIN list
  BY DEF NewItems
<1> DEFINE U == Seq(T)
<1>4. list \in Seq(U)
  OBVIOUS
<1> DEFINE Told == {n \in Nat : n <= l => kept[n] = At(list, New(n))}
<1>5. 0 \in Told
  <2>1. DOMAIN list \cap New(0) = {}
    BY <1>2, <1>3
  <2> HIDE DEF U, New
  <2> QED BY <1>1, <1>4, <2>1, AtNone
<1>6. ASSUME NEW n \in Nat, n \in Told PROVE n + 1 \in Told
  <2> SUFFICES ASSUME n + 1 <= l PROVE kept[n + 1] = At(list, New(n + 1))
    OBVIOUS
  <2> DEFINE m == n + 1
             some == At(list, New(n))
             item == list[m]
  <2>1. n <= l /\ m \in 1..l /\ m - 1 = n /\ m \in DOMAIN list
    BY <1>2
  <2>2. kept[n] = some /\ kept[m] = KeepNew(kept[n], item)
    <3>1. kept[n] = some
      BY <1>6, <2>1
    <3> QED BY <1>1, <2>1, <3>1
  <2>3. New(n) \subseteq DOMAIN list /\ \A j \in New(n) : j \in NewItems(list) /\ j < m
    BY <1>2, <1>3
  <2>4. ToSet(some) = {list[j] : j \in New(n)}
    <3> HIDE DEF U, New
    <3> QED BY <1>4, <2>3, AtElements
  <2>5. CASE m \in NewItems(list)
    <3>1. item # <<>> /\ \A h \in 1..(m - 1) : ItemKey(list[h]) # ItemKey(item)
      BY <2>5 DEF NewItems
    <3>2. ASSUME NEW q \in DOMAIN some PROVE ItemKey(some[q]) # ItemKey(item)
      <4>1. some[q] \in ToSet(some)
        BY DEF ToSet
      <4>2. PICK j \in New(n) : some[q] = list[j]
        BY <2>4, <4>1
      <4>3. j \in 1..(m - 1)
        BY <1>2, <2>1, <2>3
      <4> HIDE DEF some, item, New
      <4> QED BY <3>1, <4>2, <4>3
    <3>3. KeepNew(some, item) = Append(some, item)
      BY <3>1, <3>2 DEF KeepNew
    <3>4. New(m) = New(n) \cup {m}
      BY <1>2, <1>3, <2>5
    <3>5. \A q \in DOMAIN list \cap New(n) : q < m
      BY <2>3
    <3> HIDE DEF U, New, some, item, m
    <3>6. At(list, New(n) \cup {m}) = Append(At(list, New(n)), list[m])
      BY <1>4, <2>1, <3>5, AtGrows
    <3>7. kept[m] = At(list, New(m))
      BY <2>2, <3>3, <3>4, <3>6 DEF some, item
    <3> QED BY <3>7 DEF m
  <2>6. CASE m \notin NewItems(list)
    <3>1. New(m) = New(n)
      BY <1>2, <1>3, <2>6
    <3>2. CASE item = <<>>
      <4>1. KeepNew(some, item) = some
        BY <3>2 DEF KeepNew
      <4> HIDE DEF U, New, some, item
      <4> QED BY <2>2, <3>1, <4>1 DEF some
    <3>3. CASE item # <<>>
      <4>1. PICK h \in NewItems(list) : h <= m /\ ItemKey(list[h]) = ItemKey(item)
        BY <2>1, <3>3, FirstOfItem
      <4>2. h \in New(n)
        <5>1. h # m /\ h \in 1..l
          BY <1>2, <1>3, <2>6, <4>1
        <5>2. h <= n
          BY <1>2, <4>1, <5>1
        <5> QED BY <4>1, <5>2
      <4>3. list[h] \in ToSet(some)
        BY <2>4, <4>2
      <4>4. \E q \in DOMAIN some : ItemKey(some[q]) = ItemKey(item)
        <5>1. PICK q \in DOMAIN some : some[q] = list[h]
          BY <4>3 DEF ToSet
        <5> QED BY <4>1, <5>1
      <4>5. KeepNew(some, item) = some
        BY <4>4 DEF KeepNew
      <4> HIDE DEF U, New, some, item
      <4> QED BY <2>2, <3>1, <4>5 DEF some
    <3> QED BY <3>2, <3>3
  <2> QED BY <2>5, <2>6
<1> HIDE DEF Told
<1>7. l \in Told
  BY <1>2, <1>5, <1>6, SetInduction
<1>8. kept[l] = At(list, New(l))
  BY <1>2, <1>7 DEF Told
<1>9. New(l) = NewItems(list)
  BY <1>2, <1>3
<1>10. kept[l] \in Seq(U)
  BY <1>1, <1>2
<1> QED BY <1>1, <1>8, <1>9, <1>10

\* No two of them have the same letters.
LEMMA DistinctAreDistinct ==
  ASSUME NEW T, NEW list \in Seq(Seq(T))
  PROVE  /\ DistinctItems(Distinct(list))
         /\ \A item \in ToSet(list) : item # <<>> =>
              \E kept \in ToSet(Distinct(list)) : ItemKey(kept) = ItemKey(item)
<1> DEFINE some == Distinct(list)
           U == Seq(T)
<1>1. some = At(list, NewItems(list)) /\ some \in Seq(U) /\ list \in Seq(U)
      /\ NewItems(list) \subseteq DOMAIN list
  BY DistinctTells DEF NewItems
<1> HIDE DEF some, U
<1>2. PICK from : Picks(some, list, NewItems(list), from)
  BY <1>1, AtPicks
<1>3. ToSet(some) = {list[j] : j \in NewItems(list)}
  BY <1>1, AtElements
<1>4. ASSUME NEW a \in DOMAIN some, NEW b \in DOMAIN some, a # b
      PROVE  ItemKey(some[a]) # ItemKey(some[b])
  <2>1. /\ some[a] = list[from[a]] /\ some[b] = list[from[b]]
        /\ from[a] \in NewItems(list) /\ from[b] \in NewItems(list)
        /\ from[a] \in Nat /\ from[b] \in Nat /\ from[a] > 0 /\ from[b] > 0
    <3>1. DOMAIN list = 1..Len(list) /\ Len(list) \in Nat
      BY <1>1
    <3>2. /\ from[a] \in DOMAIN list \cap NewItems(list) /\ some[a] = list[from[a]]
          /\ from[b] \in DOMAIN list \cap NewItems(list) /\ some[b] = list[from[b]]
      BY <1>2 DEF Picks
    <3> QED BY <3>1, <3>2
  <2>2. from[a] # from[b]
    <3>1. DOMAIN some \subseteq Int
      BY <1>1
    <3> QED BY <1>1, <1>2, <1>4, <3>1, PicksAreDistinct
  <2>3. \A h \in 1..(from[a] - 1) : ItemKey(list[h]) # ItemKey(list[from[a]])
    BY <2>1 DEF NewItems
  <2>4. \A h \in 1..(from[b] - 1) : ItemKey(list[h]) # ItemKey(list[from[b]])
    BY <2>1 DEF NewItems
  <2>5. from[a] \in 1..(from[b] - 1) \/ from[b] \in 1..(from[a] - 1)
    BY <2>1, <2>2
  <2> QED BY <2>1, <2>3, <2>4, <2>5
<1>5. ASSUME NEW item \in ToSet(list), item # <<>>
      PROVE  \E kept \in ToSet(some) : ItemKey(kept) = ItemKey(item)
  <2>1. PICK j \in DOMAIN list : item = list[j]
    BY DEF ToSet
  <2>2. PICK h \in NewItems(list) : h <= j /\ ItemKey(list[h]) = ItemKey(list[j])
    BY <1>5, <2>1, FirstOfItem
  <2>3. list[h] \in ToSet(some)
    BY <1>3
  <2> QED BY <2>1, <2>2, <2>3
<1>6. DistinctItems(some)
  BY <1>4 DEF DistinctItems
<1> QED BY <1>5, <1>6 DEF some

\* What a token adds to a count.
LEMMA CountGrows ==
  ASSUME NEW T, NEW list \in Seq(T), NEW x \in T, NEW token
  PROVE  /\ Count(token, list) \in Nat /\ Count(token, <<>>) = 0
         /\ Count(token, Append(list, x)) = Count(token, list) + (IF x = token THEN 1 ELSE 0)
<1> DEFINE n == Len(list)
           longer == Append(list, x)
           Held == {q \in DOMAIN list : list[q] = token}
           More == {q \in DOMAIN longer : longer[q] = token}
<1>1. /\ n \in Nat /\ DOMAIN list = 1..n /\ DOMAIN longer = 1..(n + 1)
      /\ longer[n + 1] = x /\ \A q \in 1..n : longer[q] = list[q]
  OBVIOUS
<1>2. IsFiniteSet(1..n)
  BY <1>1, FS_Interval
<1>3. Held \in SUBSET (1..n)
  BY <1>1
<1>4. More = IF x = token THEN Held \cup {n + 1} ELSE Held
  BY <1>1
<1>5. n + 1 \notin Held
  BY <1>1, <1>3
<1> HIDE DEF n, longer, Held, More
<1>6. IsFiniteSet(Held) /\ Cardinality(Held) \in Nat
  BY <1>2, <1>3, FS_Subset, FS_CardinalityType
<1>7. Cardinality(Held \cup {n + 1}) = Cardinality(Held) + 1
  BY <1>5, <1>6, FS_AddElement
<1>8. Cardinality(More) = Cardinality(Held) + (IF x = token THEN 1 ELSE 0)
  BY <1>4, <1>6, <1>7
<1>9. Count(token, <<>>) = 0
  <2>1. {q \in DOMAIN <<>> : <<>>[q] = token} = {}
    OBVIOUS
  <2> QED BY <2>1, FS_EmptySet DEF Count
<1> QED BY <1>6, <1>8, <1>9 DEF Count, Held, More, longer

\* How many parentheses the piece from q to r opens more than it closes.
Excess(list, q, r) == Count("(", SubSeq(list, q, r)) - Count(")", SubSeq(list, q, r))
Weight(token) == IF token = "(" THEN 1 ELSE IF token = ")" THEN 0 - 1 ELSE 0

LEMMA ExcessGrows ==
  ASSUME NEW T, NEW list \in Seq(T), NEW n \in Nat, n + 1 \in DOMAIN list, NEW q \in 1..(n + 1)
  PROVE  /\ Excess(list, q, n) \in Int
         /\ Excess(list, q, n + 1) = Excess(list, q, n) + Weight(list[n + 1])
         /\ Excess(list, n + 1, n) = 0
         /\ LeavesOpen(SubSeq(list, q, n + 1)) <=> Excess(list, q, n + 1) > 0
<1> DEFINE piece == SubSeq(list, q, n)
           x == list[n + 1]
           open == Count("(", piece)
           closed == Count(")", piece)
<1>1. piece \in Seq(T) /\ SubSeq(list, q, n + 1) = Append(piece, x) /\ x \in T
  BY PieceGrows
<1>2. SubSeq(list, n + 1, n) = <<>>
  BY SubSeqEmpty
<1> HIDE DEF piece, x
<1>3. /\ open \in Nat /\ closed \in Nat
      /\ Count("(", Append(piece, x)) = open + (IF x = "(" THEN 1 ELSE 0)
      /\ Count(")", Append(piece, x)) = closed + (IF x = ")" THEN 1 ELSE 0)
      /\ Count("(", <<>>) = 0 /\ Count(")", <<>>) = 0
  BY <1>1, CountGrows
<1>4. /\ Excess(list, q, n) = open - closed
      /\ Excess(list, q, n + 1)
           = (open + (IF x = "(" THEN 1 ELSE 0)) - (closed + (IF x = ")" THEN 1 ELSE 0))
      /\ Excess(list, n + 1, n) = 0
      /\ LeavesOpen(SubSeq(list, q, n + 1))
           <=> open + (IF x = "(" THEN 1 ELSE 0) > closed + (IF x = ")" THEN 1 ELSE 0)
  <2>1. Excess(list, q, n) = open - closed
    BY DEF Excess, piece
  <2>2. Excess(list, n + 1, n) = 0
    <3>1. Excess(list, n + 1, n) = Count("(", <<>>) - Count(")", <<>>)
      BY <1>2 DEF Excess
    <3> QED BY <1>3, <3>1
  <2> DEFINE whole == SubSeq(list, q, n + 1)
  <2>3. /\ Excess(list, q, n + 1) = Count("(", whole) - Count(")", whole)
        /\ LeavesOpen(whole) <=> Count("(", whole) > Count(")", whole)
    BY DEF Excess, LeavesOpen
  <2>4. /\ Count("(", whole) = open + (IF x = "(" THEN 1 ELSE 0)
        /\ Count(")", whole) = closed + (IF x = ")" THEN 1 ELSE 0)
    BY <1>1, <1>3
  <2> HIDE DEF open, closed
  <2>5. Excess(list, q, n + 1)
          = (open + (IF x = "(" THEN 1 ELSE 0)) - (closed + (IF x = ")" THEN 1 ELSE 0))
    BY <2>3, <2>4
  <2>6. LeavesOpen(whole)
          <=> open + (IF x = "(" THEN 1 ELSE 0) > closed + (IF x = ")" THEN 1 ELSE 0)
    BY <2>3, <2>4
  <2> QED BY <2>1, <2>2, <2>5, <2>6
<1> HIDE DEF open, closed
<1>5. Excess(list, q, n + 1) = Excess(list, q, n) + Weight(x)
  BY <1>3, <1>4 DEF Weight
<1> QED BY <1>3, <1>4, <1>5 DEF x

\* The depth after n tokens is the excess of the piece that opened the
\* parentheses still open, and no piece that ends there has more.
DepthIs(list, n, depth) ==
  /\ \A q \in 1..n : depth >= Excess(list, q, n)
  /\ depth > 0 => \E q \in 1..n : /\ Excess(list, q, n) = depth
                                  /\ \A r \in q..n : LeavesOpen(SubSeq(list, q, r))

LEMMA DepthStep ==
  ASSUME NEW T, NEW list \in Seq(T), NEW n \in Nat, n + 1 \in DOMAIN list,
         NEW depth \in Nat, DepthIs(list, n, depth),
         NEW next, next = IF list[n + 1] = "(" THEN depth + 1
                          ELSE IF list[n + 1] = ")" /\ depth # 0 THEN depth - 1 ELSE depth
  PROVE  DepthIs(list, n + 1, next)
<1> DEFINE x == list[n + 1]
           w == Weight(x)
           E(q) == Excess(list, q, n)
           F(q) == Excess(list, q, n + 1)
<1>1. /\ \A q \in 1..(n + 1) : E(q) \in Int /\ F(q) = E(q) + w
      /\ \A q \in 1..(n + 1) : LeavesOpen(SubSeq(list, q, n + 1)) <=> F(q) > 0
      /\ E(n + 1) = 0
  <2>1. n + 1 \in 1..(n + 1)
    OBVIOUS
  <2> QED BY <2>1, ExcessGrows
<1>2. /\ \A q \in 1..n : depth >= E(q)
      /\ depth > 0 => \E q \in 1..n : /\ E(q) = depth
                                      /\ \A r \in q..n : LeavesOpen(SubSeq(list, q, r))
  BY DEF DepthIs
<1>3. /\ w \in {0 - 1, 0, 1} /\ next \in Nat
      /\ next = depth + w \/ (next = 0 /\ depth = 0 /\ w = 0 - 1)
      /\ w = 1 => next = depth + 1
  BY DEF Weight
<1> HIDE DEF w, x, E, F
<1>4. ASSUME NEW q \in 1..(n + 1) PROVE next >= F(q)
  <2>1. CASE q \in 1..n
    <3>1. depth >= E(q) /\ E(q) \in Int /\ F(q) = E(q) + w
      BY <1>1, <1>2, <2>1
    <3> QED BY <1>3, <3>1
  <2>2. CASE q = n + 1
    <3>1. F(q) = w
      BY <1>1, <1>3, <2>2
    <3> QED BY <1>3, <3>1
  <2> QED BY <2>1, <2>2
<1>5. ASSUME next > 0
      PROVE  \E q \in 1..(n + 1) : /\ F(q) = next
                                   /\ \A r \in q..(n + 1) : LeavesOpen(SubSeq(list, q, r))
  <2>1. CASE depth > 0
    <3>1. PICK q \in 1..n : E(q) = depth /\ \A r \in q..n : LeavesOpen(SubSeq(list, q, r))
      BY <1>2, <2>1
    <3>2. q \in 1..(n + 1) /\ F(q) = next
      BY <1>1, <1>3, <1>5, <3>1
    <3>3. LeavesOpen(SubSeq(list, q, n + 1))
      BY <1>1, <1>5, <3>2
    <3>4. \A r \in q..(n + 1) : r \in q..n \/ r = n + 1
      OBVIOUS
    <3> QED BY <3>1, <3>2, <3>3, <3>4
  <2>2. CASE depth = 0
    <3>1. w = 1 /\ next = 1
      BY <1>3, <1>5, <2>2
    <3>2. n + 1 \in 1..(n + 1) /\ F(n + 1) = 1
      BY <1>1, <3>1
    <3>3. LeavesOpen(SubSeq(list, n + 1, n + 1))
      BY <1>1, <3>2
    <3>4. \A r \in (n + 1)..(n + 1) : r = n + 1
      OBVIOUS
    <3> QED BY <3>1, <3>2, <3>3, <3>4
  <2> QED BY <2>1, <2>2
<1> QED BY <1>4, <1>5 DEF DepthIs, F

\* The depth is above zero exactly inside parentheses.
LEMMA DepthTells ==
  ASSUME NEW T, NEW list \in Seq(T), NEW n \in Nat, n <= Len(list), NEW depth \in Nat,
         DepthIs(list, n, depth)
  PROVE  depth > 0 <=> Inside(list, n + 1)
<1>1. (n + 1) - 1 = n
  OBVIOUS
<1>2. Inside(list, n + 1) <=> \E q \in 1..n : \A r \in q..n : LeavesOpen(SubSeq(list, q, r))
  BY <1>1 DEF Inside
<1>3. ASSUME NEW q \in 1..n, \A r \in q..n : LeavesOpen(SubSeq(list, q, r))
      PROVE  depth > 0
  <2>1. n - 1 \in Nat /\ (n - 1) + 1 = n /\ n \in DOMAIN list /\ n \in q..n
    OBVIOUS
  <2>2. LeavesOpen(SubSeq(list, q, n)) <=> Excess(list, q, n) > 0
    BY <2>1, ExcessGrows
  <2>3. Excess(list, q, n) > 0 /\ depth >= Excess(list, q, n)
    BY <1>3, <2>1, <2>2 DEF DepthIs
  <2>4. Excess(list, q, n) \in Int
    <3>1. Excess(list, q, n) = Excess(list, q, n - 1) + Weight(list[n]) /\ Excess(list, q, n - 1) \in Int
      BY <2>1, ExcessGrows
    <3>2. Weight(list[n]) \in Int
      BY DEF Weight
    <3> QED BY <3>1, <3>2
  <2> QED BY <2>3, <2>4
<1> QED BY <1>2, <1>3 DEF DepthIs

\* Where the first n tokens are cut, the cut before the first one included.
PlacesOf(list) == [n \in 1..(Len(list) + 2) |-> n - 1]
CutsUpTo(list, n) ==
  At(PlacesOf(list), {m \in 1..(n + 1) : m = 1 \/ Separates(list, m - 1)})
PartsBetween(list, cuts) ==
  [j \in 1..(Len(cuts) - 1) |-> SubSeq(list, cuts[j] + 1, cuts[j + 1] - 1)]

LEMMA PlacesAre ==
  ASSUME NEW T, NEW list \in Seq(T)
  PROVE  /\ PlacesOf(list) \in Seq(Nat) /\ DOMAIN PlacesOf(list) = 1..(Len(list) + 2)
         /\ \A m \in 1..(Len(list) + 2) : PlacesOf(list)[m] = m - 1
<1> DEFINE l == Len(list) + 2
           places == PlacesOf(list)
<1>1. l \in Nat
  OBVIOUS
<1>2. places = [n \in 1..l |-> n - 1]
  BY DEF PlacesOf
<1> HIDE DEF l, places
<1>3. /\ places \in [1..l -> Nat] /\ DOMAIN places = 1..l
      /\ \A m \in 1..l : places[m] = m - 1
  BY <1>1, <1>2
<1>4. places \in Seq(Nat)
  BY <1>1, <1>3, SeqDef
<1> QED BY <1>3, <1>4 DEF l, places

\* A separator that counts is the next cut; the end of the list is the last.
LEMMA CutsGrow ==
  ASSUME NEW T, NEW list \in Seq(T)
  PROVE  /\ CutsUpTo(list, 0) = <<0>>
         /\ \A n \in Nat : n + 1 \in DOMAIN list =>
              CutsUpTo(list, n + 1) = IF Separates(list, n + 1) THEN Append(CutsUpTo(list, n), n + 1)
                                      ELSE CutsUpTo(list, n)
         /\ CutsOf(list) = Append(CutsUpTo(list, Len(list)), Len(list) + 1)
<1> DEFINE l == Len(list)
           places == PlacesOf(list)
           P(n) == {m \in 1..(n + 1) : m = 1 \/ Separates(list, m - 1)}
           End == {n \in 1..(l + 2) : n - 1 \in DOMAIN list => Separates(list, n - 1)}
<1>1. /\ places \in Seq(Nat) /\ DOMAIN places = 1..(l + 2)
      /\ \A m \in 1..(l + 2) : places[m] = m - 1
  BY PlacesAre
<1>2. l \in Nat /\ DOMAIN list = 1..l
  OBVIOUS
<1>3. /\ \A n : CutsUpTo(list, n) = At(places, P(n))
      /\ CutsOf(list) = At(places, End)
  BY DEF CutsUpTo, CutsOf, PlacesOf
<1> HIDE DEF l, places
<1>4. CutsUpTo(list, 0) = <<0>>
  <2>1. P(0) = {} \cup {1} /\ 1 \in DOMAIN places /\ places[1] = 0
    BY <1>1, <1>2
  <2>2. At(places, {}) = <<>>
    BY <1>1, AtNone
  <2>3. At(places, {} \cup {1}) = Append(At(places, {}), places[1])
    <3>1. \A q \in DOMAIN places \cap {} : q < 1
      OBVIOUS
    <3> QED BY <1>1, <2>1, <3>1, AtGrows
  <2>4. Append(<<>>, 0) = <<0>>
    OBVIOUS
  <2> HIDE DEF P
  <2> QED BY <1>3, <2>1, <2>2, <2>3, <2>4
<1>5. ASSUME NEW n \in Nat, n + 1 \in DOMAIN list
      PROVE  CutsUpTo(list, n + 1) = IF Separates(list, n + 1) THEN Append(CutsUpTo(list, n), n + 1)
                                     ELSE CutsUpTo(list, n)
  <2> DEFINE m == n + 2
  <2>1. /\ m \in DOMAIN places /\ places[m] = n + 1 /\ m - 1 = n + 1 /\ m # 1
        /\ (n + 1) + 1 = m /\ \A q \in P(n) : q < m
    BY <1>1, <1>2, <1>5
  <2>2. CASE Separates(list, n + 1)
    <3>1. P(n + 1) = P(n) \cup {m}
      BY <2>1, <2>2
    <3> HIDE DEF P, m
    <3>2. At(places, P(n) \cup {m}) = Append(At(places, P(n)), places[m])
      BY <1>1, <2>1, AtGrows
    <3> QED BY <1>3, <2>1, <2>2, <3>1, <3>2
  <2>3. CASE ~Separates(list, n + 1)
    <3>1. P(n + 1) = P(n)
      BY <2>1, <2>3
    <3> HIDE DEF P, m
    <3> QED BY <1>3, <2>3, <3>1
  <2> QED BY <2>2, <2>3
<1>6. CutsOf(list) = Append(CutsUpTo(list, l), l + 1)
  <2> DEFINE m == l + 2
  <2>1. /\ m \in DOMAIN places /\ places[m] = l + 1 /\ \A q \in P(l) : q < m
    BY <1>1, <1>2
  <2>2. End = P(l) \cup {m}
    BY <1>2
  <2> HIDE DEF P, End, m
  <2>3. At(places, P(l) \cup {m}) = Append(At(places, P(l)), places[m])
    BY <1>1, <2>1, AtGrows
  <2> QED BY <1>3, <2>1, <2>2, <2>3
<1> QED BY <1>4, <1>5, <1>6 DEF l

\* One more cut ends one more part.
LEMMA PartsGrow ==
  ASSUME NEW U, NEW list, NEW cuts \in Seq(Nat), cuts # <<>>, NEW cut \in Nat,
         PartsBetween(list, cuts) \in Seq(U), SubSeq(list, cuts[Len(cuts)] + 1, cut - 1) \in U
  PROVE  PartsBetween(list, Append(cuts, cut))
           = Append(PartsBetween(list, cuts), SubSeq(list, cuts[Len(cuts)] + 1, cut - 1))
<1> DEFINE n == Len(cuts)
           parts == PartsBetween(list, cuts)
           last == SubSeq(list, cuts[n] + 1, cut - 1)
           more == Append(cuts, cut)
           all == PartsBetween(list, more)
           longer == Append(parts, last)
<1>1. /\ n \in Nat /\ n >= 1 /\ Len(more) = n + 1 /\ more[n + 1] = cut
      /\ \A j \in 1..n : more[j] = cuts[j]
  OBVIOUS
<1>2. /\ parts = [j \in 1..(n - 1) |-> SubSeq(list, cuts[j] + 1, cuts[j + 1] - 1)]
      /\ all = [j \in 1..n |-> SubSeq(list, more[j] + 1, more[j + 1] - 1)]
  <2>1. parts = [j \in 1..(n - 1) |-> SubSeq(list, cuts[j] + 1, cuts[j + 1] - 1)]
    BY DEF PartsBetween
  <2>2. all = [j \in 1..(Len(more) - 1) |-> SubSeq(list, more[j] + 1, more[j + 1] - 1)]
    BY DEF PartsBetween
  <2>3. Len(more) - 1 = n
    BY <1>1
  <2> HIDE DEF n, parts, more, all
  <2> QED BY <2>1, <2>2, <2>3
<1> HIDE DEF n, parts, more, all
<1>3. /\ DOMAIN parts = 1..(n - 1)
      /\ \A j \in 1..(n - 1) : parts[j] = SubSeq(list, cuts[j] + 1, cuts[j + 1] - 1)
  BY <1>2
<1>4. /\ DOMAIN all = 1..n /\ all = [j \in 1..n |-> all[j]]
      /\ \A j \in 1..n : all[j] = SubSeq(list, more[j] + 1, more[j + 1] - 1)
  BY <1>2
<1>5. \A j \in 1..(n - 1) : all[j] = parts[j]
  <2> SUFFICES ASSUME NEW j \in 1..(n - 1) PROVE all[j] = parts[j]
    OBVIOUS
  <2>1. j \in 1..n /\ j + 1 \in 1..n
    BY <1>1
  <2>2. more[j] = cuts[j] /\ more[j + 1] = cuts[j + 1]
    BY <1>1, <2>1
  <2> QED BY <1>3, <1>4, <2>1, <2>2
<1>6. all[n] = last
  BY <1>1, <1>4
<1> HIDE DEF last
<1>7. parts \in Seq(U) /\ last \in U
  BY DEF parts, last, n
<1>8. Len(parts) = n - 1
  BY <1>1, <1>3, <1>7, LenProperties
<1>9. longer \in Seq(U) /\ Len(longer) = n /\ longer[n] = last /\ \A j \in 1..(n - 1) : longer[j] = parts[j]
  BY <1>1, <1>7, <1>8, AppendProperties
<1> HIDE DEF longer
<1>10. \A j \in 1..n : all[j] = longer[j]
  BY <1>1, <1>5, <1>6, <1>9
<1>11. longer = [j \in 1..n |-> longer[j]]
  BY <1>9
<1>12. all = longer
  BY <1>4, <1>10, <1>11
<1> QED BY <1>12 DEF all, longer, parts, last, more, n

\* After n tokens the parts are those between the cuts so far, and what was
\* read since the last cut is the part to come.
SplitIs(list, n, state) ==
  LET cuts == CutsUpTo(list, n)
  IN  /\ DepthIs(list, n, state.depth)
      /\ cuts \in Seq(Nat) /\ cuts # <<>> /\ cuts[Len(cuts)] <= n
      /\ state.parts = PartsBetween(list, cuts)
      /\ state.buf = SubSeq(list, cuts[Len(cuts)] + 1, n)

LEMMA SplitStart ==
  ASSUME NEW T, NEW list \in Seq(T)
  PROVE  SplitIs(list, 0, [parts |-> <<>>, buf |-> <<>>, depth |-> 0])
<1>1. CutsUpTo(list, 0) = <<0>>
  BY CutsGrow
<1> DEFINE zero == <<0>>
<1>2. zero \in Seq(Nat) /\ zero # <<>> /\ Len(zero) = 1 /\ zero[1] = 0
  OBVIOUS
<1>3. PartsBetween(list, zero) = <<>>
  <2>1. PartsBetween(list, zero) = [j \in 1..0 |-> SubSeq(list, zero[j] + 1, zero[j + 1] - 1)]
    BY <1>2 DEF PartsBetween
  <2> HIDE DEF zero
  <2>2. 1..0 = {}
    OBVIOUS
  <2>3. DOMAIN PartsBetween(list, zero) = {} /\ PartsBetween(list, zero) \in [1..0 -> Nat]
    BY <2>1, <2>2
  <2>4. PartsBetween(list, zero) \in Seq(Nat)
    BY <2>3, SeqDef
  <2> QED BY <2>3, <2>4, EmptySeq
<1>4. SubSeq(list, 0 + 1, 0) = <<>>
  BY SubSeqEmpty
<1>5. DepthIs(list, 0, 0)
  BY DEF DepthIs
<1> HIDE DEF zero
<1>6. CutsUpTo(list, 0) = zero
  BY <1>1 DEF zero
<1> QED BY <1>2, <1>3, <1>4, <1>5, <1>6 DEF SplitIs

LEMMA SplitGoesOn ==
  ASSUME NEW T, NEW list \in Seq(T), NEW n \in Nat, n + 1 \in DOMAIN list,
         NEW state \in SplitStates(T), SplitIs(list, n, state)
  PROVE  SplitIs(list, n + 1, SplitStep(state, list[n + 1]))
<1> DEFINE x == list[n + 1]
           next == SplitStep(state, x)
           cuts == CutsUpTo(list, n)
           last == cuts[Len(cuts)]
           cut == x = "," /\ state.depth = 0
<1>1. /\ DepthIs(list, n, state.depth)
      /\ cuts \in Seq(Nat) /\ cuts # <<>> /\ last <= n
      /\ state.parts = PartsBetween(list, cuts)
      /\ state.buf = SubSeq(list, last + 1, n)
  BY DEF SplitIs
<1>2. /\ state.parts \in Seq(Seq(T)) /\ state.buf \in Seq(T) /\ state.depth \in Nat /\ x \in T
      /\ n <= Len(list) /\ n + 1 \in Nat
  BY DEF SplitStates
<1>3. last \in Nat /\ last + 1 \in 1..(n + 1) /\ Len(cuts) \in Nat /\ Len(cuts) # 0
  <2>1. Len(cuts) \in Nat /\ Len(cuts) # 0 /\ Len(cuts) \in DOMAIN cuts
    BY <1>1
  <2>2. last \in Nat
    BY <1>1, <2>1
  <2> HIDE DEF cuts, last
  <2> QED BY <1>1, <2>1, <2>2
<1>4. cut <=> Separates(list, n + 1)
  <2>1. state.depth > 0 <=> Inside(list, n + 1)
    BY <1>1, <1>2, DepthTells
  <2>2. Separates(list, n + 1) <=> x = "," /\ ~Inside(list, n + 1)
    BY DEF Separates
  <2> DEFINE d == state.depth
  <2>3. d \in Nat /\ (d > 0 <=> Inside(list, n + 1)) /\ (cut <=> x = "," /\ d = 0)
    BY <1>2, <2>1
  <2>4. d = 0 <=> ~Inside(list, n + 1)
    <3>1. d \in Nat
      BY <1>2
    <3> HIDE DEF d, cut
    <3>2. d = 0 <=> ~(d > 0)
      BY <3>1
    <3> QED BY <2>3, <3>2, Zenon
  <2> HIDE DEF d, cut, x
  <2> QED BY <2>2, <2>3, <2>4, Zenon
<1>5. CutsUpTo(list, n + 1) = IF cut THEN Append(cuts, n + 1) ELSE cuts
  BY <1>4, CutsGrow
<1>6. /\ cut => next = [parts |-> Append(state.parts, state.buf), buf |-> <<>>, depth |-> state.depth]
      /\ ~cut => next = [parts |-> state.parts, buf |-> Append(state.buf, x),
                         depth |-> IF x = "(" THEN state.depth + 1
                                   ELSE IF x = ")" /\ state.depth # 0 THEN state.depth - 1
                                   ELSE state.depth]
  BY <1>2, SplitTyped
<1> HIDE DEF next
<1>7. DepthIs(list, n + 1, next.depth)
  <2> DEFINE d == next.depth
  <2>1. d = IF x = "(" THEN state.depth + 1
            ELSE IF x = ")" /\ state.depth # 0 THEN state.depth - 1 ELSE state.depth
    <3>1. CASE cut
      <4>1. d = state.depth
        <5> HIDE DEF cut, x
        <5> QED BY <1>6, <3>1
      <4>2. x # "(" /\ x # ")"
        BY <3>1
      <4> HIDE DEF d, cut, x
      <4> QED BY <4>1, <4>2
    <3>2. CASE ~cut
      <4> HIDE DEF cut, x
      <4> QED BY <1>6, <3>2
    <3> HIDE DEF d, cut, x
    <3> QED BY <3>1, <3>2
  <2> HIDE DEF d, next
  <2>2. DepthIs(list, n + 1, d)
    BY <1>1, <1>2, <2>1, DepthStep
  <2> QED BY <2>2 DEF d
<1>8. CASE cut
  <2> DEFINE more == Append(cuts, n + 1)
  <2>1. /\ next.parts = Append(state.parts, state.buf) /\ next.buf = <<>>
        /\ CutsUpTo(list, n + 1) = more
    <3> HIDE DEF cut, cuts, x
    <3> QED BY <1>5, <1>6, <1>8
  <2>2. /\ more \in Seq(Nat) /\ more # <<>> /\ Len(more) = Len(cuts) + 1
        /\ more[Len(more)] = n + 1
    <3> DEFINE m == n + 1
    <3>1. cuts \in Seq(Nat) /\ m \in Nat
      BY <1>1, <1>2
    <3> HIDE DEF cuts, m
    <3>2. Append(cuts, m) \in Seq(Nat) /\ Append(cuts, m) # <<>> /\ Len(Append(cuts, m)) = Len(cuts) + 1
          /\ Append(cuts, m)[Len(cuts) + 1] = m
      BY <3>1, AppendProperties
    <3> QED BY <3>2 DEF m
  <2>3. (n + 1) - 1 = n
    OBVIOUS
  <2>4. PartsBetween(list, more) = Append(state.parts, state.buf)
    <3> DEFINE U == Seq(T)
    <3>1. PartsBetween(list, cuts) \in Seq(U) /\ SubSeq(list, last + 1, (n + 1) - 1) \in U
      BY <1>1, <1>2, <2>3
    <3> HIDE DEF U, cuts
    <3>2. PartsBetween(list, more)
            = Append(PartsBetween(list, cuts), SubSeq(list, last + 1, (n + 1) - 1))
      BY <1>1, <1>2, <3>1, PartsGrow
    <3> QED BY <1>1, <2>3, <3>2
  <2>5. SubSeq(list, (n + 1) + 1, n + 1) = <<>>
    BY SubSeqEmpty
  <2> HIDE DEF more, cuts
  <2>6. n + 1 <= n + 1
    OBVIOUS
  <2>7. next.buf = SubSeq(list, more[Len(more)] + 1, n + 1)
    BY <2>1, <2>2, <2>5
  <2> QED BY <1>7, <2>1, <2>2, <2>4, <2>6, <2>7 DEF SplitIs, next
<1>9. CASE ~cut
  <2>1. /\ next.parts = state.parts /\ next.buf = Append(state.buf, x)
        /\ CutsUpTo(list, n + 1) = cuts
    <3> HIDE DEF cut, cuts, x
    <3> QED BY <1>5, <1>6, <1>9
  <2>2. Append(state.buf, x) = SubSeq(list, last + 1, n + 1)
    BY <1>1, <1>3, PieceGrows
  <2>3. last <= n + 1
    BY <1>1, <1>3
  <2> HIDE DEF cuts
  <2> QED BY <1>1, <1>7, <2>1, <2>2, <2>3 DEF SplitIs, next
<1> QED BY <1>8, <1>9

\* The split counts exactly the separators outside parentheses.
LEMMA SplittingTells ==
  ASSUME NEW T, NEW list \in Seq(T)
  PROVE  SplitRespectingParens(list) = PartsOf(list) /\ PartsOf(list) \in Seq(Seq(T))
<1> DEFINE l == Len(list)
<1>1. PICK state \in [0..l -> SplitStates(T)] :
        /\ state[0] = [parts |-> <<>>, buf |-> <<>>, depth |-> 0]
        /\ \A n \in 1..l : state[n] = SplitStep(state[n - 1], list[n])
        /\ SplitRespectingParens(list) = Append(state[l].parts, state[l].buf)
  BY SplitLoop
<1>2. l \in Nat /\ DOMAIN list = 1..l
  OBVIOUS
<1> HIDE DEF l
<1> DEFINE Told == {n \in Nat : n <= l => SplitIs(list, n, state[n])}
<1>3. 0 \in Told
  BY <1>1, SplitStart
<1>4. ASSUME NEW n \in Nat, n \in Told PROVE n + 1 \in Told
  <2> SUFFICES ASSUME n + 1 <= l PROVE SplitIs(list, n + 1, state[n + 1])
    OBVIOUS
  <2>1. /\ n + 1 \in 1..l /\ (n + 1) - 1 = n /\ n \in 0..l /\ n <= l /\ n + 1 \in DOMAIN list
    BY <1>2
  <2>2. SplitIs(list, n, state[n]) /\ state[n] \in SplitStates(T)
    BY <1>1, <1>4, <2>1
  <2>3. state[n + 1] = SplitStep(state[n], list[n + 1])
    BY <1>1, <2>1
  <2>4. SplitIs(list, n + 1, SplitStep(state[n], list[n + 1]))
    BY <2>1, <2>2, SplitGoesOn
  <2> QED BY <2>3, <2>4
<1> HIDE DEF Told
<1>5. l \in Told
  BY <1>2, <1>3, <1>4, SetInduction
<1>6. SplitIs(list, l, state[l]) /\ state[l] \in SplitStates(T)
  BY <1>1, <1>2, <1>5 DEF Told
<1> DEFINE cuts == CutsUpTo(list, l)
           U == Seq(T)
           all == PartsBetween(list, Append(cuts, l + 1))
<1>7. /\ cuts \in Seq(Nat) /\ cuts # <<>>
      /\ state[l].parts = PartsBetween(list, cuts)
      /\ state[l].buf = SubSeq(list, cuts[Len(cuts)] + 1, l)
      /\ state[l].parts \in Seq(U) /\ state[l].buf \in U
  BY <1>6 DEF SplitIs, SplitStates
<1>8. PartsOf(list) = all
  <2>1. CutsOf(list) = Append(cuts, l + 1)
    BY CutsGrow DEF l
  <2>2. PartsOf(list) = PartsBetween(list, CutsOf(list))
    BY DEF PartsOf, PartsBetween
  <2> HIDE DEF cuts
  <2> QED BY <2>1, <2>2
<1>9. (l + 1) - 1 = l /\ l + 1 \in Nat
  BY <1>2
<1> HIDE DEF cuts, U
<1>10. all = Append(PartsBetween(list, cuts), SubSeq(list, cuts[Len(cuts)] + 1, l))
  BY <1>7, <1>9, PartsGrow
<1> HIDE DEF all
<1>11. all = SplitRespectingParens(list) /\ all \in Seq(U)
  <2>1. all = Append(state[l].parts, state[l].buf)
    BY <1>7, <1>10
  <2> QED BY <1>1, <1>7, <2>1, AppendProperties
<1> QED BY <1>8, <1>11 DEF U

\* The texts of the lines, and the items made of them, are sequences of tokens.
LEMMA CleanTyped ==
  ASSUME NEW body \in Seq(Line)
  PROVE  CleanLines(body) \in Seq(Seq(STRING))
<1> DEFINE T == STRING
           U == Seq(T)
           texts == [j \in DOMAIN body |-> WithoutLabel(Tokens[body[j]])]
           kept == {j \in DOMAIN texts : texts[j] \notin {<<>>, <<"number">>}}
<1>1. Len(body) \in Nat /\ DOMAIN body = 1..Len(body) /\ \A j \in DOMAIN body : body[j] \in Line
  OBVIOUS
<1>2. \A line \in Line : Tokens[line] \in U
  BY TokensAreTexts
<1> HIDE DEF T
<1>3. \A text_ \in U : WithoutLabel(text_) \in U
  <2> SUFFICES ASSUME NEW text_ \in Seq(T) PROVE WithoutLabel(text_) \in Seq(T)
    OBVIOUS
  <2>1. text_ # <<>> => Tail(text_) \in Seq(T)
    BY HeadTailProperties
  <2> QED BY <2>1 DEF WithoutLabel
<1> HIDE DEF U
<1>4. texts \in [1..Len(body) -> U]
  BY <1>1, <1>2, <1>3
<1>5. texts \in Seq(U)
  <2> HIDE DEF texts
  <2> QED BY <1>1, <1>4, SeqDef
<1>6. CleanLines(body) = At(texts, kept)
  BY DEF CleanLines
<1> HIDE DEF texts, kept
<1>7. At(texts, kept) \in Seq(U)
  BY <1>5, AtPicks
<1> QED BY <1>6, <1>7 DEF U, T

LEMMA StripTyped ==
  ASSUME NEW T, NEW item \in Seq(T)
  PROVE  Strip(item) \in Seq(T)
<1> DEFINE kept == {q \in DOMAIN item : item[q] # "-"}
<1>1. DOMAIN item = 1..Len(item) /\ Len(item) \in Nat /\ \A q \in DOMAIN item : item[q] \in T
  OBVIOUS
<1>2. kept \subseteq Nat
  BY <1>1
<1>3. CASE kept = {}
  BY <1>3 DEF Strip
<1>4. CASE kept # {}
  <2> DEFINE first == CHOOSE q \in kept : \A r \in kept : q <= r
             last == CHOOSE q \in kept : \A r \in kept : q >= r
  <2>1. Strip(item) = SubSeq(item, first, last)
    BY <1>4 DEF Strip
  <2>2. \E q \in kept : \A r \in kept : q <= r
    <3> HIDE DEF kept
    <3> QED BY <1>2, <1>4, LeastElement
  <2>3. \E q \in kept : \A r \in kept : q >= r
    <3> DEFINE After == {Len(item) - q : q \in kept}
    <3>1. After \subseteq Nat /\ After # {}
      BY <1>1, <1>4
    <3> HIDE DEF After
    <3>2. PICK d \in After : \A e \in After : d <= e
      BY <3>1, LeastElement
    <3>3. PICK q \in kept : d = Len(item) - q
      BY DEF After
    <3>4. ASSUME NEW r \in kept PROVE q >= r
      <4>1. Len(item) - r \in After
        BY DEF After
      <4>2. Len(item) - q <= Len(item) - r
        BY <3>2, <3>3, <4>1
      <4>3. q \in Nat /\ r \in Nat
        BY <1>2
      <4> HIDE DEF kept
      <4> QED BY <1>1, <4>2, <4>3
    <3> QED BY <3>4
  <2>4. first \in kept /\ last \in kept
    <3> HIDE DEF kept
    <3> QED BY <2>2, <2>3
  <2> HIDE DEF first, last
  <2>5. first \in 1..Len(item) /\ last \in 1..Len(item)
    BY <1>1, <2>4
  <2>6. \A q \in first..last : item[q] \in T
    BY <1>1, <2>5
  <2>7. SubSeq(item, first, last) \in Seq(T)
    BY <1>1, <2>5, <2>6, SubSeqProperties
  <2> QED BY <2>1, <2>7
<1> QED BY <1>3, <1>4

LEMMA ProficiencyTyped ==
  ASSUME NEW T, NEW item \in Seq(T)
  PROVE  WithoutProficiency(item) \in Seq(T)
<1> DEFINE n == Len(item)
           open == IF n > 0 /\ item[n] = ")" THEN n - 2 ELSE n - 1
<1>1. n \in Nat /\ DOMAIN item = 1..n /\ \A q \in 1..n : item[q] \in T
  OBVIOUS
<1>2. open \in Int /\ open < n
  BY <1>1
<1>3. WithoutProficiency(item) \in {item, SubSeq(item, 1, open - 1)}
  BY DEF WithoutProficiency
<1> HIDE DEF n, open
<1>4. SubSeq(item, 1, open - 1) \in Seq(T)
  <2>1. \A q \in 1..(open - 1) : item[q] \in T
    BY <1>1, <1>2
  <2> QED BY <1>2, <2>1, SubSeqProperties
<1> QED BY <1>3, <1>4

\* The items of a section are what its lines say, and none repeats another.
LEMMA ItemsAreTold ==
  ASSUME NEW body \in Seq(Line)
  PROVE  /\ TellsItems(ListItems(body), body)
         /\ DistinctItems(ListItems(body))
         /\ ListItems(body) \in Seq(Seq(STRING))
<1> DEFINE T == STRING
           U == Seq(T)
           texts == JoinDanglingParens(CleanLines(body))
           split == [j \in DOMAIN texts |-> SplitRespectingParens(texts[j])]
           cut == [j \in DOMAIN texts |-> PartsOf(texts[j])]
           parts == FlattenSeq(cut)
           stripped == [j \in DOMAIN parts |-> Strip(parts[j])]
<1>1. CleanLines(body) \in Seq(U)
  BY CleanTyped
<1> HIDE DEF T
<1>2. texts \in Seq(U) /\ FlattenSeq(texts) = FlattenSeq(CleanLines(body)) /\ Closed(texts)
  BY <1>1, JoiningTells
<1>3. \A j \in DOMAIN texts : SplitRespectingParens(texts[j]) = PartsOf(texts[j])
                             /\ PartsOf(texts[j]) \in Seq(U)
  BY <1>2, SplittingTells
<1>4. split = cut
  BY <1>3
<1>5. cut \in Seq(Seq(U))
  <2>1. DOMAIN texts = 1..Len(texts) /\ Len(texts) \in Nat
    BY <1>2
  <2> HIDE DEF texts
  <2>2. cut \in [1..Len(texts) -> Seq(U)]
    BY <1>3, <2>1
  <2> HIDE DEF cut
  <2> QED BY <2>1, <2>2, SeqDef
<1>6. parts \in Seq(U)
  <2> HIDE DEF U, cut
  <2> QED BY <1>5, FlattenPlaces
<1>7. stripped \in Seq(U)
  <2>1. DOMAIN parts = 1..Len(parts) /\ Len(parts) \in Nat /\ \A j \in DOMAIN parts : Strip(parts[j]) \in U
    BY <1>6, StripTyped
  <2> HIDE DEF parts, U
  <2>2. stripped \in [1..Len(parts) -> U]
    BY <2>1
  <2> HIDE DEF stripped
  <2> QED BY <2>1, <2>2, SeqDef
<1>8. ListItems(body) = Distinct(stripped)
  <2>1. ListItems(body)
          = Distinct([j \in DOMAIN FlattenSeq(split) |-> Strip(FlattenSeq(split)[j])])
    BY DEF ListItems
  <2> HIDE DEF split, cut
  <2> QED BY <1>4, <2>1
<1>9. /\ Distinct(stripped) = At(stripped, NewItems(stripped)) /\ Distinct(stripped) \in Seq(U)
      /\ DistinctItems(Distinct(stripped))
  <2> HIDE DEF stripped
  <2> QED BY <1>7, DistinctTells, DistinctAreDistinct
<1>10. TellsItems(ListItems(body), body)
           <=> /\ FlattenSeq(texts) = FlattenSeq(CleanLines(body))
               /\ Closed(texts)
               /\ ListItems(body) = At(stripped, NewItems(stripped))
  BY DEF TellsItems, Closed
<1> HIDE DEF texts, stripped
<1> QED BY <1>2, <1>8, <1>9, <1>10 DEF T

\* The languages are distinct, and each item without its proficiency is one.
LEMMA LanguagesAreTold ==
  ASSUME NEW body \in Seq(Line)
  PROVE  /\ DistinctItems(Languages(body))
         /\ \A item \in ToSet(ListItems(body)) : WithoutProficiency(item) # <<>> =>
              \E language \in ToSet(Languages(body)) :
                ItemKey(language) = ItemKey(WithoutProficiency(item))
<1> DEFINE T == STRING
           U == Seq(T)
           found == ListItems(body)
           spoken == [j \in DOMAIN found |-> WithoutProficiency(found[j])]
<1>1. found \in Seq(U)
  BY ItemsAreTold
<1> HIDE DEF T
<1>2. /\ DOMAIN found = 1..Len(found) /\ Len(found) \in Nat
      /\ \A j \in DOMAIN found : WithoutProficiency(found[j]) \in U
  BY <1>1, ProficiencyTyped
<1>3. Languages(body) = Distinct(spoken)
  BY DEF Languages
<1> HIDE DEF found
<1>4. spoken \in Seq(U)
  <2> HIDE DEF U
  <2>1. spoken \in [1..Len(found) -> U]
    BY <1>2
  <2> HIDE DEF spoken
  <2> QED BY <1>2, <2>1, SeqDef
<1>5. ASSUME NEW item \in ToSet(found) PROVE WithoutProficiency(item) \in ToSet(spoken)
  BY DEF ToSet
<1> HIDE DEF spoken
<1>6. /\ DistinctItems(Distinct(spoken))
      /\ \A item \in ToSet(spoken) : item # <<>> =>
           \E kept \in ToSet(Distinct(spoken)) : ItemKey(kept) = ItemKey(item)
  BY <1>4, DistinctAreDistinct
<1> QED BY <1>3, <1>5, <1>6 DEF found

\* The lists of the candidate are what its list sections say: for lines and
\* separators in any number, the text is cut exactly at the separators outside
\* parentheses, however parentheses nest, dangle or close what was never
\* opened; nothing is dropped but what is blank or repeats.
THEOREM ListsTellTheSectionsHolds == Spec => []ListsTellTheSections
<1>1. MapperInv /\ LinesInv => ListsTellTheSections
  <2> SUFFICES ASSUME MapperInv, LinesInv, phase = "candidate"
               PROVE  /\ TellsItems(items["skills"], bodies["skills"])
                      /\ TellsItems(items["certifications"], bodies["certifications"])
                      /\ \A list \in Lists : DistinctItems(items[list])
                      /\ \A item \in ToSet(ListItems(bodies["languages"])) :
                           WithoutProficiency(item) # <<>> =>
                             \E language \in ToSet(items["languages"]) :
                               ItemKey(language) = ItemKey(WithoutProficiency(item))
    BY DEF ListsTellTheSections
  <2>1. /\ items["skills"] = ListItems(bodies["skills"])
        /\ items["languages"] = Languages(bodies["languages"])
        /\ items["certifications"] = ListItems(bodies["certifications"])
    BY DEF MapperInv, ItemsOf
  <2>2. /\ bodies["skills"] \in Seq(Line) /\ bodies["languages"] \in Seq(Line)
        /\ bodies["certifications"] \in Seq(Line)
    BY DEF LinesInv, SectionName
  <2>3. /\ TellsItems(items["skills"], bodies["skills"]) /\ DistinctItems(items["skills"])
        /\ TellsItems(items["certifications"], bodies["certifications"])
        /\ DistinctItems(items["certifications"])
    BY <2>1, <2>2, ItemsAreTold
  <2>4. /\ DistinctItems(items["languages"])
        /\ \A item \in ToSet(ListItems(bodies["languages"])) : WithoutProficiency(item) # <<>> =>
             \E language \in ToSet(items["languages"]) :
               ItemKey(language) = ItemKey(WithoutProficiency(item))
    BY <2>1, <2>2, LanguagesAreTold
  <2>5. \A list \in Lists : DistinctItems(items[list])
    BY <2>3, <2>4 DEF Lists
  <2> QED BY <2>3, <2>4, <2>5
<1>2. MapperInv => DocumentInv
  BY DEF MapperInv, ExperienceInv, ParserInv
<1> QED BY <1>1, <1>2, InitLinesInv, NextLinesInv, InitMapperInv, NextMapperInv, PTL DEF Spec
=============================================================================
