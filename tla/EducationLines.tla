---------------------------- MODULE EducationLines ----------------------------
(***************************************************************************)
(* ResumeParser._build_education_entries: one pass over the lines of the   *)
(* Education section that fills six pending attributes and flushes them    *)
(* when the next institution, or the end, is met.  The branches are tried  *)
(* in the order of the code; what a regular expression or a list of words  *)
(* recognises is given by a set of lines.                                  *)
(***************************************************************************)
EXTENDS ResumeLines, Integers, Sequences

CONSTANTS
  GPALines,      \* lines with a GPA that is in range
  FigureLines,   \* lines with a GPA out of range or with a percentage
  DegreeLines,   \* lines with a degree keyword
  SchoolLines,   \* lines with a token of the secondary-school list
  PlaceLines     \* lines of at most four words with a comma

VARIABLES
  lines,         \* the lines of the section
  at,            \* the position of the next one
  institution, degree, dates, gpa,   \* pending: positions, or None
  skip_entry,
  education      \* entries

educationVars == <<lines, at, institution, degree, dates, gpa, skip_entry, education>>

EducationInit(section) ==
  /\ lines = section
  /\ at = 1
  /\ institution = None /\ degree = None /\ dates = None /\ gpa = None
  /\ skip_entry = FALSE
  /\ education = <<>>

Here == lines[at]
Reading == at <= Len(lines)
Plain == Here \notin DateLines /\ Here \notin GPALines
IsDegree == Plain /\ Here \in DegreeLines /\ Here \notin SchoolLines

\* A place after an institution that has no degree yet.
IsPlace == Here \in PlaceLines /\ institution # None /\ degree = None

Flushed ==
  IF institution # None /\ degree # None /\ ~skip_entry
  THEN Append(education,
              [institution |-> institution, degree |-> degree, dates |-> dates, gpa |-> gpa])
  ELSE education

TakeDates ==
  /\ Reading /\ Here \in DateLines
  /\ dates' = at
  /\ at' = at + 1
  /\ UNCHANGED <<lines, institution, degree, gpa, skip_entry, education>>

TakeGPA ==
  /\ Reading /\ Here \notin DateLines /\ Here \in GPALines
  /\ gpa' = at
  /\ at' = at + 1
  /\ UNCHANGED <<lines, institution, degree, dates, skip_entry, education>>

TakeDegree ==
  /\ Reading /\ IsDegree
  /\ degree' = at
  /\ at' = at + 1
  /\ UNCHANGED <<lines, institution, dates, gpa, skip_entry, education>>

SkipLine ==
  /\ Reading /\ Plain /\ ~IsDegree
  /\ IsPlace \/ Here \in FigureLines
  /\ at' = at + 1
  /\ UNCHANGED <<lines, institution, degree, dates, gpa, skip_entry, education>>

\* Seeded fault: a school is skipped, but not what is said of it.
StartEntry_SkipsSchool ==
  /\ Reading /\ Plain /\ ~IsDegree /\ ~IsPlace /\ Here \notin FigureLines
  /\ IF Here \in SchoolLines
     THEN UNCHANGED <<education, institution, skip_entry, degree, dates, gpa>>
     ELSE /\ education' = Flushed
          /\ institution' = at
          /\ skip_entry' = FALSE
          /\ degree' = None /\ dates' = None /\ gpa' = None
  /\ at' = at + 1
  /\ UNCHANGED lines

StartEntry ==
  /\ Reading /\ Plain /\ ~IsDegree /\ ~IsPlace /\ Here \notin FigureLines
  /\ education' = Flushed
  /\ institution' = at
  /\ skip_entry' = (Here \in SchoolLines)
  /\ degree' = None /\ dates' = None /\ gpa' = None
  /\ at' = at + 1
  /\ UNCHANGED lines

\* Seeded fault: the end of the section flushes nothing.
FlushLast_Forgotten ==
  /\ at = Len(lines) + 1
  /\ at' = at + 1
  /\ UNCHANGED <<lines, institution, degree, dates, gpa, skip_entry, education>>

\* The last flush; the cursor moves past the end of the section.
FlushLast ==
  /\ at = Len(lines) + 1
  /\ education' = Flushed
  /\ at' = at + 1
  /\ UNCHANGED <<lines, institution, degree, dates, gpa, skip_entry>>

EducationDone == at = Len(lines) + 2

EducationNext ==
  TakeDates \/ TakeGPA \/ TakeDegree \/ SkipLine \/ StartEntry \/ FlushLast

-----------------------------------------------------------------------------
AttributesOf(entry) == {entry.degree, entry.dates, entry.gpa} \ {None}

\* Lines that start an entry wherever they stand.
Heading(p) ==
  /\ lines[p] \notin DateLines \cup GPALines \cup FigureLines \cup PlaceLines
  /\ lines[p] \in DegreeLines => lines[p] \in SchoolLines

\* What an entry says stands between its institution and the next heading: no
\* attribute crosses over from the entry before or from a skipped school.
AttributesStayWithTheirEntry ==
  \A e \in DOMAIN education : \A a \in AttributesOf(education[e]) :
    /\ education[e].institution < a
    /\ ~\E p \in (education[e].institution + 1)..a : Heading(p)

\* An entry is made of every institution that is not a school and is followed,
\* before the next heading, by a degree line.
DegreesAreKept ==
  EducationDone =>
    \A p, d \in DOMAIN lines :
      (/\ p < d /\ Heading(p) /\ lines[p] \notin SchoolLines
       /\ lines[d] \in DegreeLines \ (SchoolLines \cup DateLines \cup GPALines)
       /\ ~\E q \in (p + 1)..d : Heading(q) \/ (q < d /\ lines[q] \in DegreeLines))
      => \E e \in DOMAIN education :
           education[e].institution = p /\ education[e].degree >= d
=============================================================================
