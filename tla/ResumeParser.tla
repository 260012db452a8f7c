----------------------------- MODULE ResumeParser -----------------------------
(***************************************************************************)
(* ResumeParser.parse from the file to the candidate: the document is read *)
(* (ResumeDocument), _assemble builds the lists (ListItems) and the        *)
(* entries of the two sections (ExperienceLines, EducationLines), then     *)
(* ResumeMapper maps the fields one after the other.  An entry the mapper  *)
(* refuses (MappingError) is skipped; an entry the model refuses           *)
(* (ValidationError) is not caught where entries are mapped and ends the   *)
(* parse.                                                                  *)
(***************************************************************************)
EXTENDS ResumeDocument, ListItems, ExperienceLines, EducationLines

CONSTANTS
  BackwardDates,     \* date lines whose range ends before it starts
  FutureDates,       \* date lines whose range starts after today
  UnreadableDates,   \* date lines whose start is no date
  BlankBullets,      \* bullet lines with nothing but the marker
  BlankLines,        \* institution lines that are only an abbreviation
  RefusedContacts,   \* contact lines with an email ContactInfo refuses
  MaxLength          \* list field of Candidate -> its max_length

Lists == {"skills", "languages", "certifications"}

VARIABLES
  phase,          \* "read", "lists", "assemble", the field being mapped, "build",
                  \* "candidate" or "refused"
  refusal,        \* the error raised, and the phase it was raised in
  items,          \* list section -> the items extracted from it
  next_entry,     \* the raw entry being mapped
  experiences, educations,   \* the entries mapped
  provenance      \* the fields recorded

mapperVars == <<phase, refusal, items, next_entry, experiences, educations, provenance>>
vars == <<documentVars, experienceVars, educationVars, mapperVars>>

Init ==
  /\ DocumentInit
  /\ ExperienceInit(<<>>)
  /\ EducationInit(<<>>)
  /\ phase = "read"
  /\ refusal = None
  /\ items = [list \in Lists |-> <<>>]
  /\ next_entry = 1
  /\ experiences = <<>> /\ educations = <<>>
  /\ provenance = {}

Refuse(error) ==
  /\ refusal' = [error |-> error, phase |-> phase]
  /\ phase' = "refused"
  /\ UNCHANGED <<items, next_entry, experiences, educations, provenance>>

ReadDocument ==
  /\ phase = "read" /\ DocumentNext
  /\ UNCHANGED <<experienceVars, educationVars, mapperVars>>

RefuseDocument ==
  /\ phase = "read" /\ reading \in DocumentErrors
  /\ Refuse(reading)
  /\ UNCHANGED <<documentVars, experienceVars, educationVars>>

\* What the sections are read for: the lines of two, the items of three.
StartAssembly ==
  /\ phase = "read" /\ reading = "done"
  /\ section' = bodies["experience"]
  /\ lines' = bodies["education"]
  /\ phase' = "lists"
  /\ UNCHANGED <<documentVars, i, pending, flow, k, header, dated, description, experience>>
  /\ UNCHANGED <<at, institution, degree, dates, gpa, skip_entry, education>>
  /\ UNCHANGED <<refusal, items, next_entry, experiences, educations, provenance>>

EntriesUnchanged == UNCHANGED <<documentVars, experienceVars, educationVars, items>>

BuildLists ==
  /\ phase = "lists"
  /\ items' = [skills |-> ListItems(bodies["skills"]),
               languages |-> Languages(bodies["languages"]),
               certifications |-> ListItems(bodies["certifications"])]
  /\ phase' = "assemble"
  /\ UNCHANGED <<experienceVars, educationVars, refusal, next_entry, experiences, educations,
                 provenance>>
  /\ UNCHANGED documentVars

BuildExperience ==
  /\ phase = "assemble" /\ ExperienceNext
  /\ UNCHANGED <<documentVars, educationVars, mapperVars>>

BuildEducation ==
  /\ phase = "assemble" /\ flow = "done" /\ EducationNext
  /\ UNCHANGED <<documentVars, experienceVars, mapperVars>>

Assembled == phase = "assemble" /\ flow = "done" /\ EducationDone

RefuseNameless ==
  /\ Assembled /\ name = None
  /\ Refuse("MappingError")
  /\ UNCHANGED <<documentVars, experienceVars, educationVars>>

\* ContactInfo checks the email its own way.
ContactRefused == ContactAt # None /\ text[ContactAt].line \in RefusedContacts

RefuseContact ==
  /\ Assembled /\ name # None /\ ContactRefused
  /\ Refuse("MappingError")
  /\ UNCHANGED <<documentVars, experienceVars, educationVars>>

Recorded(list) == IF items[list] = <<>> THEN {} ELSE {list}

\* Only what was found is set and recorded.
MapFields ==
  /\ Assembled /\ name # None /\ ~ContactRefused
  /\ provenance' =
       {"name"} \cup (IF ContactAt = None THEN {} ELSE {"contact"})
         \cup (IF LocationAt = None THEN {} ELSE {"location"})
         \cup Recorded("skills") \cup Recorded("languages")
  /\ phase' = "experience"
  /\ EntriesUnchanged /\ UNCHANGED <<refusal, next_entry, experiences, educations>>

-----------------------------------------------------------------------------
BlankDescription(entry) ==
  /\ entry.description # <<>>
  /\ \A q \in ToSet(entry.description) : section[q] \in BlankBullets

\* Seeded fault: the required texts are not checked.
ExperienceOutcome_NothingRequired(entry) ==
  IF section[entry.date] \in UnreadableDates THEN "MappingError"
  ELSE IF section[entry.date] \in BackwardDates \cup FutureDates \/ BlankDescription(entry)
  THEN "ValidationError" ELSE "WorkExperience"

\* Seeded fault: a start that is no date leaves the entry without one.
ExperienceOutcome_DateOptional(entry) ==
  IF entry.company = None \/ entry.title = None THEN "MappingError"
  ELSE IF section[entry.date] \in BackwardDates \cup FutureDates \/ BlankDescription(entry)
  THEN "ValidationError" ELSE "WorkExperience"

\* _map_experience checks what is required before it calls the model.
ExperienceOutcome(entry) ==
  IF \/ entry.company = None \/ entry.title = None
     \/ section[entry.date] \in UnreadableDates THEN "MappingError"
  ELSE IF section[entry.date] \in BackwardDates \cup FutureDates \/ BlankDescription(entry)
  THEN "ValidationError" ELSE "WorkExperience"

\* Both dates of a school entry are optional and may lie in the future.
EducationOutcome(entry) ==
  IF lines[entry.institution] \in BlankLines THEN "MappingError"
  ELSE IF entry.dates # None /\ lines[entry.dates] \in BackwardDates
  THEN "ValidationError" ELSE "Education"

MapExperience ==
  /\ phase = "experience" /\ next_entry \in DOMAIN experience
  /\ LET entry == experience[next_entry]
     IN  /\ ExperienceOutcome(entry) # "ValidationError"
         /\ experiences' = IF ExperienceOutcome(entry) = "MappingError" THEN experiences
                           ELSE Append(experiences, entry)
  /\ next_entry' = next_entry + 1
  /\ EntriesUnchanged /\ UNCHANGED <<phase, refusal, educations, provenance>>

\* Only a list that is not empty is set and recorded.
EndExperience ==
  /\ phase = "experience" /\ next_entry = Len(experience) + 1
  /\ provenance' = IF experiences = <<>> THEN provenance ELSE provenance \cup {"experiences"}
  /\ phase' = "education" /\ next_entry' = 1
  /\ EntriesUnchanged /\ UNCHANGED <<refusal, experiences, educations>>

MapEducation ==
  /\ phase = "education" /\ next_entry \in DOMAIN education
  /\ LET entry == education[next_entry]
     IN  /\ EducationOutcome(entry) # "ValidationError"
         /\ educations' = IF EducationOutcome(entry) = "MappingError" THEN educations
                          ELSE Append(educations, entry)
  /\ next_entry' = next_entry + 1
  /\ EntriesUnchanged /\ UNCHANGED <<phase, refusal, experiences, provenance>>

EndEducation ==
  /\ phase = "education" /\ next_entry = Len(education) + 1
  /\ provenance' = IF educations = <<>> THEN provenance ELSE provenance \cup {"education"}
  /\ phase' = "build"
  /\ EntriesUnchanged /\ UNCHANGED <<refusal, next_entry, experiences, educations>>

\* The model's error passes the per-entry handler and becomes the MappingError
\* of the whole parse.
RefuseEntry ==
  /\ \/ /\ phase = "experience" /\ next_entry \in DOMAIN experience
        /\ ExperienceOutcome(experience[next_entry]) = "ValidationError"
     \/ /\ phase = "education" /\ next_entry \in DOMAIN education
        /\ EducationOutcome(education[next_entry]) = "ValidationError"
  /\ Refuse("MappingError")
  /\ UNCHANGED <<documentVars, experienceVars, educationVars>>

TooLong ==
  \/ Len(experiences) > MaxLength["experiences"] \/ Len(educations) > MaxLength["education"]
  \/ \E list \in Lists : Len(items[list]) > MaxLength[list]

RefuseCandidate ==
  /\ phase = "build" /\ TooLong
  /\ Refuse("MappingError")
  /\ UNCHANGED <<documentVars, experienceVars, educationVars>>

\* A certification has a name, all it needs, so none is skipped.
BuildCandidate ==
  /\ phase = "build" /\ ~TooLong
  /\ provenance' = provenance \cup Recorded("certifications")
  /\ phase' = "candidate"
  /\ EntriesUnchanged /\ UNCHANGED <<refusal, next_entry, experiences, educations>>

\* The caller has the candidate or the exception.
Returned == phase \in {"candidate", "refused"} /\ UNCHANGED vars

Next ==
  \/ ReadDocument \/ RefuseDocument \/ StartAssembly
  \/ BuildLists \/ BuildExperience \/ BuildEducation
  \/ RefuseNameless \/ RefuseContact \/ MapFields
  \/ MapExperience \/ EndExperience \/ MapEducation \/ EndEducation \/ RefuseEntry
  \/ RefuseCandidate \/ BuildCandidate
  \/ Returned

Spec == Init /\ [][Next]_vars

-----------------------------------------------------------------------------
(* Properties.                                                             *)

Phases ==
  {"read", "lists", "assemble", "experience", "education", "build", "candidate", "refused"}

\* None is no refusal.
ASSUME RefusalsAreNotNone ==
  None \notin [error : DocumentErrors \cup {"MappingError"}, phase : Phases]

\* The cursors stay within their lists, pending lines wait only while lines
\* are routed or handed over, and mapped entries have what is required.
TypeOK ==
  /\ phase \in Phases
  /\ reading \in {"file", "text", "name", "sections", "done"} \cup DocumentErrors
  /\ refusal # None <=> phase = "refused"
  /\ Len(text) \in {0, Len(resume.spans)} /\ header_at \in 0..Len(text)
  /\ \A s \in SectionName : Len(bodies[s]) < Len(text) + 1
  /\ flow \in {"route", "newline", "pipe", "done"}
  /\ i \in 1..(Len(section) + 1) /\ k \in 1..(Len(pending) + 1)
  /\ at \in 1..(Len(lines) + 2)
  /\ ToSet(pending) \cup ToSet(header) \cup ToSet(description) \subseteq DOMAIN section
  /\ dated \in DOMAIN section \cup {None}
  /\ {institution, degree, dates, gpa} \subseteq DOMAIN lines \cup {None}
  /\ next_entry \in 1..(Len(experience) + Len(education) + 1)
  /\ \A entry \in ToSet(experiences) : entry.company # None /\ entry.title # None
  /\ provenance \subseteq {"name", "contact", "location", "experiences", "education"} \cup Lists

\* No line of the resume speaks for two jobs: the lines an experience takes its
\* names, date and description from are its own.
TextsOf(entry) == ToSet(entry.company) \cup ToSet(entry.title)
LinesOf(entry) ==
  {part[1] : part \in TextsOf(entry)} \cup ToSet(entry.description) \cup {entry.date}

\* What an entry needs to be mapped.
Complete(entry) == entry.company # None /\ section[entry.date] \notin UnreadableDates

\* A returned candidate holds, in the order of the resume, an entry for every
\* line group that names company and title and has a readable date, none of
\* them shares a line with another, and a field is recorded exactly if it has
\* entries.
CandidateTellsTheResume ==
  phase = "candidate" =>
    /\ experiences = At(Grouping, {j \in DOMAIN Grouping : Complete(Grouping[j])})
    /\ \A a, b \in DOMAIN experiences :
         a # b => LinesOf(experiences[a]) \cap LinesOf(experiences[b]) = {}
    /\ \A a \in DOMAIN experiences : \A b \in DOMAIN experiences :
         a < b => experiences[a].date < experiences[b].date
    /\ "experiences" \in provenance <=> experiences # <<>>
    /\ "education" \in provenance <=> educations # <<>>

\* The lists of a candidate are exactly what its list sections say between the
\* separators outside parentheses; no item, and no language once its proficiency
\* is dropped, repeats another but for case.
ListsTellTheSections ==
  phase = "candidate" =>
    /\ TellsItems(items["skills"], bodies["skills"])
    /\ TellsItems(items["certifications"], bodies["certifications"])
    /\ \A list \in Lists : DistinctItems(items[list])
    /\ \A item \in ToSet(ListItems(bodies["languages"])) :
         WithoutProficiency(item) # <<>> =>
           \E language \in ToSet(items["languages"]) :
             ItemKey(language) = ItemKey(WithoutProficiency(item))

\* The mapper's promise: an entry never ends the parse.
GracefulDegradation ==
  phase = "refused" => refusal.phase \notin {"experience", "education"}
=============================================================================
