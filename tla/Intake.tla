------------------------------- MODULE Intake -------------------------------
(***************************************************************************)
(* The way of one ATS record: ATSParser.parse of parsers/ats_parser.py     *)
(* checks the file, reads it, checks the shape of its JSON and maps it to  *)
(* a candidate; the candidate is normalized, scored and validated as the   *)
(* stages of pipeline/stage.py do it for a single source.  The file is the *)
(* outside world's and may be replaced between the check and the read.     *)
(***************************************************************************)
EXTENDS ATSMapper, FiniteSets

CONSTANTS
  Contents,     \* what the path may lead to: [kind, unfit, record]
  Clean, TitleCase, Phone, Aliases,             \* see Normalization
  KeyPart, Pieces, TooLong, Confusable,         \* see Validation
  EmailShaped, ValidPhones, WebUrls, ProperIds, ModelFields,
  Confidences   \* the scores ConfidenceEngine may attach to a candidate

INSTANCE Normalization
Rules == INSTANCE Validation

ASSUME RegistryAssumption == Rules!ProperRegistry(Rules!DefaultRegistry)

IsSequence(s) == s \in Seq({s[i] : i \in DOMAIN s})

Values == Texts \cup {None, Scalar}

\* What json.load returns: a list field is absent or something list() takes apart
\* or refuses; an entry is an object, or Scalar.
ASSUME ContentsAssumption ==
  \A c \in Contents :
    /\ c.kind \in {"missing", "directory", "unreadable", "undecodable", "malformed", "json"}
    /\ c.kind = "json" /\ c.record # Scalar =>
         \A f \in {"experience", "education", "certifications", "skills", "languages"} :
           c.record[f] # None =>
             /\ IsSequence(c.record[f].items)
             /\ f \in {"experience", "education"} => \A item \in ToSet(c.record[f].items) :
                  item # Scalar => {item.start_date, item.end_date} \subseteq Values
             /\ f = "experience" => \A item \in ToSet(c.record[f].items) :
                  item # Scalar => "skills" \in DOMAIN item /\ IsSequence(Items(item.skills))

ASSUME DatesAssumption == \A v \in Values \ {None} : DateOf[v] \in Int

\* What str.strip removes, clean removes too, and once is enough; of a text that
\* is cleaned, _normalize_key_part only folds the case.
ASSUME CleaningAssumption ==
  \A t \in Texts : /\ {Strip[t], Clean[t]} \subseteq Texts
                   /\ Strip[Strip[t]] = Strip[t] /\ Clean[Clean[t]] = Clean[t]
                   /\ Clean[Strip[t]] = Clean[t]
                   /\ KeyPart[Clean[t]] = Lower[Clean[t]]

\* What str.split finds: a text without a bar is its only piece.
ASSUME PiecesAssumption ==
  \A t \in Texts : LET key == KeyPart[Clean[t]]
                   IN  /\ IsSequence(Pieces[key]) /\ Pieces[key] # <<>>
                       /\ Len(Pieces[key]) = 1 => Pieces[key] = <<key>>

\* A text that is not blank stays so, and texts that differ in case alone still
\* do when they are cleaned.  (Not of every Unicode text: NFKC makes another
\* letter of a lunate sigma, and may move the end of a word past a sigma.)
ASSUME CaseAssumption ==
  \A t \in Texts : /\ Strip[t] # "" => Lower[Clean[t]] # Lower[""]
                   /\ \A s \in Texts : Lower[s] = Lower[t] => Lower[Clean[s]] = Lower[Clean[t]]

\* A canonical skill is not blank, and is no alias of another one.
ASSUME AliasesAssumption ==
  \A a \in DOMAIN Aliases : /\ Lower[Aliases[a]] # Lower[""]
                            /\ Lower[normalize_skill(Aliases[a])] = Lower[Aliases[a]]

\* What is normalized is normal: a name whose letters have their capitals, a valid
\* number in its E.164 form, a lower-cased address, a canonical skill.  (Not of
\* every name: a letter whose capital is two of them gives a segment of its own
\* another turn, and the name of a single sharp s becomes SS and then Ss.  Of the
\* aliases, it is what config/skill_aliases.yaml says; no code asks it of them.)
ASSUME FixedPointsAssumption ==
  /\ \A t \in Texts : /\ TitleCase[Clean[TitleCase[Clean[t]]]] = TitleCase[Clean[t]]
                      /\ Phone[Phone[t]] = Phone[t]
  /\ \A t \in DOMAIN Mailbox : Lower[Lower[Mailbox[t]]] = Lower[Mailbox[t]]
  /\ \A a \in DOMAIN Aliases : normalize_skill(Aliases[a]) = Aliases[a]

\* Neither NFKC nor title case makes a text blank that is not.
ASSUME NamesAssumption ==
  \A t \in Texts : Strip[t] # "" => Strip[TitleCase[Clean[t]]] # ""

\* The rules ask less of an address or a URL than the types of the models.
ASSUME ContactsAssumption ==
  /\ \A t \in DOMAIN Mailbox : Lower[Mailbox[t]] \in EmailShaped
  /\ \A t \in DOMAIN Url : Url[t] \in WebUrls

\* See Confidence: every score is clamped.
ASSUME ScoresAssumption ==
  \A k \in Confidences : /\ k.score \in 0..100
                         /\ \A f \in DOMAIN k.fields : k.fields[f] \in 0..100

WithScores(c, confidence) == [c EXCEPT !.confidence = confidence]

Mappable(data) == SchemaValid(data) /\ Maps(data)

\* None is no candidate, and none of what the steps store.
ASSUME NoneAssumption ==
  /\ None \notin BOOLEAN
  /\ None \notin {"FileReadError", "InvalidJSONError", "SchemaValidationError", "MappingError"}
  /\ \A c \in Contents : c.kind = "json" /\ Mappable(c.record) =>
       /\ Candidate(c.record) # None
       /\ normalize(Candidate(c.record)) # None
       /\ \A k \in Confidences : WithScores(normalize(Candidate(c.record)), k) # None

VARIABLES
  file,         \* what the path leads to
  phase,        \* the step of the pipeline that comes next
  data,         \* the decoded JSON
  refusal,      \* None, or the ParserError raised
  candidate,
  report        \* the ValidationReport under construction

vars == <<file, phase, data, refusal, candidate, report>>

Phases == {"check", "read", "shape", "map", "normalize", "score", "validate", "done", "refused"}
ParserErrors == {"FileReadError", "InvalidJSONError", "SchemaValidationError", "MappingError"}

-----------------------------------------------------------------------------
Init ==
  /\ file \in Contents
  /\ phase = "check"
  /\ data = None /\ refusal = None /\ candidate = None
  /\ report = Rules!NoReport

Refuse(error) ==
  /\ refusal' = error
  /\ phase' = "refused"
  /\ UNCHANGED <<file, data, candidate, report>>

\* FileValidator.validate: a readable regular file with the extension and
\* within the size that are asked for.
ValidateFile ==
  /\ phase = "check"
  /\ IF file.kind \in {"missing", "directory", "unreadable"} \/ file.unfit
     THEN Refuse("FileReadError")
     ELSE /\ phase' = "read"
          /\ UNCHANGED <<file, data, refusal, candidate, report>>

\* The outside world puts something else in the file's place.
ReplaceFile ==
  /\ phase = "read"
  /\ file' \in Contents
  /\ UNCHANGED <<phase, data, refusal, candidate, report>>

\* Seeded fault: only the decoding errors of the read are translated.
LoadJson_OSError ==
  /\ phase = "read"
  /\ CASE file.kind \in {"missing", "directory", "unreadable"} -> Refuse("OSError")
       [] file.kind \in {"undecodable", "malformed"} -> Refuse("InvalidJSONError")
       [] file.kind = "json" ->
            /\ data' = file.record
            /\ phase' = "shape"
            /\ UNCHANGED <<file, refusal, candidate, report>>

\* ATSParser._load_json opens the path again and reads whatever is there.
LoadJson ==
  /\ phase = "read"
  /\ CASE file.kind \in {"missing", "directory", "unreadable"} -> Refuse("FileReadError")
       [] file.kind \in {"undecodable", "malformed"} -> Refuse("InvalidJSONError")
       [] file.kind = "json" ->
            /\ data' = file.record
            /\ phase' = "shape"
            /\ UNCHANGED <<file, refusal, candidate, report>>

ValidateSchema ==
  /\ phase = "shape"
  /\ IF ~SchemaValid(data) THEN Refuse("SchemaValidationError")
     ELSE /\ phase' = "map"
          /\ UNCHANGED <<file, data, refusal, candidate, report>>

\* Seeded fault: a record the models refuse is passed on without a candidate.
MapCandidate_Graceful ==
  /\ phase = "map"
  /\ candidate' = IF Maps(data) THEN Candidate(data) ELSE None
  /\ phase' = "normalize"
  /\ UNCHANGED <<file, data, refusal, report>>

MapCandidate ==
  /\ phase = "map"
  /\ IF ~Maps(data) THEN Refuse("MappingError")
     ELSE /\ candidate' = Candidate(data)
          /\ phase' = "normalize"
          /\ UNCHANGED <<file, data, refusal, report>>

Normalize ==
  /\ phase = "normalize"
  /\ candidate' = normalize(candidate)
  /\ phase' = "score"
  /\ UNCHANGED <<file, data, refusal, report>>

Score ==
  /\ phase = "score"
  /\ \E confidence \in Confidences : candidate' = WithScores(candidate, confidence)
  /\ phase' = "validate"
  /\ UNCHANGED <<file, data, refusal, report>>

\* ValidationEngine.run: every rule in its turn, whatever the earlier ones found.
RunRule ==
  /\ phase = "validate"
  /\ Len(report.executed) < Len(Rules!DefaultRegistry)
  /\ report' = Rules!Executed(report, Rules!DefaultRegistry[Len(report.executed) + 1], candidate)
  /\ UNCHANGED <<file, phase, data, refusal, candidate>>

EndValidation ==
  /\ phase = "validate"
  /\ Len(report.executed) = Len(Rules!DefaultRegistry)
  /\ report' = Rules!FromIssues(report)
  /\ phase' = "done"
  /\ UNCHANGED <<file, data, refusal, candidate>>

Finished == phase \in {"done", "refused"} /\ UNCHANGED vars

Next ==
  \/ ValidateFile \/ ReplaceFile \/ LoadJson
  \/ ValidateSchema \/ MapCandidate
  \/ Normalize \/ Score
  \/ RunRule \/ EndValidation
  \/ Finished

Spec == Init /\ [][Next]_vars

-----------------------------------------------------------------------------
\* The types, and which parts of the state there are in which phase.
TypeOK ==
  /\ file \in Contents
  /\ phase \in Phases
  /\ refusal # None => phase = "refused"
  /\ (candidate # None) = (phase \in {"normalize", "score", "validate", "done"})
  /\ report # Rules!NoReport => phase \in {"validate", "done"}
  /\ (report.is_valid # None) = (phase = "done")

\* Whatever is put in the place of the file between its check and its second
\* opening, it is refused with a ParserError, or read; and a refusal is the end:
\* there is neither a candidate nor a report then.
RefusalsAreParserErrors ==
  phase = "refused" =>
    refusal \in ParserErrors /\ candidate = None /\ report = Rules!NoReport

\* Names are told apart up to case, spacing and compatible characters, skills
\* up to their aliases as well.
Fold(text) == Lower[Clean[text]]
SkillFold(text) == Lower[normalize_skill(text)]

SameEntry(entry, item, names) ==
  \A f \in names : Fold(entry[f]) = Fold(item[f])

\* All or nothing: once there is a candidate, it has every entry of the record
\* at its place with its own dates, every certification and every skill (each
\* certification once as it leaves the mapper), and provenance for each field
\* it has anything for; from the mapping to the end of the pipeline.
NothingSkipped ==
  candidate # None =>
    /\ Len(candidate.experiences) = Len(Items(data.experience))
    /\ \A i \in DOMAIN candidate.experiences :
         LET item == data.experience.items[i]
         IN  /\ SameEntry(candidate.experiences[i], item, {"company", "title"})
             /\ candidate.experiences[i].start_date = Day(item.start_date)
             /\ candidate.experiences[i].end_date = Day(item.end_date)
    /\ Len(candidate.education) = Len(Items(data.education))
    /\ \A i \in DOMAIN candidate.education :
         SameEntry(candidate.education[i], data.education.items[i], {"institution", "degree"})
    /\ {Fold(c.name) : c \in ToSet(candidate.certifications)}
         = {Fold(item.name) : item \in ToSet(Items(data.certifications))}
    /\ phase = "normalize" =>
         \A i, j \in DOMAIN candidate.certifications :
           Lower[candidate.certifications[i].name] = Lower[candidate.certifications[j].name]
             => i = j
    /\ {SkillFold(s) : s \in ToSet(candidate.skills)}
         = {SkillFold(s) : s \in {t \in ToSet(Items(data.skills)) : Strip[t] # ""}}
    /\ \A f \in {"experiences", "education", "certifications", "skills", "languages"} :
         candidate[f] # <<>> => f \in candidate.provenance

\* The normalizers settle at once, as the docstring of the engine promises:
\* whatever is normalized twice is what it was after the first time, so a
\* candidate read back and merged again keeps its values.  (Of each text on its
\* own FixedPointsAssumption says so; here it is of the lists, whose repetitions
\* the aliases make, and of what the scores have been added to.)
NormalizationIsIdempotent ==
  phase \in {"score", "validate", "done"} => normalize(candidate) = candidate

\* The rules that are kept for defence in depth find nothing: neither the
\* mapping nor the normalizers, whose results no validator sees, nor the
\* scores make a candidate the models would have refused.
DefenceInDepth ==
  {"required_fields", "schema_version", "confidence_values", "id_uuid", "email_format",
   "url_format", "date_order"}

DefenceNeverFires == {i.rule : i \in report.issues} \cap DefenceInDepth = {}

Flagged(rule) == {i.at[2] : i \in {x \in report.issues : x.rule = rule}}

\* A "|" of its own in one of the names.
HasBar(item, names) == \E f \in names : Len(Pieces[Fold(item[f])]) > 1

MayBeTaken(item, other, names) ==
  SameEntry(item, other, names) \/ (HasBar(item, names) /\ HasBar(other, names))

WorkNames == {"company", "title"}
StudyNames == {"institution", "degree"}

\* The earlier jobs that began on the day of the i-th.
Alongside(jobs, i) == {j \in 1..(i - 1) : Day(jobs[j].start_date) = Day(jobs[i].start_date)}

\* The duplicate rules point at each entry that names, in whatever letters or
\* spacing, what an earlier entry of the record the ATS wrote names; and at no
\* other, unless both have a "|" in a name and are confused by it.
DuplicatesAreFlagged ==
  phase = "done" =>
    LET jobs == Items(data.experience)
        studies == Items(data.education)
    IN  /\ {i \in DOMAIN jobs : \E j \in Alongside(jobs, i) : SameEntry(jobs[j], jobs[i], WorkNames)}
             \subseteq Flagged("duplicate_experience")
        /\ Flagged("duplicate_experience") \subseteq
             {i \in DOMAIN jobs : \E j \in Alongside(jobs, i) : MayBeTaken(jobs[j], jobs[i], WorkNames)}
        /\ {i \in DOMAIN studies : \E j \in 1..(i - 1) : SameEntry(studies[j], studies[i], StudyNames)}
             \subseteq Flagged("duplicate_education")
        /\ Flagged("duplicate_education") \subseteq
             {i \in DOMAIN studies : \E j \in 1..(i - 1) : MayBeTaken(studies[j], studies[i], StudyNames)}
=============================================================================
