----------------------------- MODULE Validation -----------------------------
(***************************************************************************)
(* The rules of validation/rules in the order of build_default_registry    *)
(* and what ValidationReport.from_issues makes of their issues.  A rule is *)
(* the set of places it complains about: <<field, 0>>, or the position of  *)
(* an entry in <<list, position>>.  The wording of an issue and the time a *)
(* run takes are left out.                                                 *)
(***************************************************************************)
EXTENDS Integers, Sequences, FiniteSets, TLC

CONSTANTS
  None,
  Strip,              \* text -> str.strip of it
  KeyPart,            \* text -> duplicate_rules._normalize_key_part of it
  Pieces,             \* text -> the texts its "|" characters divide it into
  TooLong,            \* texts beyond the configured max_string_length
  Confusable,         \* names that mix Latin with Cyrillic or Greek letters
  EmailShaped,        \* texts EmailFormatRule's pattern matches
  ValidPhones,        \* texts phonenumbers takes for a valid number
  WebUrls,            \* URLs with an http or https scheme
  ProperIds,          \* texts ExternalIdRule finds nothing wrong with
  ModelFields         \* dotted names that resolve on a Candidate

BlockingSeverities == {"ERROR", "CRITICAL"}

\* The severity each rule class declares, by the file the class is in.
SchemaSeverity ==
  [required_fields |-> "ERROR", schema_version |-> "ERROR", confidence_values |-> "CRITICAL",
   string_length |-> "ERROR", unicode_confusables |-> "WARNING", id_uuid |-> "CRITICAL"]

BusinessSeverity ==
  [email_format |-> "ERROR", phone_format |-> "WARNING", url_format |-> "WARNING",
   external_id_format |-> "ERROR"]

DuplicateSeverity == [duplicate_experience |-> "WARNING", duplicate_education |-> "WARNING"]

CrossFieldSeverity == [date_order |-> "ERROR", confidence_field_consistency |-> "WARNING"]

Severity == SchemaSeverity @@ BusinessSeverity @@ DuplicateSeverity @@ CrossFieldSeverity

\* Schema, business, duplicate, cross-field.
DefaultRegistry ==
  <<"required_fields", "schema_version", "confidence_values", "string_length",
    "unicode_confusables", "id_uuid", "email_format", "phone_format", "url_format",
    "external_id_format", "duplicate_experience", "duplicate_education", "date_order",
    "confidence_field_consistency">>

\* RuleRegistry.__init__ refuses two rules of one name.
ProperRegistry(rules) == \A i, j \in DOMAIN rules : rules[i] = rules[j] => i = j

-----------------------------------------------------------------------------
Names == {"first_name", "last_name"}

Fields(fields) == {<<f, 0>> : f \in fields}

Entries(list, positions) == {<<list, i>> : i \in positions}

required_fields(c) == Fields({f \in Names : Strip[c[f]] = ""})

schema_version(c) == IF c.schema_version = "1.0" THEN {} ELSE Fields({"schema_version"})

\* Scores are in percent.
confidence_values(c) ==
  IF c.confidence = None THEN {}
  ELSE Fields({f \in DOMAIN c.confidence.fields : c.confidence.fields[f] \notin 0..100}
              \cup {s \in {"score"} : c.confidence[s] \notin 0..100})

string_length(c) ==
  Fields({f \in Names : c[f] \in TooLong})
  \cup Entries("experiences", {i \in DOMAIN c.experiences :
                                 c.experiences[i].description \in TooLong})

unicode_confusables(c) == Fields({f \in Names : c[f] \in Confusable})

id_uuid(c) == IF c.id = "uuid4" THEN {} ELSE Fields({"id"})

Misformed(c, fields, good) ==
  IF c.contact = None THEN {}
  ELSE Fields({f \in fields : c.contact[f] # None /\ c.contact[f] \notin good})

email_format(c) == Misformed(c, {"email"}, EmailShaped)

phone_format(c) == Misformed(c, {"phone"}, ValidPhones)

url_format(c) == Misformed(c, {"linkedin_url", "github_url"}, WebUrls)

external_id_format(c) ==
  IF c.external_id \in {None} \cup ProperIds THEN {} ELSE Fields({"external_id"})

-----------------------------------------------------------------------------
\* The parts of a key are joined with "|", and a part may have bars of its own:
\* two keys are one string exactly when the pieces between all of their bars are
\* the same, wherever a part ends.  A date has no bar.
ExperienceKey(e) == Pieces[KeyPart[e.company]] \o Pieces[KeyPart[e.title]] \o <<e.start_date>>

EducationKey(e) == Pieces[KeyPart[e.institution]] \o Pieces[KeyPart[e.degree]]

\* Seeded fault: an entry is compared with its predecessor alone.
DuplicateExperience_Adjacent(c) ==
  Entries("experiences", {i \in DOMAIN c.experiences \ {1} :
    ExperienceKey(c.experiences[i - 1]) = ExperienceKey(c.experiences[i])})

\* An entry whose key an earlier one has: the key is in "seen" by then.
duplicate_experience(c) ==
  Entries("experiences", {i \in DOMAIN c.experiences : \E j \in 1..(i - 1) :
    ExperienceKey(c.experiences[j]) = ExperienceKey(c.experiences[i])})

duplicate_education(c) ==
  Entries("education", {i \in DOMAIN c.education : \E j \in 1..(i - 1) :
    EducationKey(c.education[j]) = EducationKey(c.education[i])})

EndsEarly(e) == e.start_date # None /\ e.end_date # None /\ e.end_date < e.start_date

date_order(c) ==
  Entries("experiences", {i \in DOMAIN c.experiences : EndsEarly(c.experiences[i])})
  \cup Entries("education", {i \in DOMAIN c.education : EndsEarly(c.education[i])})

confidence_field_consistency(c) ==
  IF c.confidence = None THEN {} ELSE Fields(DOMAIN c.confidence.fields \ ModelFields)

check(rule, c) ==
  CASE rule = "required_fields"     -> required_fields(c)
    [] rule = "schema_version"      -> schema_version(c)
    [] rule = "confidence_values"   -> confidence_values(c)
    [] rule = "string_length"       -> string_length(c)
    [] rule = "unicode_confusables" -> unicode_confusables(c)
    [] rule = "id_uuid"             -> id_uuid(c)
    [] rule = "email_format"        -> email_format(c)
    [] rule = "phone_format"        -> phone_format(c)
    [] rule = "url_format"          -> url_format(c)
    [] rule = "external_id_format"  -> external_id_format(c)
    [] rule = "duplicate_experience" -> duplicate_experience(c)
    [] rule = "duplicate_education" -> duplicate_education(c)
    [] rule = "date_order"          -> date_order(c)
    [] rule = "confidence_field_consistency" -> confidence_field_consistency(c)

-----------------------------------------------------------------------------
NoReport ==
  [executed |-> <<>>, failed |-> <<>>, issues |-> {}, warnings |-> {}, is_valid |-> None]

\* One turn of ValidationEngine.run's loop.
Executed(report, rule, c) ==
  LET places == check(rule, c)
  IN  [report EXCEPT !.executed = Append(@, rule),
                     !.failed = IF places = {} THEN @ ELSE Append(@, rule),
                     !.issues = @ \cup {[rule |-> rule, at |-> p] : p \in places}]

Errors(report) == {i \in report.issues : Severity[i.rule] \in BlockingSeverities}

\* The rest of the report, once every rule has run.
FromIssues(report) ==
  [report EXCEPT !.warnings = report.issues \ Errors(report),
                 !.is_valid = (Errors(report) = {})]
=============================================================================
