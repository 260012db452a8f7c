--------------------------- MODULE CanonicalModels ---------------------------
(***************************************************************************)
(* What the models of transformer/models accept and what they make of it:  *)
(* the before-validators that strip and de-duplicate, the after-validators *)
(* on dates, the limits on lists.  A value is None, a text, or Scalar, any *)
(* other JSON value that is not an array or an object.  What the string    *)
(* methods, pydantic and its types make of a text is given by constants.   *)
(***************************************************************************)
EXTENDS Lists

CONSTANTS
  None, Scalar,
  Texts,        \* "" is the blank one
  Strip,        \* text -> str.strip of it
  Lower,        \* text -> str.lower of it
  DateOf,       \* value -> the date pydantic reads it as
  NoDate,       \* what DateOf holds for a value pydantic does not read as a date
  Today,
  Grades,       \* values accepted as a GPA on the 0.0-4.0 scale
  Mailbox,      \* text EmailStr accepts -> the normalised address it makes of it
  Url,          \* text AnyHttpUrl accepts -> the normalised URL it makes of it
  MaxItems      \* list field -> max_length of it

ContactFields == {"email", "phone", "location", "linkedin_url", "github_url"}

-----------------------------------------------------------------------------
\* strip_non_empty, then the declared type str.
RequiredText(v) == v \in Texts /\ Strip[v] # ""

OptionalText(v) == v = None \/ RequiredText(v)

Stripped(v) == IF v = None THEN None ELSE Strip[v]

Dated(v) == v = None \/ DateOf[v] # NoDate

Day(v) == IF v = None THEN None ELSE DateOf[v]

\* Seeded fault: the order is checked only of entries that are over.
InOrder_PastOnly(start, end) ==
  start = None \/ end = None \/ DateOf[end] > Today \/ DateOf[start] <= DateOf[end]

InOrder(start, end) == start = None \/ end = None \/ DateOf[start] <= DateOf[end]

deduplicate_strings(items) ==
  LET stripped == [i \in DOMAIN items |-> Strip[items[i]]]
  IN  At(stripped, {i \in Firsts(stripped) : stripped[i] # ""})

-----------------------------------------------------------------------------
AcceptsExperience(e) ==
  /\ RequiredText(e.company)
  /\ RequiredText(e.title)
  /\ e.start_date # None /\ Dated(e.start_date) /\ DateOf[e.start_date] <= Today
  /\ Dated(e.end_date) /\ InOrder(e.start_date, e.end_date)
  /\ OptionalText(e.description)
  /\ ToSet(e.skills) \subseteq Texts
  /\ Len(deduplicate_strings(e.skills)) <= MaxItems["experience.skills"]

WorkExperience(e) ==
  [company |-> Strip[e.company], title |-> Strip[e.title],
   start_date |-> Day(e.start_date), end_date |-> Day(e.end_date),
   description |-> Stripped(e.description), skills |-> deduplicate_strings(e.skills)]

AcceptsEducation(e) ==
  /\ RequiredText(e.institution)
  /\ RequiredText(e.degree)
  /\ OptionalText(e.field_of_study)
  /\ Dated(e.start_date) /\ Dated(e.end_date) /\ InOrder(e.start_date, e.end_date)
  /\ e.gpa \in {None} \cup Grades

Education(e) ==
  [institution |-> Strip[e.institution], degree |-> Strip[e.degree],
   field_of_study |-> Stripped(e.field_of_study),
   start_date |-> Day(e.start_date), end_date |-> Day(e.end_date), gpa |-> e.gpa]

AcceptsCertification(e) ==
  /\ RequiredText(e.name)
  /\ OptionalText(e.issuer)
  /\ Dated(e.issued_date) /\ Dated(e.expiry_date) /\ InOrder(e.issued_date, e.expiry_date)

Certification(e) ==
  [name |-> Strip[e.name], issuer |-> Stripped(e.issuer),
   issued_date |-> Day(e.issued_date), expiry_date |-> Day(e.expiry_date)]

\* Seeded fault: names are compared as they are written.
DedupCertifications_Exact(certifications) ==
  At(certifications, Firsts([i \in DOMAIN certifications |-> certifications[i].name]))

DedupCertifications(certifications) ==
  At(certifications, Firsts([i \in DOMAIN certifications |-> Lower[certifications[i].name]]))

AcceptsContact(contact) ==
  /\ contact["email"] \in {None} \cup DOMAIN Mailbox
  /\ OptionalText(contact["phone"])
  /\ OptionalText(contact["location"])
  /\ {contact["linkedin_url"], contact["github_url"]} \subseteq {None} \cup DOMAIN Url

Normalised(v, table) == IF v = None THEN None ELSE table[v]

ContactInfo(contact) ==
  [f \in ContactFields |->
     IF f \in {"phone", "location"} THEN Stripped(contact[f])
     ELSE Normalised(contact[f], IF f = "email" THEN Mailbox ELSE Url)]

\* The limits hold for the lists the before-validators leave.
WithinLimits(candidate) ==
  \A f \in {"experiences", "education", "skills", "certifications", "languages"} :
    Len(candidate[f]) <= MaxItems[f]
=============================================================================
