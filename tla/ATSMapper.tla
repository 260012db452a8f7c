------------------------------ MODULE ATSMapper ------------------------------
(***************************************************************************)
(* SchemaValidator of parsers/schema_validator.py and ATSMapper of         *)
(* parsers/ats_mapper.py: from the decoded JSON of an ATS record to the    *)
(* candidate.  A record has every known field; None stands for one that is *)
(* absent or null.  A list field holds [is, items], where is tells what    *)
(* JSON value stands there and items what list() makes of that value.      *)
(***************************************************************************)
EXTENDS CanonicalModels

CONSTANTS
  Overlong      \* texts longer than the 10 000 characters of _MAX_STRING_LENGTH

StringLists == {"skills", "languages"}
ObjectLists == {"experience", "education", "certifications"}

\* The items of a list field, when data.get(field) is truthy.
Items(value) == IF value = None THEN <<>> ELSE value.items

-----------------------------------------------------------------------------
RequiredStringsValid(data) ==
  \A f \in {"first_name", "last_name"} : RequiredText(data[f]) /\ data[f] \notin Overlong

ListFieldsValid(data) ==
  \A f \in StringLists \cup ObjectLists :
    \/ data[f] = None
    \/ /\ data[f].is = "array"
       /\ \A item \in ToSet(data[f].items) :
            IF f \in StringLists THEN item \in Texts ELSE item # Scalar

\* Unknown fields are only logged.
SchemaValid(data) == data # Scalar /\ RequiredStringsValid(data) /\ ListFieldsValid(data)

-----------------------------------------------------------------------------
\* list() takes an array, a string or an object apart and refuses a number.
Listable(value) == value = None \/ value.is # "number"

RawExperience(item) == [item EXCEPT !.skills = Items(@)]

\* _required wants a string, whatever the model would make of another value.
MapsExperience(item) ==
  /\ item.start_date \in Texts
  /\ Listable(item.skills)
  /\ AcceptsExperience(RawExperience(item))

map_experience(item) == WorkExperience(RawExperience(item))

Contact(data) == [f \in ContactFields |-> data[f]]

MapsContact(data) == AcceptsContact(Contact(data))

map_contact(data) ==
  IF \A f \in ContactFields : data[f] = None THEN None ELSE ContactInfo(Contact(data))

\* The fields whose raw value is recorded, by their name in the candidate.
Recorded(data) ==
  {"first_name", "last_name"}
  \cup (IF data.candidate_id = None THEN {} ELSE {"external_id"})
  \cup {f \in ContactFields : data[f] # None}
  \cup {IF f = "experience" THEN "experiences" ELSE f :
          f \in {x \in StringLists \cup ObjectLists : Items(data[x]) # <<>>}}

Candidate(data) ==
  [id             |-> "uuid4",
   first_name     |-> Strip[data.first_name],
   last_name      |-> Strip[data.last_name],
   external_id    |-> Stripped(data.candidate_id),
   contact        |-> map_contact(data),
   skills         |-> deduplicate_strings(Items(data.skills)),
   languages      |-> deduplicate_strings(Items(data.languages)),
   experiences    |-> [i \in DOMAIN Items(data.experience) |->
                         map_experience(data.experience.items[i])],
   education      |-> [i \in DOMAIN Items(data.education) |->
                         Education(data.education.items[i])],
   certifications |-> DedupCertifications([i \in DOMAIN Items(data.certifications) |->
                         Certification(data.certifications.items[i])]),
   confidence     |-> None,
   provenance     |-> Recorded(data),
   schema_version |-> "1.0"]

\* One entry the models refuse refuses the whole record.
EntriesMap(data) ==
  /\ \A item \in ToSet(Items(data.experience)) : MapsExperience(item)
  /\ \A item \in ToSet(Items(data.education)) : AcceptsEducation(item)
  /\ \A item \in ToSet(Items(data.certifications)) : AcceptsCertification(item)

Maps(data) ==
  /\ OptionalText(data.candidate_id)
  /\ MapsContact(data)
  /\ EntriesMap(data)
  /\ WithinLimits(Candidate(data))
=============================================================================
