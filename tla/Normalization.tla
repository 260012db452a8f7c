---------------------------- MODULE Normalization ----------------------------
(***************************************************************************)
(* NormalizationEngine of normalizers/normalization_engine.py with the     *)
(* normalizers it calls.  model_copy runs no validator again: what the     *)
(* normalizers return is what the candidate holds.                         *)
(***************************************************************************)
EXTENDS Lists

CONSTANTS
  None,
  Lower,        \* text -> str.lower of it
  Clean,        \* text -> string_normalizer.clean of it: NFKC, strip, collapse
  TitleCase,    \* text -> title_case_name of it
  Phone,        \* text -> what phonenumbers makes of it, itself when not valid
  Aliases       \* lower-cased alias -> canonical skill

Cleaned(text) == IF text = None THEN None ELSE Clean[text]

normalize_skill(raw) ==
  LET cleaned == Clean[raw]
  IN  IF Lower[cleaned] \in DOMAIN Aliases THEN Aliases[Lower[cleaned]] ELSE cleaned

\* Seeded fault: repetitions are told by the raw spelling.
NormalizeSkills_RawKeys(raw_skills) ==
  LET skills == [i \in DOMAIN raw_skills |-> normalize_skill(raw_skills[i])]
      keys == [i \in DOMAIN raw_skills |-> Lower[Clean[raw_skills[i]]]]
  IN  At(skills, {i \in Firsts(keys) : skills[i] # ""})

normalize_skills(raw_skills) ==
  LET skills == [i \in DOMAIN raw_skills |-> normalize_skill(raw_skills[i])]
      keys == [i \in DOMAIN raw_skills |-> Lower[skills[i]]]
  IN  At(skills, {i \in Firsts(keys) : skills[i] # ""})

normalize_contact(contact) ==
  IF contact = None THEN None
  ELSE [contact EXCEPT !["email"]    = IF @ = None THEN None ELSE Lower[@],
                       !["phone"]    = IF @ = None THEN None ELSE Phone[@],
                       !["location"] = Cleaned(@)]

normalize_experience(e) ==
  [e EXCEPT !.company = Clean[@], !.title = Clean[@],
            !.description = Cleaned(@), !.skills = normalize_skills(@)]

normalize_education(e) ==
  [e EXCEPT !.institution = Clean[@], !.degree = Clean[@], !.field_of_study = Cleaned(@)]

normalize_certification(c) == [c EXCEPT !.name = Clean[@], !.issuer = Cleaned(@)]

\* Languages are cleaned without being de-duplicated again.
normalize(candidate) ==
  [candidate EXCEPT
     !.first_name     = TitleCase[Clean[@]],
     !.last_name      = TitleCase[Clean[@]],
     !.skills         = normalize_skills(@),
     !.languages      = [i \in DOMAIN @ |-> Clean[@[i]]],
     !.contact        = normalize_contact(@),
     !.experiences    = [i \in DOMAIN @ |-> normalize_experience(@[i])],
     !.education      = [i \in DOMAIN @ |-> normalize_education(@[i])],
     !.certifications = [i \in DOMAIN @ |-> normalize_certification(@[i])]]
=============================================================================
