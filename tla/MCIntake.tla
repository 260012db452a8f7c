------------------------------- MODULE MCIntake -------------------------------
(***************************************************************************)
(* Instance of Intake for TLC: a few spellings of a few names, with what   *)
(* the string functions and the libraries make of them written out.  Every *)
(* field of the record is varied, the lists up to three entries, with the  *)
(* other fields at what a well-formed record has.                          *)
(***************************************************************************)
EXTENDS Intake, TLC

MCTexts ==
  {"", " ", "Ada", "ADA", "long", "Homoglyph",
   "Acme Co", " ACME  CO", "ACME  CO", "ACME CO", "acme co", "Globex",
   "js", "JavaScript", "javascript", "Go", "go", "p", "y",
   "AWS", "aws", " aws", "AWS  Pro", "AWS Pro", "aws pro", "aws  pro",
   "A@X.io", "A@x.io", "a@x.io", "555", "+1555", "http://x", "http://x/", "E-1", "E 1", "e-1", "e 1",
   "2019", "2021", "2030", "2040", "someday",
   "X|Y", "Z", "X", "Y|Z", "x|y", "z", "x", "y|z",
   "ada", "globex", "http://X", "LONG"}

\* A table that leaves every other text as it is.
Except(changes) ==
  [t \in MCTexts |-> IF t \in DOMAIN changes THEN changes[t] ELSE t]

MCStrip == Except(" " :> "" @@ " ACME  CO" :> "ACME  CO" @@ " aws" :> "aws")

MCClean ==
  Except(" " :> "" @@ " ACME  CO" :> "ACME CO" @@ "ACME  CO" :> "ACME CO"
         @@ " aws" :> "aws" @@ "AWS  Pro" :> "AWS Pro" @@ "aws  pro" :> "aws pro")

MCLower ==
  Except("Ada" :> "ada" @@ "ADA" :> "ada" @@ "Acme Co" :> "acme co" @@ "ACME CO" :> "acme co"
         @@ "Globex" :> "globex" @@ "JavaScript" :> "javascript" @@ "Go" :> "go"
         @@ "AWS" :> "aws" @@ "AWS Pro" :> "aws pro" @@ "AWS  Pro" :> "aws  pro"
         @@ "A@X.io" :> "a@x.io" @@ "A@x.io" :> "a@x.io"
         @@ "X|Y" :> "x|y" @@ "Z" :> "z" @@ "X" :> "x" @@ "Y|Z" :> "y|z" @@ "http://X" :> "http://x"
         @@ "E-1" :> "e-1" @@ "E 1" :> "e 1" @@ "LONG" :> "long")

MCKeyPart == [t \in MCTexts |-> MCLower[MCClean[t]]]
MCPieces ==
  [t \in MCTexts |-> IF t = "x|y" THEN <<"x", "y">>
                     ELSE IF t = "y|z" THEN <<"y", "z">> ELSE <<t>>]
MCMailbox == "A@X.io" :> "A@x.io" @@ "a@x.io" :> "a@x.io"
MCUrl == "http://x" :> "http://x/" @@ "http://x/" :> "http://x/"
MCTitleCase == Except("ADA" :> "Ada" @@ "ada" :> "Ada")
MCPhone == Except("555" :> "+1555")
MCAliases == "js" :> "JavaScript" @@ "javascript" :> "JavaScript" @@ "go" :> "Go"

MCDateOf ==
  [v \in MCTexts \cup {None, Scalar} |->
     IF v = Scalar THEN 1970
     ELSE IF v = "2019" THEN 2019
     ELSE IF v = "2021" THEN 2021
     ELSE IF v = "2030" THEN 2030
     ELSE IF v = "2040" THEN 2040
     ELSE NoDate]

MCMaxItems ==
  [f \in {"experiences", "education", "skills", "certifications", "languages",
          "experience.skills"} |-> IF f = "languages" THEN 1 ELSE IF f = "skills" THEN 2 ELSE 3]

MCConfidences ==
  {[score |-> 70, fields |-> "skills" :> 0 @@ "contact" :> 100],
   [score |-> 0, fields |-> "skils" :> 40]}

-----------------------------------------------------------------------------
Array(items) == [is |-> "array", items |-> items]
Text(items) == [is |-> "text", items |-> items]
Number == [is |-> "number", items |-> <<>>]

\* Sequences of up to n items.
UpTo(n, items) == UNION {[1..k -> items] : k \in 0..n}

Lists(n, items) == {None, Number} \cup {Array(s) : s \in UpTo(n, items)}

Job(company, title, start, end, skills) ==
  [company |-> company, title |-> title, start_date |-> start, end_date |-> end,
   description |-> None, skills |-> skills]

Study(institution, degree, start, end) ==
  [institution |-> institution, degree |-> degree, field_of_study |-> None,
   start_date |-> start, end_date |-> end, gpa |-> None]

Certificate(name, issued, expiry) ==
  [name |-> name, issuer |-> None, issued_date |-> issued, expiry_date |-> expiry]

Jobs ==
  {Job("Acme Co", "Go", "2019", None, None), Job(" ACME  CO", "go", "2019", "2021", None),
   Job("Globex", "Go", "2019", None, None), Job("Acme Co", "Go", "2021", None, None),
   Job("Acme Co", "js", "2019", None, None),
   Job("X|Y", "Z", "2019", None, None), Job("X", "Y|Z", "2019", None, None)}
OddJobs ==
  {Job(c, t, s, e, k) :
     c \in {" ", "Acme Co"}, t \in {None, "Go"}, s \in {None, Scalar, "2019", "2030", "someday"},
     e \in {None, "2019", "2030", Scalar}, k \in {None, Number, Array(<<"js", "JavaScript">>),
     Array(<<Scalar>>), Text(<<"p", "y">>), Array(<<"p", "y", "Go", "AWS">>)}}
  \cup {[Job("Globex", "Go", "2019", None, None) EXCEPT !.description = d] : d \in {" ", "long"}}

Studies ==
  {Study("Acme Co", "Go", None, None), Study("acme co", "go", "2019", "2021"),
   Study("Globex", "Go", None, "2019"), Study("Globex", "Go", "2040", "2030"),
   Study("Acme Co", "js", None, None),
   Study("X|Y", "Z", None, None), Study("X", "Y|Z", None, None)}
OddStudies ==
  {[Study(i, "Go", s, e) EXCEPT !.field_of_study = f, !.gpa = g] :
     i \in {" ", "Globex"}, s \in {None, "2021", "2040"}, e \in {None, "2019", "2030", "someday"},
     f \in {None, " ", "ACME  CO"}, g \in {None, Scalar, "555"}}

Certificates ==
  {Certificate(n, None, None) : n \in {"AWS", " aws", "AWS  Pro", "aws pro"}}
OddCertificates ==
  {Certificate(n, i, e) : n \in {" ", "AWS"}, i \in {None, "2021", Scalar},
                          e \in {None, "2019", "2030", "someday"}}

WellFormed ==
  [first_name |-> "ADA", last_name |-> "Ada", candidate_id |-> None,
   email |-> "A@X.io", phone |-> "555", location |-> " ACME  CO",
   linkedin_url |-> None, github_url |-> None,
   skills |-> Array(<<"js">>), languages |-> None,
   experience |-> None, education |-> None, certifications |-> None]

Skills == {"js", "JavaScript", "Go", " "}

Records ==
  {Scalar}
  \cup {[WellFormed EXCEPT !.first_name = f, !.last_name = l, !.candidate_id = i] :
          f \in {None, Scalar, " ", "Ada", "ADA", "long", "Homoglyph"}, l \in {None, "ADA"},
          i \in {None, Scalar, " ", "E-1", "E 1"}}
  \cup {[WellFormed EXCEPT !.email = m, !.phone = p, !.location = a, !.linkedin_url = u] :
          m \in {None, Scalar, "555", "A@X.io"}, p \in {None, Scalar, " ", "555", "js"},
          a \in {None, " ", "Globex"}, u \in {None, "js", "http://x"}}
  \cup {[WellFormed EXCEPT !.skills = s] : s \in Lists(3, Skills)
               \cup {Array(<<"js", Scalar>>), Text(<<"p", "y">>)}}
  \cup {[WellFormed EXCEPT !.languages = s] : s \in Lists(2, {"AWS  Pro", "AWS Pro", " "})}
  \cup {[WellFormed EXCEPT !.experience = s] :
          s \in Lists(3, Jobs) \cup {Array(<<e>>) : e \in OddJobs} \cup {Array(<<Scalar>>)}}
  \cup {[WellFormed EXCEPT !.education = s] :
          s \in Lists(3, Studies) \cup {Array(<<e>>) : e \in OddStudies}}
  \cup {[WellFormed EXCEPT !.certifications = s] :
          s \in Lists(4, Certificates) \cup {Array(<<e>>) : e \in OddCertificates}}
  \cup {[WellFormed EXCEPT !.experience = Array(<<e>>), !.education = Array(<<d>>)] :
          e \in Jobs, d \in Studies}

\* Files that are no JSON, and JSON in a file that should not be read.
MCContents ==
  {[kind |-> k, unfit |-> FALSE, record |-> Scalar] :
     k \in {"missing", "directory", "unreadable", "undecodable", "malformed"}}
  \cup {[kind |-> "json", unfit |-> TRUE, record |-> WellFormed]}
  \cup {[kind |-> "json", unfit |-> FALSE, record |-> r] : r \in Records}
=============================================================================
