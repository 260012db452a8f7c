---------------------------- MODULE MCMergeEngine ----------------------------
(***************************************************************************)
(* Instance of MergeEngine for TLC.  One field stands for each way a field *)
(* is decided: first_name (required, source_priority), github_url          *)
(* (first_non_empty, opposite priority), skills (flat union) and           *)
(* certifications (structured union).  Fields do not influence each other  *)
(* before the construction, so the scalars and the lists vary separately.  *)
(***************************************************************************)
EXTENDS MergeEngine

CONSTANTS
  ATS, RESUME,       \* DataSource
  n1, n2, g1, g2     \* values of first_name and of github_url

MCFieldOrder == <<"first_name", "skills", "certifications", "github_url">>
MCKind ==
  [f \in Fields |->
     CASE f = "skills" -> "flat" [] f = "certifications" -> "structured" [] OTHER -> "scalar"]
MCRequired == {"first_name"}
MCNameKeyed == {"certifications"}
MCMaxLength == [f \in {"skills", "certifications"} |-> 2]

MCAttrs == {"name", "issuer"}
MCBlank == {None}
MCStrings == {"Python", "python", "go", "sql", "AWS", "aws,", "acme"}
MCCaseFold ==
  [s \in MCStrings |-> CASE s = "Python" -> "python" [] s = "AWS" -> "aws" [] OTHER -> s]
\* _norm also drops punctuation, and maps None to the empty string.
MCNorm ==
  [s \in MCStrings \cup {None} |->
     IF s = None THEN "" ELSE IF s = "aws," THEN "aws" ELSE MCCaseFold[s]]

-----------------------------------------------------------------------------
Cert(name, issuer) == [name |-> name, issuer |-> issuer]
SkillLists == {<<>>, <<"Python", "go">>, <<"python", "sql">>, <<"python", "Python">>}
CertLists ==
  {<<>>, <<Cert("AWS", None)>>, <<Cert("AWS", "acme")>>,
   <<Cert("aws,", None), Cert("go", "acme")>>}

NoScores == [f \in Fields |-> None]
WithScore(score) == [NoScores EXCEPT !["first_name"] = score]
Values(name, github, skills, certs) ==
  [f \in Fields |-> CASE f = "first_name" -> name [] f = "github_url" -> github
                      [] f = "skills" -> skills [] OTHER -> certs]

\* What a candidate holds, but for its identity and its source.
Contents ==
  {[known |-> TRUE, values |-> Values(name, None, <<>>, <<>>), confidence |-> WithScore(score)] :
     name \in {n1, n2}, score \in {None, 1, 2}}
  \cup
  {[known |-> TRUE, values |-> Values(n1, github, <<>>, <<>>), confidence |-> NoScores] :
     github \in {g1, g2}}
  \cup
  {[known |-> TRUE, values |-> Values(n1, None, skills, certs), confidence |-> NoScores] :
     skills \in SkillLists, certs \in CertLists}
  \cup
  {[known |-> FALSE, values |-> Values(n1, None, <<>>, <<>>), confidence |-> NoScores]}

Candidate(id, source, content) ==
  [id |-> id, source |-> source, known |-> content.known,
   values |-> content.values, confidence |-> content.confidence]
From(id, contents) ==
  {Candidate(id, source, content) : source \in {ATS, RESUME}, content \in contents}

\* The contents of which three candidates are merged.
Few == {content \in Contents :
          content.values["skills"] \in {<<>>, <<"python", "Python">>} /\ content.known
          /\ content.values["certifications"] = <<>> /\ content.values["github_url"] = None
          /\ content.confidence["first_name"] \in {None, 2}}

MCBatches ==
  {<<>>}
  \cup {<<c>> : c \in From(1, Contents)}
  \cup {<<c, d>> : c \in From(1, Contents), d \in From(2, Contents)}
  \cup {<<c, d, e>> : c \in From(1, Few), d \in From(2, Few), e \in From(3, Few)}

Rule(strategy, priority, keys) ==
  [strategy |-> strategy, priority |-> priority, identity_keys |-> keys]

\* config/merge_policy.yaml, and the same file with one rule changed.
Shipped ==
  [rules |->
     [f \in Fields |->
        CASE f = "first_name" -> Rule("source_priority", <<ATS, RESUME>>, {})
          [] f = "github_url" -> Rule("first_non_empty", <<RESUME, ATS>>, {})
          [] f = "skills" -> Rule("union", <<RESUME, ATS>>, {})
          [] OTHER -> Rule("union", <<ATS, RESUME>>, {"name", "issuer"})],
   default |-> Rule("source_priority", <<ATS, RESUME>>, {})]
WithRule(f, rule) == [Shipped EXCEPT !.rules[f] = rule]

MCPolicies ==
  {Shipped,
   WithRule("first_name", Rule("highest_confidence", <<RESUME>>, {})),
   WithRule("certifications", Rule("union", <<ATS, RESUME>>, {})),
   WithRule("github_url", Rule("union", <<ATS>>, {})),
   \* no rule for skills: the default rule applies and does not fit
   [Shipped EXCEPT !.rules = [f \in Fields \ {"skills"} |-> Shipped.rules[f]]]}
=============================================================================
