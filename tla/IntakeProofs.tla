---------------------------- MODULE IntakeProofs ----------------------------
(***************************************************************************)
(* Theorems about Intake, for every record an ATS may write, every table   *)
(* of what the string functions and the libraries make of a text and every *)
(* score: the types, that a file is refused with a ParserError, that the   *)
(* rules kept for defence in depth find nothing in a candidate the parser  *)
(* made, that the duplicate rules point at each entry of the record that   *)
(* repeats an earlier one, and at another only for a bar in its names,     *)
(* that nothing of the record is lost, and that the normalizers settle at  *)
(* once.                                                                   *)
(***************************************************************************)
EXTENDS Intake, SequenceLemmas

Registry == Rules!DefaultRegistry
RuleNames == {Registry[n] : n \in 1..14}

WithCandidate == {"normalize", "score", "validate", "done"}

\* What was read is the record of some file there was.
IsARecord(d) == \E c \in Contents : c.kind = "json" /\ d = c.record

\* What each step has found out about the data, or has made of them.
DataRead == phase \in {"shape", "map"} \cup WithCandidate => IsARecord(data)

DataChecked ==
  /\ phase \in {"map"} \cup WithCandidate => SchemaValid(data)
  /\ phase \in WithCandidate => Maps(data)

ScoredFrom(c, d) == \E k \in Confidences : c = WithScores(normalize(Candidate(d)), k)

CandidateMade ==
  /\ phase \notin WithCandidate => candidate = None
  /\ phase = "normalize" => candidate = Candidate(data)
  /\ phase = "score" => candidate = normalize(Candidate(data))
  /\ phase \in {"validate", "done"} => ScoredFrom(candidate, data)

IssueOf(rule, place) == [rule |-> rule, at |-> place]

\* The issues of a report are those of the rules that have run.
TellsOf(r, c) ==
  /\ \A issue \in r.issues : \E n \in 1..Len(r.executed) :
       \E p \in Rules!check(Registry[n], c) : issue = IssueOf(Registry[n], p)
  /\ \A n \in 1..Len(r.executed) : \A p \in Rules!check(Registry[n], c) :
       IssueOf(Registry[n], p) \in r.issues

ReportMade ==
  /\ DOMAIN report = {"executed", "failed", "issues", "warnings", "is_valid"}
  /\ report.executed \in Seq(RuleNames) /\ Len(report.executed) <= Len(Registry)
  /\ phase \notin {"validate", "done"} => report = Rules!NoReport
  /\ phase = "done" => Len(report.executed) = Len(Registry)
  /\ TellsOf(report, candidate)

IntakeInv == TypeOK /\ DataRead /\ DataChecked /\ CandidateMade /\ ReportMade

-----------------------------------------------------------------------------
(* The registry. *)

\* Every rule at its place.
LEMMA RegistryRules ==
  /\ Registry[1] = "required_fields" /\ Registry[2] = "schema_version"
  /\ Registry[3] = "confidence_values" /\ Registry[4] = "string_length"
  /\ Registry[5] = "unicode_confusables" /\ Registry[6] = "id_uuid"
  /\ Registry[7] = "email_format" /\ Registry[8] = "phone_format"
  /\ Registry[9] = "url_format" /\ Registry[10] = "external_id_format"
  /\ Registry[11] = "duplicate_experience" /\ Registry[12] = "duplicate_education"
  /\ Registry[13] = "date_order" /\ Registry[14] = "confidence_field_consistency"
BY DEF Registry, Rules!DefaultRegistry

\* Fourteen rules.
LEMMA RegistryLength == Len(Registry) = 14
BY DEF Registry, Rules!DefaultRegistry

\* A rule's name stands for that rule.
LEMMA RulesByName ==
  ASSUME NEW c
  PROVE  /\ Rules!check("required_fields", c) = Rules!required_fields(c)
         /\ Rules!check("schema_version", c) = Rules!schema_version(c)
         /\ Rules!check("confidence_values", c) = Rules!confidence_values(c)
         /\ Rules!check("id_uuid", c) = Rules!id_uuid(c)
         /\ Rules!check("email_format", c) = Rules!email_format(c)
         /\ Rules!check("url_format", c) = Rules!url_format(c)
         /\ Rules!check("duplicate_experience", c) = Rules!duplicate_experience(c)
         /\ Rules!check("duplicate_education", c) = Rules!duplicate_education(c)
         /\ Rules!check("date_order", c) = Rules!date_order(c)
BY DEF Rules!check

\* One more rule tells what it found, and what was told stays told.
LEMMA ExecutedTells ==
  ASSUME NEW r, NEW c,
         DOMAIN r = {"executed", "failed", "issues", "warnings", "is_valid"},
         r.executed \in Seq(RuleNames), Len(r.executed) < Len(Registry), TellsOf(r, c)
  PROVE  LET next == Rules!Executed(r, Registry[Len(r.executed) + 1], c)
         IN  /\ DOMAIN next = DOMAIN r /\ next.is_valid = r.is_valid
             /\ next.executed \in Seq(RuleNames) /\ Len(next.executed) <= Len(Registry)
             /\ TellsOf(next, c)
<1> DEFINE n == Len(r.executed) + 1
           rule == Registry[n]
           next == Rules!Executed(r, rule, c)
<1>1. /\ Len(r.executed) \in Nat /\ n \in 1..14 /\ rule \in RuleNames
  BY RegistryLength DEF RuleNames
<1>2. /\ DOMAIN next = DOMAIN r
      /\ next.is_valid = r.is_valid
      /\ next.executed = Append(r.executed, rule)
      /\ next.issues = r.issues \cup {IssueOf(rule, p) : p \in Rules!check(rule, c)}
  BY DEF Rules!Executed, IssueOf
<1>3. next.executed \in Seq(RuleNames) /\ Len(next.executed) = n
  BY <1>1, <1>2
<1> HIDE DEF next, rule
<1>4. \A m \in 1..n : m = n \/ m \in 1..Len(r.executed)
  BY <1>1
<1>5. \A m \in 1..Len(r.executed) : m \in 1..n
  BY <1>1
<1>6. n \in 1..n
  BY <1>1
<1>7. rule = Registry[n]
  BY DEF rule
<1>8. TellsOf(next, c)
  <2>1. ASSUME NEW issue \in next.issues
        PROVE  \E m \in 1..n : \E p \in Rules!check(Registry[m], c) : issue = IssueOf(Registry[m], p)
    BY <1>2, <1>5, <1>6, <1>7, <2>1, Zenon DEF TellsOf
  <2>2. ASSUME NEW m \in 1..n, NEW p \in Rules!check(Registry[m], c)
        PROVE  IssueOf(Registry[m], p) \in next.issues
    BY <1>2, <1>4, <1>7, <2>2, Zenon DEF TellsOf
  <2> QED BY <1>3, <2>1, <2>2 DEF TellsOf
<1>9. Len(next.executed) <= Len(Registry)
  BY <1>1, <1>3, RegistryLength
<1> QED BY <1>2, <1>3, <1>8, <1>9 DEF next, rule

-----------------------------------------------------------------------------
(* The inductive invariant. *)

\* A report nothing has been run for.
LEMMA NoReportIsEmpty ==
  /\ DOMAIN Rules!NoReport = {"executed", "failed", "issues", "warnings", "is_valid"}
  /\ Rules!NoReport.executed \in Seq(RuleNames) /\ Len(Rules!NoReport.executed) = 0
  /\ Rules!NoReport.is_valid = None
  /\ \A c : TellsOf(Rules!NoReport, c)
<1>1. /\ DOMAIN Rules!NoReport = {"executed", "failed", "issues", "warnings", "is_valid"}
      /\ Rules!NoReport.executed = <<>> /\ Rules!NoReport.issues = {}
      /\ Rules!NoReport.is_valid = None
  BY DEF Rules!NoReport
<1>2. Rules!NoReport.executed \in Seq(RuleNames) /\ Len(Rules!NoReport.executed) = 0
  BY <1>1
<1>3. 1..Len(Rules!NoReport.executed) = {}
  BY <1>2
<1> QED BY <1>1, <1>2, <1>3, Zenon DEF TellsOf

\* A candidate is there to be stored: it is not None.
LEMMA CandidatesAreNotNone ==
  ASSUME NEW d, IsARecord(d), SchemaValid(d), Maps(d)
  PROVE  /\ Candidate(d) # None /\ normalize(Candidate(d)) # None
         /\ \A k \in Confidences : WithScores(normalize(Candidate(d)), k) # None
<1>1. PICK c \in Contents : c.kind = "json" /\ d = c.record
  BY DEF IsARecord
<1> QED BY <1>1, NoneAssumption, Zenon DEF Mappable

LEMMA InitInv == Init => IntakeInv
<1> SUFFICES ASSUME Init PROVE IntakeInv
  OBVIOUS
<1>1. TypeOK
  BY NoReportIsEmpty DEF Init, TypeOK, Phases
<1>2. DataRead /\ DataChecked /\ CandidateMade
  BY DEF Init, DataRead, DataChecked, CandidateMade, WithCandidate
<1>3. ReportMade
  BY NoReportIsEmpty, RegistryLength DEF Init, ReportMade
<1> QED BY <1>1, <1>2, <1>3 DEF IntakeInv

\* A refusal keeps what there is, and there is neither candidate nor report.
LEMMA RefuseKeeps ==
  ASSUME IntakeInv, phase \in {"check", "read", "shape", "map"},
         NEW error \in ParserErrors, Refuse(error)
  PROVE  IntakeInv'
<1>1. error # None
  BY NoneAssumption DEF ParserErrors
<1>2. TypeOK'
  BY <1>1 DEF IntakeInv, TypeOK, Refuse, Phases
<1>3. DataRead' /\ DataChecked'
  BY DEF Refuse, DataRead, DataChecked, WithCandidate
<1>4. CandidateMade'
  BY DEF IntakeInv, Refuse, CandidateMade, WithCandidate
<1>5. ReportMade'
  <2>1. phase' = "refused" /\ report' = report /\ candidate' = candidate
    BY DEF Refuse
  <2>2. report = Rules!NoReport
    BY DEF IntakeInv, ReportMade
  <2> QED BY <2>1, <2>2 DEF IntakeInv, ReportMade, TellsOf
<1> QED BY <1>2, <1>3, <1>4, <1>5 DEF IntakeInv

\* A step before the validation leaves the empty report.
LEMMA ReportStays ==
  ASSUME IntakeInv, phase \notin {"validate", "done"}, report' = report, phase' # "done"
  PROVE  ReportMade'
<1>1. report' = Rules!NoReport
  BY DEF IntakeInv, ReportMade
<1>2. TellsOf(report', candidate')
  BY <1>1, NoReportIsEmpty
<1>3. Len(Rules!NoReport.executed) <= Len(Registry)
  BY NoReportIsEmpty, RegistryLength
<1> QED BY <1>1, <1>2, <1>3, NoReportIsEmpty DEF ReportMade

LEMMA NextInv == IntakeInv /\ [Next]_vars => IntakeInv'
<1> SUFFICES ASSUME IntakeInv, [Next]_vars PROVE IntakeInv'
  OBVIOUS
<1> USE DEF IntakeInv
<1>1. CASE ValidateFile
  <2>1. CASE Refuse("FileReadError")
    BY <1>1, <2>1, RefuseKeeps DEF ValidateFile, ParserErrors
  <2>2. CASE ~Refuse("FileReadError")
    <3>1. phase = "check" /\ phase' = "read" /\ UNCHANGED <<file, data, refusal, candidate, report>>
      BY <1>1, <2>2 DEF ValidateFile
    <3>2. TypeOK'
      BY <3>1 DEF TypeOK, Phases
    <3>3. DataRead' /\ DataChecked' /\ CandidateMade'
      BY <3>1 DEF DataRead, DataChecked, CandidateMade, WithCandidate
    <3> QED BY <3>1, <3>2, <3>3, ReportStays
  <2> QED BY <2>1, <2>2
<1>2. CASE ReplaceFile
  <2>1. /\ phase = "read" /\ file' \in Contents
        /\ UNCHANGED <<phase, data, refusal, candidate, report>>
    BY <1>2 DEF ReplaceFile
  <2>2. TypeOK'
    BY <2>1 DEF TypeOK, Phases
  <2>3. DataRead' /\ DataChecked' /\ CandidateMade'
    BY <2>1 DEF DataRead, DataChecked, CandidateMade, WithCandidate
  <2> QED BY <2>1, <2>2, <2>3, ReportStays
<1>3. CASE LoadJson
  <2>1. phase = "read" /\ file \in Contents
    BY <1>3 DEF LoadJson, TypeOK
  <2>2. CASE file.kind \in {"missing", "directory", "unreadable"}
    <3>1. Refuse("FileReadError")
      BY <1>3, <2>2 DEF LoadJson
    <3> QED BY <2>1, <3>1, RefuseKeeps DEF ParserErrors
  <2>3. CASE file.kind \in {"undecodable", "malformed"}
    <3>1. Refuse("InvalidJSONError")
      BY <1>3, <2>3 DEF LoadJson
    <3> QED BY <2>1, <3>1, RefuseKeeps DEF ParserErrors
  <2>4. CASE file.kind = "json"
    <3>1. /\ data' = file.record /\ phase' = "shape"
          /\ UNCHANGED <<file, refusal, candidate, report>>
      BY <1>3, <2>4 DEF LoadJson
    <3>2. TypeOK'
      BY <2>1, <3>1 DEF TypeOK, Phases
    <3>3. IsARecord(data)'
      BY <2>1, <2>4, <3>1 DEF IsARecord
    <3>4. DataRead' /\ DataChecked' /\ CandidateMade'
      BY <2>1, <3>1, <3>3 DEF DataRead, DataChecked, CandidateMade, WithCandidate
    <3> QED BY <2>1, <3>1, <3>2, <3>4, ReportStays
  <2>5. file.kind \in {"missing", "directory", "unreadable", "undecodable", "malformed", "json"}
    BY <2>1, ContentsAssumption
  <2> QED BY <2>2, <2>3, <2>4, <2>5
<1>4. CASE ValidateSchema
  <2>1. phase = "shape"
    BY <1>4 DEF ValidateSchema
  <2>2. CASE ~SchemaValid(data)
    BY <1>4, <2>1, <2>2, RefuseKeeps DEF ValidateSchema, ParserErrors
  <2>3. CASE SchemaValid(data)
    <3>1. phase' = "map" /\ UNCHANGED <<file, data, refusal, candidate, report>>
      BY <1>4, <2>3 DEF ValidateSchema
    <3>2. TypeOK'
      BY <2>1, <3>1 DEF TypeOK, Phases
    <3>3. DataRead'
      BY <2>1, <3>1 DEF DataRead, WithCandidate
    <3>4. DataChecked' /\ CandidateMade'
      BY <2>1, <2>3, <3>1 DEF DataChecked, CandidateMade, WithCandidate
    <3> QED BY <2>1, <3>1, <3>2, <3>3, <3>4, ReportStays
  <2> QED BY <2>2, <2>3
<1>5. CASE MapCandidate
  <2>1. phase = "map" /\ IsARecord(data) /\ SchemaValid(data)
    BY <1>5 DEF MapCandidate, DataRead, DataChecked
  <2>2. CASE ~Maps(data)
    BY <1>5, <2>1, <2>2, RefuseKeeps DEF MapCandidate, ParserErrors
  <2>3. CASE Maps(data)
    <3>1. /\ candidate' = Candidate(data) /\ phase' = "normalize"
          /\ UNCHANGED <<file, data, refusal, report>>
      BY <1>5, <2>3 DEF MapCandidate
    <3>2. Candidate(data) # None
      BY <2>1, <2>3, CandidatesAreNotNone
    <3>3. TypeOK'
      BY <2>1, <3>1, <3>2 DEF TypeOK, Phases
    <3>4. DataRead' /\ DataChecked'
      BY <2>1, <2>3, <3>1 DEF DataRead, DataChecked, WithCandidate
    <3>5. CandidateMade'
      <4>1. phase' = "normalize" /\ data' = data /\ candidate' = Candidate(data)
        BY <3>1
      <4>2. candidate' = Candidate(data')
        BY <4>1
      <4> QED BY <4>1, <4>2 DEF CandidateMade, WithCandidate
    <3> QED BY <2>1, <3>1, <3>3, <3>4, <3>5, ReportStays
  <2> QED BY <2>2, <2>3
<1>6. CASE Normalize
  <2>1. /\ phase = "normalize" /\ IsARecord(data) /\ SchemaValid(data) /\ Maps(data)
        /\ candidate = Candidate(data)
    BY <1>6 DEF Normalize, DataRead, DataChecked, CandidateMade, WithCandidate
  <2>2. /\ candidate' = normalize(Candidate(data)) /\ phase' = "score"
        /\ UNCHANGED <<file, data, refusal, report>>
    BY <1>6, <2>1 DEF Normalize
  <2>3. normalize(Candidate(data)) # None
    BY <2>1, CandidatesAreNotNone
  <2>4. TypeOK'
    BY <2>1, <2>2, <2>3 DEF TypeOK, Phases
  <2>5. DataRead' /\ DataChecked'
    BY <2>1, <2>2 DEF DataRead, DataChecked, WithCandidate
  <2>6. CandidateMade'
    <3>1. candidate' = normalize(Candidate(data'))
      BY <2>2
    <3> QED BY <2>2, <3>1 DEF CandidateMade, WithCandidate
  <2> QED BY <2>1, <2>2, <2>4, <2>5, <2>6, ReportStays
<1>7. CASE Score
  <2>1. /\ phase = "score" /\ IsARecord(data) /\ SchemaValid(data) /\ Maps(data)
        /\ candidate = normalize(Candidate(data))
    BY <1>7 DEF Score, DataRead, DataChecked, CandidateMade, WithCandidate
  <2>2. PICK k \in Confidences : candidate' = WithScores(normalize(Candidate(data)), k)
    BY <1>7, <2>1 DEF Score
  <2>3. phase' = "validate" /\ UNCHANGED <<file, data, refusal, report>>
    BY <1>7 DEF Score
  <2>4. WithScores(normalize(Candidate(data)), k) # None
    BY <2>1, CandidatesAreNotNone
  <2>5. TypeOK'
    BY <2>1, <2>2, <2>3, <2>4 DEF TypeOK, Phases
  <2>6. DataRead' /\ DataChecked'
    BY <2>1, <2>3 DEF DataRead, DataChecked, WithCandidate
  <2>7. CandidateMade'
    <3>1. ScoredFrom(candidate', data')
      BY <2>2, <2>3 DEF ScoredFrom
    <3> QED BY <2>3, <3>1 DEF CandidateMade, WithCandidate
  <2> QED BY <2>1, <2>3, <2>5, <2>6, <2>7, ReportStays
<1>8. CASE RunRule
  <2>1. /\ phase = "validate" /\ Len(report.executed) < Len(Registry)
        /\ report' = Rules!Executed(report, Registry[Len(report.executed) + 1], candidate)
        /\ UNCHANGED <<file, phase, data, refusal, candidate>>
    BY <1>8 DEF RunRule, Registry
  <2>2. /\ DOMAIN report' = DOMAIN report /\ report'.is_valid = report.is_valid
        /\ report'.executed \in Seq(RuleNames) /\ Len(report'.executed) <= Len(Registry)
        /\ TellsOf(report', candidate)
    BY <2>1, ExecutedTells DEF ReportMade
  <2>3. TypeOK'
    BY <2>1, <2>2 DEF TypeOK
  <2>4. DataRead' /\ DataChecked' /\ CandidateMade'
    BY <2>1 DEF DataRead, DataChecked, CandidateMade
  <2>5. ReportMade'
    <3>1. TellsOf(report', candidate')
      BY <2>1, <2>2
    <3> QED BY <2>1, <2>2, <3>1 DEF ReportMade
  <2> QED BY <2>3, <2>4, <2>5
<1>9. CASE EndValidation
  <2>1. /\ phase = "validate" /\ Len(report.executed) = Len(Registry)
        /\ report' = Rules!FromIssues(report) /\ phase' = "done"
        /\ UNCHANGED <<file, data, refusal, candidate>>
    BY <1>9 DEF EndValidation, Registry
  <2>2. /\ DOMAIN report' = DOMAIN report /\ report'.executed = report.executed
        /\ report'.issues = report.issues
        /\ report'.is_valid = (Rules!Errors(report) = {})
    BY <2>1 DEF Rules!FromIssues, ReportMade
  <2>3. report'.is_valid # None
    BY <2>2, NoneAssumption
  <2>4. TypeOK'
    BY <2>1, <2>3 DEF TypeOK, Phases
  <2>5. DataRead' /\ DataChecked' /\ CandidateMade'
    BY <2>1 DEF DataRead, DataChecked, CandidateMade, WithCandidate
  <2>6. ReportMade'
    <3>1. TellsOf(report, candidate)
      BY DEF ReportMade
    <3>2. report'.issues = report.issues /\ report'.executed = report.executed
          /\ candidate' = candidate
      BY <2>1, <2>2
    <3>3. TellsOf(report', candidate')
      BY <3>1, <3>2, Zenon DEF TellsOf
    <3> QED BY <2>1, <2>2, <3>3 DEF ReportMade
  <2> QED BY <2>4, <2>5, <2>6
<1>10. CASE UNCHANGED vars
  <2>1. TypeOK' /\ DataRead' /\ DataChecked' /\ CandidateMade'
    BY <1>10 DEF vars, TypeOK, DataRead, DataChecked, CandidateMade
  <2>2. ReportMade'
    BY <1>10 DEF vars, ReportMade, TellsOf
  <2> QED BY <2>1, <2>2
<1> QED
  BY <1>1, <1>2, <1>3, <1>4, <1>5, <1>6, <1>7, <1>8, <1>9, <1>10 DEF Next, Finished

LEMMA InvHolds == Spec => []IntakeInv
BY InitInv, NextInv, PTL DEF Spec

(* There is a candidate exactly from the mapping on, a report from the     *)
(* validation on and an error only where the file was refused.             *)
THEOREM TypeCorrect == Spec => []TypeOK
<1>1. IntakeInv => TypeOK
  BY DEF IntakeInv
<1> QED BY <1>1, InvHolds, PTL

\* What a file is refused with.
RefusedRightly == phase = "refused" => refusal \in ParserErrors

\* A step refuses with a ParserError, or does not refuse, or was at the end.
LEMMA RefusalsStep ==
  ASSUME IntakeInv, RefusedRightly, [Next]_vars
  PROVE  RefusedRightly'
<1>1. ASSUME NEW error \in ParserErrors, Refuse(error)
      PROVE  RefusedRightly'
  BY <1>1 DEF Refuse, RefusedRightly
<1>2. ASSUME phase' # "refused" PROVE RefusedRightly'
  BY <1>2 DEF RefusedRightly
<1>3. CASE ValidateFile
  BY <1>1, <1>2, <1>3 DEF ValidateFile, ParserErrors
<1>4. CASE ReplaceFile
  BY <1>2, <1>4 DEF ReplaceFile
<1>5. CASE LoadJson
  <2>1. file.kind \in {"missing", "directory", "unreadable", "undecodable", "malformed", "json"}
    BY ContentsAssumption DEF IntakeInv, TypeOK
  <2>2. CASE file.kind \in {"missing", "directory", "unreadable"}
    <3>1. Refuse("FileReadError")
      BY <1>5, <2>2 DEF LoadJson
    <3> QED BY <1>1, <3>1 DEF ParserErrors
  <2>3. CASE file.kind \in {"undecodable", "malformed"}
    <3>1. Refuse("InvalidJSONError")
      BY <1>5, <2>3 DEF LoadJson
    <3> QED BY <1>1, <3>1 DEF ParserErrors
  <2>4. CASE file.kind = "json"
    BY <1>2, <1>5, <2>4 DEF LoadJson
  <2> QED BY <2>1, <2>2, <2>3, <2>4
<1>6. CASE ValidateSchema
  BY <1>1, <1>2, <1>6 DEF ValidateSchema, ParserErrors
<1>7. CASE MapCandidate
  BY <1>1, <1>2, <1>7 DEF MapCandidate, ParserErrors
<1>8. CASE Normalize \/ Score \/ EndValidation
  BY <1>2, <1>8 DEF Normalize, Score, EndValidation
<1>9. CASE RunRule
  BY <1>2, <1>9 DEF RunRule
<1>10. CASE UNCHANGED vars
  BY <1>10 DEF vars, RefusedRightly
<1> QED
  BY <1>3, <1>4, <1>5, <1>6, <1>7, <1>8, <1>9, <1>10 DEF Next, Finished

(* However the file is replaced between its check and its second opening,  *)
(* a refusal is a ParserError and leaves neither candidate nor report.     *)
THEOREM RefusalsAreParserErrorsHolds == Spec => []RefusalsAreParserErrors
<1>1. Init => RefusedRightly
  BY DEF Init, RefusedRightly
<1>2. IntakeInv /\ RefusedRightly => RefusalsAreParserErrors
  BY DEF IntakeInv, RefusedRightly, CandidateMade, ReportMade, WithCandidate,
         RefusalsAreParserErrors
<1>3. IntakeInv /\ RefusedRightly /\ [Next]_vars => RefusedRightly'
  BY RefusalsStep
<1> QED BY <1>1, <1>2, <1>3, InvHolds, PTL DEF Spec

-----------------------------------------------------------------------------
(* What the candidate of a record holds when the rules see it. *)

\* A candidate of a record that passed the schema and the models, with scores.
Accepted(c, d) == IsARecord(d) /\ SchemaValid(d) /\ Maps(d) /\ ScoredFrom(c, d)

Experience(d, i) == normalize_experience(map_experience(d.experience.items[i]))
Study(d, i) == normalize_education(Education(d.education.items[i]))

\* The fields the rules read, each with what the mapper and the normalizers
\* make of the record's.
LEMMA FieldsMade ==
  ASSUME NEW c, NEW d, ScoredFrom(c, d)
  PROVE  /\ c.id = "uuid4" /\ c.schema_version = "1.0" /\ c.confidence \in Confidences
         /\ c.first_name = TitleCase[Clean[Strip[d.first_name]]]
         /\ c.last_name = TitleCase[Clean[Strip[d.last_name]]]
         /\ c.contact = normalize_contact(map_contact(d))
         /\ c.experiences = [i \in DOMAIN Items(d.experience) |-> Experience(d, i)]
         /\ c.education = [i \in DOMAIN Items(d.education) |-> Study(d, i)]
<1>1. PICK k \in Confidences : c = WithScores(normalize(Candidate(d)), k)
  BY DEF ScoredFrom
<1> DEFINE m == Candidate(d)
           n == normalize(m)
<1>2. /\ m.id = "uuid4" /\ m.schema_version = "1.0"
      /\ m.first_name = Strip[d.first_name] /\ m.last_name = Strip[d.last_name]
      /\ m.contact = map_contact(d)
      /\ m.experiences = [i \in DOMAIN Items(d.experience) |->
                            map_experience(d.experience.items[i])]
      /\ m.education = [i \in DOMAIN Items(d.education) |-> Education(d.education.items[i])]
  BY DEF Candidate
<1>3. DOMAIN m = {"id", "first_name", "last_name", "external_id", "contact", "skills",
                  "languages", "experiences", "education", "certifications", "confidence",
                  "provenance", "schema_version"}
  BY DEF Candidate
<1> HIDE DEF m
<1>4. /\ n.id = m.id /\ n.schema_version = m.schema_version
      /\ n.first_name = TitleCase[Clean[m.first_name]]
      /\ n.last_name = TitleCase[Clean[m.last_name]]
      /\ n.contact = normalize_contact(m.contact)
      /\ n.experiences = [i \in DOMAIN m.experiences |-> normalize_experience(m.experiences[i])]
      /\ n.education = [i \in DOMAIN m.education |-> normalize_education(m.education[i])]
      /\ DOMAIN n = DOMAIN m
  BY <1>3 DEF normalize
<1> HIDE DEF n
<1>5. /\ c.confidence = k /\ c.id = n.id /\ c.schema_version = n.schema_version
      /\ c.first_name = n.first_name /\ c.last_name = n.last_name
      /\ c.contact = n.contact
      /\ c.experiences = n.experiences /\ c.education = n.education
  <2>1. c = [n EXCEPT !.confidence = k]
    BY <1>1 DEF WithScores, n, m
  <2> QED BY <1>3, <1>4, <2>1
<1>6. n.experiences = [i \in DOMAIN Items(d.experience) |-> Experience(d, i)]
  BY <1>2, <1>4 DEF Experience
<1>7. n.education = [i \in DOMAIN Items(d.education) |-> Study(d, i)]
  BY <1>2, <1>4 DEF Study
<1> QED BY <1>2, <1>4, <1>5, <1>6, <1>7

\* What an experience keeps of its item.
LEMMA ExperienceFields ==
  ASSUME NEW d, NEW i
  PROVE  LET item == d.experience.items[i]
         IN  /\ Experience(d, i).company = Clean[Strip[item.company]]
             /\ Experience(d, i).title = Clean[Strip[item.title]]
             /\ Experience(d, i).start_date = Day(item.start_date)
             /\ Experience(d, i).end_date = Day(item.end_date)
BY DEF Experience, normalize_experience, map_experience, WorkExperience, RawExperience

\* What an education entry keeps of its item.
LEMMA StudyFields ==
  ASSUME NEW d, NEW i
  PROVE  LET item == d.education.items[i]
         IN  /\ Study(d, i).institution = Clean[Strip[item.institution]]
             /\ Study(d, i).degree = Clean[Strip[item.degree]]
             /\ Study(d, i).start_date = Day(item.start_date)
             /\ Study(d, i).end_date = Day(item.end_date)
BY DEF Study, normalize_education, Education

\* The entries of a mapped list are objects the models accept.
LEMMA EntriesAccepted ==
  ASSUME NEW d, IsARecord(d), SchemaValid(d), Maps(d)
  PROVE  /\ IsSequence(Items(d.experience)) /\ IsSequence(Items(d.education))
         /\ \A i \in DOMAIN Items(d.experience) :
              LET item == d.experience.items[i]
              IN  /\ item.start_date \in Values /\ item.end_date \in Values
                  /\ AcceptsExperience(RawExperience(item)) /\ item.start_date \in Texts
         /\ \A i \in DOMAIN Items(d.education) :
              LET item == d.education.items[i]
              IN  /\ item.start_date \in Values /\ item.end_date \in Values
                  /\ AcceptsEducation(item)
<1>1. PICK c \in Contents : c.kind = "json" /\ d = c.record
  BY DEF IsARecord
<1>2. d # Scalar
  BY DEF SchemaValid
<1>3. \A f \in {"experience", "education"} :
        d[f] # None => /\ IsSequence(d[f].items)
                       /\ \A item \in ToSet(d[f].items) :
                            item # Scalar => {item.start_date, item.end_date} \subseteq Values
  BY <1>1, <1>2, ContentsAssumption
<1>4. \A f \in {"experience", "education"} :
        d[f] # None => \A item \in ToSet(d[f].items) : item # Scalar
  BY DEF SchemaValid, ListFieldsValid, StringLists, ObjectLists
<1>5. \A item \in ToSet(Items(d.experience)) : MapsExperience(item)
  BY DEF Maps, EntriesMap
<1>6. \A item \in ToSet(Items(d.education)) : AcceptsEducation(item)
  BY DEF Maps, EntriesMap
<1>7. IsSequence(<<>>)
  BY DEF IsSequence
<1>8. IsSequence(Items(d.experience)) /\ IsSequence(Items(d.education))
  BY <1>3, <1>7 DEF Items
<1>9. ASSUME NEW i \in DOMAIN Items(d.experience)
      PROVE  LET item == d.experience.items[i]
             IN  /\ item.start_date \in Values /\ item.end_date \in Values
                 /\ AcceptsExperience(RawExperience(item)) /\ item.start_date \in Texts
  <2>1. d.experience # None /\ Items(d.experience) = d.experience.items
    BY DEF Items
  <2>2. d.experience.items[i] \in ToSet(d.experience.items)
    BY <2>1 DEF ToSet
  <2>3. MapsExperience(d.experience.items[i])
    BY <1>5, <2>1, <2>2
  <2>4. {d.experience.items[i].start_date, d.experience.items[i].end_date} \subseteq Values
    BY <1>3, <1>4, <2>1, <2>2
  <2> QED BY <2>3, <2>4 DEF MapsExperience
<1>10. ASSUME NEW i \in DOMAIN Items(d.education)
       PROVE  LET item == d.education.items[i]
              IN  /\ item.start_date \in Values /\ item.end_date \in Values
                  /\ AcceptsEducation(item)
  <2>1. d.education # None /\ Items(d.education) = d.education.items
    BY DEF Items
  <2>2. d.education.items[i] \in ToSet(d.education.items)
    BY <2>1 DEF ToSet
  <2>3. AcceptsEducation(d.education.items[i])
    BY <1>6, <2>1, <2>2
  <2>4. {d.education.items[i].start_date, d.education.items[i].end_date} \subseteq Values
    BY <1>3, <1>4, <2>1, <2>2
  <2> QED BY <2>3, <2>4
<1> QED BY <1>8, <1>9, <1>10

-----------------------------------------------------------------------------
(* The rules kept for defence in depth. *)

\* A name that is not blank is not blank after title case.
LEMMA NamesStand ==
  ASSUME NEW c, NEW d, Accepted(c, d)
  PROVE  Rules!required_fields(c) = {}
<1>1. /\ d.first_name \in Texts /\ Strip[d.first_name] # ""
      /\ d.last_name \in Texts /\ Strip[d.last_name] # ""
  BY DEF Accepted, SchemaValid, RequiredStringsValid, RequiredText
<1>2. ASSUME NEW t \in Texts, Strip[t] # "" PROVE Strip[TitleCase[Clean[Strip[t]]]] # ""
  <2>1. Clean[Strip[t]] = Clean[t]
    BY CleaningAssumption
  <2>2. Strip[TitleCase[Clean[t]]] # ""
    BY <1>2, NamesAssumption
  <2> QED BY <2>1, <2>2
<1>3. /\ c.first_name = TitleCase[Clean[Strip[d.first_name]]]
      /\ c.last_name = TitleCase[Clean[Strip[d.last_name]]]
  BY FieldsMade DEF Accepted
<1>4. Strip[c.first_name] # "" /\ Strip[c.last_name] # ""
  BY <1>1, <1>2, <1>3
<1> QED BY <1>4 DEF Rules!required_fields, Rules!Fields, Rules!Names

\* A score is in percent.
LEMMA ScoresStand ==
  ASSUME NEW c, NEW d, Accepted(c, d)
  PROVE  Rules!confidence_values(c) = {}
<1>1. c.confidence \in Confidences
  BY FieldsMade DEF Accepted
<1>2. /\ c.confidence["score"] \in 0..100
      /\ \A f \in DOMAIN c.confidence.fields : c.confidence.fields[f] \in 0..100
  BY <1>1, ScoresAssumption
<1> QED BY <1>2 DEF Rules!confidence_values, Rules!Fields

\* What the models accept of a contact, in lower case or as it is.
LEMMA ContactStands ==
  ASSUME NEW c, NEW d, Accepted(c, d)
  PROVE  Rules!email_format(c) = {} /\ Rules!url_format(c) = {}
<1>1. c.contact = normalize_contact(map_contact(d))
  BY FieldsMade DEF Accepted
<1>2. CASE map_contact(d) = None
  <2>1. c.contact = None
    BY <1>1, <1>2 DEF normalize_contact
  <2> QED BY <2>1 DEF Rules!email_format, Rules!url_format, Rules!Misformed
<1>3. CASE map_contact(d) # None
  <2> DEFINE m == map_contact(d)
  <2>1. m = ContactInfo(Contact(d))
    BY <1>3 DEF map_contact
  <2>2. /\ DOMAIN m = ContactFields
        /\ m["email"] = Normalised(d["email"], Mailbox)
        /\ m["linkedin_url"] = Normalised(d["linkedin_url"], Url)
        /\ m["github_url"] = Normalised(d["github_url"], Url)
    BY <2>1 DEF ContactInfo, Contact, ContactFields
  <2>3. /\ d["email"] \in {None} \cup DOMAIN Mailbox
        /\ d["linkedin_url"] \in {None} \cup DOMAIN Url
        /\ d["github_url"] \in {None} \cup DOMAIN Url
    BY DEF Accepted, Maps, MapsContact, AcceptsContact, Contact, ContactFields
  <2> HIDE DEF m
  <2>4. /\ normalize_contact(m)["email"] = IF m["email"] = None THEN None ELSE Lower[m["email"]]
        /\ normalize_contact(m)["linkedin_url"] = m["linkedin_url"]
        /\ normalize_contact(m)["github_url"] = m["github_url"]
    BY <1>3, <2>2 DEF normalize_contact, ContactFields, m
  <2>5. c.contact = normalize_contact(m)
    BY <1>1 DEF m
  <2>6. /\ c.contact["email"] \in {None} \cup EmailShaped
        /\ c.contact["linkedin_url"] \in {None} \cup WebUrls
        /\ c.contact["github_url"] \in {None} \cup WebUrls
    BY <2>2, <2>3, <2>4, <2>5, ContactsAssumption DEF Normalised
  <2> QED BY <2>6 DEF Rules!email_format, Rules!url_format, Rules!Misformed, Rules!Fields
<1> QED BY <1>2, <1>3

\* Dates in order for the models are in order for the rule.
LEMMA OrderedDatesStand ==
  ASSUME NEW start \in Values, NEW end \in Values, InOrder(start, end)
  PROVE  ~(Day(start) # None /\ Day(end) # None /\ Day(end) < Day(start))
<1> SUFFICES ASSUME Day(start) # None, Day(end) # None PROVE ~(Day(end) < Day(start))
  OBVIOUS
<1>1. start # None /\ end # None
  BY DEF Day
<1>2. DateOf[start] \in Int /\ DateOf[end] \in Int
  BY <1>1, DatesAssumption
<1>3. DateOf[start] <= DateOf[end]
  BY <1>1 DEF InOrder
<1>4. Day(start) = DateOf[start] /\ Day(end) = DateOf[end]
  BY <1>1 DEF Day
<1> QED BY <1>2, <1>3, <1>4

LEMMA DatesStand ==
  ASSUME NEW c, NEW d, Accepted(c, d)
  PROVE  Rules!date_order(c) = {}
<1>1. /\ c.experiences = [i \in DOMAIN Items(d.experience) |-> Experience(d, i)]
      /\ c.education = [i \in DOMAIN Items(d.education) |-> Study(d, i)]
  BY FieldsMade DEF Accepted
<1>2. ASSUME NEW i \in DOMAIN c.experiences PROVE ~Rules!EndsEarly(c.experiences[i])
  <2> DEFINE item == d.experience.items[i]
  <2>1. i \in DOMAIN Items(d.experience) /\ c.experiences[i] = Experience(d, i)
    BY <1>1
  <2>2. /\ item.start_date \in Values /\ item.end_date \in Values
        /\ AcceptsExperience(RawExperience(item))
    BY <2>1, EntriesAccepted DEF Accepted
  <2>3. InOrder(item.start_date, item.end_date)
    BY <2>2 DEF AcceptsExperience, RawExperience
  <2>4. Experience(d, i).start_date = Day(item.start_date) /\ Experience(d, i).end_date = Day(item.end_date)
    BY ExperienceFields
  <2> HIDE DEF item
  <2> QED BY <2>1, <2>2, <2>3, <2>4, OrderedDatesStand DEF Rules!EndsEarly
<1>3. ASSUME NEW i \in DOMAIN c.education PROVE ~Rules!EndsEarly(c.education[i])
  <2> DEFINE item == d.education.items[i]
  <2>1. i \in DOMAIN Items(d.education) /\ c.education[i] = Study(d, i)
    BY <1>1
  <2>2. /\ item.start_date \in Values /\ item.end_date \in Values /\ AcceptsEducation(item)
    BY <2>1, EntriesAccepted DEF Accepted
  <2>3. InOrder(item.start_date, item.end_date)
    BY <2>2 DEF AcceptsEducation
  <2>4. Study(d, i).start_date = Day(item.start_date) /\ Study(d, i).end_date = Day(item.end_date)
    BY StudyFields
  <2> HIDE DEF item
  <2> QED BY <2>1, <2>2, <2>3, <2>4, OrderedDatesStand DEF Rules!EndsEarly
<1> QED BY <1>2, <1>3 DEF Rules!date_order, Rules!Entries

\* None of these rules complains of such a candidate.
LEMMA DefenceFindsNothing ==
  ASSUME NEW c, NEW d, Accepted(c, d), NEW rule \in DefenceInDepth
  PROVE  Rules!check(rule, c) = {}
<1>1. Rules!schema_version(c) = {} /\ Rules!id_uuid(c) = {}
  BY FieldsMade DEF Accepted, Rules!schema_version, Rules!id_uuid
<1> QED BY <1>1, RulesByName, NamesStand, ScoresStand, ContactStands, DatesStand DEF DefenceInDepth

\* The candidate the rules see is one of a record that was accepted.
LEMMA ValidatedIsAccepted ==
  ASSUME IntakeInv, phase \in {"validate", "done"}
  PROVE  Accepted(candidate, data)
BY DEF IntakeInv, DataRead, DataChecked, CandidateMade, Accepted, WithCandidate

(* Whatever the ATS wrote, the rules that only guard against a candidate   *)
(* the models would have refused find nothing: model_copy runs no          *)
(* validator again, and what the normalizers return needs none.            *)
THEOREM DefenceNeverFiresHolds == Spec => []DefenceNeverFires
<1>1. IntakeInv => DefenceNeverFires
  <2> SUFFICES ASSUME IntakeInv, NEW issue \in report.issues, issue.rule \in DefenceInDepth
               PROVE  FALSE
    BY DEF DefenceNeverFires
  <2>1. CASE phase \in {"validate", "done"}
    <3>1. PICK n \in 1..Len(report.executed) :
            \E p \in Rules!check(Registry[n], candidate) : issue = IssueOf(Registry[n], p)
      BY DEF IntakeInv, ReportMade, TellsOf
    <3>2. issue.rule = Registry[n] /\ Rules!check(Registry[n], candidate) # {}
      BY <3>1 DEF IssueOf
    <3> QED BY <2>1, <3>2, ValidatedIsAccepted, DefenceFindsNothing
  <2>2. CASE phase \notin {"validate", "done"}
    BY <2>2 DEF IntakeInv, ReportMade, Rules!NoReport
  <2> QED BY <2>1, <2>2
<1> QED BY <1>1, InvHolds, PTL

-----------------------------------------------------------------------------
(* The duplicate rules. *)

\* When every rule has run, what is flagged by one is what it complains about.
LEMMA FlaggedByTheRule ==
  ASSUME IntakeInv, phase = "done", NEW n \in 1..14
  PROVE  Flagged(Registry[n]) = {p[2] : p \in Rules!check(Registry[n], candidate)}
<1>1. Len(report.executed) = 14 /\ TellsOf(report, candidate)
  BY RegistryLength DEF IntakeInv, ReportMade
<1>2. \A rule, p : IssueOf(rule, p).rule = rule /\ IssueOf(rule, p).at = p
  BY DEF IssueOf
<1>3. ASSUME NEW issue \in report.issues, issue.rule = Registry[n]
      PROVE  issue.at \in Rules!check(Registry[n], candidate)
  <2>1. PICK m \in 1..14 : \E p \in Rules!check(Registry[m], candidate) :
                             issue = IssueOf(Registry[m], p)
    BY <1>1 DEF TellsOf
  <2>2. PICK p \in Rules!check(Registry[m], candidate) : issue = IssueOf(Registry[m], p)
    BY <2>1
  <2>3. Registry[m] = Registry[n] /\ issue.at = p
    BY <1>2, <1>3, <2>2
  <2> QED BY <2>2, <2>3
<1>4. ASSUME NEW p \in Rules!check(Registry[n], candidate)
      PROVE  \E issue \in report.issues : issue.rule = Registry[n] /\ issue.at = p
  BY <1>1, <1>2 DEF TellsOf
<1> QED BY <1>3, <1>4 DEF Flagged

\* The positions in the places of a list.
LEMMA PositionsOfEntries ==
  ASSUME NEW list, NEW S
  PROVE  {p[2] : p \in Rules!Entries(list, S)} = S
<1>1. ASSUME NEW p \in Rules!Entries(list, S) PROVE p[2] \in S
  BY DEF Rules!Entries
<1>2. ASSUME NEW i \in S PROVE \E p \in Rules!Entries(list, S) : i = p[2]
  <2>1. <<list, i>> \in Rules!Entries(list, S) /\ <<list, i>>[2] = i
    BY DEF Rules!Entries
  <2> QED BY <2>1
<1> QED BY <1>1, <1>2

\* The key parts of two names are alike exactly when the names are, as the
\* record writes them.
LEMMA KeysFold ==
  ASSUME NEW s \in Texts
  PROVE  KeyPart[Clean[Strip[s]]] = Fold(s)
BY CleaningAssumption DEF Fold

\* What precedes a position of a sequence are positions of it.
LEMMA EarlierPositions ==
  ASSUME NEW s, IsSequence(s), NEW i \in DOMAIN s, NEW j \in 1..(i - 1)
  PROVE  j \in DOMAIN s
BY DEF IsSequence

\* An experience the model accepts names its company and its title.
LEMMA NamedExperiences ==
  ASSUME NEW e, AcceptsExperience(RawExperience(e))
  PROVE  e.company \in Texts /\ e.title \in Texts
<1> DEFINE raw == RawExperience(e)
<1>1. RequiredText(raw.company) /\ RequiredText(raw.title)
  BY DEF AcceptsExperience
<1>2. raw.company = e.company /\ raw.title = e.title
  BY DEF RawExperience
<1> QED BY <1>1, <1>2 DEF RequiredText

\* A text is divided into pieces of its own, or is one.
LEMMA PiecesOfNames ==
  ASSUME NEW t \in Texts
  PROVE  /\ IsSequence(Pieces[Fold(t)]) /\ Len(Pieces[Fold(t)]) \in Nat \ {0}
         /\ Len(Pieces[Fold(t)]) = 1 => Pieces[Fold(t)] = <<Fold(t)>>
<1>1. KeyPart[Clean[t]] = Fold(t)
  BY CleaningAssumption DEF Fold
<1>2. /\ IsSequence(Pieces[Fold(t)]) /\ Pieces[Fold(t)] # <<>>
      /\ Len(Pieces[Fold(t)]) = 1 => Pieces[Fold(t)] = <<Fold(t)>>
  BY <1>1, PiecesAssumption
<1>3. Len(Pieces[Fold(t)]) \in Nat \ {0}
  BY <1>2 DEF IsSequence
<1> QED BY <1>2, <1>3

\* Sequences with an element added are the same only if both parts are.
LEMMA AppendedAlike ==
  ASSUME NEW T, NEW s \in Seq(T), NEW t \in Seq(T), NEW x \in T, NEW y \in T
  PROVE  s \o <<x>> = t \o <<y>> => s = t /\ x = y
<1> SUFFICES ASSUME s \o <<x>> = t \o <<y>> PROVE s = t /\ x = y
  OBVIOUS
<1>1. Len(s) = Len(t)
  <2>1. Len(s \o <<x>>) = Len(s) + 1 /\ Len(t \o <<y>>) = Len(t) + 1
    OBVIOUS
  <2> QED BY <2>1
<1>2. \A i \in 1..Len(s) : s[i] = t[i]
  <2>1. \A i \in 1..Len(s) : (s \o <<x>>)[i] = s[i] /\ (t \o <<y>>)[i] = t[i]
    BY <1>1
  <2> QED BY <2>1
<1>3. x = y
  <2>1. (s \o <<x>>)[Len(s) + 1] = x /\ (t \o <<y>>)[Len(t) + 1] = y
    OBVIOUS
  <2> QED BY <1>1, <2>1
<1>4. s = t
  BY <1>1, <1>2
<1> QED BY <1>3, <1>4

\* Joined sequences and what is to be added to them have a set in common.
LEMMA InCommon ==
  ASSUME NEW a, NEW b, NEW c, NEW d, NEW x, NEW y,
         IsSequence(a), IsSequence(b), IsSequence(c), IsSequence(d)
  PROVE  \E T : a \o b \in Seq(T) /\ c \o d \in Seq(T) /\ x \in T /\ y \in T
<1> DEFINE T == {a[i] : i \in DOMAIN a} \cup {b[i] : i \in DOMAIN b}
                  \cup {c[i] : i \in DOMAIN c} \cup {d[i] : i \in DOMAIN d} \cup {x, y}
<1>1. a \in Seq(T) /\ b \in Seq(T) /\ c \in Seq(T) /\ d \in Seq(T) /\ x \in T /\ y \in T
  BY DEF IsSequence
<1> HIDE DEF T
<1>2. a \o b \in Seq(T) /\ c \o d \in Seq(T)
  BY <1>1
<1> QED BY <1>1, <1>2

\* Two pairs of names that are the same have the same pieces; two that have the
\* same pieces are the same, or have a bar each.
LEMMA JoinedNames ==
  ASSUME NEW item, NEW other, NEW f, NEW g,
         item[f] \in Texts, item[g] \in Texts, other[f] \in Texts, other[g] \in Texts
  PROVE  LET joined(e) == Pieces[Fold(e[f])] \o Pieces[Fold(e[g])]
         IN  /\ SameEntry(item, other, {f, g}) => joined(item) = joined(other)
             /\ joined(item) = joined(other) => MayBeTaken(item, other, {f, g})
<1> DEFINE a == Pieces[Fold(item[f])]
           b == Pieces[Fold(item[g])]
           c == Pieces[Fold(other[f])]
           d == Pieces[Fold(other[g])]
           T == {a[i] : i \in DOMAIN a} \cup {b[i] : i \in DOMAIN b}
                  \cup {c[i] : i \in DOMAIN c} \cup {d[i] : i \in DOMAIN d}
<1>1. /\ Len(a) \in Nat \ {0} /\ Len(b) \in Nat \ {0} /\ Len(c) \in Nat \ {0} /\ Len(d) \in Nat \ {0}
      /\ Len(a) = 1 => a = <<Fold(item[f])>>
      /\ Len(b) = 1 => b = <<Fold(item[g])>>
      /\ Len(c) = 1 => c = <<Fold(other[f])>>
      /\ Len(d) = 1 => d = <<Fold(other[g])>>
  BY PiecesOfNames
<1>2. /\ IsSequence(a) /\ IsSequence(b) /\ IsSequence(c) /\ IsSequence(d)
  BY PiecesOfNames
<1>3. SameEntry(item, other, {f, g}) => a \o b = c \o d
  BY DEF SameEntry
<1>4. /\ HasBar(item, {f, g}) <=> Len(a) > 1 \/ Len(b) > 1
      /\ HasBar(other, {f, g}) <=> Len(c) > 1 \/ Len(d) > 1
  BY DEF HasBar
<1>5. /\ SameEntry(item, other, {f, g})
           <=> Fold(item[f]) = Fold(other[f]) /\ Fold(item[g]) = Fold(other[g])
  BY DEF SameEntry
<1>6. a \in Seq(T) /\ b \in Seq(T) /\ c \in Seq(T) /\ d \in Seq(T)
  BY <1>2 DEF IsSequence
<1> HIDE DEF a, b, c, d, T
<1>7. ASSUME a \o b = c \o d PROVE MayBeTaken(item, other, {f, g})
  <2>1. Len(a) + Len(b) = Len(c) + Len(d)
    <3>1. Len(a \o b) = Len(a) + Len(b) /\ Len(c \o d) = Len(c) + Len(d)
      BY <1>6
    <3> QED BY <1>7, <3>1
  <2>2. ASSUME ~HasBar(item, {f, g}) \/ ~HasBar(other, {f, g})
        PROVE  SameEntry(item, other, {f, g})
    <3>1. (~(Len(a) > 1) /\ ~(Len(b) > 1)) \/ (~(Len(c) > 1) /\ ~(Len(d) > 1))
      BY <1>4, <2>2, Zenon
    <3>2. /\ Len(a) \in Nat \ {0} /\ Len(b) \in Nat \ {0}
          /\ Len(c) \in Nat \ {0} /\ Len(d) \in Nat \ {0}
      BY <1>1
    <3>3. Len(a) = 1 /\ Len(b) = 1 /\ Len(c) = 1 /\ Len(d) = 1
      <4> DEFINE m == Len(a)
                 n == Len(b)
                 p == Len(c)
                 q == Len(d)
      <4>1. /\ m + n = p + q /\ ((~(m > 1) /\ ~(n > 1)) \/ (~(p > 1) /\ ~(q > 1)))
            /\ m \in Nat \ {0} /\ n \in Nat \ {0} /\ p \in Nat \ {0} /\ q \in Nat \ {0}
        BY <2>1, <3>1, <3>2
      <4> HIDE DEF m, n, p, q
      <4>2. m = 1 /\ n = 1 /\ p = 1 /\ q = 1
        BY <4>1
      <4> QED BY <4>2 DEF m, n, p, q
    <3>4. <<Fold(item[f]), Fold(item[g])>> = <<Fold(other[f]), Fold(other[g])>>
      BY <1>1, <1>7, <3>3
    <3> QED BY <1>5, <3>4
  <2> QED BY <2>2 DEF MayBeTaken
<1> QED BY <1>3, <1>7 DEF a, b, c, d

\* Two experiences that began on one day and whose items name the same work
\* have one key, and those that have one key are such, or have a bar each.
LEMMA ExperienceKeys ==
  ASSUME NEW c, NEW d, Accepted(c, d),
         NEW i \in DOMAIN c.experiences, NEW j \in DOMAIN c.experiences
  PROVE  LET same == Rules!ExperienceKey(c.experiences[j]) = Rules!ExperienceKey(c.experiences[i])
             item(n) == d.experience.items[n]
             day == Day(item(j).start_date) = Day(item(i).start_date)
         IN  /\ day /\ SameEntry(item(j), item(i), WorkNames) => same
             /\ same => day /\ MayBeTaken(item(j), item(i), WorkNames)
<1> DEFINE item(n) == d.experience.items[n]
           joined(n) == Pieces[Fold(item(n).company)] \o Pieces[Fold(item(n).title)]
           day(n) == Day(item(n).start_date)
<1>1. c.experiences = [n \in DOMAIN Items(d.experience) |-> Experience(d, n)]
  BY FieldsMade DEF Accepted
<1>2. ASSUME NEW n \in DOMAIN c.experiences
      PROVE  /\ item(n).company \in Texts /\ item(n).title \in Texts
             /\ Rules!ExperienceKey(c.experiences[n]) = joined(n) \o <<day(n)>>
  <2>1. n \in DOMAIN Items(d.experience) /\ c.experiences[n] = Experience(d, n)
    BY <1>1
  <2>2. AcceptsExperience(RawExperience(item(n)))
    BY <2>1, EntriesAccepted DEF Accepted
  <2>3. item(n).company \in Texts /\ item(n).title \in Texts
    <3> HIDE DEF item
    <3> QED BY <2>2, NamedExperiences
  <2>4. /\ KeyPart[Clean[Strip[item(n).company]]] = Fold(item(n).company)
        /\ KeyPart[Clean[Strip[item(n).title]]] = Fold(item(n).title)
    BY <2>3, KeysFold
  <2>5. /\ Experience(d, n).company = Clean[Strip[item(n).company]]
        /\ Experience(d, n).title = Clean[Strip[item(n).title]]
        /\ Experience(d, n).start_date = Day(item(n).start_date)
    BY ExperienceFields
  <2> QED BY <2>1, <2>3, <2>4, <2>5 DEF Rules!ExperienceKey
<1>3. ASSUME NEW n \in DOMAIN c.experiences
      PROVE  IsSequence(Pieces[Fold(item(n).company)]) /\ IsSequence(Pieces[Fold(item(n).title)])
  <2> HIDE DEF item
  <2> QED BY <1>2, PiecesOfNames
<1>4. joined(j) \o <<day(j)>> = joined(i) \o <<day(i)>> => joined(j) = joined(i) /\ day(j) = day(i)
  <2> DEFINE company(n) == Pieces[Fold(item(n).company)]
             title(n) == Pieces[Fold(item(n).title)]
  <2>1. /\ IsSequence(company(i)) /\ IsSequence(title(i))
        /\ IsSequence(company(j)) /\ IsSequence(title(j))
    BY <1>3
  <2> HIDE DEF company, title, day
  <2>2. \E T : /\ company(j) \o title(j) \in Seq(T) /\ company(i) \o title(i) \in Seq(T)
              /\ day(j) \in T /\ day(i) \in T
    BY <2>1, InCommon, Zenon
  <2>3. PICK T : joined(j) \in Seq(T) /\ joined(i) \in Seq(T) /\ day(j) \in T /\ day(i) \in T
    BY <2>2 DEF company, title
  <2> HIDE DEF joined
  <2> QED BY <2>3, AppendedAlike
<1>5. /\ SameEntry(item(j), item(i), WorkNames) => joined(j) = joined(i)
      /\ joined(j) = joined(i) => MayBeTaken(item(j), item(i), WorkNames)
  <2>1. /\ item(i)["company"] \in Texts /\ item(i)["title"] \in Texts
        /\ item(j)["company"] \in Texts /\ item(j)["title"] \in Texts
    BY <1>2
  <2> HIDE DEF item
  <2> QED BY <2>1, JoinedNames DEF WorkNames
<1>6. /\ Rules!ExperienceKey(c.experiences[i]) = joined(i) \o <<day(i)>>
      /\ Rules!ExperienceKey(c.experiences[j]) = joined(j) \o <<day(j)>>
  BY <1>2
<1> HIDE DEF joined
<1> QED BY <1>4, <1>5, <1>6

\* The same of two education entries.
LEMMA EducationKeys ==
  ASSUME NEW c, NEW d, Accepted(c, d),
         NEW i \in DOMAIN c.education, NEW j \in DOMAIN c.education
  PROVE  LET same == Rules!EducationKey(c.education[j]) = Rules!EducationKey(c.education[i])
             item(n) == d.education.items[n]
         IN  /\ SameEntry(item(j), item(i), StudyNames) => same
             /\ same => MayBeTaken(item(j), item(i), StudyNames)
<1> DEFINE item(n) == d.education.items[n]
           joined(n) == Pieces[Fold(item(n).institution)] \o Pieces[Fold(item(n).degree)]
<1>1. c.education = [n \in DOMAIN Items(d.education) |-> Study(d, n)]
  BY FieldsMade DEF Accepted
<1>2. ASSUME NEW n \in DOMAIN c.education
      PROVE  /\ item(n).institution \in Texts /\ item(n).degree \in Texts
             /\ Rules!EducationKey(c.education[n]) = joined(n)
  <2>1. n \in DOMAIN Items(d.education) /\ c.education[n] = Study(d, n)
    BY <1>1
  <2>2. AcceptsEducation(item(n))
    BY <2>1, EntriesAccepted DEF Accepted
  <2>3. item(n).institution \in Texts /\ item(n).degree \in Texts
    BY <2>2 DEF AcceptsEducation, RequiredText
  <2>4. /\ KeyPart[Clean[Strip[item(n).institution]]] = Fold(item(n).institution)
        /\ KeyPart[Clean[Strip[item(n).degree]]] = Fold(item(n).degree)
    BY <2>3, KeysFold
  <2>5. /\ Study(d, n).institution = Clean[Strip[item(n).institution]]
        /\ Study(d, n).degree = Clean[Strip[item(n).degree]]
    BY StudyFields
  <2> QED BY <2>1, <2>3, <2>4, <2>5 DEF Rules!EducationKey
<1>3. /\ SameEntry(item(j), item(i), StudyNames) => joined(j) = joined(i)
      /\ joined(j) = joined(i) => MayBeTaken(item(j), item(i), StudyNames)
  <2>1. /\ item(i)["institution"] \in Texts /\ item(i)["degree"] \in Texts
        /\ item(j)["institution"] \in Texts /\ item(j)["degree"] \in Texts
    BY <1>2
  <2> HIDE DEF item
  <2> QED BY <2>1, JoinedNames DEF StudyNames
<1>4. /\ Rules!EducationKey(c.education[i]) = joined(i)
      /\ Rules!EducationKey(c.education[j]) = joined(j)
  BY <1>2
<1> HIDE DEF joined
<1> QED BY <1>3, <1>4

(* The duplicate rules read the normalized candidate, and yet point at each *)
(* entry of the record that repeats an earlier one in other letters or      *)
(* spacing: the stages between lose no repetition.  They make none either,  *)
(* but the keys do, of entries that both have a "|" in a name.              *)
THEOREM DuplicatesAreFlaggedHolds == Spec => []DuplicatesAreFlagged
<1>1. IntakeInv => DuplicatesAreFlagged
  <2> SUFFICES ASSUME IntakeInv, phase = "done" PROVE DuplicatesAreFlagged!2
    BY DEF DuplicatesAreFlagged
  <2> DEFINE jobs == Items(data.experience)
             studies == Items(data.education)
  <2>1. Accepted(candidate, data)
    BY ValidatedIsAccepted
  <2>2. /\ IsSequence(jobs) /\ IsSequence(studies)
        /\ DOMAIN candidate.experiences = DOMAIN jobs
        /\ DOMAIN candidate.education = DOMAIN studies
    <3>1. ScoredFrom(candidate, data)
      BY <2>1 DEF Accepted
    <3>2. /\ candidate.experiences = [i \in DOMAIN jobs |-> Experience(data, i)]
          /\ candidate.education = [i \in DOMAIN studies |-> Study(data, i)]
      BY <3>1, FieldsMade
    <3>3. /\ DOMAIN candidate.experiences = DOMAIN jobs
          /\ DOMAIN candidate.education = DOMAIN studies
      BY <3>2
    <3>4. IsSequence(jobs) /\ IsSequence(studies)
      BY <2>1, EntriesAccepted DEF Accepted
    <3> QED BY <3>3, <3>4
  <2>3. Flagged("duplicate_experience") =
          {i \in DOMAIN jobs : \E j \in 1..(i - 1) :
             Rules!ExperienceKey(candidate.experiences[j])
               = Rules!ExperienceKey(candidate.experiences[i])}
    <3>1. Flagged("duplicate_experience")
            = {p[2] : p \in Rules!duplicate_experience(candidate)}
      BY FlaggedByTheRule, RegistryRules, RulesByName
    <3> QED BY <2>2, <3>1, PositionsOfEntries, Zenon DEF Rules!duplicate_experience
  <2>4. Flagged("duplicate_education") =
          {i \in DOMAIN studies : \E j \in 1..(i - 1) :
             Rules!EducationKey(candidate.education[j])
               = Rules!EducationKey(candidate.education[i])}
    <3>1. Flagged("duplicate_education")
            = {p[2] : p \in Rules!duplicate_education(candidate)}
      BY FlaggedByTheRule, RegistryRules, RulesByName
    <3> QED BY <2>2, <3>1, PositionsOfEntries, Zenon DEF Rules!duplicate_education
  <2>5. ASSUME NEW i \in DOMAIN jobs, NEW j \in 1..(i - 1)
        PROVE  LET same == Rules!ExperienceKey(candidate.experiences[j])
                             = Rules!ExperienceKey(candidate.experiences[i])
               IN  /\ j \in Alongside(jobs, i) /\ SameEntry(jobs[j], jobs[i], WorkNames) => same
                   /\ same => j \in Alongside(jobs, i) /\ MayBeTaken(jobs[j], jobs[i], WorkNames)
    <3>1. j \in DOMAIN candidate.experiences /\ i \in DOMAIN candidate.experiences
      BY <2>2, EarlierPositions
    <3>2. jobs = data.experience.items
      BY DEF Items
    <3> HIDE DEF jobs
    <3> QED BY <2>1, <3>1, <3>2, ExperienceKeys DEF Alongside
  <2>6. ASSUME NEW i \in DOMAIN studies, NEW j \in 1..(i - 1)
        PROVE  LET same == Rules!EducationKey(candidate.education[j])
                             = Rules!EducationKey(candidate.education[i])
               IN  /\ SameEntry(studies[j], studies[i], StudyNames) => same
                   /\ same => MayBeTaken(studies[j], studies[i], StudyNames)
    <3>1. j \in DOMAIN candidate.education /\ i \in DOMAIN candidate.education
      BY <2>2, EarlierPositions
    <3>2. studies = data.education.items
      BY DEF Items
    <3> HIDE DEF studies
    <3> QED BY <2>1, <3>1, <3>2, EducationKeys
  <2> HIDE DEF jobs, studies
  <2>7. /\ {i \in DOMAIN jobs : \E j \in Alongside(jobs, i) : SameEntry(jobs[j], jobs[i], WorkNames)}
             \subseteq Flagged("duplicate_experience")
        /\ Flagged("duplicate_experience") \subseteq
             {i \in DOMAIN jobs : \E j \in Alongside(jobs, i) : MayBeTaken(jobs[j], jobs[i], WorkNames)}
    <3>1. \A i : Alongside(jobs, i) \subseteq 1..(i - 1)
      BY DEF Alongside
    <3> QED BY <2>3, <2>5, <3>1, Zenon
  <2>8. /\ {i \in DOMAIN studies : \E j \in 1..(i - 1) : SameEntry(studies[j], studies[i], StudyNames)}
             \subseteq Flagged("duplicate_education")
        /\ Flagged("duplicate_education") \subseteq
             {i \in DOMAIN studies : \E j \in 1..(i - 1) : MayBeTaken(studies[j], studies[i], StudyNames)}
    BY <2>4, <2>6, Zenon
  <2> QED BY <2>7, <2>8 DEF jobs, studies
<1> QED BY <1>1, InvHolds, PTL

-----------------------------------------------------------------------------
(* What the lists of the candidate keep of the record's. *)

\* A list with an element at each place of a sequence is one of its length.
LEMMA MappedSequence ==
  ASSUME NEW s, IsSequence(s), NEW f, f = [i \in DOMAIN s |-> f[i]]
  PROVE  /\ IsSequence(f) /\ Len(f) = Len(s) /\ Len(s) \in Nat
         /\ DOMAIN s = 1..Len(s) /\ DOMAIN f = 1..Len(s)
<1>1. Len(s) \in Nat /\ DOMAIN s = 1..Len(s)
  BY DEF IsSequence
<1> DEFINE T == {f[i] : i \in DOMAIN f}
<1>2. f \in [1..Len(s) -> T]
  BY <1>1
<1> HIDE DEF T
<1>3. f \in Seq(T) /\ Len(f) = Len(s)
  BY <1>1, <1>2, SeqDef
<1> QED BY <1>1, <1>3 DEF IsSequence, T

\* An element for each kind of key, of the list in which it first occurs.
LEMMA FirstsKept ==
  ASSUME NEW list, IsSequence(list), NEW keys, DOMAIN keys = DOMAIN list,
         NEW positions, positions \subseteq Firsts(keys)
  PROVE  /\ IsSequence(At(list, positions))
         /\ ToSet(At(list, positions)) = {list[i] : i \in positions}
<1> DEFINE T == {list[i] : i \in DOMAIN list}
           some == At(list, positions)
<1>1. list \in Seq(T)
  BY DEF IsSequence
<1>2. positions \subseteq DOMAIN list
  BY DEF Firsts
<1> HIDE DEF T
<1>3. ToSet(some) = {list[i] : i \in positions}
  BY <1>1, <1>2, AtElements
<1>4. some \in Seq(T)
  BY <1>1, AtPicks
<1> HIDE DEF some
<1>5. some = [i \in 1..Len(some) |-> some[i]] /\ Len(some) \in Nat
      /\ some \in Seq(T)
  BY <1>4
<1>6. IsSequence(some)
  <2>1. some \in [1..Len(some) -> {some[i] : i \in DOMAIN some}]
    BY <1>5
  <2> QED BY <1>5, <2>1, SeqDef DEF IsSequence
<1> QED BY <1>3, <1>6 DEF some

\* The stripped texts of a list, blank ones apart.
LEMMA StringsKept ==
  ASSUME NEW items, IsSequence(items)
  PROVE  /\ IsSequence(deduplicate_strings(items))
         /\ ToSet(deduplicate_strings(items)) = {Strip[t] : t \in {u \in ToSet(items) : Strip[u] # ""}}
         /\ items = <<>> => deduplicate_strings(items) = <<>>
<1> DEFINE stripped == [i \in DOMAIN items |-> Strip[items[i]]]
           positions == {i \in Firsts(stripped) : stripped[i] # ""}
           kept == At(stripped, positions)
<1>1. deduplicate_strings(items) = kept
  BY DEF deduplicate_strings
<1>2. /\ DOMAIN stripped = DOMAIN items
      /\ \A i \in DOMAIN items : stripped[i] = Strip[items[i]]
      /\ stripped = [i \in DOMAIN items |-> stripped[i]]
  OBVIOUS
<1>3. /\ \A i \in positions : i \in Firsts(stripped) /\ stripped[i] # ""
      /\ \A i \in Firsts(stripped) : stripped[i] # "" => i \in positions
      /\ positions \subseteq Firsts(stripped)
  OBVIOUS
<1> HIDE DEF stripped, positions
<1>4. /\ IsSequence(stripped) /\ Len(items) \in Nat
      /\ DOMAIN items = 1..Len(items) /\ DOMAIN stripped = 1..Len(items)
  BY <1>2, MappedSequence
<1>5. IsSequence(kept) /\ ToSet(kept) = {stripped[i] : i \in positions}
  BY <1>3, <1>4, FirstsKept
<1>6. ASSUME NEW i \in positions
      PROVE  stripped[i] \in {Strip[t] : t \in {u \in ToSet(items) : Strip[u] # ""}}
  <2>1. i \in DOMAIN items /\ stripped[i] = Strip[items[i]] /\ stripped[i] # ""
    BY <1>2, <1>3 DEF Firsts
  <2>2. items[i] \in {u \in ToSet(items) : Strip[u] # ""}
    BY <2>1 DEF ToSet
  <2> QED BY <2>1, <2>2
<1>7. ASSUME NEW t \in ToSet(items), Strip[t] # ""
      PROVE  \E j \in positions : stripped[j] = Strip[t]
  <2>1. PICK i \in DOMAIN items : items[i] = t
    BY DEF ToSet
  <2>2. PICK j \in Firsts(stripped) : stripped[j] = stripped[i]
    BY <1>4, <2>1, FirstOfKey
  <2> QED BY <1>2, <1>3, <1>7, <2>1, <2>2
<1>8. items = <<>> => kept = <<>>
  <2> SUFFICES ASSUME items = <<>> PROVE kept = <<>>
    OBVIOUS
  <2>1. DOMAIN stripped = {}
    BY <1>2
  <2>2. stripped \in Seq({stripped[i] : i \in DOMAIN stripped})
    BY <1>4 DEF IsSequence
  <2> QED BY <2>1, <2>2, AtOfEmpty
<1> HIDE DEF kept
<1> QED BY <1>1, <1>5, <1>6, <1>7, <1>8

\* Normalized once more, a skill is what it is.
LEMMA SkillsSettle ==
  ASSUME NEW t \in Texts
  PROVE  /\ SkillFold(normalize_skill(t)) = SkillFold(t)
         /\ SkillFold(Strip[t]) = SkillFold(t)
         /\ Strip[t] # "" => /\ SkillFold(t) # Lower[""]
                             /\ normalize_skill(t) # ""
<1>1. /\ Clean[Strip[t]] = Clean[t] /\ Clean[Clean[t]] = Clean[t] /\ Clean[t] \in Texts
      /\ Strip[t] # "" => Lower[Clean[t]] # Lower[""]
  BY CleaningAssumption, CaseAssumption
<1>2. normalize_skill(Strip[t]) = normalize_skill(t)
  BY <1>1 DEF normalize_skill
<1>3. CASE Lower[Clean[t]] \in DOMAIN Aliases
  <2>1. normalize_skill(t) = Aliases[Lower[Clean[t]]]
    BY <1>3 DEF normalize_skill
  <2> DEFINE a == Lower[Clean[t]]
  <2>2. Lower[normalize_skill(Aliases[a])] = Lower[Aliases[a]] /\ Lower[Aliases[a]] # Lower[""]
    BY <1>3, AliasesAssumption
  <2> QED BY <1>2, <2>1, <2>2 DEF SkillFold
<1>4. CASE Lower[Clean[t]] \notin DOMAIN Aliases
  <2>1. normalize_skill(t) = Clean[t] /\ normalize_skill(Clean[t]) = Clean[t]
    BY <1>1, <1>4 DEF normalize_skill
  <2> QED BY <1>1, <1>2, <2>1 DEF SkillFold
<1> QED BY <1>3, <1>4

\* A list of skills none of which is blank.
LEMMA SkillsKept ==
  ASSUME NEW raw, IsSequence(raw), \A i \in DOMAIN raw : raw[i] \in Texts /\ Strip[raw[i]] # ""
  PROVE  /\ {SkillFold(s) : s \in ToSet(normalize_skills(raw))} = {SkillFold(s) : s \in ToSet(raw)}
         /\ raw = <<>> => normalize_skills(raw) = <<>>
<1> DEFINE skills == [i \in DOMAIN raw |-> normalize_skill(raw[i])]
           keys == [i \in DOMAIN raw |-> Lower[skills[i]]]
           positions == {i \in Firsts(keys) : skills[i] # ""}
           kept == At(skills, positions)
<1>1. normalize_skills(raw) = kept
  BY DEF normalize_skills
<1>2. /\ DOMAIN skills = DOMAIN raw /\ DOMAIN keys = DOMAIN raw
      /\ \A i \in DOMAIN raw : skills[i] = normalize_skill(raw[i])
      /\ skills = [i \in DOMAIN raw |-> skills[i]]
  OBVIOUS
<1>3. \A i \in DOMAIN raw : keys[i] = Lower[skills[i]]
  OBVIOUS
<1>4. /\ \A i \in positions : i \in Firsts(keys)
      /\ \A i \in Firsts(keys) : skills[i] # "" => i \in positions
      /\ positions \subseteq Firsts(keys)
  OBVIOUS
<1> HIDE DEF skills, keys, positions
<1>5. /\ IsSequence(skills) /\ Len(raw) \in Nat
      /\ DOMAIN raw = 1..Len(raw) /\ DOMAIN skills = 1..Len(raw)
  BY <1>2, MappedSequence
<1>6. ToSet(kept) = {skills[i] : i \in positions}
  BY <1>2, <1>4, <1>5, FirstsKept
<1>7. \A i \in DOMAIN raw : /\ skills[i] # "" /\ SkillFold(skills[i]) = SkillFold(raw[i])
                            /\ SkillFold(raw[i]) = keys[i]
  BY <1>2, <1>3, SkillsSettle DEF SkillFold
<1>8. ASSUME NEW i \in positions PROVE \E s \in ToSet(raw) : SkillFold(skills[i]) = SkillFold(s)
  <2>1. i \in DOMAIN raw
    BY <1>2, <1>4 DEF Firsts
  <2> QED BY <1>7, <2>1 DEF ToSet
<1>9. ASSUME NEW s \in ToSet(raw) PROVE \E j \in positions : SkillFold(skills[j]) = SkillFold(s)
  <2>1. PICK i \in DOMAIN raw : raw[i] = s
    BY DEF ToSet
  <2>2. DOMAIN keys = 1..Len(raw) /\ i \in 1..Len(raw)
    BY <1>2, <1>5, <2>1
  <2>3. PICK j \in Firsts(keys) : keys[j] = keys[i]
    BY <1>5, <2>2, FirstOfKey
  <2>4. j \in DOMAIN raw
    BY <1>2, <2>3 DEF Firsts
  <2> QED BY <1>4, <1>7, <2>1, <2>3, <2>4
<1>10. raw = <<>> => kept = <<>>
  <2> SUFFICES ASSUME raw = <<>> PROVE kept = <<>>
    OBVIOUS
  <2>1. DOMAIN skills = {}
    BY <1>2
  <2>2. skills \in Seq({skills[i] : i \in DOMAIN skills})
    BY <1>5 DEF IsSequence
  <2> QED BY <2>1, <2>2, AtOfEmpty
<1> HIDE DEF kept
<1>11. {SkillFold(s) : s \in ToSet(kept)} = {SkillFold(s) : s \in ToSet(raw)}
  <2>1. ASSUME NEW s \in ToSet(kept) PROVE SkillFold(s) \in {SkillFold(u) : u \in ToSet(raw)}
    BY <1>6, <1>8
  <2>2. ASSUME NEW s \in ToSet(raw) PROVE SkillFold(s) \in {SkillFold(u) : u \in ToSet(kept)}
    BY <1>6, <1>9
  <2> HIDE DEF SkillFold
  <2> QED BY <2>1, <2>2
<1> QED BY <1>1, <1>10, <1>11

-----------------------------------------------------------------------------
(* What the candidate tells of the record, from the mapping on. *)

ExperiencesStand(c, d) ==
  /\ Len(c.experiences) = Len(Items(d.experience))
  /\ \A i \in DOMAIN c.experiences :
       LET item == d.experience.items[i]
       IN  /\ SameEntry(c.experiences[i], item, {"company", "title"})
           /\ c.experiences[i].start_date = Day(item.start_date)
           /\ c.experiences[i].end_date = Day(item.end_date)

EducationStands(c, d) ==
  /\ Len(c.education) = Len(Items(d.education))
  /\ \A i \in DOMAIN c.education :
       SameEntry(c.education[i], d.education.items[i], {"institution", "degree"})

CertificationsStand(c, d) ==
  {Fold(x.name) : x \in ToSet(c.certifications)}
    = {Fold(item.name) : item \in ToSet(Items(d.certifications))}

CertificationsDiffer(c) ==
  \A i, j \in DOMAIN c.certifications :
    Lower[c.certifications[i].name] = Lower[c.certifications[j].name] => i = j

SkillsStand(c, d) ==
  {SkillFold(s) : s \in ToSet(c.skills)}
    = {SkillFold(s) : s \in {t \in ToSet(Items(d.skills)) : Strip[t] # ""}}

ProvenanceStands(c) ==
  \A f \in {"experiences", "education", "certifications", "skills", "languages"} :
    c[f] # <<>> => f \in c.provenance

Stands(c, d) ==
  /\ ExperiencesStand(c, d) /\ EducationStands(c, d) /\ CertificationsStand(c, d)
  /\ SkillsStand(c, d) /\ ProvenanceStands(c)

\* The lists of a record that passed the schema.
LEMMA ListsOfRecord ==
  ASSUME NEW d, IsARecord(d), SchemaValid(d)
  PROVE  /\ IsSequence(Items(d.skills)) /\ IsSequence(Items(d.languages))
         /\ IsSequence(Items(d.certifications))
         /\ ToSet(Items(d.skills)) \subseteq Texts
         /\ ToSet(Items(d.languages)) \subseteq Texts
<1>1. PICK c \in Contents : c.kind = "json" /\ d = c.record
  BY DEF IsARecord
<1>2. d # Scalar
  BY DEF SchemaValid
<1>3. \A f \in {"certifications", "skills", "languages"} : d[f] # None => IsSequence(d[f].items)
  BY <1>1, <1>2, ContentsAssumption
<1>4. /\ d.skills # None => \A item \in ToSet(d.skills.items) : item \in Texts
      /\ d.languages # None => \A item \in ToSet(d.languages.items) : item \in Texts
  BY DEF SchemaValid, ListFieldsValid, StringLists, ObjectLists
<1>5. IsSequence(<<>>) /\ ToSet(<<>>) = {}
  BY DEF IsSequence, ToSet
<1> QED BY <1>3, <1>4, <1>5 DEF Items

\* Stripped, cleaned or both, a name is the same name.
LEMMA NamesFold ==
  ASSUME NEW t \in Texts
  PROVE  Fold(Strip[t]) = Fold(t) /\ Fold(Clean[Strip[t]]) = Fold(t) /\ Fold(Clean[t]) = Fold(t)
BY CleaningAssumption DEF Fold

\* A certification for every name there is, in the letters of its first one.
LEMMA CertificationsKept ==
  ASSUME NEW d, IsARecord(d), SchemaValid(d), Maps(d)
  PROVE  LET m == Candidate(d)
         IN  /\ IsSequence(m.certifications)
             /\ \A i \in DOMAIN m.certifications : m.certifications[i].name \in Texts
             /\ CertificationsStand(m, d) /\ CertificationsDiffer(m)
             /\ Items(d.certifications) = <<>> => m.certifications = <<>>
<1> DEFINE items == Items(d.certifications)
           list == [i \in DOMAIN items |-> Certification(d.certifications.items[i])]
           keys == [i \in DOMAIN list |-> Lower[list[i].name]]
           kept == At(list, Firsts(keys))
           T == {list[i] : i \in DOMAIN list}
<1>1. Candidate(d).certifications = kept
  BY DEF Candidate, DedupCertifications
<1>2. IsSequence(items)
  BY ListsOfRecord
<1>3. ASSUME NEW i \in DOMAIN items
      PROVE  /\ items[i] \in ToSet(items) /\ items[i].name \in Texts
             /\ list[i].name = Strip[items[i].name] /\ keys[i] = Lower[Strip[items[i].name]]
  <2>1. items[i] \in ToSet(items) /\ items = d.certifications.items
    BY DEF Items, ToSet
  <2>2. AcceptsCertification(items[i])
    BY <2>1 DEF Maps, EntriesMap
  <2>3. items[i].name \in Texts
    BY <2>2 DEF AcceptsCertification, RequiredText
  <2>4. list[i].name = Strip[items[i].name]
    BY <2>1 DEF Certification
  <2> QED BY <2>1, <2>3, <2>4
<1>4. /\ DOMAIN list = DOMAIN items /\ DOMAIN keys = DOMAIN items
      /\ list = [i \in DOMAIN items |-> list[i]]
  OBVIOUS
<1>5. T = {list[i] : i \in DOMAIN list}
  OBVIOUS
<1> HIDE DEF items, list, keys, T
<1>6. /\ IsSequence(list) /\ Len(items) \in Nat
      /\ DOMAIN items = 1..Len(items) /\ DOMAIN list = 1..Len(items)
  BY <1>2, <1>4, MappedSequence
<1>7. IsSequence(kept) /\ ToSet(kept) = {list[i] : i \in Firsts(keys)}
  BY <1>4, <1>6, FirstsKept
<1>8. \A i \in Firsts(keys) : i \in DOMAIN items
  BY <1>4 DEF Firsts
<1>9. ASSUME NEW x \in ToSet(kept)
      PROVE  x.name \in Texts /\ \E item \in ToSet(items) : Fold(x.name) = Fold(item.name)
  <2>1. PICK i \in Firsts(keys) : x = list[i]
    BY <1>7
  <2>2. /\ items[i] \in ToSet(items) /\ items[i].name \in Texts /\ x.name = Strip[items[i].name]
    BY <1>3, <1>8, <2>1
  <2>3. Strip[items[i].name] \in Texts
    BY <2>2, CleaningAssumption
  <2> QED BY <2>2, <2>3, NamesFold
<1>10. ASSUME NEW item \in ToSet(items)
       PROVE  \E x \in ToSet(kept) : Fold(x.name) = Fold(item.name)
  <2>1. PICK i \in DOMAIN items : items[i] = item
    BY DEF ToSet
  <2>2. DOMAIN keys = 1..Len(items) /\ i \in 1..Len(items)
    BY <1>4, <1>6
  <2>3. PICK j \in Firsts(keys) : keys[j] = keys[i]
    BY <1>6, <2>2, FirstOfKey
  <2> DEFINE s == items[i].name
             t == items[j].name
  <2>4. s \in Texts /\ t \in Texts /\ Lower[Strip[s]] = Lower[Strip[t]] /\ list[j].name = Strip[t]
    BY <1>3, <1>8, <2>3
  <2> HIDE DEF s, t
  <2>5. Strip[s] \in Texts /\ Strip[t] \in Texts
    BY <2>4, CleaningAssumption
  <2>6. Fold(Strip[t]) = Fold(Strip[s])
    BY <2>4, <2>5, CaseAssumption DEF Fold
  <2>7. Fold(list[j].name) = Fold(s)
    BY <2>4, <2>6, NamesFold
  <2>8. list[j] \in ToSet(kept) /\ s = item.name
    BY <1>7, <2>1 DEF s
  <2> QED BY <2>7, <2>8
<1>11. CertificationsDiffer(Candidate(d))
  <2>1. list \in Seq(T)
    BY <1>5, <1>6 DEF IsSequence
  <2>2. Firsts(keys) \subseteq Firsts(keys) /\ DOMAIN keys = DOMAIN list
    BY <1>4
  <2>3. PICK from : Picks(kept, list, Firsts(keys), from)
    BY <2>1, AtPicks
  <2>4. ASSUME NEW p \in DOMAIN kept PROVE Lower[kept[p].name] = keys[from[p]]
    <3>1. from[p] \in DOMAIN items /\ kept[p] = list[from[p]]
      BY <1>4, <2>3 DEF Picks
    <3> QED BY <1>3, <3>1
  <2>5. ASSUME NEW p \in DOMAIN kept, NEW q \in DOMAIN kept,
               Lower[kept[p].name] = Lower[kept[q].name]
        PROVE  p = q
    <3>1. keys[from[p]] = keys[from[q]]
      BY <2>4, <2>5
    <3> QED BY <2>1, <2>2, <2>3, <3>1, FirstsDiffer
  <2> HIDE DEF kept
  <2> QED BY <1>1, <2>5 DEF CertificationsDiffer
<1>12. items = <<>> => kept = <<>>
  <2> SUFFICES ASSUME items = <<>> PROVE kept = <<>>
    OBVIOUS
  <2>1. DOMAIN list = {}
    BY <1>4
  <2>2. list \in Seq(T)
    BY <1>5, <1>6 DEF IsSequence
  <2> QED BY <2>1, <2>2, AtOfEmpty
<1> HIDE DEF kept
<1>13. CertificationsStand(Candidate(d), d)
  <2>1. {Fold(x.name) : x \in ToSet(kept)} = {Fold(item.name) : item \in ToSet(items)}
    <3> HIDE DEF Fold
    <3> QED BY <1>9, <1>10
  <2> QED BY <1>1, <2>1 DEF CertificationsStand, items
<1>14. \A i \in DOMAIN kept : kept[i].name \in Texts
  BY <1>9 DEF ToSet
<1> QED BY <1>1, <1>7, <1>11, <1>12, <1>13, <1>14 DEF items

\* What is kept of a certification is a record of the model.
LEMMA CertificationRecords ==
  ASSUME NEW d, IsARecord(d), SchemaValid(d), NEW e \in ToSet(Candidate(d).certifications)
  PROVE  DOMAIN e = {"name", "issuer", "issued_date", "expiry_date"}
<1> DEFINE items == Items(d.certifications)
           list == [i \in DOMAIN items |-> Certification(d.certifications.items[i])]
           keys == [i \in DOMAIN list |-> Lower[list[i].name]]
<1>1. Candidate(d).certifications = At(list, Firsts(keys))
  BY DEF Candidate, DedupCertifications
<1>2. \A i \in DOMAIN items : list[i] = Certification(d.certifications.items[i])
  OBVIOUS
<1>3. /\ DOMAIN list = DOMAIN items /\ DOMAIN keys = DOMAIN items
      /\ list = [i \in DOMAIN items |-> list[i]] /\ IsSequence(items)
  BY ListsOfRecord
<1> HIDE DEF items, list, keys
<1>4. IsSequence(list)
  BY <1>3, MappedSequence
<1>5. e \in {list[i] : i \in Firsts(keys)}
  BY <1>1, <1>3, <1>4, FirstsKept
<1>6. PICK i \in DOMAIN items : e = Certification(d.certifications.items[i])
  BY <1>2, <1>3, <1>5 DEF Firsts
<1> QED BY <1>6 DEF Certification

\* Every skill that is not blank, as the mapper leaves it.
LEMMA SkillsMapped ==
  ASSUME NEW d, IsARecord(d), SchemaValid(d)
  PROVE  LET skills == deduplicate_strings(Items(d.skills))
         IN  /\ IsSequence(skills)
             /\ \A i \in DOMAIN skills : skills[i] \in Texts /\ Strip[skills[i]] # ""
             /\ {SkillFold(s) : s \in ToSet(skills)}
                  = {SkillFold(s) : s \in {t \in ToSet(Items(d.skills)) : Strip[t] # ""}}
<1> DEFINE items == Items(d.skills)
           skills == deduplicate_strings(items)
           full == {t \in ToSet(items) : Strip[t] # ""}
<1>1. IsSequence(items) /\ ToSet(items) \subseteq Texts
  BY ListsOfRecord
<1>2. \A t \in full : t \in Texts /\ Strip[t] # ""
  BY <1>1
<1> HIDE DEF items
<1>3. IsSequence(skills) /\ ToSet(skills) = {Strip[t] : t \in full}
  BY <1>1, StringsKept
<1> HIDE DEF skills, full
<1>4. ASSUME NEW i \in DOMAIN skills PROVE skills[i] \in Texts /\ Strip[skills[i]] # ""
  <2>1. skills[i] \in ToSet(skills)
    BY DEF ToSet
  <2>2. PICK t \in full : skills[i] = Strip[t]
    BY <1>3, <2>1
  <2>3. Strip[t] \in Texts /\ Strip[Strip[t]] = Strip[t] /\ Strip[t] # ""
    BY <1>2, CleaningAssumption
  <2> QED BY <2>2, <2>3
<1>5. \A t \in full : SkillFold(Strip[t]) = SkillFold(t)
  BY <1>2, SkillsSettle
<1>6. {SkillFold(s) : s \in ToSet(skills)} = {SkillFold(s) : s \in full}
  <2> HIDE DEF SkillFold
  <2> QED BY <1>3, <1>5
<1> QED BY <1>3, <1>4, <1>6 DEF skills, items, full

\* The mapper's candidate tells the record.
LEMMA MappedStands ==
  ASSUME NEW d, IsARecord(d), SchemaValid(d), Maps(d)
  PROVE  Stands(Candidate(d), d)
<1> DEFINE m == Candidate(d)
<1>1. /\ m.experiences = [i \in DOMAIN Items(d.experience) |->
                            map_experience(d.experience.items[i])]
      /\ m.education = [i \in DOMAIN Items(d.education) |-> Education(d.education.items[i])]
      /\ m.skills = deduplicate_strings(Items(d.skills))
      /\ m.languages = deduplicate_strings(Items(d.languages))
      /\ m.provenance = Recorded(d)
  BY DEF Candidate
<1> HIDE DEF m
<1>2. ExperiencesStand(m, d)
  <2>1. IsSequence(Items(d.experience))
    BY EntriesAccepted
  <2>2. m.experiences = [i \in DOMAIN Items(d.experience) |-> m.experiences[i]]
    BY <1>1
  <2>3. Len(m.experiences) = Len(Items(d.experience))
    BY <2>1, <2>2, MappedSequence
  <2>4. ASSUME NEW i \in DOMAIN Items(d.experience)
        PROVE  LET item == d.experience.items[i]
               IN  /\ SameEntry(m.experiences[i], item, {"company", "title"})
                   /\ m.experiences[i].start_date = Day(item.start_date)
                   /\ m.experiences[i].end_date = Day(item.end_date)
    <3> DEFINE item == d.experience.items[i]
    <3>1. AcceptsExperience(RawExperience(item))
      BY EntriesAccepted
    <3>2. m.experiences[i] = map_experience(item)
      BY <1>1
    <3> HIDE DEF item
    <3>3. item.company \in Texts /\ item.title \in Texts
      BY <3>1, NamedExperiences
    <3>4. /\ m.experiences[i].company = Strip[item.company]
          /\ m.experiences[i].title = Strip[item.title]
          /\ m.experiences[i].start_date = Day(item.start_date)
          /\ m.experiences[i].end_date = Day(item.end_date)
      BY <3>2 DEF map_experience, WorkExperience, RawExperience
    <3>5. SameEntry(m.experiences[i], item, {"company", "title"})
      <4>1. /\ Fold(m.experiences[i].company) = Fold(item.company)
            /\ Fold(m.experiences[i].title) = Fold(item.title)
        BY <3>3, <3>4, NamesFold
      <4> QED BY <4>1 DEF SameEntry
    <3> QED BY <3>4, <3>5 DEF item
  <2> QED BY <2>2, <2>3, <2>4 DEF ExperiencesStand
<1>3. EducationStands(m, d)
  <2>1. IsSequence(Items(d.education))
    BY EntriesAccepted
  <2>2. m.education = [i \in DOMAIN Items(d.education) |-> m.education[i]]
    BY <1>1
  <2>3. Len(m.education) = Len(Items(d.education))
    BY <2>1, <2>2, MappedSequence
  <2>4. ASSUME NEW i \in DOMAIN Items(d.education)
        PROVE  SameEntry(m.education[i], d.education.items[i], {"institution", "degree"})
    <3> DEFINE item == d.education.items[i]
    <3>1. item.institution \in Texts /\ item.degree \in Texts
      BY EntriesAccepted DEF AcceptsEducation, RequiredText
    <3>2. m.education[i] = Education(item)
      BY <1>1
    <3> HIDE DEF item
    <3>3. /\ m.education[i].institution = Strip[item.institution]
          /\ m.education[i].degree = Strip[item.degree]
      BY <3>2 DEF Education
    <3>4. /\ Fold(m.education[i].institution) = Fold(item.institution)
          /\ Fold(m.education[i].degree) = Fold(item.degree)
      BY <3>1, <3>3, NamesFold
    <3> QED BY <3>4 DEF SameEntry, item
  <2> QED BY <2>2, <2>3, <2>4 DEF EducationStands
<1>4. CertificationsStand(m, d) /\ (Items(d.certifications) = <<>> => m.certifications = <<>>)
  BY CertificationsKept DEF m
<1>5. SkillsStand(m, d)
  BY <1>1, SkillsMapped DEF SkillsStand
<1>6. ProvenanceStands(m)
  <2>1. /\ Items(d.experience) = <<>> => m.experiences = <<>>
        /\ Items(d.education) = <<>> => m.education = <<>>
    BY <1>1
  <2>2. /\ Items(d.skills) = <<>> => m.skills = <<>>
        /\ Items(d.languages) = <<>> => m.languages = <<>>
    BY <1>1, ListsOfRecord, StringsKept
  <2>3. /\ Items(d.experience) # <<>> => "experiences" \in m.provenance
        /\ Items(d.education) # <<>> => "education" \in m.provenance
        /\ Items(d.certifications) # <<>> => "certifications" \in m.provenance
        /\ Items(d.skills) # <<>> => "skills" \in m.provenance
        /\ Items(d.languages) # <<>> => "languages" \in m.provenance
    BY <1>1 DEF Recorded, StringLists, ObjectLists
  <2> QED BY <1>4, <2>1, <2>2, <2>3 DEF ProvenanceStands
<1> QED BY <1>2, <1>3, <1>4, <1>5, <1>6 DEF Stands, m

\* The fields of a normalized candidate that the record is told by.
LEMMA NormalizedFields ==
  ASSUME NEW d
  PROVE  LET m == Candidate(d)
             n == normalize(m)
         IN  /\ n.experiences = [i \in DOMAIN Items(d.experience) |-> Experience(d, i)]
             /\ n.education = [i \in DOMAIN Items(d.education) |-> Study(d, i)]
             /\ n.skills = normalize_skills(m.skills)
             /\ n.languages = [i \in DOMAIN m.languages |-> Clean[m.languages[i]]]
             /\ n.certifications = [i \in DOMAIN m.certifications |->
                                      normalize_certification(m.certifications[i])]
             /\ n.provenance = m.provenance
<1> DEFINE m == Candidate(d)
           n == normalize(m)
<1>1. /\ m.experiences = [i \in DOMAIN Items(d.experience) |->
                            map_experience(d.experience.items[i])]
      /\ m.education = [i \in DOMAIN Items(d.education) |-> Education(d.education.items[i])]
  BY DEF Candidate
<1>2. DOMAIN m = {"id", "first_name", "last_name", "external_id", "contact", "skills",
                  "languages", "experiences", "education", "certifications", "confidence",
                  "provenance", "schema_version"}
  BY DEF Candidate
<1> HIDE DEF m
<1>3. /\ n.experiences = [i \in DOMAIN m.experiences |-> normalize_experience(m.experiences[i])]
      /\ n.education = [i \in DOMAIN m.education |-> normalize_education(m.education[i])]
      /\ n.skills = normalize_skills(m.skills)
      /\ n.languages = [i \in DOMAIN m.languages |-> Clean[m.languages[i]]]
      /\ n.certifications = [i \in DOMAIN m.certifications |->
                               normalize_certification(m.certifications[i])]
      /\ n.provenance = m.provenance
  BY <1>2 DEF normalize
<1> HIDE DEF n
<1>4. n.experiences = [i \in DOMAIN Items(d.experience) |-> Experience(d, i)]
  BY <1>1, <1>3 DEF Experience
<1>5. n.education = [i \in DOMAIN Items(d.education) |-> Study(d, i)]
  BY <1>1, <1>3 DEF Study
<1> QED BY <1>3, <1>4, <1>5 DEF n, m

\* The normalized candidate still tells the record.
LEMMA NormalizedStands ==
  ASSUME NEW d, IsARecord(d), SchemaValid(d), Maps(d)
  PROVE  Stands(normalize(Candidate(d)), d)
<1> DEFINE m == Candidate(d)
           n == normalize(m)
<1>1. /\ n.experiences = [i \in DOMAIN Items(d.experience) |-> Experience(d, i)]
      /\ n.education = [i \in DOMAIN Items(d.education) |-> Study(d, i)]
      /\ n.skills = normalize_skills(m.skills)
      /\ n.languages = [i \in DOMAIN m.languages |-> Clean[m.languages[i]]]
      /\ n.certifications = [i \in DOMAIN m.certifications |->
                               normalize_certification(m.certifications[i])]
      /\ n.provenance = m.provenance
  BY NormalizedFields
<1>2. m.skills = deduplicate_strings(Items(d.skills))
  BY DEF Candidate
<1>3. Stands(m, d)
  BY MappedStands
<1> HIDE DEF n, m
<1>4. ExperiencesStand(n, d)
  <2>1. IsSequence(Items(d.experience))
    BY EntriesAccepted
  <2>2. n.experiences = [i \in DOMAIN Items(d.experience) |-> n.experiences[i]]
    BY <1>1
  <2>3. Len(n.experiences) = Len(Items(d.experience))
    BY <2>1, <2>2, MappedSequence
  <2>4. ASSUME NEW i \in DOMAIN Items(d.experience)
        PROVE  LET item == d.experience.items[i]
               IN  /\ SameEntry(n.experiences[i], item, {"company", "title"})
                   /\ n.experiences[i].start_date = Day(item.start_date)
                   /\ n.experiences[i].end_date = Day(item.end_date)
    <3> DEFINE item == d.experience.items[i]
    <3>1. AcceptsExperience(RawExperience(item))
      BY EntriesAccepted
    <3>2. /\ n.experiences[i].company = Clean[Strip[item.company]]
          /\ n.experiences[i].title = Clean[Strip[item.title]]
          /\ n.experiences[i].start_date = Day(item.start_date)
          /\ n.experiences[i].end_date = Day(item.end_date)
      BY <1>1, ExperienceFields
    <3> HIDE DEF item
    <3>3. item.company \in Texts /\ item.title \in Texts
      BY <3>1, NamedExperiences
    <3>4. /\ Fold(n.experiences[i].company) = Fold(item.company)
          /\ Fold(n.experiences[i].title) = Fold(item.title)
      BY <3>2, <3>3, NamesFold
    <3>5. SameEntry(n.experiences[i], item, {"company", "title"})
      BY <3>4 DEF SameEntry
    <3> QED BY <3>2, <3>5 DEF item
  <2> QED BY <2>2, <2>3, <2>4 DEF ExperiencesStand
<1>5. EducationStands(n, d)
  <2>1. IsSequence(Items(d.education))
    BY EntriesAccepted
  <2>2. n.education = [i \in DOMAIN Items(d.education) |-> n.education[i]]
    BY <1>1
  <2>3. Len(n.education) = Len(Items(d.education))
    BY <2>1, <2>2, MappedSequence
  <2>4. ASSUME NEW i \in DOMAIN Items(d.education)
        PROVE  SameEntry(n.education[i], d.education.items[i], {"institution", "degree"})
    <3> DEFINE item == d.education.items[i]
    <3>1. item.institution \in Texts /\ item.degree \in Texts
      BY EntriesAccepted DEF AcceptsEducation, RequiredText
    <3>2. /\ n.education[i].institution = Clean[Strip[item.institution]]
          /\ n.education[i].degree = Clean[Strip[item.degree]]
      BY <1>1, StudyFields
    <3> HIDE DEF item
    <3>3. /\ Fold(n.education[i].institution) = Fold(item.institution)
          /\ Fold(n.education[i].degree) = Fold(item.degree)
      BY <3>1, <3>2, NamesFold
    <3> QED BY <3>3 DEF SameEntry, item
  <2> QED BY <2>2, <2>3, <2>4 DEF EducationStands
<1>6. CertificationsStand(n, d)
  <2>1. \A i \in DOMAIN m.certifications : m.certifications[i].name \in Texts
    BY CertificationsKept DEF m
  <2>2. ASSUME NEW i \in DOMAIN m.certifications
        PROVE  Fold(n.certifications[i].name) = Fold(m.certifications[i].name)
    <3> DEFINE e == m.certifications[i]
    <3>1. n.certifications[i] = normalize_certification(e)
      BY <1>1
    <3>2. DOMAIN e = {"name", "issuer", "issued_date", "expiry_date"}
      <4>1. e \in ToSet(m.certifications)
        BY DEF ToSet
      <4> QED BY <4>1, CertificationRecords DEF m
    <3> HIDE DEF e
    <3>3. n.certifications[i].name = Clean[e.name]
      BY <3>1, <3>2 DEF normalize_certification
    <3>4. e.name \in Texts
      BY <2>1 DEF e
    <3> QED BY <3>3, <3>4, NamesFold DEF e
  <2>3. DOMAIN n.certifications = DOMAIN m.certifications
    BY <1>1
  <2>4. {Fold(x.name) : x \in ToSet(n.certifications)}
          = {Fold(x.name) : x \in ToSet(m.certifications)}
    <3> HIDE DEF Fold
    <3> QED BY <2>2, <2>3 DEF ToSet
  <2> QED BY <1>3, <2>4 DEF Stands, CertificationsStand
<1>7. SkillsStand(n, d)
  <2>1. /\ IsSequence(m.skills)
        /\ \A i \in DOMAIN m.skills : m.skills[i] \in Texts /\ Strip[m.skills[i]] # ""
    BY <1>2, SkillsMapped
  <2>2. {SkillFold(s) : s \in ToSet(n.skills)} = {SkillFold(s) : s \in ToSet(m.skills)}
    BY <1>1, <2>1, SkillsKept
  <2> QED BY <1>3, <2>2 DEF Stands, SkillsStand
<1>8. ProvenanceStands(n)
  <2>1. /\ m.languages = <<>> => n.languages = <<>>
        /\ m.certifications = <<>> => n.certifications = <<>>
    BY <1>1
  <2>2. /\ m.experiences = <<>> => n.experiences = <<>>
        /\ m.education = <<>> => n.education = <<>>
    <3>1. /\ m.experiences = [i \in DOMAIN Items(d.experience) |->
                                map_experience(d.experience.items[i])]
          /\ m.education = [i \in DOMAIN Items(d.education) |->
                              Education(d.education.items[i])]
      BY DEF Candidate, m
    <3>2. /\ DOMAIN m.experiences = DOMAIN Items(d.experience)
          /\ DOMAIN m.education = DOMAIN Items(d.education)
      BY <3>1
    <3>3. DOMAIN <<>> = {}
      OBVIOUS
    <3> QED BY <1>1, <3>2, <3>3
  <2>3. m.skills = <<>> => n.skills = <<>>
    <3>1. /\ IsSequence(m.skills)
          /\ \A i \in DOMAIN m.skills : m.skills[i] \in Texts /\ Strip[m.skills[i]] # ""
      BY <1>2, SkillsMapped
    <3> QED BY <1>1, <3>1, SkillsKept
  <2> QED BY <1>1, <1>3, <2>1, <2>2, <2>3 DEF Stands, ProvenanceStands
<1> QED BY <1>4, <1>5, <1>6, <1>7, <1>8 DEF Stands, n, m

\* The scores leave what tells the record alone.
LEMMA ScoredStands ==
  ASSUME NEW d, IsARecord(d), SchemaValid(d), Maps(d), NEW c, ScoredFrom(c, d)
  PROVE  Stands(c, d)
<1> DEFINE n == normalize(Candidate(d))
<1>1. PICK k \in Confidences : c = WithScores(n, k)
  BY DEF ScoredFrom
<1>2. Stands(n, d)
  BY NormalizedStands
<1>3. {"experiences", "education", "certifications", "skills", "languages", "provenance",
       "confidence"} \subseteq DOMAIN n
  BY DEF normalize, Candidate
<1> HIDE DEF n
<1>4. /\ c.experiences = n.experiences /\ c.education = n.education
      /\ c.certifications = n.certifications /\ c.skills = n.skills
      /\ c.languages = n.languages /\ c.provenance = n.provenance
  BY <1>1, <1>3 DEF WithScores
<1>5. ExperiencesStand(c, d) /\ EducationStands(c, d)
  BY <1>2, <1>4 DEF Stands, ExperiencesStand, EducationStands
<1>6. CertificationsStand(c, d) /\ SkillsStand(c, d)
  BY <1>2, <1>4 DEF Stands, CertificationsStand, SkillsStand
<1>7. ProvenanceStands(c)
  BY <1>2, <1>4 DEF Stands, ProvenanceStands
<1> QED BY <1>5, <1>6, <1>7 DEF Stands

(* All or nothing: a candidate has every entry of its record at its place   *)
(* with its own dates, every certification, every skill, and provenance for *)
(* each list that is not empty; from the mapping to the end.                *)
THEOREM NothingSkippedHolds == Spec => []NothingSkipped
<1>1. IntakeInv => NothingSkipped
  <2> SUFFICES ASSUME IntakeInv, candidate # None PROVE NothingSkipped
    BY DEF NothingSkipped
  <2>1. phase \in WithCandidate /\ IsARecord(data) /\ SchemaValid(data) /\ Maps(data)
    BY DEF IntakeInv, CandidateMade, DataRead, DataChecked
  <2>2. Stands(candidate, data)
    <3>1. CASE phase = "normalize"
      BY <2>1, <3>1, MappedStands DEF IntakeInv, CandidateMade
    <3>2. CASE phase = "score"
      BY <2>1, <3>2, NormalizedStands DEF IntakeInv, CandidateMade
    <3>3. CASE phase \in {"validate", "done"}
      BY <2>1, <3>3, ScoredStands DEF IntakeInv, CandidateMade
    <3> QED BY <2>1, <3>1, <3>2, <3>3 DEF WithCandidate
  <2>3. phase = "normalize" => CertificationsDiffer(candidate)
    BY <2>1, CertificationsKept DEF IntakeInv, CandidateMade
  <2> QED BY <2>2, <2>3
          DEF NothingSkipped, Stands, ExperiencesStand, EducationStands, CertificationsStand,
              CertificationsDiffer, SkillsStand, ProvenanceStands
<1> QED BY <1>1, InvHolds, PTL

-----------------------------------------------------------------------------
(* What is normalized stays as it is. *)

\* A text that is cleaned once is clean.
LEMMA CleanedStays ==
  ASSUME NEW v, v = None \/ v \in Texts
  PROVE  Cleaned(Cleaned(v)) = Cleaned(v)
<1>1. v \in Texts => Clean[Clean[v]] = Clean[v]
  BY CleaningAssumption
<1> QED BY <1>1 DEF Cleaned

\* What str.strip leaves of an optional text is one.
LEMMA StrippedIsText ==
  ASSUME NEW v, OptionalText(v)
  PROVE  Stripped(v) = None \/ Stripped(v) \in Texts
<1>1. v \in Texts => Strip[v] \in Texts
  BY CleaningAssumption
<1> QED BY <1>1 DEF OptionalText, RequiredText, Stripped

\* A canonical skill is found under its own name.
LEMMA SkillStays ==
  ASSUME NEW t \in Texts
  PROVE  normalize_skill(normalize_skill(t)) = normalize_skill(t)
<1>1. CASE Lower[Clean[t]] \in DOMAIN Aliases
  <2>1. normalize_skill(t) = Aliases[Lower[Clean[t]]]
    BY <1>1 DEF normalize_skill
  <2> QED BY <1>1, <2>1, FixedPointsAssumption
<1>2. CASE Lower[Clean[t]] \notin DOMAIN Aliases
  <2>1. normalize_skill(t) = Clean[t] /\ Clean[Clean[t]] = Clean[t]
    BY <1>2, CleaningAssumption DEF normalize_skill
  <2> QED BY <1>2, <2>1 DEF normalize_skill
<1> QED BY <1>1, <1>2

\* A list of skills has lost all its repetitions the first time, those that
\* only the aliases bring out among them.
LEMMA SkillsStay ==
  ASSUME NEW raw, IsSequence(raw), ToSet(raw) \subseteq Texts
  PROVE  normalize_skills(normalize_skills(raw)) = normalize_skills(raw)
<1> DEFINE skills == [i \in DOMAIN raw |-> normalize_skill(raw[i])]
           keys == [i \in DOMAIN raw |-> Lower[skills[i]]]
           positions == {i \in Firsts(keys) : skills[i] # ""}
           T == {skills[i] : i \in DOMAIN skills}
           kept == At(skills, positions)
           again == [p \in DOMAIN kept |-> normalize_skill(kept[p])]
           names == [p \in DOMAIN kept |-> Lower[again[p]]]
           full == {p \in Firsts(names) : again[p] # ""}
<1>1. normalize_skills(raw) = kept
  BY DEF normalize_skills
<1>2. normalize_skills(kept) = At(again, full)
  BY DEF normalize_skills
<1>3. /\ DOMAIN skills = DOMAIN raw /\ DOMAIN keys = DOMAIN raw
      /\ \A i \in DOMAIN raw : skills[i] = normalize_skill(raw[i])
      /\ skills = [i \in DOMAIN raw |-> skills[i]]
  OBVIOUS
<1>4. \A i \in DOMAIN raw : keys[i] = Lower[skills[i]]
  OBVIOUS
<1>5. /\ positions \subseteq Firsts(keys)
      /\ \A i \in positions : skills[i] # ""
  OBVIOUS
<1>6. \A i \in DOMAIN raw : raw[i] \in Texts
  BY DEF ToSet
<1>7. T = {skills[i] : i \in DOMAIN skills}
  OBVIOUS
<1> HIDE DEF skills, keys, positions, T
<1>8. IsSequence(skills)
  BY <1>3, MappedSequence
<1>9. skills \in Seq(T)
  BY <1>7, <1>8 DEF IsSequence
<1>10. kept \in Seq(T) /\ \E f : Picks(kept, skills, positions, f)
  BY <1>9, AtPicks
<1>11. PICK from : Picks(kept, skills, positions, from)
  BY <1>10
<1>12. ASSUME NEW p \in DOMAIN kept
       PROVE  /\ from[p] \in DOMAIN raw /\ kept[p] = skills[from[p]]
              /\ normalize_skill(kept[p]) = kept[p] /\ kept[p] # ""
              /\ Lower[kept[p]] = keys[from[p]]
  <2>1. from[p] \in DOMAIN raw /\ from[p] \in positions /\ kept[p] = skills[from[p]]
    BY <1>3, <1>11 DEF Picks
  <2>2. normalize_skill(kept[p]) = kept[p]
    BY <1>3, <1>6, <2>1, SkillStays
  <2> QED BY <1>4, <1>5, <2>1, <2>2
<1>13. \A p, q \in DOMAIN kept : Lower[kept[p]] = Lower[kept[q]] => p = q
  <2> SUFFICES ASSUME NEW p \in DOMAIN kept, NEW q \in DOMAIN kept,
                      Lower[kept[p]] = Lower[kept[q]]
               PROVE  p = q
    OBVIOUS
  <2>1. keys[from[p]] = keys[from[q]]
    BY <1>12
  <2>2. DOMAIN keys = DOMAIN skills /\ positions \subseteq Firsts(keys)
    BY <1>3, <1>5
  <2> HIDE DEF again, names, full
  <2> QED BY <1>9, <1>11, <2>1, <2>2, FirstsDiffer
<1> HIDE DEF kept
<1>14. again = kept
  <2>1. again = [p \in DOMAIN kept |-> kept[p]]
    BY <1>12
  <2>2. kept = [p \in DOMAIN kept |-> kept[p]]
    BY <1>10
  <2> QED BY <2>1, <2>2
<1>15. DOMAIN kept \subseteq full
  <2> SUFFICES ASSUME NEW p \in DOMAIN kept PROVE p \in full
    OBVIOUS
  <2>1. DOMAIN kept = 1..Len(kept) /\ Len(kept) \in Nat
    BY <1>10
  <2>2. DOMAIN names = DOMAIN kept /\ \A q \in DOMAIN kept : names[q] = Lower[kept[q]]
    BY <1>14
  <2> HIDE DEF again, names
  <2>3. ASSUME NEW q \in 1..(p - 1) PROVE names[q] # names[p]
    <3>1. q \in DOMAIN kept /\ q # p
      BY <2>1
    <3> QED BY <1>13, <2>2, <3>1
  <2>4. p \in Firsts(names)
    BY <2>2, <2>3 DEF Firsts
  <2> QED BY <1>12, <1>14, <2>4
<1>16. At(again, full) = kept
  <2> HIDE DEF again, full
  <2> QED BY <1>10, <1>14, <1>15, AtWhole
<1> HIDE DEF again, full
<1> QED BY <1>1, <1>2, <1>16

\* An entry none of whose fields a normalizer changes is not changed.
LEMMA Unchanged ==
  ASSUME NEW e, e = [f \in DOMAIN e |-> e[f]]
  PROVE  /\ /\ Clean[e.company] = e.company /\ Clean[e.title] = e.title
            /\ Cleaned(e.description) = e.description /\ normalize_skills(e.skills) = e.skills
            => normalize_experience(e) = e
         /\ /\ Clean[e.institution] = e.institution /\ Clean[e.degree] = e.degree
            /\ Cleaned(e.field_of_study) = e.field_of_study
            => normalize_education(e) = e
         /\ Clean[e.name] = e.name /\ Cleaned(e.issuer) = e.issuer
            => normalize_certification(e) = e
<1>1. /\ Clean[e.company] = e.company /\ Clean[e.title] = e.title
      /\ Cleaned(e.description) = e.description /\ normalize_skills(e.skills) = e.skills
      => normalize_experience(e) = e
  BY DEF normalize_experience
<1>2. /\ Clean[e.institution] = e.institution /\ Clean[e.degree] = e.degree
      /\ Cleaned(e.field_of_study) = e.field_of_study
      => normalize_education(e) = e
  BY DEF normalize_education
<1>3. Clean[e.name] = e.name /\ Cleaned(e.issuer) = e.issuer => normalize_certification(e) = e
  BY DEF normalize_certification
<1> QED BY <1>1, <1>2, <1>3

\* Of a contact the address, the number and the place are settled.
LEMMA ContactStays ==
  ASSUME NEW contact, AcceptsContact(contact)
  PROVE  normalize_contact(normalize_contact(ContactInfo(contact)))
           = normalize_contact(ContactInfo(contact))
<1> DEFINE c == ContactInfo(contact)
           n == normalize_contact(c)
<1> SUFFICES normalize_contact(n) = n
  OBVIOUS
<1>1. /\ c["email"] = None \/ \E t \in DOMAIN Mailbox : c["email"] = Mailbox[t]
      /\ c["phone"] = Stripped(contact["phone"]) /\ c["location"] = Stripped(contact["location"])
  BY DEF AcceptsContact, ContactInfo, ContactFields, Normalised
<1>2. /\ c["phone"] = None \/ c["phone"] \in Texts
      /\ c["location"] = None \/ c["location"] \in Texts
  BY <1>1, StrippedIsText DEF AcceptsContact
<1>3. c = [f \in ContactFields |-> c[f]]
  BY DEF ContactInfo
<1> HIDE DEF c
<1>4. CASE c = None
  BY <1>4 DEF normalize_contact
<1>5. CASE c # None
  <2> DEFINE lowered(x) == IF x = None THEN None ELSE Lower[x]
             dialled(x) == IF x = None THEN None ELSE Phone[x]
  <2>1. /\ lowered(lowered(c["email"])) = lowered(c["email"])
        /\ dialled(dialled(c["phone"])) = dialled(c["phone"])
        /\ Cleaned(Cleaned(c["location"])) = Cleaned(c["location"])
    BY <1>1, <1>2, CleanedStays, FixedPointsAssumption
  <2>2. /\ n = [f \in ContactFields |-> n[f]]
        /\ n["email"] = lowered(c["email"]) /\ n["phone"] = dialled(c["phone"])
        /\ n["location"] = Cleaned(c["location"])
    BY <1>3, <1>5 DEF normalize_contact, ContactFields
  <2> HIDE DEF n
  <2>3. /\ lowered(n["email"]) = n["email"] /\ dialled(n["phone"]) = n["phone"]
        /\ Cleaned(n["location"]) = n["location"]
    <3> HIDE DEF lowered, dialled
    <3> QED BY <2>1, <2>2
  <2>4. normalize_contact(n) = n
    BY <2>2, <2>3 DEF normalize_contact, ContactFields
  <2> QED BY <2>4
<1> QED BY <1>4, <1>5

\* A job that is normalized is.
LEMMA ExperienceStays ==
  ASSUME NEW item, AcceptsExperience(RawExperience(item)),
         "skills" \in DOMAIN item, IsSequence(Items(item.skills))
  PROVE  LET n == normalize_experience(map_experience(item))
         IN  normalize_experience(n) = n
<1> DEFINE raw == RawExperience(item)
           e == WorkExperience(raw)
           n == normalize_experience(e)
<1>1. raw.skills = Items(item.skills)
  BY DEF RawExperience
<1>2. /\ raw.company \in Texts /\ raw.title \in Texts /\ OptionalText(raw.description)
      /\ ToSet(raw.skills) \subseteq Texts
  BY DEF AcceptsExperience, RequiredText
<1> HIDE DEF raw
<1>3. /\ Strip[raw.company] \in Texts /\ Strip[raw.title] \in Texts
      /\ Clean[Clean[Strip[raw.company]]] = Clean[Strip[raw.company]]
      /\ Clean[Clean[Strip[raw.title]]] = Clean[Strip[raw.title]]
      /\ \A t \in Texts : Strip[t] \in Texts
  BY <1>2, CleaningAssumption
<1>4. Cleaned(Cleaned(Stripped(raw.description))) = Cleaned(Stripped(raw.description))
  BY <1>2, StrippedIsText, CleanedStays
<1> DEFINE skills == deduplicate_strings(raw.skills)
<1>5. normalize_skills(normalize_skills(skills)) = normalize_skills(skills)
  <2>1. /\ IsSequence(skills)
        /\ ToSet(skills) = {Strip[t] : t \in {u \in ToSet(raw.skills) : Strip[u] # ""}}
    BY <1>1, StringsKept
  <2> HIDE DEF skills
  <2>2. ToSet(skills) \subseteq Texts
    BY <1>2, <1>3, <2>1
  <2> QED BY <2>1, <2>2, SkillsStay
<1>6. /\ n = [f \in DOMAIN n |-> n[f]]
      /\ n.company = Clean[Strip[raw.company]] /\ n.title = Clean[Strip[raw.title]]
      /\ n.description = Cleaned(Stripped(raw.description))
      /\ n.skills = normalize_skills(skills)
  BY DEF normalize_experience, WorkExperience
<1> HIDE DEF n, e, skills
<1>7. normalize_experience(n) = n
  BY <1>3, <1>4, <1>5, <1>6, Unchanged
<1> QED BY <1>7 DEF n, e, raw, map_experience

\* So is an education entry,
LEMMA EducationStays ==
  ASSUME NEW item, AcceptsEducation(item)
  PROVE  LET n == normalize_education(Education(item)) IN normalize_education(n) = n
<1> DEFINE n == normalize_education(Education(item))
<1>1. /\ item.institution \in Texts /\ item.degree \in Texts
      /\ OptionalText(item.field_of_study)
  BY DEF AcceptsEducation, RequiredText
<1>2. /\ Clean[Clean[Strip[item.institution]]] = Clean[Strip[item.institution]]
      /\ Clean[Clean[Strip[item.degree]]] = Clean[Strip[item.degree]]
  BY <1>1, CleaningAssumption
<1>3. Cleaned(Cleaned(Stripped(item.field_of_study))) = Cleaned(Stripped(item.field_of_study))
  BY <1>1, StrippedIsText, CleanedStays
<1>4. /\ n = [f \in DOMAIN n |-> n[f]]
      /\ n.institution = Clean[Strip[item.institution]] /\ n.degree = Clean[Strip[item.degree]]
      /\ n.field_of_study = Cleaned(Stripped(item.field_of_study))
  BY DEF normalize_education, Education
<1> HIDE DEF n
<1>5. normalize_education(n) = n
  BY <1>2, <1>3, <1>4, Unchanged
<1> QED BY <1>5 DEF n

\* and a certification.
LEMMA CertificationStays ==
  ASSUME NEW item, AcceptsCertification(item)
  PROVE  LET n == normalize_certification(Certification(item))
         IN  normalize_certification(n) = n
<1> DEFINE n == normalize_certification(Certification(item))
<1>1. item.name \in Texts /\ OptionalText(item.issuer)
  BY DEF AcceptsCertification, RequiredText
<1>2. Clean[Clean[Strip[item.name]]] = Clean[Strip[item.name]]
  BY <1>1, CleaningAssumption
<1>3. Cleaned(Cleaned(Stripped(item.issuer))) = Cleaned(Stripped(item.issuer))
  BY <1>1, StrippedIsText, CleanedStays
<1>4. /\ n = [f \in DOMAIN n |-> n[f]]
      /\ n.name = Clean[Strip[item.name]] /\ n.issuer = Cleaned(Stripped(item.issuer))
  BY DEF normalize_certification, Certification
<1> HIDE DEF n
<1>5. normalize_certification(n) = n
  BY <1>2, <1>3, <1>4, Unchanged
<1> QED BY <1>5 DEF n

\* The fields of a candidate that the normalizers touch are settled.
Settled(c) ==
  /\ TitleCase[Clean[c.first_name]] = c.first_name
  /\ TitleCase[Clean[c.last_name]] = c.last_name
  /\ normalize_skills(c.skills) = c.skills
  /\ c.languages = [i \in DOMAIN c.languages |-> Clean[c.languages[i]]]
  /\ normalize_contact(c.contact) = c.contact
  /\ c.experiences = [i \in DOMAIN c.experiences |-> normalize_experience(c.experiences[i])]
  /\ c.education = [i \in DOMAIN c.education |-> normalize_education(c.education[i])]
  /\ c.certifications = [i \in DOMAIN c.certifications |->
                           normalize_certification(c.certifications[i])]

\* Normalizing changes nothing else.
LEMMA SettledIsNormal ==
  ASSUME NEW c, c = [f \in DOMAIN c |-> c[f]], Settled(c)
  PROVE  normalize(c) = c
BY DEF normalize, Settled

\* The names of a record that is mapped are texts.
LEMMA NamesSettle ==
  ASSUME NEW d, SchemaValid(d)
  PROVE  LET first == TitleCase[Clean[Strip[d.first_name]]]
             last == TitleCase[Clean[Strip[d.last_name]]]
         IN  TitleCase[Clean[first]] = first /\ TitleCase[Clean[last]] = last
<1>1. d.first_name \in Texts /\ d.last_name \in Texts
  BY DEF SchemaValid, RequiredStringsValid, RequiredText
<1>2. Strip[d.first_name] \in Texts /\ Strip[d.last_name] \in Texts
  BY <1>1, CleaningAssumption
<1> QED BY <1>2, FixedPointsAssumption

\* The skills of a job are a list, of whatever.
LEMMA ExperienceSkills ==
  ASSUME NEW d, IsARecord(d), SchemaValid(d), NEW i \in DOMAIN Items(d.experience)
  PROVE  LET item == d.experience.items[i]
         IN  "skills" \in DOMAIN item /\ IsSequence(Items(item.skills))
<1>1. PICK c \in Contents : c.kind = "json" /\ d = c.record
  BY DEF IsARecord
<1>2. d # Scalar
  BY DEF SchemaValid
<1>3. d.experience # None /\ Items(d.experience) = d.experience.items
  BY DEF Items
<1>4. d.experience.items[i] \in ToSet(d.experience.items)
  BY <1>3 DEF ToSet
<1>5. d.experience.items[i] # Scalar
  BY <1>3, <1>4 DEF SchemaValid, ListFieldsValid, StringLists, ObjectLists
<1> QED BY <1>1, <1>2, <1>3, <1>4, <1>5, ContentsAssumption

\* Each certification that is kept is one of the record that the model accepts.
LEMMA KeptCertifications ==
  ASSUME NEW d, IsARecord(d), SchemaValid(d), Maps(d),
         NEW e \in ToSet(Candidate(d).certifications)
  PROVE  \E j \in DOMAIN Items(d.certifications) :
           /\ e = Certification(d.certifications.items[j])
           /\ AcceptsCertification(d.certifications.items[j])
<1> DEFINE items == Items(d.certifications)
           list == [i \in DOMAIN items |-> Certification(d.certifications.items[i])]
           keys == [i \in DOMAIN list |-> Lower[list[i].name]]
<1>1. Candidate(d).certifications = At(list, Firsts(keys))
  BY DEF Candidate, DedupCertifications
<1>2. \A i \in DOMAIN items : list[i] = Certification(d.certifications.items[i])
  OBVIOUS
<1>3. /\ DOMAIN list = DOMAIN items /\ DOMAIN keys = DOMAIN items
      /\ list = [i \in DOMAIN items |-> list[i]] /\ IsSequence(items)
  BY ListsOfRecord
<1>4. ASSUME NEW j \in DOMAIN items PROVE AcceptsCertification(d.certifications.items[j])
  <2>1. items = d.certifications.items
    BY DEF Items
  <2>2. d.certifications.items[j] \in ToSet(items)
    BY <2>1 DEF ToSet
  <2> QED BY <2>2 DEF Maps, EntriesMap
<1> HIDE DEF items, list, keys
<1>5. IsSequence(list)
  BY <1>3, MappedSequence
<1>6. PICK j \in Firsts(keys) : e = list[j]
  BY <1>1, <1>3, <1>5, FirstsKept
<1>7. j \in DOMAIN items
  BY <1>3, <1>6 DEF Firsts
<1> QED BY <1>2, <1>4, <1>6, <1>7 DEF items

\* Once through the normalizers, every field is.
LEMMA NormalizedIsSettled ==
  ASSUME NEW d, IsARecord(d), SchemaValid(d), Maps(d)
  PROVE  Settled(normalize(Candidate(d)))
<1> DEFINE m == Candidate(d)
           n == normalize(m)
<1>1. /\ m.first_name = Strip[d.first_name] /\ m.last_name = Strip[d.last_name]
      /\ m.contact = map_contact(d)
      /\ m.skills = deduplicate_strings(Items(d.skills))
      /\ m.languages = deduplicate_strings(Items(d.languages))
      /\ m.experiences = [i \in DOMAIN Items(d.experience) |->
                            map_experience(d.experience.items[i])]
      /\ m.education = [i \in DOMAIN Items(d.education) |-> Education(d.education.items[i])]
      /\ m.certifications = DedupCertifications([i \in DOMAIN Items(d.certifications) |->
                              Certification(d.certifications.items[i])])
  BY DEF Candidate
<1>2. DOMAIN m = {"id", "first_name", "last_name", "external_id", "contact", "skills",
                  "languages", "experiences", "education", "certifications", "confidence",
                  "provenance", "schema_version"}
  BY DEF Candidate
<1> HIDE DEF m
<1>3. /\ n.first_name = TitleCase[Clean[m.first_name]]
      /\ n.last_name = TitleCase[Clean[m.last_name]]
      /\ n.contact = normalize_contact(m.contact)
      /\ n.skills = normalize_skills(m.skills)
      /\ n.languages = [i \in DOMAIN m.languages |-> Clean[m.languages[i]]]
      /\ n.experiences = [i \in DOMAIN m.experiences |-> normalize_experience(m.experiences[i])]
      /\ n.education = [i \in DOMAIN m.education |-> normalize_education(m.education[i])]
      /\ n.certifications = [i \in DOMAIN m.certifications |->
                               normalize_certification(m.certifications[i])]
  BY <1>2 DEF normalize
<1> HIDE DEF n
<1>4. /\ TitleCase[Clean[n.first_name]] = n.first_name
      /\ TitleCase[Clean[n.last_name]] = n.last_name
  <2>1. /\ n.first_name = TitleCase[Clean[Strip[d.first_name]]]
        /\ n.last_name = TitleCase[Clean[Strip[d.last_name]]]
    BY <1>1, <1>3
  <2>2. /\ TitleCase[Clean[TitleCase[Clean[Strip[d.first_name]]]]]
             = TitleCase[Clean[Strip[d.first_name]]]
        /\ TitleCase[Clean[TitleCase[Clean[Strip[d.last_name]]]]]
             = TitleCase[Clean[Strip[d.last_name]]]
    BY NamesSettle
  <2> QED BY <2>1, <2>2
<1>5. normalize_contact(n.contact) = n.contact
  <2>1. CASE map_contact(d) = None
    BY <1>1, <1>3, <2>1 DEF normalize_contact
  <2>2. CASE map_contact(d) # None
    <3>1. map_contact(d) = ContactInfo(Contact(d)) /\ AcceptsContact(Contact(d))
      BY <2>2 DEF map_contact, Maps, MapsContact
    <3> QED BY <1>1, <1>3, <3>1, ContactStays
  <2> QED BY <2>1, <2>2
<1>6. normalize_skills(n.skills) = n.skills
  <2>1. /\ IsSequence(m.skills)
        /\ \A i \in DOMAIN m.skills : m.skills[i] \in Texts
    BY <1>1, SkillsMapped
  <2>2. ToSet(m.skills) \subseteq Texts
    BY <2>1 DEF ToSet
  <2> QED BY <1>3, <2>1, <2>2, SkillsStay
<1>7. n.languages = [i \in DOMAIN n.languages |-> Clean[n.languages[i]]]
  <2>1. IsSequence(Items(d.languages)) /\ ToSet(Items(d.languages)) \subseteq Texts
    BY ListsOfRecord
  <2>2. ToSet(m.languages) = {Strip[t] : t \in {u \in ToSet(Items(d.languages)) : Strip[u] # ""}}
    BY <1>1, <2>1, StringsKept
  <2>3. ASSUME NEW i \in DOMAIN m.languages
        PROVE  Clean[Clean[m.languages[i]]] = Clean[m.languages[i]]
    <3>1. m.languages[i] \in ToSet(m.languages)
      BY DEF ToSet
    <3>2. PICK t \in Texts : m.languages[i] = Strip[t]
      BY <2>1, <2>2, <3>1
    <3> QED BY <3>2, CleaningAssumption
  <2> QED BY <1>3, <2>3
<1>8. n.experiences = [i \in DOMAIN n.experiences |-> normalize_experience(n.experiences[i])]
  <2>1. ASSUME NEW i \in DOMAIN Items(d.experience)
        PROVE  LET e == normalize_experience(map_experience(d.experience.items[i]))
               IN  normalize_experience(e) = e
    BY EntriesAccepted, ExperienceSkills, ExperienceStays
  <2>2. ASSUME NEW i \in DOMAIN m.experiences
        PROVE  normalize_experience(normalize_experience(m.experiences[i]))
                 = normalize_experience(m.experiences[i])
    BY <1>1, <2>1
  <2> QED BY <1>3, <2>2
<1>9. n.education = [i \in DOMAIN n.education |-> normalize_education(n.education[i])]
  <2>1. ASSUME NEW i \in DOMAIN m.education
        PROVE  normalize_education(normalize_education(m.education[i]))
                 = normalize_education(m.education[i])
    BY <1>1, EntriesAccepted, EducationStays
  <2> QED BY <1>3, <2>1
<1>10. n.certifications = [i \in DOMAIN n.certifications |->
                             normalize_certification(n.certifications[i])]
  <2>1. ASSUME NEW i \in DOMAIN m.certifications
        PROVE  normalize_certification(normalize_certification(m.certifications[i]))
                 = normalize_certification(m.certifications[i])
    <3>1. m.certifications[i] \in ToSet(m.certifications)
      BY DEF ToSet
    <3>2. PICK j \in DOMAIN Items(d.certifications) :
            /\ m.certifications[i] = Certification(d.certifications.items[j])
            /\ AcceptsCertification(d.certifications.items[j])
      BY <3>1, KeptCertifications DEF m
    <3> QED BY <3>2, CertificationStays
  <2> QED BY <1>3, <2>1
<1> QED BY <1>4, <1>5, <1>6, <1>7, <1>8, <1>9, <1>10 DEF Settled, n, m

\* What is added of the scores touches none of that.
LEMMA ScoredIsSettled ==
  ASSUME NEW d, IsARecord(d), SchemaValid(d), Maps(d), NEW c, ScoredFrom(c, d)
  PROVE  Settled(c) /\ c = [f \in DOMAIN c |-> c[f]]
<1> DEFINE n == normalize(Candidate(d))
<1>1. PICK k \in Confidences : c = WithScores(n, k)
  BY DEF ScoredFrom
<1>2. Settled(n)
  BY NormalizedIsSettled
<1>3. {"first_name", "last_name", "contact", "experiences", "education", "certifications",
       "skills", "languages", "confidence"} \subseteq DOMAIN n
  BY DEF normalize, Candidate
<1> HIDE DEF n
<1>4. /\ c.first_name = n.first_name /\ c.last_name = n.last_name /\ c.contact = n.contact
      /\ c.experiences = n.experiences /\ c.education = n.education
      /\ c.certifications = n.certifications /\ c.skills = n.skills
      /\ c.languages = n.languages
  BY <1>1, <1>3 DEF WithScores
<1>5. Settled(c)
  BY <1>2, <1>4 DEF Settled
<1>6. c = [f \in DOMAIN c |-> c[f]]
  BY <1>1 DEF WithScores
<1> QED BY <1>5, <1>6

(* The normalizers settle at once: for every record and every score, and    *)
(* any tables of the string functions, the numbers and the aliases that     *)
(* settle each text, a candidate that is normalized is what normalizing it  *)
(* again makes of it; the lists of skills too, with the repetitions that    *)
(* only the aliases bring out.                                              *)
THEOREM NormalizationIsIdempotentHolds == Spec => []NormalizationIsIdempotent
<1>1. IntakeInv => NormalizationIsIdempotent
  <2> SUFFICES ASSUME IntakeInv, phase \in {"score", "validate", "done"}
               PROVE  normalize(candidate) = candidate
    BY DEF NormalizationIsIdempotent
  <2>1. IsARecord(data) /\ SchemaValid(data) /\ Maps(data)
    BY DEF IntakeInv, DataRead, DataChecked, WithCandidate
  <2>2. Settled(candidate) /\ candidate = [f \in DOMAIN candidate |-> candidate[f]]
    <3>1. CASE phase = "score"
      <4>1. candidate = normalize(Candidate(data))
        BY <3>1 DEF IntakeInv, CandidateMade
      <4>2. candidate = [f \in DOMAIN candidate |-> candidate[f]]
        BY <4>1 DEF normalize
      <4> QED BY <2>1, <4>1, <4>2, NormalizedIsSettled
    <3>2. CASE phase \in {"validate", "done"}
      <4>1. ScoredFrom(candidate, data)
        BY <3>2 DEF IntakeInv, CandidateMade
      <4> QED BY <2>1, <4>1, ScoredIsSettled
    <3> QED BY <3>1, <3>2
  <2> QED BY <2>2, SettledIsNormal
<1> QED BY <1>1, InvHolds, PTL

=============================================================================
