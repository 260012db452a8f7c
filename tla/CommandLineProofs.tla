-------------------------- MODULE CommandLineProofs --------------------------
(***************************************************************************)
(* Proofs about CommandLine, for every set of documents, paths and files.  *)
(* An invocation runs one of five stage sequences, and what is left of the *)
(* sequence tells what the PipelineState already holds: that is the        *)
(* inductive invariant.  It shows that no stage misses what it requires,   *)
(* whatever happens to the files, and that all that is reported after the  *)
(* scoring speaks of the same candidate.                                   *)
(***************************************************************************)
EXTENDS CommandLine, FiniteSetTheorems, TLAPS

(* What may be left of the sequence of an invocation. *)
ToProject == <<"projection">>
ToValidate == <<"validation">>
ToReport == <<"validation", "projection">>
ToScore == <<"confidence", "validation", "projection">>
SingleToNormalize == <<"normalization", "confidence", "validation", "projection">>
SingleATS ==
  <<"ats_parser", "normalization", "confidence", "validation", "projection">>
SingleResume ==
  <<"resume_parser", "normalization", "confidence", "validation", "projection">>
ToMerge == <<"merge">>
ToMergeOn == <<"merge", "confidence", "validation", "projection">>
BothToNormalize == <<"normalization", "merge">>
BothToNormalizeOn == <<"normalization", "merge", "confidence", "validation", "projection">>
SecondToParse == <<"resume_parser", "normalization", "merge">>
SecondToParseOn ==
  <<"resume_parser", "normalization", "merge", "confidence", "validation", "projection">>
BothToParse == <<"ats_parser", "resume_parser", "normalization", "merge">>
BothToParseOn ==
  <<"ats_parser", "resume_parser", "normalization", "merge",
    "confidence", "validation", "projection">>

OfSource(candidate, source) == candidate # None /\ SourcesOf(candidate) = {source}
FromATS == OfSource(st.ats, ATS)
FromResume == OfSource(st.resume, RESUME)

Speaking == {"confidence", "validation", "projection"}
Unscored == st.projection = None /\ DOMAIN st.reports \cap Speaking = {}
Unmade == st.merged = None /\ st.metadata = None /\ Unscored

Sourced ==
  \/ st.metadata = SourcesOf(st.merged)
  \/ st.metadata = None /\ st.resume = None /\ st.ats # None /\ SourcesOf(st.merged) = {ATS}
  \/ st.metadata = None /\ st.ats = None /\ st.resume # None /\ SourcesOf(st.merged) = {RESUME}

Agreed ==
  /\ \A s \in DOMAIN st.reports \cap Speaking : st.reports[s].of = st.merged
  /\ st.projection # None => st.projection.of = st.merged
  /\ "confidence" \in DOMAIN st.reports =>
       st.reports["confidence"].metadata = SourcesOf(st.merged)

Supplied ==
  \/ stages = SingleATS /\ st = EmptyState /\ request.ats # None
  \/ stages = SingleResume /\ st = EmptyState /\ request.resume # None
  \/ /\ stages \in {BothToParse, BothToParseOn} /\ st = EmptyState
     /\ request.ats # None /\ request.resume # None
  \/ /\ stages \in {SecondToParse, SecondToParseOn} /\ Unmade
     /\ FromATS /\ st.resume = None /\ request.resume # None
  \/ /\ stages = SingleToNormalize /\ Unmade
     /\ \/ FromATS /\ st.resume = None
        \/ FromResume /\ st.ats = None
  \/ /\ stages \in {BothToNormalize, BothToNormalizeOn, ToMerge, ToMergeOn} /\ Unmade
     /\ FromATS /\ FromResume
  \/ stages = ToScore /\ st.merged # None /\ Unscored /\ Sourced
  \/ stages \in {ToReport, ToValidate, ToProject, <<>>} /\ st.merged # None /\ Agreed

CommandInv ==
  /\ raised # "RuntimeError"
  /\ IF command = None THEN st = EmptyState /\ stages = <<>> /\ raised = None ELSE Supplied

Plans ==
  {ToProject, ToValidate, ToReport, ToScore, SingleToNormalize, SingleATS, SingleResume,
   ToMerge, ToMergeOn, BothToNormalize, BothToNormalizeOn, SecondToParse,
   SecondToParseOn, BothToParse, BothToParseOn}

StateTyped ==
  /\ DOMAIN st.reports \subseteq StageNames
  /\ st \in PipelineStates(DOMAIN st.reports)
  /\ raised \in Exceptions \cup {None}

-----------------------------------------------------------------------------
(* The stage each plan runs next, and the plan it leaves. *)
LEMMA NextOfPlan ==
  /\ Head(ToProject) = "projection" /\ Tail(ToProject) = <<>>
  /\ Head(ToValidate) = "validation" /\ Tail(ToValidate) = <<>>
  /\ Head(ToReport) = "validation" /\ Tail(ToReport) = ToProject
  /\ Head(ToScore) = "confidence" /\ Tail(ToScore) = ToReport
  /\ Head(SingleToNormalize) = "normalization" /\ Tail(SingleToNormalize) = ToScore
  /\ Head(SingleATS) = "ats_parser" /\ Tail(SingleATS) = SingleToNormalize
  /\ Head(SingleResume) = "resume_parser" /\ Tail(SingleResume) = SingleToNormalize
  /\ Head(ToMerge) = "merge" /\ Tail(ToMerge) = <<>>
  /\ Head(ToMergeOn) = "merge" /\ Tail(ToMergeOn) = ToScore
  /\ Head(BothToNormalize) = "normalization" /\ Tail(BothToNormalize) = ToMerge
  /\ Head(BothToNormalizeOn) = "normalization" /\ Tail(BothToNormalizeOn) = ToMergeOn
  /\ Head(SecondToParse) = "resume_parser" /\ Tail(SecondToParse) = BothToNormalize
  /\ Head(SecondToParseOn) = "resume_parser" /\ Tail(SecondToParseOn) = BothToNormalizeOn
  /\ Head(BothToParse) = "ats_parser" /\ Tail(BothToParse) = SecondToParse
  /\ Head(BothToParseOn) = "ats_parser" /\ Tail(BothToParseOn) = SecondToParseOn
BY DEF ToProject, ToValidate, ToReport, ToScore, SingleToNormalize, SingleATS,
       SingleResume, ToMerge, ToMergeOn, BothToNormalize, BothToNormalizeOn,
       SecondToParse, SecondToParseOn, BothToParse, BothToParseOn

(* What a candidate is made of, and what normalizing does to it. *)
LEMMA NormalizedTyped ==
  ASSUME NEW c \in Candidates \cup {None}
  PROVE  /\ Normalized(c) \in Candidates \cup {None}
         /\ Normalized(c) = None <=> c = None
         /\ c # None => SourcesOf(Normalized(c)) = SourcesOf(c)
<1>1. CASE c = None
  BY <1>1 DEF Normalized
<1>2. CASE c # None
  <2>1. c \in Candidates /\ None \notin Candidates
    BY <1>2, NoneIsDistinct DEF NoneAssumption
  <2>2. Normalized(c) = [c EXCEPT !.normalized = IF c.normalized = 2 THEN 2
                                                 ELSE c.normalized + 1]
    BY <1>2 DEF Normalized
  <2>3. Normalized(c) \in Candidates /\ Normalized(c).docs = c.docs
    BY <2>1, <2>2 DEF Candidates
  <2> QED
    BY <1>2, <2>1, <2>3 DEF SourcesOf
<1> QED
  BY <1>1, <1>2

(* A parsed candidate is of the source of its document. *)
LEMMA ParsedTyped ==
  ASSUME NEW d \in Documents
  PROVE  /\ Candidate({d}) \in Candidates
         /\ Candidate({d}) # None
         /\ SourcesOf(Candidate({d})) = {SourceOf[d]}
<1>1. Candidate({d}) \in Candidates /\ Candidate({d}).docs = {d}
  BY DEF Candidate, Candidates
<1> QED
  BY <1>1, NoneIsDistinct DEF NoneAssumption, SourcesOf

(* The golden record of two candidates is of both their sources. *)
LEMMA GoldenTyped ==
  ASSUME NEW a \in Candidates, NEW b \in Candidates
  PROVE  /\ Golden({a, b}) \in Candidates
         /\ Golden({a, b}) # None
         /\ SourcesOf(Golden({a, b})) = SourcesOf(a) \cup SourcesOf(b)
<1> DEFINE docs == UNION {c.docs : c \in {a, b}}
           Least(n) == \A c \in {a, b} : n <= c.normalized
           numbers == {c.normalized : c \in {a, b}}
<1>1. docs = a.docs \cup b.docs /\ docs \in SUBSET Documents
  BY DEF Candidates
<1>2. (CHOOSE n \in numbers : Least(n)) \in 0..2
  <2>1. a.normalized \in 0..2 /\ b.normalized \in 0..2
    BY DEF Candidates
  <2>2. \E n \in numbers : Least(n)
    <3>1. CASE a.normalized <= b.normalized
      BY <2>1, <3>1
    <3>2. CASE b.normalized <= a.normalized
      BY <2>1, <3>2
    <3> QED
      BY <2>1, <3>1, <3>2
  <2>3. (CHOOSE n \in numbers : Least(n)) \in numbers
    BY <2>2
  <2> QED
    BY <2>1, <2>3
<1>3. /\ Golden({a, b}) \in Candidates
      /\ Golden({a, b}).docs = docs
  BY <1>1, <1>2 DEF Golden, Candidates
<1> QED
  BY <1>1, <1>3, NoneIsDistinct DEF NoneAssumption, SourcesOf
-----------------------------------------------------------------------------
(* What a completed stage leaves. *)
LEMMA Completed ==
  ASSUME StateTyped, NEW stage \in StageNames, NEW report \in Reports, NEW warned,
         NEW state \in PipelineStates(DOMAIN st.reports), state.reports = st.reports,
         Complete(stage, state, report, warned)
  PROVE  /\ StateTyped'
         /\ DOMAIN st'.reports = DOMAIN st.reports \cup {stage}
         /\ st'.reports[stage] = report
         /\ \A s \in DOMAIN st.reports \ {stage} : st'.reports[s] = st.reports[s]
         /\ st'.ats = state.ats /\ st'.resume = state.resume
         /\ st'.merged = state.merged /\ st'.metadata = state.metadata
         /\ st'.projection = state.projection
         /\ stages' = Tail(stages)
         /\ UNCHANGED <<files, request, raised>>
<1> DEFINE filed == Filed(state.reports, stage, report)
<1>1. /\ filed \in [DOMAIN st.reports \cup {stage} -> Reports]
      /\ DOMAIN filed = DOMAIN st.reports \cup {stage}
      /\ filed[stage] = report
      /\ \A s \in DOMAIN st.reports \ {stage} : filed[s] = st.reports[s]
  <2>1. st.reports \in [DOMAIN st.reports -> Reports]
    BY DEF StateTyped, PipelineStates
  <2> QED
    BY <2>1 DEF Filed
<1>2. PICK warnings \in Seq(StageNames) :
         st' = [state EXCEPT !.reports = filed, !.warnings = warnings]
  <2>1. state.warnings \in Seq(StageNames)
    BY DEF PipelineStates
  <2>2. Append(state.warnings, stage) \in Seq(StageNames)
    BY <2>1
  <2>3. st' = [state EXCEPT !.reports = filed,
                            !.warnings = IF warned THEN Append(state.warnings, stage)
                                         ELSE state.warnings]
    BY DEF Complete
  <2>4. CASE warned
    BY <2>2, <2>3, <2>4
  <2>5. CASE ~warned
    BY <2>1, <2>3, <2>5
  <2> QED
    BY <2>4, <2>5
<1> HIDE DEF filed
<1>3. /\ st'.reports = filed
      /\ st'.ats = state.ats /\ st'.resume = state.resume
      /\ st'.merged = state.merged /\ st'.metadata = state.metadata
      /\ st'.projection = state.projection
      /\ st' \in PipelineStates(DOMAIN st.reports \cup {stage})
  BY <1>1, <1>2 DEF PipelineStates
<1>4. /\ stages' = Tail(stages)
      /\ UNCHANGED <<files, request, raised>>
  BY DEF Complete
<1>5. StateTyped'
  BY <1>1, <1>3, <1>4 DEF StateTyped
<1> QED
  BY <1>1, <1>3, <1>4, <1>5

(* A stage that raises leaves the state to the error handler. *)
LEMMA Raised ==
  ASSUME StateTyped, Supplied, NEW exception \in Exceptions \ {"RuntimeError"},
         Raise(exception)
  PROVE  StateTyped' /\ Supplied' /\ raised' # "RuntimeError"
BY DEF Raise, StateTyped, Supplied, Unmade, Unscored, FromATS, FromResume, OfSource,
       SourcesOf, Sourced, Agreed

(* The head of what is left says which of the cases of Supplied the state is in. *)
LEMMA Parsing ==
  ASSUME Supplied, NEW stage, Running(stage)
  PROVE  /\ stage = "ats_parser" =>
              \/ stages = SingleATS /\ st = EmptyState /\ request.ats # None
              \/ /\ stages \in {BothToParse, BothToParseOn} /\ st = EmptyState
                 /\ request.ats # None /\ request.resume # None
         /\ stage = "resume_parser" =>
              \/ stages = SingleResume /\ st = EmptyState /\ request.resume # None
              \/ /\ stages \in {SecondToParse, SecondToParseOn} /\ Unmade
                 /\ FromATS /\ st.resume = None /\ request.resume # None
         /\ stage = "normalization" =>
              \/ /\ stages = SingleToNormalize /\ Unmade
                 /\ \/ FromATS /\ st.resume = None
                    \/ FromResume /\ st.ats = None
              \/ /\ stages \in {BothToNormalize, BothToNormalizeOn} /\ Unmade
                 /\ FromATS /\ FromResume
         /\ stage = "merge" =>
              stages \in {ToMerge, ToMergeOn} /\ Unmade /\ FromATS /\ FromResume
         /\ stage = "confidence" =>
              stages = ToScore /\ st.merged # None /\ Unscored /\ Sourced
         /\ stage = "validation" =>
              stages \in {ToReport, ToValidate} /\ st.merged # None /\ Agreed
         /\ stage = "projection" =>
              stages = ToProject /\ st.merged # None /\ Agreed
BY NextOfPlan DEF Supplied, Running
StageKeeps == StateTyped' /\ Supplied' /\ raised' # "RuntimeError"

(* A readable file holds a document of the parser's source. *)
LEMMA ReadableTyped ==
  ASSUME files \in [Paths -> FileContents], NEW path \in Paths, NEW source,
         Readable(path, source)
  PROVE  files[path].doc \in Documents /\ SourceOf[files[path].doc] = source
<1>1. files[path] \in FileContents /\ files[path].kind = "document"
  BY DEF Readable
<1>2. files[path] \in [kind : {"document"}, doc : Documents]
  BY <1>1 DEF FileContents, NoFile, Garbage
<1> QED
  BY <1>2 DEF Readable

LEMMA ParseATSKeeps ==
  ASSUME TypeOK, StateTyped, Supplied, raised = None, ParseATS
  PROVE  StageKeeps
<1> DEFINE candidate == Candidate({files[request.ats].doc})
           state == [st EXCEPT !.ats = candidate]
           report == [source |-> ATS]
<1>1. /\ st = EmptyState /\ request.ats # None
      /\ \/ stages = SingleATS
         \/ stages \in {BothToParse, BothToParseOn} /\ request.resume # None
  BY Parsing DEF ParseATS
<1>2. CASE ~Readable(request.ats, ATS)
  <2>1. Raise("ParserError")
    BY <1>1, <1>2 DEF ParseATS
  <2> QED
    BY <2>1, Raised DEF Exceptions, StageKeeps
<1>3. CASE Readable(request.ats, ATS)
  <2>1. Complete("ats_parser", state, report, FALSE)
    BY <1>1, <1>3 DEF ParseATS
  <2>2. request.ats \in Paths
    BY <1>1 DEF TypeOK, Requests
  <2>3. /\ files[request.ats].doc \in Documents
        /\ SourceOf[files[request.ats].doc] = ATS
    BY <1>3, <2>2, ReadableTyped DEF TypeOK
  <2>4. /\ candidate \in Candidates /\ candidate # None
        /\ SourcesOf(candidate) = {ATS}
    BY <2>3, ParsedTyped
  <2>5. state \in PipelineStates(DOMAIN st.reports) /\ state.reports = st.reports
        /\ state.ats = candidate /\ state.resume = st.resume
        /\ state.merged = st.merged /\ state.metadata = st.metadata
        /\ state.projection = st.projection
    BY <2>4 DEF StateTyped, PipelineStates
  <2>6. report \in Reports /\ "ats_parser" \in StageNames
    BY DEF Reports, Sources, StageNames
  <2> HIDE DEF state, report, candidate
  <2>7. /\ StateTyped'
        /\ DOMAIN st'.reports = DOMAIN st.reports \cup {"ats_parser"}
        /\ st'.ats = state.ats /\ st'.resume = state.resume
        /\ st'.merged = state.merged /\ st'.metadata = state.metadata
        /\ st'.projection = state.projection
        /\ stages' = Tail(stages) /\ request' = request /\ raised' = raised
    BY <2>1, <2>5, <2>6, Completed
  <2>8. FromATS' /\ st'.resume = None /\ Unmade'
    BY <1>1, <2>4, <2>5, <2>7
    DEF FromATS, OfSource, SourcesOf, Unmade, Unscored, Speaking, EmptyState
  <2>9. \/ stages' = SingleToNormalize
        \/ stages' \in {SecondToParse, SecondToParseOn} /\ request'.resume # None
    BY <1>1, <2>7, NextOfPlan
  <2> QED
    BY <2>7, <2>8, <2>9, NoneIsDistinct DEF StageKeeps, Supplied, NoneAssumption, Exceptions
<1> QED
  BY <1>2, <1>3

LEMMA ParseResumeKeeps ==
  ASSUME TypeOK, StateTyped, Supplied, raised = None, ParseResume
  PROVE  StageKeeps
<1> DEFINE candidate == Candidate({files[request.resume].doc})
           state == [st EXCEPT !.resume = candidate]
           report == [source |-> RESUME]
<1>1. /\ request.resume # None
      /\ \/ stages = SingleResume /\ st = EmptyState
         \/ /\ stages \in {SecondToParse, SecondToParseOn}
            /\ Unmade /\ FromATS /\ st.resume = None
  BY Parsing DEF ParseResume
<1>4. Unmade /\ (stages = SingleResume => st.ats = None)
  BY <1>1, NextOfPlan DEF Unmade, Unscored, EmptyState, SingleResume, SecondToParse, SecondToParseOn
<1>2. CASE ~Readable(request.resume, RESUME)
  <2>1. Raise("ParserError")
    BY <1>1, <1>2 DEF ParseResume
  <2> QED
    BY <2>1, Raised DEF Exceptions, StageKeeps
<1>3. CASE Readable(request.resume, RESUME)
  <2>1. Complete("resume_parser", state, report, FALSE)
    BY <1>1, <1>3 DEF ParseResume
  <2>2. request.resume \in Paths
    BY <1>1 DEF TypeOK, Requests
  <2>3. /\ files[request.resume].doc \in Documents
        /\ SourceOf[files[request.resume].doc] = RESUME
    BY <1>3, <2>2, ReadableTyped DEF TypeOK
  <2>4. /\ candidate \in Candidates /\ candidate # None
        /\ SourcesOf(candidate) = {RESUME}
    BY <2>3, ParsedTyped
  <2>5. state \in PipelineStates(DOMAIN st.reports) /\ state.reports = st.reports
        /\ state.ats = st.ats /\ state.resume = candidate
        /\ state.merged = st.merged /\ state.metadata = st.metadata
        /\ state.projection = st.projection
    BY <2>4 DEF StateTyped, PipelineStates
  <2>6. report \in Reports /\ "resume_parser" \in StageNames
    BY DEF Reports, Sources, StageNames
  <2> HIDE DEF state, report, candidate
  <2>7. /\ StateTyped'
        /\ DOMAIN st'.reports = DOMAIN st.reports \cup {"resume_parser"}
        /\ st'.ats = state.ats /\ st'.resume = state.resume
        /\ st'.merged = state.merged /\ st'.metadata = state.metadata
        /\ st'.projection = state.projection
        /\ stages' = Tail(stages) /\ request' = request /\ raised' = raised
    BY <2>1, <2>5, <2>6, Completed
  <2>8. /\ st'.resume = candidate /\ st'.ats = st.ats /\ st'.merged = None
        /\ st'.metadata = None /\ Unscored'
    BY <1>4, <2>5, <2>7 DEF Unmade, Unscored, Speaking
  <2>9. FromResume' /\ Unmade'
    BY <2>4, <2>8 DEF FromResume, OfSource, SourcesOf, Unmade
  <2>10. CASE stages = SingleResume
    <3>1. stages' = SingleToNormalize /\ st'.ats = None
      BY <1>4, <2>7, <2>8, <2>10, NextOfPlan
    <3> QED
      BY <2>7, <2>9, <3>1, NoneIsDistinct DEF StageKeeps, Supplied, NoneAssumption, Exceptions
  <2>11. CASE stages \in {SecondToParse, SecondToParseOn} /\ FromATS
    <3>1. stages' \in {BothToNormalize, BothToNormalizeOn} /\ FromATS'
      BY <2>7, <2>8, <2>11, NextOfPlan DEF FromATS, OfSource, SourcesOf
    <3> QED
      BY <2>7, <2>9, <3>1, NoneIsDistinct DEF StageKeeps, Supplied, NoneAssumption, Exceptions
  <2> QED
    BY <1>1, <2>10, <2>11
<1> QED
  BY <1>2, <1>3

LEMMA NormalizeKeeps ==
  ASSUME TypeOK, StateTyped, Supplied, raised = None, Normalize
  PROVE  StageKeeps
<1> DEFINE parsed == Present({st.ats, st.resume})
           current == IF st.ats # None THEN st.ats ELSE st.resume
           made == IF Cardinality(parsed) = 1 THEN Normalized(current) ELSE st.merged
           state == [st EXCEPT !.ats = Normalized(st.ats), !.resume = Normalized(st.resume),
                               !.merged = made]
           report == [sources |-> UNION {SourcesOf(c) : c \in parsed}]
<1>1. /\ Unmade
      /\ \/ /\ stages = SingleToNormalize
            /\ \/ FromATS /\ st.resume = None
               \/ FromResume /\ st.ats = None
         \/ /\ stages \in {BothToNormalize, BothToNormalizeOn}
            /\ FromATS /\ FromResume
  <2>1. Running("normalization")
    BY DEF Normalize
  <2> QED
    BY <2>1, Parsing
<1>2. /\ st.ats \in Candidates \cup {None} /\ st.resume \in Candidates \cup {None}
      /\ st.merged = None
  BY <1>1 DEF StateTyped, PipelineStates, Unmade
<1>3. parsed # {} /\ parsed \subseteq Candidates
  BY <1>1, <1>2 DEF Present, FromATS, FromResume, OfSource
<1>4. Complete("normalization", state, report, FALSE)
  BY <1>3 DEF Normalize
<1>5. report \in Reports /\ "normalization" \in StageNames
  <2>1. \A c \in parsed : SourcesOf(c) \subseteq Sources
    BY <1>3, InputsAreTyped DEF ConstantsAssumption, SourcesOf, Candidates
  <2> QED
    BY <2>1 DEF Reports, StageNames
<1>6. /\ Normalized(st.ats) \in Candidates \cup {None}
      /\ Normalized(st.resume) \in Candidates \cup {None}
      /\ Normalized(st.ats) = None <=> st.ats = None
      /\ Normalized(st.resume) = None <=> st.resume = None
      /\ st.ats # None => SourcesOf(Normalized(st.ats)) = SourcesOf(st.ats)
      /\ st.resume # None => SourcesOf(Normalized(st.resume)) = SourcesOf(st.resume)
  BY <1>2, NormalizedTyped
<1>7. made \in Candidates \cup {None}
  BY <1>2, <1>6
<1>8. /\ state \in PipelineStates(DOMAIN st.reports) /\ state.reports = st.reports
      /\ state.ats = Normalized(st.ats) /\ state.resume = Normalized(st.resume)
      /\ state.merged = made /\ state.metadata = st.metadata
      /\ state.projection = st.projection
  <2> HIDE DEF made
  <2> QED
    BY <1>6, <1>7 DEF StateTyped, PipelineStates
<1> HIDE DEF state, report, made
<1>9. /\ StateTyped'
      /\ DOMAIN st'.reports = DOMAIN st.reports \cup {"normalization"}
      /\ st'.ats = state.ats /\ st'.resume = state.resume
      /\ st'.merged = state.merged /\ st'.metadata = state.metadata
      /\ st'.projection = state.projection
      /\ stages' = Tail(stages) /\ request' = request /\ raised' = raised
  BY <1>4, <1>5, <1>8, Completed
<1>10. Unscored' /\ st'.metadata = None
  BY <1>1, <1>8, <1>9 DEF Unmade, Unscored, Speaking
<1>11. raised' # "RuntimeError"
  BY <1>9, NoneIsDistinct DEF NoneAssumption, Exceptions
<1>12. CASE /\ stages = SingleToNormalize
            /\ \/ FromATS /\ st.resume = None
               \/ FromResume /\ st.ats = None
  <2>1. parsed = {current} /\ current # None
    BY <1>12 DEF Present, FromATS, FromResume, OfSource
  <2>2. Cardinality(parsed) = 1
    BY <2>1, FS_Singleton
  <2>3. made = Normalized(current)
    BY <2>2 DEF made
  <2>4. stages' = ToScore
    BY <1>9, <1>12, NextOfPlan
  <2>5. st'.merged # None /\ Sourced'
    <3>1. CASE FromATS /\ st.resume = None
      BY <1>6, <1>8, <1>9, <1>10, <2>3, <3>1 DEF FromATS, OfSource, Sourced, SourcesOf
    <3>2. CASE FromResume /\ st.ats = None
      BY <1>6, <1>8, <1>9, <1>10, <2>3, <3>2 DEF FromResume, OfSource, Sourced, SourcesOf
    <3> QED
      BY <1>12, <3>1, <3>2
  <2> QED
    BY <1>9, <1>10, <1>11, <2>4, <2>5 DEF StageKeeps, Supplied
<1>13. CASE /\ stages \in {BothToNormalize, BothToNormalizeOn}
            /\ FromATS /\ FromResume
  <2>1. st.ats # st.resume /\ parsed = {st.ats, st.resume}
    BY <1>13, InputsAreTyped
    DEF ConstantsAssumption, Present, FromATS, FromResume, OfSource
  <2>2. Cardinality(parsed) # 1
    <3>1. IsFiniteSet({st.ats, st.resume})
      <4>1. IsFiniteSet({st.ats})
        BY FS_Singleton
      <4>2. IsFiniteSet({st.ats} \cup {st.resume})
        BY <4>1, FS_AddElement
      <4>3. {st.ats, st.resume} = {st.ats} \cup {st.resume}
        OBVIOUS
      <4> QED
        BY <4>2, <4>3
    <3> QED
      BY <2>1, <3>1, FS_Singleton
  <2>3. made = None
    BY <1>2, <2>2 DEF made
  <2>4. stages' \in {ToMerge, ToMergeOn}
    BY <1>9, <1>13, NextOfPlan
  <2>5. FromATS' /\ FromResume'
    BY <1>6, <1>8, <1>9, <1>13 DEF FromATS, FromResume, OfSource, SourcesOf
  <2>6. Unmade'
    BY <1>8, <1>9, <1>10, <2>3 DEF Unmade
  <2> QED
    BY <1>9, <1>11, <2>4, <2>5, <2>6 DEF StageKeeps, Supplied
<1> QED
  BY <1>1, <1>12, <1>13

LEMMA MergeKeeps ==
  ASSUME TypeOK, StateTyped, Supplied, raised = None, Merge
  PROVE  StageKeeps
<1> DEFINE candidates == Present({st.ats, st.resume})
           golden == Golden(candidates)
           state == [st EXCEPT !.merged = golden, !.metadata = SourcesOf(golden)]
           report == [of |-> golden]
<1>1. stages \in {ToMerge, ToMergeOn} /\ Unmade /\ FromATS /\ FromResume
  <2>1. Running("merge")
    BY DEF Merge
  <2> QED
    BY <2>1, Parsing
<1>2. /\ st.ats \in Candidates /\ st.resume \in Candidates
      /\ candidates = {st.ats, st.resume}
  BY <1>1 DEF StateTyped, PipelineStates, FromATS, FromResume, OfSource, Present
<1>3. CASE UNION {c.docs : c \in candidates} \in Unmergeable
  <2>1. Raise("MergeError")
    BY <1>2, <1>3 DEF Merge
  <2> QED
    BY <2>1, Raised DEF Exceptions, StageKeeps
<1>4. CASE UNION {c.docs : c \in candidates} \notin Unmergeable
  <2>1. Complete("merge", state, report, golden.docs \in Conflicting)
    BY <1>2, <1>4 DEF Merge
  <2>2. /\ golden \in Candidates /\ golden # None
        /\ SourcesOf(golden) = {ATS, RESUME}
    <3>1. /\ golden \in Candidates /\ golden # None
          /\ SourcesOf(golden) = SourcesOf(st.ats) \cup SourcesOf(st.resume)
      BY <1>2, GoldenTyped
    <3> QED
      BY <1>1, <3>1 DEF FromATS, FromResume, OfSource
  <2> HIDE DEF golden
  <2>3. /\ state \in PipelineStates(DOMAIN st.reports) /\ state.reports = st.reports
        /\ state.ats = st.ats /\ state.resume = st.resume
        /\ state.merged = golden /\ state.metadata = SourcesOf(golden)
        /\ state.projection = st.projection
    BY <2>2 DEF StateTyped, PipelineStates, Sources
  <2>4. report \in Reports /\ "merge" \in StageNames
    BY <2>2 DEF Reports, StageNames
  <2> HIDE DEF state, report
  <2>5. /\ StateTyped'
        /\ DOMAIN st'.reports = DOMAIN st.reports \cup {"merge"}
        /\ st'.merged = state.merged /\ st'.metadata = state.metadata
        /\ st'.projection = state.projection
        /\ stages' = Tail(stages) /\ raised' = raised
    BY <2>1, <2>3, <2>4, Completed
  <2>6. /\ st'.merged = golden /\ st'.metadata = SourcesOf(golden) /\ Unscored'
    BY <1>1, <2>3, <2>5 DEF Unmade, Unscored, Speaking
  <2>7. Sourced' /\ Agreed' /\ st'.merged # None
    BY <2>2, <2>6 DEF Sourced, Agreed, Unscored, Speaking, SourcesOf
  <2>8. stages' \in {<<>>, ToScore}
    BY <1>1, <2>5, NextOfPlan
  <2> QED
    BY <2>5, <2>6, <2>7, <2>8, NoneIsDistinct
    DEF StageKeeps, Supplied, NoneAssumption, Exceptions
<1> QED
  BY <1>3, <1>4

LEMMA ScoreKeeps ==
  ASSUME TypeOK, StateTyped, Supplied, raised = None, Score
  PROVE  StageKeeps
<1> DEFINE scored == [st.merged EXCEPT !.scored = TRUE]
           state == [st EXCEPT !.merged = scored, !.metadata = SourceMetadata]
           report == [of |-> scored, metadata |-> SourceMetadata]
<1>1. stages = ToScore /\ st.merged # None /\ Unscored /\ Sourced
  <2>1. Running("confidence")
    BY DEF Score
  <2> QED
    BY <2>1, Parsing
<1>2. /\ st.merged \in Candidates
      /\ SourcesOf(st.merged) \in SUBSET Sources
  <2>1. st.merged \in Candidates
    BY <1>1 DEF StateTyped, PipelineStates
  <2> QED
    BY <2>1, InputsAreTyped DEF ConstantsAssumption, SourcesOf, Candidates
<1>3. SourceMetadata = SourcesOf(st.merged) /\ SourceMetadata # None
  <2>1. SourcesOf(st.merged) # None
    BY <1>2, NoneIsDistinct DEF NoneAssumption
  <2> QED
    BY <1>1, <2>1 DEF Sourced, SourceMetadata
<1>4. Complete("confidence", state, report, FALSE)
  BY <1>1, <1>3 DEF Score
<1>5. /\ scored \in Candidates /\ scored # None
      /\ SourcesOf(scored) = SourcesOf(st.merged)
  <2>1. scored \in Candidates /\ scored.docs = st.merged.docs
    BY <1>2 DEF Candidates
  <2> QED
    BY <2>1, NoneIsDistinct DEF NoneAssumption, SourcesOf
<1> HIDE DEF scored
<1>6. /\ state \in PipelineStates(DOMAIN st.reports) /\ state.reports = st.reports
      /\ state.ats = st.ats /\ state.resume = st.resume
      /\ state.merged = scored /\ state.metadata = SourceMetadata
      /\ state.projection = st.projection
  BY <1>2, <1>3, <1>5 DEF StateTyped, PipelineStates
<1>7. /\ report \in Reports /\ "confidence" \in StageNames
      /\ report.of = scored /\ report.metadata = SourceMetadata
  BY <1>2, <1>3, <1>5 DEF Reports, StageNames
<1> HIDE DEF state, report
<1>8. /\ StateTyped'
      /\ DOMAIN st'.reports = DOMAIN st.reports \cup {"confidence"}
      /\ st'.reports["confidence"] = report
      /\ st'.merged = state.merged /\ st'.metadata = state.metadata
      /\ st'.projection = state.projection
      /\ stages' = Tail(stages) /\ raised' = raised
  BY <1>4, <1>6, <1>7, Completed
<1>9. /\ st'.merged = scored /\ st'.merged # None /\ st'.projection = None
      /\ DOMAIN st'.reports \cap Speaking = {"confidence"}
  BY <1>1, <1>5, <1>6, <1>8 DEF Unscored, Speaking
<1>10. Agreed'
  BY <1>3, <1>5, <1>7, <1>8, <1>9 DEF Agreed, SourcesOf
<1>11. stages' = ToReport
  BY <1>1, <1>8, NextOfPlan
<1> QED
  BY <1>8, <1>9, <1>10, <1>11, NoneIsDistinct
  DEF StageKeeps, Supplied, NoneAssumption, Exceptions

LEMMA ValidateKeeps ==
  ASSUME TypeOK, StateTyped, Supplied, raised = None, Validate
  PROVE  StageKeeps
<1> DEFINE report == [of |-> st.merged, is_valid |-> IsValid(st.merged)]
           questionable == st.merged.docs \in Questionable
<1>1. stages \in {ToReport, ToValidate} /\ st.merged # None /\ Agreed
  <2>1. Running("validation")
    BY DEF Validate
  <2> QED
    BY <2>1, Parsing
<1>2. Complete("validation", st, report, questionable)
  BY <1>1 DEF Validate
<1>3. st.merged \in Candidates /\ st \in PipelineStates(DOMAIN st.reports)
  BY <1>1 DEF StateTyped, PipelineStates
<1>4. report \in Reports /\ report.of = st.merged /\ "validation" \in StageNames
  BY <1>3 DEF Reports, StageNames, IsValid
<1> HIDE DEF report
<1>5. /\ StateTyped'
      /\ DOMAIN st'.reports = DOMAIN st.reports \cup {"validation"}
      /\ st'.reports["validation"] = report
      /\ \A s \in DOMAIN st.reports \ {"validation"} : st'.reports[s] = st.reports[s]
      /\ st'.merged = st.merged /\ st'.projection = st.projection
      /\ stages' = Tail(stages) /\ raised' = raised
  BY <1>2, <1>3, <1>4, Completed
<1>6. st'.merged # None /\ Agreed'
  BY <1>1, <1>4, <1>5 DEF Agreed, SourcesOf, Speaking
<1>7. stages' \in {<<>>, ToProject}
  BY <1>1, <1>5, NextOfPlan
<1> QED
  BY <1>5, <1>6, <1>7, NoneIsDistinct DEF StageKeeps, Supplied, NoneAssumption, Exceptions

LEMMA ProjectKeeps ==
  ASSUME TypeOK, StateTyped, Supplied, raised = None, Project
  PROVE  StageKeeps
<1> DEFINE projection == [format |-> request.format, of |-> st.merged]
           state == [st EXCEPT !.projection = projection]
           report == [of |-> st.merged]
<1>1. stages = ToProject /\ st.merged # None /\ Agreed
  <2>1. Running("projection")
    BY DEF Project
  <2> QED
    BY <2>1, Parsing
<1>2. CASE request.format \notin {"canonical", "assignment"}
  <2>1. Raise("ProjectionError")
    BY <1>1, <1>2 DEF Project
  <2> QED
    BY <2>1, Raised DEF Exceptions, StageKeeps
<1>3. CASE request.format \in {"canonical", "assignment"}
  <2>1. Complete("projection", state, report, FALSE)
    BY <1>1, <1>3 DEF Project
  <2>2. st.merged \in Candidates
    BY <1>1 DEF StateTyped, PipelineStates
  <2>3. projection \in Projections /\ projection.of = st.merged
    BY <1>3, <2>2 DEF Projections
  <2>4. report \in Reports /\ report.of = st.merged /\ "projection" \in StageNames
    BY <2>2 DEF Reports, StageNames
  <2> HIDE DEF projection, report
  <2>5. /\ state \in PipelineStates(DOMAIN st.reports) /\ state.reports = st.reports
        /\ state.merged = st.merged /\ state.projection = projection
    BY <2>3 DEF StateTyped, PipelineStates
  <2> HIDE DEF state
  <2>6. /\ StateTyped'
        /\ DOMAIN st'.reports = DOMAIN st.reports \cup {"projection"}
        /\ st'.reports["projection"] = report
        /\ \A s \in DOMAIN st.reports \ {"projection"} : st'.reports[s] = st.reports[s]
        /\ st'.merged = state.merged /\ st'.projection = state.projection
        /\ stages' = Tail(stages) /\ raised' = raised
    BY <2>1, <2>4, <2>5, Completed
  <2>7. st'.merged # None /\ Agreed'
    BY <1>1, <2>3, <2>4, <2>5, <2>6 DEF Agreed, SourcesOf, Speaking
  <2>8. stages' = <<>>
    BY <1>1, <2>6, NextOfPlan
  <2> QED
    BY <2>6, <2>7, <2>8, NoneIsDistinct
    DEF StageKeeps, Supplied, NoneAssumption, Exceptions
<1> QED
  BY <1>2, <1>3

-----------------------------------------------------------------------------
(* A started invocation: the state it starts from supplies its sequence. *)
LEMMA Started ==
  ASSUME TypeOK, CommandInv, command = None, NEW output \in Outputs,
         NEW name \in CommandNames, NEW req \in Requests, NEW sequence, NEW state,
         DOMAIN state.reports \subseteq StageNames,
         state \in PipelineStates(DOMAIN state.reports),
         Begin(name, output, req, sequence, state),
         Supplied'
  PROVE  TypeOK' /\ CommandInv'
<1>1. command' \in Commands /\ command' # None
  BY NoneIsDistinct DEF Begin, Commands, NoneAssumption
<1>2. raised' = None /\ raised' # "RuntimeError"
  BY NoneIsDistinct DEF CommandInv, Begin, NoneAssumption, Exceptions
<1>3. TypeOK'
  BY <1>1, <1>2 DEF Begin, TypeOK
<1> QED
  BY <1>1, <1>2, <1>3 DEF CommandInv

LEMMA Rejected ==
  ASSUME TypeOK, CommandInv, command = None, Reject
  PROVE  TypeOK' /\ CommandInv'
<1>1. UNCHANGED <<files, request, stages, st, raised, command>>
  BY DEF Reject
<1>2. TypeOK'
  BY <1>1 DEF Reject, TypeOK
<1> QED
  BY <1>1, <1>2 DEF CommandInv

(* A new PipelineState is empty. *)
LEMMA EmptyTyped ==
  /\ DOMAIN EmptyState.reports = {}
  /\ EmptyState \in PipelineStates({})
  /\ EmptyState.ats = None /\ EmptyState.resume = None /\ EmptyState.merged = None
  /\ EmptyState.metadata = None /\ EmptyState.projection = None
BY DEF EmptyState, PipelineStates

(* Every use case starts from a state that supplies its sequence. *)
LEMMA InvokeKeeps ==
  ASSUME TypeOK, CommandInv, Invoke
  PROVE  TypeOK' /\ CommandInv'
<1>1. command = None /\ (\A p \in Paths : p # None)
  BY NoneIsDistinct DEF Invoke, NoneAssumption
<1>2. PICK output \in Outputs :
        \/ \E p \in Paths : parse(p, output)
        \/ \E a, r \in Paths : merge(a, r, output)
        \/ \E a, r \in Paths, f \in Formats : transform(a, r, f, output)
        \/ \E p \in Paths : validate(p, output)
        \/ \E p \in Paths, f \in Formats : project(p, f, output)
  BY DEF Invoke
<1>3. SUFFICES ASSUME ~Reject
               PROVE  TypeOK' /\ CommandInv'
  BY <1>1, Rejected
<1>4. ASSUME NEW p \in Paths, parse(p, output)
      PROVE  TypeOK' /\ CommandInv'
  <2> DEFINE ats == Suffix[p] = "json"
             req == [ats |-> IF ats THEN p ELSE None,
                     resume |-> IF ats THEN None ELSE p, format |-> "canonical"]
             sequence == IF ats THEN SingleATS ELSE SingleResume
  <2>1. Begin("parse", output, req, sequence, EmptyState)
    <3>1. CASE ats
      BY <1>3, <1>4, <3>1 DEF parse, BeginOrReject, SingleATS
    <3>2. CASE ~ats
      BY <1>3, <1>4, <3>2 DEF parse, BeginOrReject, SingleResume
    <3> QED
      BY <3>1, <3>2
  <2>2. req \in Requests
    BY DEF Requests
  <2>3. Supplied'
    BY <1>1, <2>1 DEF Begin, Supplied
  <2> QED
    BY <1>1, <2>1, <2>2, <2>3, EmptyTyped, Started DEF CommandNames
<1>5. ASSUME NEW a \in Paths, NEW r \in Paths, merge(a, r, output)
      PROVE  TypeOK' /\ CommandInv'
  <2> DEFINE req == [ats |-> a, resume |-> r, format |-> None]
  <2>1. Begin("merge", output, req, BothToParse, EmptyState)
    BY <1>3, <1>5 DEF merge, BeginOrReject, BothToParse
  <2>2. req \in Requests
    BY DEF Requests
  <2>3. Supplied'
    BY <1>1, <2>1 DEF Begin, Supplied
  <2> QED
    BY <1>1, <2>1, <2>2, <2>3, EmptyTyped, Started DEF CommandNames
<1>6. ASSUME NEW a \in Paths, NEW r \in Paths, NEW f \in Formats, transform(a, r, f, output)
      PROVE  TypeOK' /\ CommandInv'
  <2> DEFINE req == [ats |-> a, resume |-> r, format |-> f]
  <2>1. Begin("transform", output, req, BothToParseOn, EmptyState)
    BY <1>3, <1>6 DEF transform, BeginOrReject, BothToParseOn
  <2>2. req \in Requests
    BY DEF Requests
  <2>3. Supplied'
    BY <1>1, <2>1 DEF Begin, Supplied
  <2> QED
    BY <1>1, <2>1, <2>2, <2>3, EmptyTyped, Started DEF CommandNames
<1>7. ASSUME NEW p \in Paths, Loads(p)
      PROVE  /\ Loaded(p) \in PipelineStates({}) /\ DOMAIN Loaded(p).reports = {}
             /\ Loaded(p).merged # None /\ Loaded(p).projection = None
  <2>1. files[p] \in FileContents /\ files[p].kind = "result"
    BY <1>7 DEF Loads, TypeOK
  <2>2. files[p].candidate \in Candidates
    BY <2>1 DEF FileContents, NoFile, Garbage
  <2> QED
    BY <2>2, EmptyTyped, NoneIsDistinct DEF Loaded, PipelineStates, NoneAssumption
<1>8. ASSUME NEW p \in Paths, validate(p, output)
      PROVE  TypeOK' /\ CommandInv'
  <2>1. /\ Loads(p)
        /\ Begin("validate", output, NoRequest, ToValidate, Loaded(p))
    BY <1>3, <1>8 DEF validate, ToValidate
  <2>2. NoRequest \in Requests
    BY DEF NoRequest, Requests
  <2>3. Supplied'
    BY <1>7, <2>1 DEF Begin, Supplied, Agreed
  <2> QED
    BY <1>1, <1>7, <2>1, <2>2, <2>3, Started DEF CommandNames
<1>9. ASSUME NEW p \in Paths, NEW f \in Formats, project(p, f, output)
      PROVE  TypeOK' /\ CommandInv'
  <2> DEFINE req == [NoRequest EXCEPT !.format = f]
  <2>1. /\ Loads(p)
        /\ Begin("project", output, req, ToProject, Loaded(p))
    BY <1>3, <1>9 DEF project, ToProject
  <2>2. req \in Requests
    BY DEF NoRequest, Requests
  <2>3. Supplied'
    BY <1>7, <2>1 DEF Begin, Supplied, Agreed
  <2> QED
    BY <1>1, <1>7, <2>1, <2>2, <2>3, Started DEF CommandNames
<1> QED
  BY <1>2, <1>4, <1>5, <1>6, <1>8, <1>9

(* A stage supplies the ones after it. *)
LEMMA StageStepKeeps ==
  ASSUME TypeOK, CommandInv, StageStep
  PROVE  TypeOK' /\ CommandInv'
<1>1. StateTyped /\ Supplied /\ command # None
  BY DEF TypeOK, StateTyped, CommandInv, StageStep
<1>2. raised = None
  BY DEF StageStep, RunStage, ParseATS, ParseResume, Normalize, Merge, Score, Validate,
         Project, Running
<1>3. StageKeeps
  BY <1>1, <1>2, ParseATSKeeps, ParseResumeKeeps, NormalizeKeeps, MergeKeeps, ScoreKeeps,
     ValidateKeeps, ProjectKeeps
  DEF StageStep, RunStage
<1>4. UNCHANGED <<command, result, exit, files, request>>
  BY DEF StageStep, RunStage, ParseATS, ParseResume, Normalize, Merge, Score, Validate,
         Project, Complete, Raise
<1>5. TypeOK'
  <2>1. /\ DOMAIN st'.reports \subseteq StageNames
        /\ st' \in PipelineStates(DOMAIN st'.reports)
        /\ raised' \in Exceptions \cup {None}
    BY <1>3 DEF StageKeeps, StateTyped
  <2>2. result' # None => /\ DOMAIN result'.reports \subseteq StageNames
                          /\ result' \in ApplicationResults(DOMAIN result'.reports)
    BY <1>4 DEF TypeOK
  <2>3. /\ files' \in [Paths -> FileContents] /\ command' \in Commands \cup {None}
        /\ request' \in Requests /\ exit' \in {None, 0, 1}
    BY <1>4 DEF TypeOK
  <2>4. command' # None
    BY <1>1, <1>4
  <2> QED
    BY <2>1, <2>2, <2>3, <2>4 DEF TypeOK
<1> QED
  BY <1>1, <1>3, <1>4, <1>5 DEF StageKeeps, CommandInv

(* The end of an invocation: the process is gone, the files stay. *)
LEMMA Ended ==
  ASSUME TypeOK, NEW outcome, NEW code \in {0, 1}, End(outcome, code),
         files' \in [Paths -> FileContents],
         outcome # None => /\ DOMAIN outcome.reports \subseteq StageNames
                           /\ outcome \in ApplicationResults(DOMAIN outcome.reports)
  PROVE  TypeOK' /\ CommandInv'
<1>1. NoRequest \in Requests
  BY DEF NoRequest, Requests
<1>2. TypeOK'
  BY <1>1, EmptyTyped DEF End, TypeOK
<1> QED
  BY <1>2, NoneIsDistinct DEF End, CommandInv, NoneAssumption, Exceptions

(* A finished invocation has a candidate, and its result is typed. *)
LEMMA ResultTyped ==
  ASSUME TypeOK, CommandInv, Executed
  PROVE  /\ st.merged \in Candidates /\ st.merged # None /\ Agreed
         /\ ApplicationResult \in ApplicationResults(DOMAIN st.reports)
         /\ ApplicationResult # None
         /\ ApplicationResult.reports = st.reports
         /\ ApplicationResult.candidate = st.merged
         /\ ApplicationResult.projection = st.projection
         /\ ApplicationResult.exit_code \in {0, 1}
         /\ DOMAIN st.reports \subseteq StageNames
<1>1. st.merged # None /\ Agreed
  BY NextOfPlan DEF Executed, CommandInv, Supplied, SingleATS, SingleResume, BothToParse,
     BothToParseOn, SecondToParse, SecondToParseOn, SingleToNormalize, BothToNormalize,
     BothToNormalizeOn, ToMerge, ToMergeOn, ToScore
<1>2. st \in PipelineStates(DOMAIN st.reports) /\ DOMAIN st.reports \subseteq StageNames
  BY DEF TypeOK
<1>3. st.merged \in Candidates
  BY <1>1, <1>2 DEF PipelineStates
<1>4. command.name \in CommandNames
  BY DEF Executed, TypeOK, Commands
<1>5. ApplicationResult \in ApplicationResults(DOMAIN st.reports)
  BY <1>2, <1>3, <1>4 DEF ApplicationResult, ApplicationResults, PipelineStates
<1>6. ApplicationResult # None
  BY <1>2, <1>5, NoneIsDistinct DEF NoneAssumption
<1> QED
  BY <1>1, <1>2, <1>3, <1>5, <1>6 DEF ApplicationResult

LEMMA OutputTyped ==
  ASSUME TypeOK, command # None
  PROVE  command.output \in Paths \cup {None}
BY InputsAreTyped DEF TypeOK, Commands, ConstantsAssumption

LEMMA DeliverKeeps ==
  ASSUME TypeOK, CommandInv, Deliver
  PROVE  TypeOK' /\ CommandInv' /\ ResultIsOfOneCandidate'
<1>1. /\ Executed
      /\ files' = IF command.output = None THEN files
                  ELSE [files EXCEPT ![command.output] = Result(st.merged)]
      /\ End(ApplicationResult, ApplicationResult.exit_code)
  BY DEF Deliver
<1>2. Result(st.merged) \in FileContents
  BY <1>1, ResultTyped DEF Result, FileContents
<1>3. files' \in [Paths -> FileContents]
  BY <1>1, <1>2, OutputTyped DEF TypeOK, Executed
<1>4. TypeOK' /\ CommandInv'
  BY <1>1, <1>3, ResultTyped, Ended
<1>5. result' = ApplicationResult
  BY <1>1 DEF End
<1>6. ResultIsOfOneCandidate'
  BY <1>1, <1>5, ResultTyped DEF ResultIsOfOneCandidate, Agreed, Speaking
<1> QED
  BY <1>4, <1>6

LEMMA WriteFailsKeeps ==
  ASSUME TypeOK, CommandInv, WriteFails
  PROVE  TypeOK' /\ CommandInv' /\ ResultIsOfOneCandidate'
<1>1. PICK content \in {files[command.output], Garbage} :
        files' = [files EXCEPT ![command.output] = content]
  BY DEF WriteFails
<1>2. command.output \in Paths
  BY OutputTyped DEF WriteFails, Executed
<1>3. files' \in [Paths -> FileContents]
  BY <1>1, <1>2 DEF TypeOK, FileContents
<1>4. End(None, 1) /\ result' = None
  BY DEF WriteFails, End
<1> QED
  BY <1>3, <1>4, Ended DEF ResultIsOfOneCandidate, Finished

LEMMA HandleErrorKeeps ==
  ASSUME TypeOK, CommandInv, HandleError
  PROVE  TypeOK' /\ CommandInv' /\ ResultIsOfOneCandidate'
<1>1. End(None, 1) /\ result' = None /\ files' \in [Paths -> FileContents]
  BY DEF HandleError, End, TypeOK
<1> QED
  BY <1>1, Ended DEF ResultIsOfOneCandidate, Finished

\* The invariant speaks of the command and its state, not of the files.
LEMMA CommandInvUnchanged ==
  ASSUME CommandInv, UNCHANGED <<request, stages, st, raised, command>>
  PROVE  CommandInv'
<1>1. (Unscored' <=> Unscored) /\ (Unmade' <=> Unmade)
  BY DEF Unscored, Unmade
<1>2. (FromATS' <=> FromATS) /\ (FromResume' <=> FromResume)
  BY DEF FromATS, FromResume, OfSource, SourcesOf
<1>3. Sourced' <=> Sourced
  BY DEF Sourced, SourcesOf
<1>4. Agreed' <=> Agreed
  BY DEF Agreed, SourcesOf
<1>5. Supplied' <=> Supplied
  BY <1>1, <1>2, <1>3, <1>4 DEF Supplied
<1> QED BY <1>5 DEF CommandInv

LEMMA ReplaceFileKeeps ==
  ASSUME TypeOK, CommandInv, ReplaceFile
  PROVE  TypeOK' /\ CommandInv'
<1>1. PICK p \in Paths : \E content \in External[p] : files' = [files EXCEPT ![p] = content]
  BY DEF ReplaceFile
<1>2. files' \in [Paths -> FileContents]
  BY <1>1, InputsAreTyped DEF TypeOK, ConstantsAssumption
<1>3. UNCHANGED <<request, stages, st, raised, command, result, exit>>
  BY DEF ReplaceFile
<1>4. TypeOK'
  BY <1>2, <1>3 DEF TypeOK
<1>5. CommandInv'
  BY <1>3, CommandInvUnchanged
<1> QED
  BY <1>4, <1>5

-----------------------------------------------------------------------------
CommandLineInv == TypeOK /\ CommandInv /\ ResultIsOfOneCandidate

LEMMA CommandLineInductive ==
  CommandLineInv /\ [Next]_vars => CommandLineInv'
<1> SUFFICES ASSUME CommandLineInv, [Next]_vars
             PROVE  CommandLineInv'
  OBVIOUS
<1> USE DEF CommandLineInv
<1>1. CASE Invoke
  <2>1. result' = None \/ UNCHANGED result
    BY <1>1 DEF Invoke, parse, merge, transform, validate, project, BeginOrReject, Begin,
       Reject
  <2>2. ResultIsOfOneCandidate'
    BY <2>1 DEF ResultIsOfOneCandidate, Finished
  <2> QED
    BY <1>1, <2>2, InvokeKeeps
<1>2. CASE StageStep
  <2>1. ResultIsOfOneCandidate'
    BY <1>2 DEF StageStep, ResultIsOfOneCandidate, Finished
  <2> QED
    BY <1>2, <2>1, StageStepKeeps
<1>3. CASE Deliver
  BY <1>3, DeliverKeeps
<1>4. CASE WriteFails
  BY <1>4, WriteFailsKeeps
<1>5. CASE HandleError
  BY <1>5, HandleErrorKeeps
<1>6. CASE ReplaceFile
  <2>1. ResultIsOfOneCandidate'
    BY <1>6 DEF ReplaceFile, ResultIsOfOneCandidate, Finished
  <2> QED
    BY <1>6, <2>1, ReplaceFileKeeps
<1>7. CASE UNCHANGED vars
  <2>1. UNCHANGED <<files, request, stages, st, raised, command, result, exit>>
    BY <1>7 DEF vars
  <2>2. TypeOK'
    BY <2>1 DEF TypeOK
  <2>3. CommandInv'
    BY <2>1, CommandInvUnchanged
  <2> QED
    BY <2>1, <2>2, <2>3 DEF ResultIsOfOneCandidate, Finished
<1> QED
  BY <1>1, <1>2, <1>3, <1>4, <1>5, <1>6, <1>7 DEF Next, System

LEMMA CommandLineStarts ==
  Init => CommandLineInv
<1> SUFFICES ASSUME Init
             PROVE  CommandLineInv
  OBVIOUS
<1>1. files \in [Paths -> FileContents]
  BY DEF Init, FileContents, Document
<1>2. NoRequest \in Requests
  BY DEF NoRequest, Requests
<1>3. TypeOK
  BY <1>1, <1>2, EmptyTyped DEF Init, TypeOK
<1>4. CommandInv
  BY NoneIsDistinct DEF Init, CommandInv, NoneAssumption, Exceptions
<1> QED
  BY <1>3, <1>4 DEF Init, CommandLineInv, ResultIsOfOneCandidate, Finished

LEMMA CommandLineInvariant ==
  Spec => []CommandLineInv
BY CommandLineStarts, CommandLineInductive, PTL DEF Spec

(* The files, the request, the PipelineState and the results are typed     *)
(* throughout a session, and between two invocations nothing of the last   *)
(* one's state is left.                                                    *)
THEOREM TypeCorrect ==
  Spec => []TypeOK
<1>1. CommandLineInv => TypeOK
  BY DEF CommandLineInv
<1> QED
  BY <1>1, CommandLineInvariant, PTL

(* The sequences ApplicationService builds give every stage what it        *)
(* requires: no stage raises its RuntimeError, whatever the files hold     *)
(* when they are read and whatever the parsers and the merge engine raise. *)
THEOREM NeverMisorderedHolds ==
  Spec => []NeverMisordered
<1>1. CommandLineInv => NeverMisordered
  BY DEF CommandLineInv, CommandInv, NeverMisordered
<1> QED
  BY <1>1, CommandLineInvariant, PTL

(* The reports and the projection of an ApplicationResult were made of the *)
(* candidate it holds.                                                     *)
THEOREM ResultIsOfOneCandidateHolds ==
  Spec => []ResultIsOfOneCandidate
<1>1. CommandLineInv => ResultIsOfOneCandidate
  BY DEF CommandLineInv
<1> QED
  BY <1>1, CommandLineInvariant, PTL

(* The confidence stage scores a candidate with the metadata of exactly    *)
(* the sources it was made of, merged or single.                           *)
THEOREM ScoredByItsSourcesHolds ==
  Spec => []ScoredByItsSources
<1>1. CommandLineInv => ScoredByItsSources
  <2> SUFFICES ASSUME CommandLineInv, "confidence" \in DOMAIN st.reports
               PROVE  st.reports["confidence"].metadata = SourcesOf(st.merged)
    BY DEF ScoredByItsSources
  <2>1. command # None
    BY EmptyTyped DEF CommandLineInv, CommandInv
  <2>2. Supplied
    BY <2>1 DEF CommandLineInv, CommandInv
  <2>3. ~Unscored /\ st # EmptyState
    BY EmptyTyped DEF Unscored, Speaking
  <2>4. Agreed
    BY <2>2, <2>3 DEF Supplied, Unmade
  <2> QED
    BY <2>4 DEF Agreed
<1> QED
  BY <1>1, CommandLineInvariant, PTL

(* Of the files of this program an invocation changes only its output, and *)
(* only in delivering a whole result or in a write that fails: an error of *)
(* a stage leaves every file alone.                                        *)
THEOREM OutputsAreWholeHolds ==
  Spec => OutputsAreWhole
<1> DEFINE Whole == \A p \in Paths : files'[p] # files[p] /\ command # None /\ command' = None =>
                      /\ p = command.output
                      /\ result' # None => files'[p] = Result(result'.candidate)
                      /\ result' = None => files'[p] = Garbage /\ raised = None
<1>1. CommandLineInv /\ [Next]_vars => [Whole]_vars
  <2> SUFFICES ASSUME CommandLineInv, Next, NEW p \in Paths,
                      files'[p] # files[p], command # None, command' = None
               PROVE  /\ p = command.output
                      /\ result' # None => files'[p] = Result(result'.candidate)
                      /\ result' = None => files'[p] = Garbage /\ raised = None
    BY DEF vars
  <2>1. Deliver \/ WriteFails
    BY DEF Next, System, Invoke, StageStep, HandleError, ReplaceFile
  <2>2. files \in [Paths -> FileContents]
    BY DEF CommandLineInv, TypeOK
  <2>3. CASE Deliver
    <3>1. /\ result' = ApplicationResult /\ result' # None
          /\ result'.candidate = st.merged
      BY <2>3, ResultTyped DEF Deliver, End, CommandLineInv
    <3>2. /\ command.output # None
          /\ files' = [files EXCEPT ![command.output] = Result(st.merged)]
      BY <2>3 DEF Deliver
    <3> QED
      BY <2>2, <3>1, <3>2
  <2>4. CASE WriteFails
    <3>1. PICK content \in {files[command.output], Garbage} :
            files' = [files EXCEPT ![command.output] = content]
      BY <2>4 DEF WriteFails
    <3>2. result' = None /\ raised = None
      BY <2>4 DEF WriteFails, Executed, End
    <3> QED
      BY <2>2, <3>1, <3>2
  <2> QED
    BY <2>1, <2>3, <2>4
<1> QED
  BY <1>1, CommandLineInvariant, PTL DEF Spec, OutputsAreWhole
=============================================================================
