------------------------------- MODULE Pipeline -------------------------------
(***************************************************************************)
(* Pipeline.execute of pipeline/pipeline.py and the seven stages of        *)
(* pipeline/stage.py on one PipelineState: stages run in the order the     *)
(* caller supplies, each reads and replaces parts of the shared state, the *)
(* first exception ends the run.                                           *)
(*                                                                         *)
(* A document is a value; what the parsers, the merge engine and the rules *)
(* make of it is given by the constants.  A candidate is known by the      *)
(* documents it was made of and by what has been done to it since.  Files  *)
(* belong to the outside world and may change while a run is under way.    *)
(***************************************************************************)
EXTENDS Integers, Sequences, FiniteSets

CONSTANTS
  None,
  ATS, RESUME,      \* DataSource
  Suffix,           \* path -> "json", "resume" or "other"
  SourceOf,         \* document -> the source whose parser understands it
  Parsable,         \* documents their parser accepts
  Invalid,          \* sets of documents whose candidate has a validation error
  Questionable,     \* sets of documents whose candidate has a validation warning
  Unmergeable,      \* sets of documents the merge engine refuses
  Conflicting,      \* sets of documents the merge engine warns about
  Misfits           \* sets of documents whose merge the model would refuse

Documents == DOMAIN SourceOf

VARIABLES
  files,     \* path -> content
  request,   \* PipelineRequest
  stages,    \* names of the stages still to run
  st,        \* PipelineState
  raised     \* None, or what the run was ended by

pipelineVars == <<files, request, stages, st, raised>>

NoFile == [kind |-> "missing"]
Document(doc) == [kind |-> "document", doc |-> doc]
Result(candidate) == [kind |-> "result", candidate |-> candidate]

\* A candidate: its documents, how often each has been normalized, whether it
\* carries confidence, and whether its JSON satisfies the model's validators.
Candidate(docs) == [docs |-> docs, normalized |-> 0, scored |-> FALSE, strict |-> TRUE]

SourcesOf(candidate) == {SourceOf[d] : d \in candidate.docs}

EmptyState ==
  [ats |-> None, resume |-> None, merged |-> None, metadata |-> None,
   projection |-> None, reports |-> [s \in {} |-> s], warnings |-> <<>>]

Present(candidates) == {c \in candidates : c # None}

-----------------------------------------------------------------------------
Running(stage) == raised = None /\ stages # <<>> /\ Head(stages) = stage

\* PipelineState.reports with the report of this stage: a later report of the
\* same stage replaces the earlier one.
Filed(reports, stage, report) ==
  [s \in DOMAIN reports \cup {stage} |-> IF s = stage THEN report ELSE reports[s]]

\* Seeded fault: a stage that warned is run again.
Complete_AgainIfWarned(stage, state, report, warned) ==
  /\ st' = [state EXCEPT !.reports = Filed(@, stage, report)]
  /\ stages' = IF warned THEN stages ELSE Tail(stages)
  /\ UNCHANGED <<files, request, raised>>

\* The stage returned: its report is filed under its name and the report's
\* warnings are collected.
Complete(stage, state, report, warned) ==
  /\ st' = [state EXCEPT !.reports = Filed(@, stage, report),
                         !.warnings = IF warned THEN Append(@, stage) ELSE @]
  /\ stages' = Tail(stages)
  /\ UNCHANGED <<files, request, raised>>

Raise(exception) ==
  /\ raised' = exception
  /\ UNCHANGED <<files, request, stages, st>>

\* Parsing reads the file now, whatever it held when its existence was checked.
\* A parser refuses other file extensions than its own.
Readable(path, source) ==
  /\ Suffix[path] = IF source = ATS THEN "json" ELSE "resume"
  /\ files[path].kind = "document"
  /\ SourceOf[files[path].doc] = source
  /\ files[path].doc \in Parsable

ParseATS ==
  /\ Running("ats_parser")
  /\ IF request.ats = None THEN Raise("RuntimeError")
     ELSE IF ~Readable(request.ats, ATS) THEN Raise("ParserError")
     ELSE Complete("ats_parser",
                   [st EXCEPT !.ats = Candidate({files[request.ats].doc})],
                   [source |-> ATS], FALSE)

ParseResume ==
  /\ Running("resume_parser")
  /\ IF request.resume = None THEN Raise("RuntimeError")
     ELSE IF ~Readable(request.resume, RESUME) THEN Raise("ParserError")
     ELSE Complete("resume_parser",
                   [st EXCEPT !.resume = Candidate({files[request.resume].doc})],
                   [source |-> RESUME], FALSE)

Normalized(candidate) ==
  IF candidate = None THEN None
  ELSE [candidate EXCEPT !.normalized = IF @ = 2 THEN 2 ELSE @ + 1]

\* Seeded fault: a single source is not made the current candidate.
Normalize_NoCurrent ==
  /\ Running("normalization")
  /\ LET parsed == Present({st.ats, st.resume})
     IN  IF parsed = {} THEN Raise("RuntimeError")
         ELSE Complete("normalization",
                       [st EXCEPT !.ats = Normalized(@), !.resume = Normalized(@)],
                       [sources |-> UNION {SourcesOf(c) : c \in parsed}], FALSE)

\* A single source becomes the current candidate; with two, the merge does.
Normalize ==
  /\ Running("normalization")
  /\ LET parsed == Present({st.ats, st.resume})
         current == IF st.ats # None THEN st.ats ELSE st.resume
     IN  IF parsed = {} THEN Raise("RuntimeError")
         ELSE Complete("normalization",
                [st EXCEPT !.ats = Normalized(@), !.resume = Normalized(@),
                           !.merged = IF Cardinality(parsed) = 1
                                      THEN Normalized(current) ELSE @],
                [sources |-> UNION {SourcesOf(c) : c \in parsed}], FALSE)

\* The golden record is as normalized as its least normalized source.
Golden(candidates) ==
  LET docs == UNION {c.docs : c \in candidates}
  IN  [docs |-> docs,
       normalized |-> CHOOSE n \in {c.normalized : c \in candidates} :
                        \A c \in candidates : n <= c.normalized,
       scored |-> FALSE,
       strict |-> docs \notin Misfits]

Merge ==
  /\ Running("merge")
  /\ LET candidates == Present({st.ats, st.resume})
         golden == Golden(candidates)
     IN  IF candidates = {} \/ UNION {c.docs : c \in candidates} \in Unmergeable
         THEN Raise("MergeError")
         ELSE Complete("merge",
                       [st EXCEPT !.merged = golden, !.metadata = SourcesOf(golden)],
                       [of |-> golden], golden.docs \in Conflicting)

\* Seeded fault: the metadata of a single source is always that of the ATS.
SourceMetadata_AlwaysATS ==
  IF st.metadata # None THEN st.metadata
  ELSE IF (st.ats = None) = (st.resume = None) THEN None ELSE {ATS}

\* Merge metadata when there was a merge, else that of the only source.
SourceMetadata ==
  IF st.metadata # None THEN st.metadata
  ELSE IF (st.ats = None) = (st.resume = None) THEN None
  ELSE IF st.ats # None THEN {ATS} ELSE {RESUME}

Score ==
  /\ Running("confidence")
  /\ IF SourceMetadata = None \/ st.merged = None THEN Raise("RuntimeError")
     ELSE LET scored == [st.merged EXCEPT !.scored = TRUE]
          IN  Complete("confidence",
                       [st EXCEPT !.merged = scored, !.metadata = SourceMetadata],
                       [of |-> scored, metadata |-> SourceMetadata], FALSE)

IsValid(candidate) == candidate.docs \notin Invalid

Validate ==
  /\ Running("validation")
  /\ IF st.merged = None THEN Raise("RuntimeError")
     ELSE Complete("validation", st, [of |-> st.merged, is_valid |-> IsValid(st.merged)],
                   st.merged.docs \in Questionable)

Project ==
  /\ Running("projection")
  /\ IF st.merged = None THEN Raise("RuntimeError")
     ELSE IF request.format \notin {"canonical", "assignment"} THEN Raise("ProjectionError")
     ELSE Complete("projection",
                   [st EXCEPT !.projection = [format |-> request.format, of |-> st.merged]],
                   [of |-> st.merged], FALSE)

RunStage ==
  \/ ParseATS
  \/ ParseResume
  \/ Normalize
  \/ Merge
  \/ Score
  \/ Validate
  \/ Project
=============================================================================
