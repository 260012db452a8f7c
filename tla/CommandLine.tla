----------------------------- MODULE CommandLine -----------------------------
(***************************************************************************)
(* Sessions with the command line: ApplicationService (application/        *)
(* service.py) chooses the stages of each use case and turns the final     *)
(* state into an ApplicationResult; cli/app.py runs one use case per       *)
(* invocation, prints or writes its result and sets the exit code.         *)
(* Files outlive an invocation: what one command wrote the next may read.  *)
(***************************************************************************)
EXTENDS Pipeline

CONSTANTS
  Outputs,     \* values of --output: paths, or None for stdout
  Formats,     \* values of --format
  External     \* path -> contents the outside world may give it

VARIABLES
  command,     \* the invocation under way, or None
  result,      \* ApplicationResult of the last finished invocation, or None
  exit         \* its exit code

vars == <<files, request, stages, st, raised, command, result, exit>>

Paths == DOMAIN Suffix
Garbage == [kind |-> "garbage"]
NoRequest == [ats |-> None, resume |-> None, format |-> None]
Exists(path) == files[path].kind # "missing"

Init ==
  /\ files \in [Paths -> {NoFile} \cup {Document(d) : d \in Documents}]
  /\ \A p \in Paths : files[p] \in External[p]
  /\ request = NoRequest /\ stages = <<>> /\ st = EmptyState /\ raised = None
  /\ command = None /\ result = None /\ exit = None

-----------------------------------------------------------------------------
\* The invocation reaches Pipeline.execute.
Begin(name, output, req, sequence, state) ==
  /\ command' = [name |-> name, output |-> output]
  /\ request' = req /\ stages' = sequence /\ st' = state
  /\ result' = None /\ exit' = None
  /\ UNCHANGED <<files, raised>>

\* It does not: the service raises before it has run a stage.
Reject ==
  /\ result' = None /\ exit' = 1
  /\ UNCHANGED <<files, request, stages, st, raised, command>>

BeginOrReject(accepted, name, output, req, sequence, state) ==
  IF accepted THEN Begin(name, output, req, sequence, state) ELSE Reject

parse(path, output) ==
  LET ats == Suffix[path] = "json"
      req == [ats |-> IF ats THEN path ELSE None,
              resume |-> IF ats THEN None ELSE path, format |-> "canonical"]
      parser == IF ats THEN "ats_parser" ELSE "resume_parser"
  IN  BeginOrReject(Exists(path) /\ Suffix[path] # "other", "parse", output, req,
        <<parser, "normalization", "confidence", "validation", "projection">>, EmptyState)

merge(ats, resume, output) ==
  BeginOrReject(Exists(ats) /\ Exists(resume), "merge", output,
    [ats |-> ats, resume |-> resume, format |-> None],
    <<"ats_parser", "resume_parser", "normalization", "merge">>, EmptyState)

\* Seeded fault: the record is validated before it is scored.
transform_ValidateFirst(ats, resume, format, output) ==
  BeginOrReject(Exists(ats) /\ Exists(resume), "transform", output,
    [ats |-> ats, resume |-> resume, format |-> format],
    <<"ats_parser", "resume_parser", "normalization", "merge",
      "validation", "confidence", "projection">>, EmptyState)

transform(ats, resume, format, output) ==
  BeginOrReject(Exists(ats) /\ Exists(resume), "transform", output,
    [ats |-> ats, resume |-> resume, format |-> format],
    <<"ats_parser", "resume_parser", "normalization", "merge",
      "confidence", "validation", "projection">>, EmptyState)

\* _load_candidate: Candidate.model_validate of the record a result holds.  A
\* source document is refused, the model allows no field it does not know.
Loads(path) == files[path].kind = "result" /\ files[path].candidate.strict

Loaded(path) == [EmptyState EXCEPT !.merged = files[path].candidate]

validate(path, output) ==
  IF Loads(path)
  THEN Begin("validate", output, NoRequest, <<"validation">>, Loaded(path))
  ELSE Reject

project(path, format, output) ==
  IF Loads(path)
  THEN Begin("project", output, [NoRequest EXCEPT !.format = format],
             <<"projection">>, Loaded(path))
  ELSE Reject

Invoke ==
  /\ command = None
  /\ \E output \in Outputs :
       \/ \E p \in Paths : parse(p, output)
       \/ \E a, r \in Paths : merge(a, r, output)
       \/ \E a, r \in Paths, f \in Formats : transform(a, r, f, output)
       \/ \E p \in Paths : validate(p, output)
       \/ \E p \in Paths, f \in Formats : project(p, f, output)

-----------------------------------------------------------------------------
StageStep ==
  /\ command # None
  /\ RunStage
  /\ UNCHANGED <<command, result, exit>>

\* Seeded fault: the next invocation finds the state of this one.
End_KeepsState(outcome, code) ==
  /\ command' = None /\ result' = outcome /\ exit' = code
  /\ request' = NoRequest /\ stages' = <<>> /\ raised' = None
  /\ UNCHANGED st

\* The invocation is over and the process, with its state, is gone.
End(outcome, code) ==
  /\ command' = None /\ result' = outcome /\ exit' = code
  /\ request' = NoRequest /\ stages' = <<>> /\ st' = EmptyState /\ raised' = None

Success == "validation" \in DOMAIN st.reports => st.reports["validation"].is_valid

ApplicationResult ==
  [command |-> command.name, candidate |-> st.merged, projection |-> st.projection,
   reports |-> st.reports, warnings |-> st.warnings, exit_code |-> IF Success THEN 0 ELSE 1]

Executed == command # None /\ stages = <<>> /\ raised = None

\* The result is printed, or written over whatever the file held.
Deliver ==
  /\ Executed
  /\ files' = IF command.output = None THEN files
              ELSE [files EXCEPT ![command.output] = Result(st.merged)]
  /\ End(ApplicationResult, ApplicationResult.exit_code)

\* write_text fails, before or after it has emptied the file.
WriteFails ==
  /\ Executed
  /\ command.output # None
  /\ \E content \in {files[command.output], Garbage} :
       files' = [files EXCEPT ![command.output] = content]
  /\ End(None, 1)

\* Seeded fault: what there is of the result is written when a stage fails.
HandleError_WritesPartial ==
  /\ command # None /\ raised # None
  /\ files' = IF None \in {command.output, st.merged} THEN files
              ELSE [files EXCEPT ![command.output] = Result(st.merged)]
  /\ End(None, 1)

HandleError ==
  /\ command # None /\ raised # None
  /\ End(None, 1)
  /\ UNCHANGED files

\* The outside world replaces or deletes a file, at any time.
ReplaceFile ==
  /\ \E p \in Paths : \E content \in External[p] : files' = [files EXCEPT ![p] = content]
  /\ UNCHANGED <<request, stages, st, raised, command, result, exit>>

System == StageStep \/ Deliver \/ WriteFails \/ HandleError

Next == Invoke \/ System \/ ReplaceFile

\* A started invocation goes on: one thread, and no step of it waits.
Spec == Init /\ [][Next]_vars /\ WF_vars(System)

-----------------------------------------------------------------------------
Sources == {ATS, RESUME}
Exceptions == {"RuntimeError", "ParserError", "MergeError", "ProjectionError"}
StageNames ==
  {"ats_parser", "resume_parser", "normalization", "merge",
   "confidence", "validation", "projection"}

Candidates ==
  [docs : SUBSET Documents, normalized : 0..2, scored : BOOLEAN, strict : BOOLEAN]

FileContents ==
  {NoFile, Garbage} \cup [kind : {"document"}, doc : Documents]
                    \cup [kind : {"result"}, candidate : Candidates]

CommandNames == {"parse", "merge", "transform", "validate", "project"}
Commands == [name : CommandNames, output : Outputs]

Reports ==
  [source : Sources] \cup [sources : SUBSET Sources] \cup [of : Candidates]
    \cup [of : Candidates, metadata : SUBSET Sources]
    \cup [of : Candidates, is_valid : BOOLEAN]

Projections == [format : {"canonical", "assignment"}, of : Candidates]

Requests ==
  [ats : Paths \cup {None}, resume : Paths \cup {None},
   format : Formats \cup {"canonical", None}]

PipelineStates(reported) ==
  [ats : Candidates \cup {None}, resume : Candidates \cup {None},
   merged : Candidates \cup {None}, metadata : (SUBSET Sources) \cup {None},
   projection : Projections \cup {None}, reports : [reported -> Reports],
   warnings : Seq(StageNames)]

ApplicationResults(reported) ==
  [command : CommandNames, candidate : Candidates, projection : Projections \cup {None},
   reports : [reported -> Reports], warnings : Seq(StageNames), exit_code : {0, 1}]

\* A path has one kind of suffix, a document one parser, an output is a path or
\* stdout, and the outside world puts nothing on a path but files.
ConstantsAssumption ==
  /\ ATS # RESUME
  /\ SourceOf \in [Documents -> Sources]
  /\ Suffix \in [Paths -> {"json", "resume", "other"}]
  /\ Outputs \subseteq Paths \cup {None}
  /\ \A p \in Paths : External[p] \subseteq FileContents

\* None, the absence of a value, is no value of any of these kinds.
NoneAssumption ==
  /\ None \notin Paths /\ None \notin Exceptions
  /\ \A S \in SUBSET Sources : None # S
  /\ None \notin Candidates /\ None \notin Projections
  /\ None \notin Commands
  /\ \A reported \in SUBSET StageNames : None \notin ApplicationResults(reported)

ASSUME InputsAreTyped == ConstantsAssumption
ASSUME NoneIsDistinct == NoneAssumption

TypeOK ==
  /\ files \in [Paths -> FileContents]
  /\ command \in Commands \cup {None}
  /\ request \in Requests
  /\ DOMAIN st.reports \subseteq StageNames
  /\ st \in PipelineStates(DOMAIN st.reports)
  /\ result # None => /\ DOMAIN result.reports \subseteq StageNames
                      /\ result \in ApplicationResults(DOMAIN result.reports)
  /\ raised \in Exceptions \cup {None}
  /\ exit \in {None, 0, 1}
  /\ command = None => st = EmptyState /\ stages = <<>> /\ raised = None

\* Every stage sequence the service builds supplies what its stages require,
\* whatever happens to the files meanwhile: the RuntimeErrors of the stages
\* are for other callers.
NeverMisordered == raised # "RuntimeError"

Finished == result # None

\* All parts of a result speak of the candidate it holds: the confidence and
\* validation reports and the projection were made of that very record, none
\* of them of an earlier version.
ResultIsOfOneCandidate ==
  Finished =>
    /\ \A s \in DOMAIN result.reports \cap {"confidence", "validation", "projection"} :
         result.reports[s].of = result.candidate
    /\ result.projection # None => result.projection.of = result.candidate

\* A candidate is scored with metadata that names exactly the sources it was
\* made of.
ScoredByItsSources ==
  "confidence" \in DOMAIN st.reports =>
    st.reports["confidence"].metadata = SourcesOf(st.merged)

\* A file of this program holds what a finished run delivered or what was
\* there before: no command that raises touches its output, and only a failing
\* write can leave a damaged file behind.
OutputsAreWhole ==
  [][\A p \in Paths : files'[p] # files[p] /\ command # None /\ command' = None =>
       /\ p = command.output
       /\ result' # None => files'[p] = Result(result'.candidate)
       /\ result' = None => files'[p] = Garbage /\ raised = None]_vars

\* Every invocation ends.
InvocationsEnd == command # None ~> command = None

-----------------------------------------------------------------------------
\* docs/pipeline.md: "Validation issues produce an unsuccessful
\* ApplicationResult rather than an exception."  So `validate` reports on every
\* record this program wrote: it never raises before the rules have run.
OwnResultsValidate == \A p \in Paths : files[p].kind = "result" => Loads(p)
=============================================================================
