---------------------------- MODULE Configuration ----------------------------
(***************************************************************************)
(* ConfigLoader of config/config_loader.py and the two ways configuration  *)
(* is read in build_application_service of cli/app.py: through a loader of *)
(* its own, which caches, and straight from the disk (skill aliases, merge *)
(* policy).  A load resolves its path first and opens the file afterwards; *)
(* in between, as at any time, the files and the links that lead to them   *)
(* may be changed from outside.                                            *)
(***************************************************************************)
EXTENDS Integers, FiniteSets

CONSTANTS
  None,
  Loaders, Builder,   \* the loaders; the one of build_application_service
  Paths, Files,       \* names as callers give them, and what they resolve to
  Contents,           \* what a file may hold: [read, version, ...]
  TextRank,           \* version -> its place in the order of texts
  Minimum, Current,   \* the range of versions a loader accepts
  PathOf,             \* role of a file in the service -> its path
  UsableFor,          \* role -> contents the service can be built with
  MaxEdits            \* bound on what happens to the files from outside

Roles == {"confidence", "validation", "aliases", "policy"}
Reads == {"mapping", "no mapping", "malformed", "missing", "undecodable"}
Errors == {"ConfigError", "UnicodeDecodeError", "NormalizationError", "MergeError", "unusable"}

ASSUME ContentsAssumption ==
  /\ \A c \in Contents : c.read \in Reads
  /\ None \notin Contents /\ None \notin Files /\ None \notin Errors
ASSUME NamesAssumption ==
  /\ Builder \in Loaders
  /\ PathOf \in [Roles -> Paths]

VARIABLES
  disk,       \* file -> its content
  links,      \* path -> the file it resolves to
  edits,      \* how often either was changed
  cache,      \* loader -> file -> Config, or None
  reading,    \* loader -> the file a load under way has resolved to, or None
  answer,     \* loader -> what its last load returned or raised, until it is taken
  given,      \* history: loader -> file -> the Config given since the cache was cleared
  service,    \* the service graph under construction
  held        \* history: file -> what it has held since that construction began

loaderVars == <<cache, reading, answer, given>>
vars == <<disk, links, edits, cache, reading, answer, given, service, held>>

Nothing == [f \in Files |-> None]

-----------------------------------------------------------------------------
\* Versions are compared as texts.
Supported(version) ==
  TextRank[Minimum] <= TextRank[version] /\ TextRank[version] <= TextRank[Current]

\* Seeded fault: an old version is accepted.
ErrorOf_NoMinimum(content) ==
  IF content.read = "undecodable" THEN "UnicodeDecodeError"
  ELSE IF content.read # "mapping" \/ content.version = None
          \/ TextRank[content.version] > TextRank[Current] THEN "ConfigError"
  ELSE None

\* What load raises for a content, or None.  load_yaml catches OSError and
\* YAMLError, a text that is no UTF-8 raises what it is.
ErrorOf(content) ==
  IF content.read = "undecodable" THEN "UnicodeDecodeError"
  ELSE IF content.read # "mapping" \/ content.version = None THEN "ConfigError"
  ELSE IF ~Supported(content.version) THEN "ConfigError"
  ELSE None

Answer(file, config, error) == [file |-> file, config |-> config, error |-> error]

NewService == [state |-> "building", parts |-> [r \in Roles |-> None], error |-> None]

Init ==
  /\ disk \in [Files -> Contents]
  /\ links \in [Paths -> Files]
  /\ edits = 0
  /\ cache = [l \in Loaders |-> Nothing]
  /\ reading = [l \in Loaders |-> None]
  /\ answer = [l \in Loaders |-> None]
  /\ given = [l \in Loaders |-> Nothing]
  /\ service = [NewService EXCEPT !.state = "none"]
  /\ held = [f \in Files |-> {disk[f]}]

-----------------------------------------------------------------------------
\* The load ends; the history keeps the first Config it gave for the file.
Return(l, file, config, error) ==
  /\ answer' = [answer EXCEPT ![l] = Answer(file, config, error)]
  /\ given' = [given EXCEPT ![l][file] = IF @ = None THEN config ELSE @]
  /\ reading' = [reading EXCEPT ![l] = None]

Idle(l) == reading[l] = None /\ answer[l] = None

\* ConfigLoader.load up to the cache.
Load(l, path) ==
  /\ Idle(l)
  /\ LET file == links[path]
     IN  IF cache[l][file] # None
         THEN Return(l, file, cache[l][file], None)
         ELSE /\ reading' = [reading EXCEPT ![l] = file]
              /\ UNCHANGED <<answer, given>>
  /\ UNCHANGED <<disk, links, edits, cache, service, held>>

\* Seeded fault: what was read is not remembered.
Read_NotStored(l) ==
  /\ reading[l] # None
  /\ LET content == disk[reading[l]]
         error == ErrorOf(content)
     IN  /\ UNCHANGED cache
         /\ Return(l, reading[l], IF error = None THEN content ELSE None, error)
  /\ UNCHANGED <<disk, links, edits, service, held>>

\* The rest of it: only what loads is cached.
Read(l) ==
  /\ reading[l] # None
  /\ LET content == disk[reading[l]]
         error == ErrorOf(content)
     IN  IF error = None
         THEN /\ cache' = [cache EXCEPT ![l][reading[l]] = content]
              /\ Return(l, reading[l], content, None)
         ELSE /\ Return(l, reading[l], None, error)
              /\ UNCHANGED cache
  /\ UNCHANGED <<disk, links, edits, service, held>>

\* The caller of a loader goes on with the answer.
Take(l) ==
  /\ answer[l] # None /\ l # Builder
  /\ answer' = [answer EXCEPT ![l] = None]
  /\ UNCHANGED <<disk, links, edits, cache, reading, given, service, held>>

ClearCache(l) ==
  /\ Idle(l)
  /\ cache' = [cache EXCEPT ![l] = Nothing]
  /\ given' = [given EXCEPT ![l] = Nothing]
  /\ UNCHANGED <<disk, links, edits, reading, answer, service, held>>

-----------------------------------------------------------------------------
\* Seeded fault: the loader outlives the invocation.
StartService_SharedLoader ==
  /\ service.state # "building"
  /\ service' = NewService
  /\ given' = [given EXCEPT ![Builder] = Nothing]
  /\ held' = [f \in Files |-> {disk[f]}]
  /\ UNCHANGED <<disk, links, edits, cache, reading, answer>>

\* Every invocation builds its service, with a loader of its own.
StartService ==
  /\ service.state # "building"
  /\ service' = NewService
  /\ cache' = [cache EXCEPT ![Builder] = Nothing]
  /\ given' = [given EXCEPT ![Builder] = Nothing]
  /\ held' = [f \in Files |-> {disk[f]}]
  /\ UNCHANGED <<disk, links, edits, reading, answer>>

Lacks(role) == service.state = "building" /\ service.parts[role] = None

AskFor(role) ==
  /\ Lacks(role)
  /\ role = "validation" => ~Lacks("confidence")
  /\ Load(Builder, PathOf[role])

Fail(error) == service' = [service EXCEPT !.state = "failed", !.error = error]

Install(role, file, content) ==
  service' = [service EXCEPT !.parts[role] = [file |-> file, content |-> content],
                             !.state = IF role = "policy" THEN "built" ELSE @]

\* An error ends the construction; the Config of the role that was asked for
\* is kept.
TakePart(role) ==
  /\ Lacks(role)
  /\ role = "validation" => ~Lacks("confidence")
  /\ answer[Builder] # None
  /\ answer' = [answer EXCEPT ![Builder] = None]
  /\ IF answer[Builder].error # None THEN Fail(answer[Builder].error)
     ELSE Install(role, answer[Builder].file, answer[Builder].config)
  /\ UNCHANGED <<disk, links, edits, cache, reading, given, held>>

\* Sections the engines cannot be built from: an unknown source or strategy, a
\* section that is missing.
Misconfigured ==
  \E role \in {"confidence", "validation"} : service.parts[role].content \notin UsableFor[role]

\* load_skill_aliases and load_merge_policy open their path at once, ask for no
\* version and have an error of their own for all but an undecodable file.
ReadDirectly(role, error) ==
  /\ Lacks(role) /\ ~Lacks("validation")
  /\ LET file == links[PathOf[role]]
         content == disk[file]
     IN  IF Misconfigured THEN Fail("unusable")
         ELSE IF content.read = "undecodable" THEN Fail("UnicodeDecodeError")
         ELSE IF content.read # "mapping" \/ content \notin UsableFor[role] THEN Fail(error)
         ELSE Install(role, file, content)
  /\ UNCHANGED <<disk, links, edits, loaderVars, held>>

ReadAliases == ReadDirectly("aliases", "NormalizationError")

ReadPolicy == ~Lacks("aliases") /\ ReadDirectly("policy", "MergeError")

-----------------------------------------------------------------------------
EditFile ==
  /\ edits < MaxEdits
  /\ edits' = edits + 1
  /\ \E f \in Files, c \in Contents :
       /\ disk' = [disk EXCEPT ![f] = c]
       /\ held' = [held EXCEPT ![f] = @ \cup {c}]
  /\ UNCHANGED <<links, loaderVars, service>>

Relink ==
  /\ edits < MaxEdits
  /\ edits' = edits + 1
  /\ \E p \in Paths, f \in Files : links' = [links EXCEPT ![p] = f]
  /\ UNCHANGED <<disk, loaderVars, service, held>>

Next ==
  \/ \E l \in Loaders \ {Builder}, p \in Paths : Load(l, p)
  \/ \E l \in Loaders : Read(l)
  \/ \E l \in Loaders \ {Builder} : Take(l) \/ ClearCache(l)
  \/ StartService
  \/ \E role \in {"confidence", "validation"} : AskFor(role) \/ TakePart(role)
  \/ ReadAliases \/ ReadPolicy
  \/ EditFile \/ Relink

Spec == Init /\ [][Next]_vars

-----------------------------------------------------------------------------
\* The types; what a loader keeps is always a configuration it would accept.
TypeOK ==
  /\ disk \in [Files -> Contents]
  /\ links \in [Paths -> Files]
  /\ edits \in Nat
  /\ cache \in [Loaders -> [Files -> Contents \cup {None}]]
  /\ \A l \in Loaders, f \in Files :
       cache[l][f] # None =>
         cache[l][f].read = "mapping" /\ Supported(cache[l][f].version)
  /\ reading \in [Loaders -> Files \cup {None}]
  /\ answer \in [Loaders -> {None} \cup
                   [file : Files, config : Contents \cup {None}, error : Errors \cup {None}]]
  /\ given \in [Loaders -> [Files -> Contents \cup {None}]]
  /\ service \in [state : {"none", "building", "built", "failed"},
                  parts : [Roles -> {None} \cup [file : Files, content : Contents]],
                  error : Errors \cup {None}]
  /\ held \in [Files -> SUBSET Contents]

\* A load answers with what the loader gave for that file before, by whatever
\* link, however the file has changed since, until its cache is cleared; and
\* else with what the file holds at that moment: a failure is never remembered.
Answers(l) == answer[l] = None /\ answer'[l] # None

LoadsAreCoherent ==
  [][\A l \in Loaders : Answers(l) =>
       LET a == answer'[l]
       IN  IF given[l][a.file] # None
           THEN a.config = given[l][a.file] /\ a.error = None
           ELSE /\ a.error = ErrorOf(disk[a.file])
                /\ a.config = IF a.error = None THEN disk[a.file] ELSE None]_vars

\* A service is built of files as they stood while it was being built, none
\* of what earlier invocations or other loaders have read.
BuiltOfPresentFiles ==
  \A role \in Roles :
    service.parts[role] # None =>
      service.parts[role].content \in held[service.parts[role].file]
=============================================================================
