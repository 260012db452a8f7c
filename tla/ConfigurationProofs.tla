------------------------- MODULE ConfigurationProofs -------------------------
(***************************************************************************)
(* Proofs about Configuration, for every set of loaders, paths, files and  *)
(* contents.  The cache holds exactly what has been given since it was     *)
(* last cleared, and nothing is cached of a file while it is being read:   *)
(* from that a load can only answer with what it gave before or with what  *)
(* the file holds.  That a service is built of present files needs, in     *)
(* addition, that no load of the builder's loader outlives a construction. *)
(***************************************************************************)
EXTENDS Configuration, TLAPS

CacheMirrorsAnswers == \A l \in Loaders, f \in Files : cache[l][f] = given[l][f]

OneLoadAtATime ==
  \A l \in Loaders : reading[l] # None => answer[l] = None /\ cache[l][reading[l]] = None

AnswersAreWhole ==
  \A l \in Loaders : answer[l] # None /\ answer[l].error = None => answer[l].config # None

PartsInOrder ==
  service.parts["validation"] # None => service.parts["confidence"] # None

BuilderServesConstruction ==
  reading[Builder] # None \/ answer[Builder] # None => Lacks("validation")

BuilderReadsPresentFiles ==
  /\ \A f \in Files : disk[f] \in held[f]
  /\ \A f \in Files : cache[Builder][f] # None => cache[Builder][f] \in held[f]
  /\ answer[Builder] # None /\ answer[Builder].error = None =>
       answer[Builder].config \in held[answer[Builder].file]

CacheInv == TypeOK /\ CacheMirrorsAnswers /\ OneLoadAtATime /\ AnswersAreWhole

-----------------------------------------------------------------------------
(* What a read comes to: an error of a known kind, or a configuration of a *)
(* version that is supported.                                              *)
LEMMA Outcome ==
  ASSUME NEW c \in Contents
  PROVE  /\ ErrorOf(c) \in Errors \cup {None}
         /\ ErrorOf(c) = None => c.read = "mapping" /\ Supported(c.version)
BY ContentsAssumption DEF ErrorOf, Errors

LEMMA NoneIsNothingElse ==
  /\ \A c \in Contents : c # None
  /\ \A f \in Files : f # None
  /\ \A e \in Errors : e # None
BY ContentsAssumption

(* The steps of the loaders. *)
LEMMA LoadKeepsCache ==
  ASSUME CacheInv, NEW l \in Loaders, NEW p \in Paths, Load(l, p)
  PROVE  CacheInv'
<1> DEFINE file == links[p]
<1> USE DEF CacheInv
<1>1. file \in Files /\ file # None
  BY NoneIsNothingElse DEF TypeOK
<1>2. CASE cache[l][file] # None
  <2>1. /\ answer' = [answer EXCEPT ![l] = Answer(file, cache[l][file], None)]
        /\ given' = [given EXCEPT ![l][file] = IF @ = None THEN cache[l][file] ELSE @]
        /\ reading' = [reading EXCEPT ![l] = None]
        /\ UNCHANGED <<disk, links, edits, cache, service, held>>
    BY <1>2 DEF Load, Return
  <2>2. given' = given
    BY <1>1, <1>2, <2>1 DEF CacheMirrorsAnswers, TypeOK
  <2>3. Answer(file, cache[l][file], None) \in
          [file : Files, config : Contents \cup {None}, error : Errors \cup {None}]
    BY <1>1 DEF Answer, TypeOK
  <2>4. TypeOK'
    BY <2>1, <2>2, <2>3 DEF TypeOK
  <2>5. OneLoadAtATime'
    BY <2>1 DEF OneLoadAtATime, TypeOK
  <2>6. AnswersAreWhole'
    BY <1>2, <2>1 DEF AnswersAreWhole, Answer, TypeOK
  <2> QED
    BY <2>1, <2>2, <2>4, <2>5, <2>6 DEF CacheMirrorsAnswers
<1>3. CASE cache[l][file] = None
  <2>1. /\ Idle(l)
        /\ reading' = [reading EXCEPT ![l] = file]
        /\ UNCHANGED <<answer, given, disk, links, edits, cache, service, held>>
    BY <1>3 DEF Load
  <2>2. TypeOK'
    BY <1>1, <2>1 DEF TypeOK
  <2>3. OneLoadAtATime'
    BY <1>1, <1>3, <2>1 DEF OneLoadAtATime, TypeOK, Idle
  <2> QED
    BY <2>1, <2>2, <2>3 DEF CacheMirrorsAnswers, AnswersAreWhole
<1> QED
  BY <1>2, <1>3

LEMMA ReadKeepsCache ==
  ASSUME CacheInv, NEW l \in Loaders, Read(l)
  PROVE  CacheInv'
<1> DEFINE file == reading[l]
           content == disk[file]
           error == ErrorOf(content)
<1> USE DEF CacheInv
<1>1. file \in Files /\ content \in Contents
  BY DEF Read, TypeOK
<1>2. cache[l][file] = None /\ given[l][file] = None
  BY <1>1 DEF Read, OneLoadAtATime, CacheMirrorsAnswers
<1>3. error \in Errors \cup {None}
  BY <1>1, Outcome
<1>4. CASE error = None
  <2>1. /\ cache' = [cache EXCEPT ![l][file] = content]
        /\ answer' = [answer EXCEPT ![l] = Answer(file, content, None)]
        /\ given' = [given EXCEPT ![l][file] = content]
        /\ reading' = [reading EXCEPT ![l] = None]
        /\ UNCHANGED <<disk, links, edits, service, held>>
    BY <1>1, <1>2, <1>4 DEF Read, Return, TypeOK
  <2>2. content.read = "mapping" /\ Supported(content.version)
    BY <1>1, <1>4, Outcome
  <2>3. Answer(file, content, None) \in
          [file : Files, config : Contents \cup {None}, error : Errors \cup {None}]
    BY <1>1 DEF Answer
  <2>4. \A k \in Loaders, f \in Files :
          cache'[k][f] = IF k = l /\ f = file THEN content ELSE cache[k][f]
    BY <1>1, <2>1 DEF TypeOK
  <2>5. cache' \in [Loaders -> [Files -> Contents \cup {None}]]
    BY <1>1, <2>1 DEF TypeOK
  <2>6. given' \in [Loaders -> [Files -> Contents \cup {None}]]
    BY <1>1, <2>1 DEF TypeOK
  <2>7. TypeOK'
    BY <2>1, <2>2, <2>3, <2>4, <2>5, <2>6 DEF TypeOK
  <2>8. OneLoadAtATime'
    BY <2>1, <2>4 DEF OneLoadAtATime, TypeOK
  <2>9. CacheMirrorsAnswers'
    BY <1>1, <2>1, <2>4 DEF CacheMirrorsAnswers, TypeOK
  <2>10. AnswersAreWhole'
    BY <1>1, <2>1, NoneIsNothingElse DEF AnswersAreWhole, Answer, TypeOK
  <2> QED
    BY <2>7, <2>8, <2>9, <2>10
<1>5. CASE error # None
  <2>1. /\ answer' = [answer EXCEPT ![l] = Answer(file, None, error)]
        /\ given' = [given EXCEPT ![l][file] = IF @ = None THEN None ELSE @]
        /\ reading' = [reading EXCEPT ![l] = None]
        /\ UNCHANGED <<cache, disk, links, edits, service, held>>
    BY <1>5 DEF Read, Return
  <2>2. given' = given
    BY <1>1, <1>2, <2>1 DEF TypeOK
  <2>3. Answer(file, None, error) \in
          [file : Files, config : Contents \cup {None}, error : Errors \cup {None}]
    BY <1>1, <1>3 DEF Answer
  <2>4. TypeOK'
    BY <2>1, <2>2, <2>3 DEF TypeOK
  <2>5. OneLoadAtATime'
    BY <2>1 DEF OneLoadAtATime, TypeOK
  <2>6. AnswersAreWhole'
    BY <1>5, <2>1 DEF AnswersAreWhole, Answer, TypeOK
  <2> QED
    BY <2>1, <2>2, <2>4, <2>5, <2>6 DEF CacheMirrorsAnswers
<1> QED
  BY <1>4, <1>5

(* The steps of the callers and of the outside world. *)
LEMMA TakeKeepsCache ==
  ASSUME CacheInv, NEW l \in Loaders, Take(l)
  PROVE  CacheInv'
BY DEF Take, CacheInv, TypeOK, CacheMirrorsAnswers, OneLoadAtATime, AnswersAreWhole

LEMMA ClearKeepsCache ==
  ASSUME CacheInv, NEW l \in Loaders, ClearCache(l)
  PROVE  CacheInv'
<1> USE DEF CacheInv
<1>1. TypeOK'
  BY DEF ClearCache, TypeOK, Nothing
<1>2. CacheMirrorsAnswers'
  BY DEF ClearCache, TypeOK, CacheMirrorsAnswers, Nothing
<1>3. OneLoadAtATime' /\ AnswersAreWhole'
  BY DEF ClearCache, Idle, TypeOK, OneLoadAtATime, AnswersAreWhole, Nothing
<1> QED
  BY <1>1, <1>2, <1>3

LEMMA StartKeepsCache ==
  ASSUME CacheInv, StartService
  PROVE  CacheInv'
<1> USE NamesAssumption DEF CacheInv
<1>1. NewService \in [state : {"none", "building", "built", "failed"},
                      parts : [Roles -> {None} \cup [file : Files, content : Contents]],
                      error : Errors \cup {None}]
  BY DEF NewService
<1>2. TypeOK'
  BY <1>1 DEF StartService, TypeOK, Nothing
<1>3. CacheMirrorsAnswers'
  BY DEF StartService, TypeOK, CacheMirrorsAnswers, Nothing
<1>4. OneLoadAtATime' /\ AnswersAreWhole'
  BY DEF StartService, TypeOK, OneLoadAtATime, AnswersAreWhole, Nothing
<1> QED
  BY <1>2, <1>3, <1>4

(* What becomes of the service. *)
ServiceType ==
  [state : {"none", "building", "built", "failed"},
   parts : [Roles -> {None} \cup [file : Files, content : Contents]],
   error : Errors \cup {None}]

LEMMA InstallTyped ==
  ASSUME service \in ServiceType, NEW role \in Roles,
         NEW file \in Files, NEW content \in Contents, Install(role, file, content)
  PROVE  /\ service' \in ServiceType
         /\ service'.state = IF role = "policy" THEN "built" ELSE service.state
         /\ service'.parts =
              [service.parts EXCEPT ![role] = [file |-> file, content |-> content]]
BY DEF Install, ServiceType

LEMMA FailTyped ==
  ASSUME service \in ServiceType, NEW error \in Errors, Fail(error)
  PROVE  /\ service' \in ServiceType
         /\ service'.state = "failed"
         /\ service'.parts = service.parts
BY DEF Fail, ServiceType

LEMMA TakePartEffect ==
  ASSUME CacheInv, NEW role \in {"confidence", "validation"}, TakePart(role)
  PROVE  /\ service' \in ServiceType
         /\ \/ service'.state = "failed" /\ service'.parts = service.parts
            \/ /\ service'.state = service.state
               /\ answer[Builder].error = None
               /\ service'.parts = [service.parts EXCEPT ![role] =
                    [file |-> answer[Builder].file, content |-> answer[Builder].config]]
<1> USE NamesAssumption DEF CacheInv
<1>1. /\ role \in Roles /\ role # "policy"
      /\ service \in ServiceType
      /\ answer[Builder] \in
           [file : Files, config : Contents \cup {None}, error : Errors \cup {None}]
  BY DEF TakePart, TypeOK, Roles, ServiceType
<1>2. CASE answer[Builder].error # None
  BY <1>1, <1>2, FailTyped DEF TakePart
<1>3. CASE answer[Builder].error = None
  <2>1. answer[Builder].config \in Contents
    BY <1>1, <1>3 DEF TakePart, AnswersAreWhole
  <2> QED
    BY <1>1, <1>3, <2>1, InstallTyped DEF TakePart
<1> QED
  BY <1>2, <1>3

LEMMA TakePartKeepsCache ==
  ASSUME CacheInv, NEW role \in {"confidence", "validation"}, TakePart(role)
  PROVE  CacheInv'
<1>1. service' \in ServiceType
  BY TakePartEffect
<1>2. TypeOK'
  BY <1>1, NamesAssumption DEF CacheInv, TakePart, TypeOK, ServiceType
<1> QED
  BY <1>2, NamesAssumption
  DEF CacheInv, TakePart, TypeOK, CacheMirrorsAnswers, OneLoadAtATime, AnswersAreWhole

LEMMA ReadDirectlyEffect ==
  ASSUME CacheInv, NEW role \in {"aliases", "policy"}, NEW error \in Errors,
         ReadDirectly(role, error)
  PROVE  /\ service' \in ServiceType
         /\ UNCHANGED <<disk, links, edits, loaderVars, held>>
         /\ \/ service'.state = "failed" /\ service'.parts = service.parts
            \/ /\ service'.state = IF role = "policy" THEN "built" ELSE service.state
               /\ service'.parts = [service.parts EXCEPT ![role] =
                    [file |-> links[PathOf[role]], content |-> disk[links[PathOf[role]]]]]
<1> DEFINE file == links[PathOf[role]]
<1>1. /\ role \in Roles /\ service \in ServiceType
      /\ file \in Files /\ disk[file] \in Contents
      /\ {"unusable", "UnicodeDecodeError"} \subseteq Errors
  BY NamesAssumption DEF CacheInv, TypeOK, Roles, ServiceType, Errors
<1>2. CASE \E e \in Errors : Fail(e)
  BY <1>1, <1>2, FailTyped DEF ReadDirectly
<1>3. CASE Install(role, file, disk[file])
  BY <1>1, <1>3, InstallTyped DEF ReadDirectly
<1> QED
  BY <1>1, <1>2, <1>3 DEF ReadDirectly

LEMMA ReadDirectlyKeepsCache ==
  ASSUME CacheInv, NEW role \in {"aliases", "policy"}, NEW error \in Errors,
         ReadDirectly(role, error)
  PROVE  CacheInv'
<1>1. service' \in ServiceType /\ UNCHANGED <<disk, links, edits, loaderVars, held>>
  BY ReadDirectlyEffect
<1>2. TypeOK'
  BY <1>1 DEF CacheInv, TypeOK, ServiceType, loaderVars
<1> QED
  BY <1>1, <1>2 DEF CacheInv, CacheMirrorsAnswers, OneLoadAtATime, AnswersAreWhole, loaderVars

LEMMA OutsideKeepsCache ==
  ASSUME CacheInv, EditFile \/ Relink
  PROVE  CacheInv'
<1> USE DEF CacheInv
<1>1. CASE EditFile
  <2>1. PICK f \in Files, c \in Contents :
           /\ disk' = [disk EXCEPT ![f] = c]
           /\ held' = [held EXCEPT ![f] = @ \cup {c}]
    BY <1>1 DEF EditFile
  <2>2. disk' \in [Files -> Contents]
    BY <2>1 DEF TypeOK
  <2>3. held' \in [Files -> SUBSET Contents]
    BY <2>1 DEF TypeOK
  <2>4. edits' \in Nat /\ UNCHANGED <<links, cache, reading, answer, given, service>>
    BY <1>1 DEF EditFile, TypeOK, loaderVars
  <2>5. TypeOK'
    BY <2>2, <2>3, <2>4 DEF TypeOK
  <2> QED
    BY <2>4, <2>5 DEF CacheMirrorsAnswers, OneLoadAtATime, AnswersAreWhole
<1>2. CASE Relink
  <2>1. links' \in [Paths -> Files]
    BY <1>2 DEF Relink, TypeOK
  <2>2. /\ edits' \in Nat
        /\ UNCHANGED <<disk, cache, reading, answer, given, service, held>>
    BY <1>2 DEF Relink, TypeOK, loaderVars
  <2>3. TypeOK'
    BY <2>1, <2>2 DEF TypeOK
  <2> QED
    BY <2>2, <2>3 DEF CacheMirrorsAnswers, OneLoadAtATime, AnswersAreWhole
<1> QED
  BY <1>1, <1>2

LEMMA CacheInvInductive == CacheInv /\ [Next]_vars => CacheInv'
<1> SUFFICES ASSUME CacheInv, [Next]_vars PROVE CacheInv'
  OBVIOUS
<1>1. ASSUME NEW l \in Loaders, NEW p \in Paths, Load(l, p) PROVE CacheInv'
  BY <1>1, LoadKeepsCache
<1>2. ASSUME NEW role \in {"confidence", "validation"}, AskFor(role) PROVE CacheInv'
  BY <1>2, LoadKeepsCache, NamesAssumption DEF AskFor, Roles
<1>3. ASSUME ReadAliases \/ ReadPolicy PROVE CacheInv'
  BY <1>3, ReadDirectlyKeepsCache DEF ReadAliases, ReadPolicy, Errors
<1>4. CASE UNCHANGED vars
  BY <1>4 DEF CacheInv, TypeOK, CacheMirrorsAnswers, OneLoadAtATime, AnswersAreWhole,
              vars, loaderVars
<1> QED
  BY <1>1, <1>2, <1>3, <1>4, ReadKeepsCache, TakeKeepsCache, ClearKeepsCache,
     StartKeepsCache, TakePartKeepsCache, OutsideKeepsCache DEF Next

LEMMA CacheInvInitially == Init => CacheInv
<1> SUFFICES ASSUME Init PROVE CacheInv
  OBVIOUS
<1>1. service \in ServiceType
  BY DEF Init, NewService, ServiceType
<1>2. /\ cache \in [Loaders -> [Files -> Contents \cup {None}]]
      /\ given = cache
      /\ \A l \in Loaders, f \in Files : cache[l][f] = None
  BY DEF Init, Nothing
<1>3. TypeOK
  BY <1>1, <1>2 DEF Init, TypeOK, ServiceType
<1> QED
  BY <1>2, <1>3 DEF Init, CacheInv, CacheMirrorsAnswers, OneLoadAtATime, AnswersAreWhole

(* Every reachable state is well typed: no loader ever keeps a file it     *)
(* would have refused, and every answer is of a known kind.                *)
THEOREM TypeCorrect == Spec => []TypeOK
<1>1. CacheInv => TypeOK
  BY DEF CacheInv
<1> QED
  BY <1>1, CacheInvInitially, CacheInvInductive, PTL DEF Spec

-----------------------------------------------------------------------------
(* A load that ends answers with what was given for its file before, or    *)
(* else with what the file holds.                                          *)
CoherentAnswer(l) ==
  Answers(l) =>
    LET a == answer'[l]
    IN  IF given[l][a.file] # None
        THEN a.config = given[l][a.file] /\ a.error = None
        ELSE /\ a.error = ErrorOf(disk[a.file])
             /\ a.config = IF a.error = None THEN disk[a.file] ELSE None

LEMMA LoadIsCoherent ==
  ASSUME CacheInv, NEW k \in Loaders, NEW p \in Paths, Load(k, p), NEW l \in Loaders
  PROVE  CoherentAnswer(l)
<1> DEFINE file == links[p]
<1>1. file \in Files
  BY DEF CacheInv, TypeOK
<1>2. CASE k = l /\ cache[l][file] # None
  <2>1. answer'[l] = Answer(file, cache[l][file], None)
    BY <1>2 DEF Load, Return, CacheInv, TypeOK
  <2>2. given[l][file] = cache[l][file]
    BY <1>1 DEF CacheInv, CacheMirrorsAnswers
  <2> QED
    BY <1>2, <2>1, <2>2 DEF CoherentAnswer, Answer
<1>3. CASE ~(k = l /\ cache[l][file] # None)
  <2>1. answer'[l] = answer[l]
    BY <1>3 DEF Load, Return, CacheInv, TypeOK
  <2> QED
    BY <2>1 DEF CoherentAnswer, Answers
<1> QED
  BY <1>2, <1>3

LEMMA ReadIsCoherent ==
  ASSUME CacheInv, NEW k \in Loaders, Read(k), NEW l \in Loaders
  PROVE  CoherentAnswer(l)
<1> DEFINE file == reading[k]
           error == ErrorOf(disk[file])
           config == IF error = None THEN disk[file] ELSE None
<1>1. file \in Files /\ given[k][file] = None
  BY DEF Read, CacheInv, TypeOK, OneLoadAtATime, CacheMirrorsAnswers
<1>2. answer' = [answer EXCEPT ![k] = Answer(file, config, error)]
  BY DEF Read, Return
<1>3. CASE k = l
  <2>1. answer'[l] = Answer(file, config, error)
    BY <1>2, <1>3 DEF CacheInv, TypeOK
  <2> QED
    BY <1>1, <1>3, <2>1 DEF CoherentAnswer, Answer
<1>4. CASE k # l
  <2>1. answer'[l] = answer[l]
    BY <1>2, <1>4 DEF CacheInv, TypeOK
  <2> QED
    BY <2>1 DEF CoherentAnswer, Answers
<1> QED
  BY <1>3, <1>4

(* No other step ends a load.                                              *)
LEMMA OthersAnswerNothing ==
  ASSUME CacheInv, NEW l \in Loaders,
         \/ \E k \in Loaders : Take(k) \/ ClearCache(k)
         \/ StartService
         \/ \E role \in {"confidence", "validation"} : TakePart(role)
         \/ ReadAliases \/ ReadPolicy
         \/ EditFile \/ Relink
         \/ UNCHANGED vars
  PROVE  answer'[l] = answer[l] \/ answer'[l] = None
<1>1. ASSUME NEW k \in Loaders, Take(k) \/ ClearCache(k)
      PROVE  answer'[l] = answer[l] \/ answer'[l] = None
  BY <1>1 DEF Take, ClearCache, CacheInv, TypeOK
<1>2. ASSUME NEW role \in {"confidence", "validation"}, TakePart(role)
      PROVE  answer'[l] = answer[l] \/ answer'[l] = None
  BY <1>2 DEF TakePart, CacheInv, TypeOK
<1>3. ASSUME ReadAliases \/ ReadPolicy
      PROVE  answer'[l] = answer[l]
  BY <1>3 DEF ReadAliases, ReadPolicy, ReadDirectly, loaderVars
<1>4. ASSUME StartService \/ EditFile \/ Relink \/ UNCHANGED vars
      PROVE  answer'[l] = answer[l]
  BY <1>4 DEF StartService, EditFile, Relink, loaderVars, vars
<1> QED
  BY <1>1, <1>2, <1>3, <1>4

LEMMA StepIsCoherent ==
  ASSUME CacheInv, [Next]_vars, NEW l \in Loaders
  PROVE  CoherentAnswer(l)
<1>1. ASSUME NEW k \in Loaders, NEW p \in Paths, Load(k, p) PROVE CoherentAnswer(l)
  BY <1>1, LoadIsCoherent
<1>2. ASSUME NEW role \in {"confidence", "validation"}, AskFor(role) PROVE CoherentAnswer(l)
  BY <1>2, LoadIsCoherent, NamesAssumption DEF AskFor, Roles
<1>3. ASSUME NEW k \in Loaders, Read(k) PROVE CoherentAnswer(l)
  BY <1>3, ReadIsCoherent
<1>4. ASSUME answer'[l] = answer[l] \/ answer'[l] = None PROVE CoherentAnswer(l)
  BY <1>4 DEF CoherentAnswer, Answers
<1> QED
  BY <1>1, <1>2, <1>3, <1>4, OthersAnswerNothing DEF Next

(* Whatever happens to files and links between the two halves of a load,   *)
(* what a loader answers for a file does not change until its cache is     *)
(* cleared, and a failed load leaves nothing behind.                       *)
THEOREM LoadsAreCoherentHolds == Spec => LoadsAreCoherent
<1>1. CacheInv /\ [Next]_vars => [\A l \in Loaders : Answers(l) =>
       LET a == answer'[l]
       IN  IF given[l][a.file] # None
           THEN a.config = given[l][a.file] /\ a.error = None
           ELSE /\ a.error = ErrorOf(disk[a.file])
                /\ a.config = IF a.error = None THEN disk[a.file] ELSE None]_vars
  BY StepIsCoherent DEF CoherentAnswer
<1> QED
  BY <1>1, CacheInvInitially, CacheInvInductive, PTL DEF Spec, LoadsAreCoherent

-----------------------------------------------------------------------------
(* What a service is built of.                                             *)
PresentInv ==
  PartsInOrder /\ BuilderServesConstruction /\ BuilderReadsPresentFiles /\ BuiltOfPresentFiles

LEMMA LoadKeepsPresent ==
  ASSUME CacheInv, PresentInv, NEW l \in Loaders, NEW p \in Paths, Load(l, p),
         l = Builder => Lacks("validation")
  PROVE  PresentInv'
<1> USE NamesAssumption DEF CacheInv, PresentInv
<1>1. /\ UNCHANGED <<disk, cache, service, held>>
      /\ l # Builder => answer'[Builder] = answer[Builder] /\ reading'[Builder] = reading[Builder]
      /\ \/ answer'[Builder] = answer[Builder]
         \/ /\ answer'[Builder] = Answer(links[p], cache[Builder][links[p]], None)
            /\ cache[Builder][links[p]] # None /\ links[p] \in Files
  BY DEF Load, Return, TypeOK
<1>2. PartsInOrder' /\ BuiltOfPresentFiles'
  BY <1>1 DEF PartsInOrder, BuiltOfPresentFiles
<1>3. BuilderServesConstruction'
  BY <1>1 DEF BuilderServesConstruction, Lacks
<1>4. BuilderReadsPresentFiles'
  BY <1>1 DEF BuilderReadsPresentFiles, Answer
<1> QED
  BY <1>2, <1>3, <1>4

LEMMA ReadKeepsPresent ==
  ASSUME CacheInv, PresentInv, NEW l \in Loaders, Read(l)
  PROVE  PresentInv'
<1> DEFINE file == reading[l]
           error == ErrorOf(disk[file])
           config == IF error = None THEN disk[file] ELSE None
<1> USE NamesAssumption DEF CacheInv, PresentInv
<1>1. /\ UNCHANGED <<disk, service, held>>
      /\ answer' = [answer EXCEPT ![l] = Answer(file, config, error)]
      /\ reading' = [reading EXCEPT ![l] = None]
      /\ \/ cache' = cache
         \/ cache' = [cache EXCEPT ![l][file] = disk[file]]
      /\ file \in Files
  BY DEF Read, Return, TypeOK
<1>2. PartsInOrder' /\ BuiltOfPresentFiles'
  BY <1>1 DEF PartsInOrder, BuiltOfPresentFiles
<1>3. BuilderServesConstruction'
  BY <1>1 DEF BuilderServesConstruction, Lacks, Read, TypeOK
<1>4. ASSUME NEW f \in Files
      PROVE  cache'[Builder][f] = cache[Builder][f] \/ cache'[Builder][f] = disk[f]
  <2>1. CASE cache' = cache
    BY <2>1
  <2>2. CASE cache' = [cache EXCEPT ![l][file] = disk[file]]
    <3>1. cache \in [Loaders -> [Files -> Contents \cup {None}]]
      BY DEF TypeOK
    <3>2. cache'[Builder][f] =
            IF Builder = l /\ f = file THEN disk[f] ELSE cache[Builder][f]
      BY <1>1, <2>2, <3>1
    <3> QED
      BY <3>2
  <2> QED
    BY <1>1, <2>1, <2>2
<1>5. answer'[Builder] # None /\ answer'[Builder].error = None =>
        answer'[Builder].config \in held[answer'[Builder].file]
  <2>1. CASE l = Builder
    BY <1>1, <2>1 DEF BuilderReadsPresentFiles, Answer, TypeOK
  <2>2. CASE l # Builder
    BY <1>1, <2>2 DEF BuilderReadsPresentFiles, TypeOK
  <2> QED
    BY <2>1, <2>2
<1>6. BuilderReadsPresentFiles'
  BY <1>1, <1>4, <1>5 DEF BuilderReadsPresentFiles
<1> QED
  BY <1>2, <1>3, <1>6

LEMMA CallersKeepPresent ==
  ASSUME CacheInv, PresentInv, NEW l \in Loaders \ {Builder}, Take(l) \/ ClearCache(l)
  PROVE  PresentInv'
<1>1. /\ UNCHANGED <<disk, reading, service, held>>
      /\ answer'[Builder] = answer[Builder]
      /\ cache'[Builder] = cache[Builder]
  BY NamesAssumption DEF Take, ClearCache, CacheInv, TypeOK
<1> QED
  BY <1>1 DEF PresentInv, PartsInOrder, BuilderServesConstruction, Lacks,
              BuilderReadsPresentFiles, BuiltOfPresentFiles

LEMMA StartKeepsPresent ==
  ASSUME CacheInv, PresentInv, StartService
  PROVE  PresentInv'
<1> USE NamesAssumption DEF CacheInv, PresentInv
<1>1. reading[Builder] = None /\ answer[Builder] = None
  BY DEF StartService, BuilderServesConstruction, Lacks
<1>2. /\ UNCHANGED <<disk, reading, answer>>
      /\ \A f \in Files : cache'[Builder][f] = None /\ held'[f] = {disk[f]}
      /\ \A r \in Roles : service'.parts[r] = None
  BY DEF StartService, NewService, Nothing, TypeOK
<1>3. {"confidence", "validation"} \subseteq Roles
  BY DEF Roles
<1> QED
  BY <1>1, <1>2, <1>3 DEF PartsInOrder, BuilderServesConstruction, BuilderReadsPresentFiles,
                          BuiltOfPresentFiles

(* A part that is installed as its file stands, or stood.                  *)
LEMMA InstalledIsPresent ==
  ASSUME service \in ServiceType, BuiltOfPresentFiles, UNCHANGED held,
         NEW role \in Roles, NEW file \in Files, NEW content \in held[file],
         \/ service'.parts = service.parts
         \/ service'.parts =
              [service.parts EXCEPT ![role] = [file |-> file, content |-> content]]
  PROVE  BuiltOfPresentFiles'
BY DEF BuiltOfPresentFiles, ServiceType

LEMMA TakePartKeepsPresent ==
  ASSUME CacheInv, PresentInv, NEW role \in {"confidence", "validation"}, TakePart(role)
  PROVE  PresentInv'
<1> USE NamesAssumption DEF CacheInv, PresentInv
<1>1. /\ service \in ServiceType /\ role \in Roles
      /\ {"confidence", "validation"} \subseteq Roles
      /\ answer[Builder] \in
           [file : Files, config : Contents \cup {None}, error : Errors \cup {None}]
  BY DEF TakePart, TypeOK, Roles, ServiceType
<1>2. /\ UNCHANGED <<disk, cache, reading, held>>
      /\ answer'[Builder] = None
      /\ reading[Builder] = None
  BY DEF TakePart, OneLoadAtATime, TypeOK
<1>3. /\ answer[Builder] # None
      /\ role = "validation" => service.parts["confidence"] # None
      /\ answer[Builder].error = None =>
           answer[Builder].config \in held[answer[Builder].file]
  BY DEF TakePart, Lacks, BuilderReadsPresentFiles
<1>4. \/ service'.parts = service.parts
      \/ /\ answer[Builder].error = None
         /\ service'.parts = [service.parts EXCEPT ![role] =
              [file |-> answer[Builder].file, content |-> answer[Builder].config]]
  BY TakePartEffect
<1>5. PartsInOrder'
  <2>1. CASE service'.parts = service.parts
    BY <2>1 DEF PartsInOrder
  <2>2. CASE /\ answer[Builder].error = None
             /\ service'.parts = [service.parts EXCEPT ![role] =
                  [file |-> answer[Builder].file, content |-> answer[Builder].config]]
    <3>1. service.parts \in [Roles -> {None} \cup [file : Files, content : Contents]]
      BY <1>1 DEF ServiceType
    <3>2. CASE role = "validation"
      BY <1>1, <1>3, <2>2, <3>1, <3>2
      DEF PartsInOrder
    <3>3. CASE role = "confidence"
      <4>1. service.parts["validation"] = None
        BY <3>3 DEF TakePart, Lacks, PartsInOrder
      <4> QED
        BY <1>1, <2>2, <3>1, <3>3, <4>1 DEF PartsInOrder
    <3> QED
      BY <3>2, <3>3
  <2> QED
    BY <1>4, <2>1, <2>2
<1>6. BuiltOfPresentFiles'
  <2>1. CASE service'.parts = service.parts
    BY <1>2, <2>1 DEF BuiltOfPresentFiles
  <2>2. CASE answer[Builder].error = None
    BY <1>1, <1>2, <1>3, <1>4, <2>2, InstalledIsPresent
  <2> QED
    BY <1>4, <2>1, <2>2
<1>7. BuilderServesConstruction' /\ BuilderReadsPresentFiles'
  BY <1>2 DEF BuilderServesConstruction, BuilderReadsPresentFiles
<1> QED
  BY <1>5, <1>6, <1>7

LEMMA ReadDirectlyKeepsPresent ==
  ASSUME CacheInv, PresentInv, NEW role \in {"aliases", "policy"}, NEW error \in Errors,
         ReadDirectly(role, error)
  PROVE  PresentInv'
<1> DEFINE file == links[PathOf[role]]
<1> USE NamesAssumption DEF CacheInv, PresentInv
<1>1. /\ service \in ServiceType /\ role \in Roles
      /\ {"confidence", "validation"} \subseteq Roles
      /\ role # "confidence" /\ role # "validation"
      /\ file \in Files
  BY DEF TypeOK, Roles, ServiceType
<1>2. UNCHANGED <<disk, cache, reading, answer, held>>
  BY ReadDirectlyEffect DEF loaderVars
<1>3. \/ service'.parts = service.parts
      \/ service'.parts = [service.parts EXCEPT ![role] = [file |-> file, content |-> disk[file]]]
  BY ReadDirectlyEffect
<1>4. reading[Builder] = None /\ answer[Builder] = None
  BY DEF ReadDirectly, BuilderServesConstruction
<1>5. disk[file] \in held[file]
  BY <1>1 DEF BuilderReadsPresentFiles
<1>6. PartsInOrder'
  BY <1>1, <1>3 DEF PartsInOrder, ServiceType
<1>7. BuiltOfPresentFiles'
  BY <1>1, <1>2, <1>3, <1>5, InstalledIsPresent
<1> QED
  BY <1>2, <1>4, <1>6, <1>7 DEF BuilderServesConstruction, BuilderReadsPresentFiles

LEMMA OutsideKeepsPresent ==
  ASSUME CacheInv, PresentInv, EditFile \/ Relink
  PROVE  PresentInv'
<1> USE NamesAssumption DEF CacheInv, PresentInv
<1>1. UNCHANGED <<cache, reading, answer, service>>
  BY DEF EditFile, Relink, loaderVars
<1>2. \A f \in Files : held[f] \subseteq held'[f] /\ disk'[f] \in held'[f]
  <2>1. CASE Relink
    BY <2>1 DEF Relink, BuilderReadsPresentFiles
  <2>2. CASE EditFile
    <3>1. PICK g \in Files, c \in Contents :
             /\ disk' = [disk EXCEPT ![g] = c]
             /\ held' = [held EXCEPT ![g] = @ \cup {c}]
      BY <2>2 DEF EditFile
    <3>2. disk \in [Files -> Contents] /\ held \in [Files -> SUBSET Contents]
      BY DEF TypeOK
    <3>3. \A f \in Files : disk[f] \in held[f]
      BY DEF BuilderReadsPresentFiles
    <3>4. ASSUME NEW f \in Files
          PROVE  held[f] \subseteq held'[f] /\ disk'[f] \in held'[f]
      <4>1. CASE f = g
        <5>1. held'[f] = held[f] \cup {c} /\ disk'[f] = c
          BY <3>1, <3>2, <4>1
        <5> QED
          BY <5>1
      <4>2. CASE f # g
        <5>1. held'[f] = held[f] /\ disk'[f] = disk[f]
          BY <3>1, <3>2, <4>2
        <5> QED
          BY <3>3, <5>1
      <4> QED
        BY <4>1, <4>2
    <3> QED
      BY <3>4
  <2> QED
    BY <2>1, <2>2
<1>3. /\ answer[Builder] # None => answer[Builder].file \in Files
      /\ \A r \in Roles : service.parts[r] # None => service.parts[r].file \in Files
  BY DEF TypeOK
<1>4. BuilderReadsPresentFiles' /\ BuiltOfPresentFiles'
  BY <1>1, <1>2, <1>3 DEF BuilderReadsPresentFiles, BuiltOfPresentFiles
<1> QED
  BY <1>1, <1>4 DEF PartsInOrder, BuilderServesConstruction, Lacks

LEMMA PresentInvInductive == CacheInv /\ PresentInv /\ [Next]_vars => PresentInv'
<1> SUFFICES ASSUME CacheInv, PresentInv, [Next]_vars PROVE PresentInv'
  OBVIOUS
<1>1. ASSUME NEW l \in Loaders \ {Builder}, NEW p \in Paths, Load(l, p) PROVE PresentInv'
  BY <1>1, LoadKeepsPresent
<1>2. ASSUME NEW role \in {"confidence", "validation"}, AskFor(role) PROVE PresentInv'
  <2>1. Lacks("validation")
    BY <1>2 DEF AskFor, Lacks, PresentInv, PartsInOrder
  <2> QED
    BY <1>2, <2>1, LoadKeepsPresent, NamesAssumption DEF AskFor, Roles
<1>3. ASSUME ReadAliases \/ ReadPolicy PROVE PresentInv'
  BY <1>3, ReadDirectlyKeepsPresent DEF ReadAliases, ReadPolicy, Errors
<1>4. CASE UNCHANGED vars
  BY <1>4 DEF PresentInv, PartsInOrder, BuilderServesConstruction, Lacks,
              BuilderReadsPresentFiles, BuiltOfPresentFiles, vars, loaderVars
<1> QED
  BY <1>1, <1>2, <1>3, <1>4, ReadKeepsPresent, CallersKeepPresent, StartKeepsPresent,
     TakePartKeepsPresent, OutsideKeepsPresent DEF Next

LEMMA PresentInvInitially == Init => PresentInv
<1> SUFFICES ASSUME Init PROVE PresentInv
  OBVIOUS
<1>1. /\ {"confidence", "validation"} \subseteq Roles
      /\ \A r \in Roles : service.parts[r] = None
  BY DEF Init, NewService, Roles
<1> QED
  BY <1>1, NamesAssumption
  DEF Init, Nothing, PresentInv, PartsInOrder, BuilderServesConstruction,
      BuilderReadsPresentFiles, BuiltOfPresentFiles

(* Every part of a service was read from its file during the construction: *)
(* the builder's cache starts empty, and no load outlives a construction.  *)
THEOREM BuiltOfPresentFilesHolds == Spec => []BuiltOfPresentFiles
<1>1. CacheInv /\ PresentInv => BuiltOfPresentFiles
  BY DEF PresentInv
<1> QED
  BY <1>1, CacheInvInitially, CacheInvInductive, PresentInvInitially, PresentInvInductive, PTL
  DEF Spec
=============================================================================
