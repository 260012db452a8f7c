# Candidate data transformer: a TLA+ model

The repository turns an applicant-tracking (ATS) record and a resume into one
canonical candidate record: it parses and normalizes each source, merges them
into a *golden record* with a report of how every field was decided, scores
the result, validates it and projects it into an output format. It is a
sequential command-line program; what is hard about it is not concurrency
but

- data structures that have to agree while a loop rewrites both (the merge of
  identity-keyed lists),
- precedence: which source decides a field, who is given credit, and who is
  reported as having disagreed,
- stages that hand each other optional pieces of one mutable state,
- documents cut into lines, sections, entries and items, where a line must end
  up with its own entry,
- models that check what they are built from but not what is copied, and
- files, of data and of configuration, that outlive a command and may change
  under it.

## Inventory

Paths are relative to `src/src/transformer/`.

| Component | State | Operations | What makes it correct |
| --- | --- | --- | --- |
| `merge/resolvers.py`, `merge/identity.py` | the list being merged, the dictionary of kept items | union of lists by identity, gap filling | both structures agree; first usable value wins; nothing lost, invented or reordered |
| `merge/strategies.py` | none | four strategies over source values | the policy's ranks alone decide; disagreement is seen |
| `merge/merge_engine.py`, `merge/policy.py`, `merge/report.py` | keyword arguments, provenance, records, warnings | resolve each field, construct the golden record | provenance follows the value; the report accounts for every source, and for every disagreement where the strategy compares values; one candidate always merges |
| `pipeline/` | `PipelineState` | seven stages, `Pipeline.execute` | each stage finds what it needs; all parts of a result are about one candidate |
| `application/service.py`, `cli/` | the invocation; files between invocations | parse, merge, validate, project, transform | exit codes tell the truth; outputs are whole; a command ends |
| `confidence/` | running score, weighted sums, trace | score each field, average | scores stay in range; the fields that are present decide the average; order of strategies |
| `validation/` | issues, executed and failed rules | fourteen rules in order | every rule runs; the verdict is that of the blocking issues |
| `projection/` | none | two projections, a registry | formatting only |
| `normalizers/` | none | normalize one candidate by `model_copy` | a fixed point is reached at once; no entry is lost; what comes out would still be accepted |
| `parsers/ats_*`, `parsers/*_validator.py` | none | check the file, read it, check its shape, map it | a record is accepted or refused as a whole; every error is one of the parser's |
| `parsers/resume/` | text blocks, sections, line automata, pending entry | reading order, name, sections, list items, experience lines, education lines, graceful mapping | a section is an unbroken run of lines; a line goes to its own entry; a bad entry costs only itself |
| `config/` | cache of loaded files, service under construction | load, clear, build the service | a cache answers one thing per file until it is cleared; a service is built of present files |
| `models/` | none (frozen) | validators | a constructed record is well-formed |

The command line builds an `ApplicationService`, which builds a list of stages
for `Pipeline.execute`; `MergeStage` calls `MergeEngine`, which calls a
resolver per field, which applies a strategy, which for lists calls the merge
loop. Everything is a plain call; the only shared mutable state is the
`PipelineState` of one run, and the only thing that outlives a run is a file.

## Modules

| Module | Models | Notes |
| --- | --- | --- |
| `Lists` | the list comprehension with a condition, and de-duplication | operators only; shared by most modules |
| `SequenceLemmas` | lemmas about concatenation, selection, first occurrences and order of sequences | used by every proof module that reasons about lists |
| `ItemUnion` | `identity_key`, `_fill_missing_fields`, and what the merge loop makes of a whole list | shared by the next five |
| `KeyedUnion` | what a merge of identity-keyed lists promises | abstract specification |
| `StructuredMerge` | `StructuredListResolver._make_merge_fn` | one step per iteration of the inner loop |
| `StructuredMergeProofs` | theorems about `StructuredMerge` | |
| `MergeStrategies` | `merge/strategies.py`, `_merge_flat` | operators only |
| `MergeEngine` | `MergeEngine.merge`, the resolvers' dispatch, `Candidate`'s validators | one step per field |
| `MergeEngineProofs` | theorems about `MergeEngine` and the strategies | |
| `Pipeline` | `PipelineState`, the seven stages, `Pipeline.execute` | one action per stage |
| `CommandLine` | `ApplicationService`, `cli/app.py`, the files | extends `Pipeline` |
| `CommandLineProofs` | theorems about `CommandLine` and the stages of `Pipeline` | |
| `Confidence` | `ConfidenceAggregator`, its four strategies, the metadata adapter, `build_strategies` | one step per strategy and field |
| `ConfidenceProofs` | theorems about `Confidence` | |
| `ResumeLines` | the line classes the next modules share | constants only |
| `ResumeDocument` | `_validate_resume_file`, `TextExtractor`, `NameDetector`, `SectionDetector` | one step per phase, and per section header |
| `ListItems` | `extract_list_items`, `extract_languages` | operators only |
| `ExperienceLines` | `_build_experience_entries` with its two flows | one step per line |
| `EducationLines` | `_build_education_entries` | one step per line |
| `ResumeParser` | `ResumeParser.parse`, `_assemble` and `ResumeMapper` | composes the four modules above with the mapping |
| `ResumeParserProofs` | theorems about `ResumeParser` and the modules it composes | |
| `CanonicalModels` | the validators of `models/` | operators only |
| `ATSMapper` | `SchemaValidator`, `ATSMapper` | operators only |
| `Normalization` | `NormalizationEngine` and its normalizers | operators only |
| `Validation` | the fourteen rules, `build_default_registry`, `ValidationReport.from_issues` | operators only |
| `Intake` | `ATSParser.parse` and the stages that follow it for one source, down to `ValidationEngine.run` | composes the four modules above; one step per phase and per rule |
| `IntakeProofs` | theorems about `Intake` and the operators it composes | |
| `Configuration` | `ConfigLoader`, `load_yaml`, `load_skill_aliases`, `load_merge_policy`, `build_application_service` | one step per read |
| `ConfigurationProofs` | theorems about `Configuration` | |
| `MCStructuredMerge`, `MCMergeEngine`, `MCCommandLine`, `MCConfidence`, `MCResumeParser`, `MCIntake`, `MCConfiguration` | instances for TLC | |

### How the state corresponds to the code

**StructuredMerge.** `seen` and `merged` are the local variables of `_merge`;
`queue` is the concatenation of the lists that the two nested `for` loops walk
and `pos` how far they are. `AppendNew`, `FillExisting` and `KeepExisting` are
the branches of the loop body: unknown key, known key with gaps to fill, known
key without. An item is a function from attribute names to values, a blank is
`None` or the empty string, and `Norm` gives what of a value takes part in a
key (`identity._norm` lower-cases and drops punctuation). `merged.index(existing)`
is the first position holding an *equal* item, as in Python, and that it is the
right one is proved, not assumed. `MergeEngine` needs the result only, and takes
it from `MergeStructured`, which says of the whole list which item begins each
entry and which fills each gap; that the loop computes just this is checked and
proved here.

**Lists.** A comprehension that keeps some elements is `At(list, positions)`, the
elements at the positions that qualify, in their order; one that drops
repetitions keeps the positions where a key first occurs (`Firsts`). A stable
sort by rank is the concatenation of the elements of each rank.

**MergeEngine.** A candidate is its values, the confidence each field carries
and whether it has provenance; its parser writes a provenance entry for each
field with a value, so an entry is the pair of the candidate and the field.
`kwargs`, `provenance`, `records` and `warnings` are the local variables of
`merge`. `ResolveField` is one turn of either loop with `_apply_result` and
`_record`; `RefuseField` and `RefuseEmptyBatch` are the `MergeError`s;
`Construct` and `RefuseGolden` are the call of `Candidate(**kwargs)`, whose
before-validators deduplicate (certifications by name alone) and whose maximum
lengths may refuse. The `contact.` prefix of five fields, which only changes
names, and the schema version, copied from the first candidate, are left out.

**Pipeline and CommandLine.** A candidate is known by the documents it was made
of, by how often it has been normalized, by whether it has been scored and by
whether its JSON would satisfy the models' validators (`strict`). What parsers,
rules and the merge make of given documents is fixed by constants, so that one
document stands for each thing that may be found in one. `st` is
`PipelineState`, `stages` the stages still to run, `raised` the exception that
ended the run. Each command of the CLI is an operator that either begins a run
or is rejected before one (a missing file, a suffix nobody parses, a record
that does not load); `Deliver`, `WriteFails` and `HandleError` are the ways
`_invoke` ends. `ReplaceFile` is the outside world: any input may be replaced
or deleted at any moment, in particular between the check that it exists and
the moment it is read. A source document given to `validate` or `project` is
refused, because the candidate model forbids fields it does not know; this
supposes that the document has at least one such field (every ATS record with
contact details has).

**Confidence.** Scores are integers, `Scale` standing for 1.0, and weights are
integers too, so sums and clamps are exact; the rounding of Python's floats and
the wording of reasons are left out. `View` is `_FieldMergeView`: `Metadata`
builds it from the records of a merge, with the view of `contact` put together
from its sub-fields (`Children`, `Resolve`), or from a single source.
`RunStrategy` is one turn of the inner loop of `aggregate`, `Restart` and
`FinishField` what stands before and after it, `Report` the average;
`RefuseOrder` is the error of `build_strategies` for a name it does not know.
The average is not divided out: `Average` keeps the two sums and the properties
multiply. (`default_field_weight` stands in the configuration file, but no code
reads it.)

**ResumeDocument.** A line is one of a small set of kinds, which say what the
regular expressions and word lists find in it. A document is the sequence of
its lines as they stand on the page; a line belongs to a block and has a page,
row and column (PDF) or a source (DOCX: body, table, header, footer). `Extracted`
is the order the extractor puts them in: PDF blocks by page, row and column, of a
DOCX all paragraphs, then all table cells, then page headers and footers.
The sort is stated by `Rank`, the number of spans that come before one, because the
library's `SortSeq` says nothing to a proof. `DetectName` tries the block at the top, then the first five lines.
`DetectSection` is one turn of the loop of `SectionDetector.detect`: the lines
between two headers become the body of a section unless it has one already.
The steps and their order are those of `ResumeParser.parse`; `reading` holds the
next one, or the error that ended it. Not represented: headers that consist of
two lines of one block.

**ListItems.** A line of a list section is a sequence of tokens: parentheses, a
separator, a hyphen, a category label, a number on its own, or a word. The
operators are the functions of `extractors.py` in the order they are called:
labels off, lines with an open parenthesis joined to the next, split at
separators outside parentheses, stripped, and de-duplicated without regard to
case; for languages the proficiency is taken off and they are de-duplicated
again. Each loop is a recursive function of the number of elements handled, with one
operator per turn (`JoinNext`, `SplitStep`, `KeepNew`). What the lists should be is
said without a loop, from positions: a separator counts unless a parenthesis
opened before it is still open (`Inside`), and `PartsOf` is the text between those.

**ExperienceLines, EducationLines, ResumeParser.** A text is the sequence of the
parts of lines it is made of, so that a property can tell where a name came
from. In `ExperienceLines`, `flow` names the loop that runs: `route` is the outer
`while`, `pipe` its inner one, `newline` the two of the newline flow, whose
`header_lines` are `header` and whose entry begins with `dated`. In
`EducationLines` the pending attributes are positions of lines; `field_of_study`
always comes and goes with `degree`. `ResumeParser` reads the document, builds
the lists and runs one automaton after the other, as `_assemble` does, and maps
the fields in the order of `map_candidate`: each entry has an outcome, one of
the model, `MappingError` (skipped) and `ValidationError` (not caught there:
`RefuseEntry`). Not represented: the stripping of a trailing location from a
company. The automaton reads an entry from its institution on: a degree before
the first institution is lost, and one that precedes a later institution is
given to the institution before it, in the code as in the model. A line with
both a degree and a date range counts as a date line only, so its degree is
lost.

**Intake.** A record is a JSON object with every field it knows, `None` standing
for one that is absent or null and `Scalar` for any value that is neither a
text, an array nor an object; a list field says what JSON value stands there and
what `list()` would make of it. What `str.strip`, `str.lower`, `clean`,
`title_case_name`, phonenumbers, the patterns of the rules and pydantic's own
types make of a text are tables, so that the model says *where* they are applied
and the instance what they do. `phase` is the next step of the pipeline:
`ValidateFile`, `LoadJson`, `ValidateSchema` and `MapCandidate` are
`ATSParser.parse`, `Normalize` and `Score` the stages after it, `RunRule` one
turn of the engine's loop. `ReplaceFile` is the outside world, between the check
of the file and its being read; what is read then is not checked again (its
size, for one). Unknown fields, which are only logged, are left out.

**Configuration.** A content says how reading it ends, its version and a body
that tells contents apart. `cache` is `ConfigLoader._cache`. A load is two steps,
`Load` (resolve the path, look in the cache) and `Read` (open the file), because
`EditFile` and `Relink` may come between them. `answer` is what the caller has of
it. The loader `Builder` is the one `build_application_service` makes; `AskFor`,
`TakePart`, `ReadAliases` and `ReadPolicy` are the lines of that function, and an
error of any of them ends it. `given` and `held` are history: what a loader
has given for a file since its cache was cleared, and what a file has held since
the construction of the service began. That several loaders exist is the
code's: projections make their own.

## Runs

| Run | Question | Bounds |
| --- | --- | --- |
| `structured_merge` | Does the merge loop keep its promises for certifications, identity (name, issuer)? | every sequence of up to 3 of 36 items |
| `merge_engine` | Is every field decided, credited and reported as the policy says? | up to 2 candidates of 24 contents from either source, up to 3 of a smaller set; 5 policies |
| `merge_certifications` | Does the report describe the golden record? *(violated)* | as above |
| `command_line` | Do sessions of commands on changing files behave? | 4 paths, 5 documents, unbounded sessions |
| `own_results` | Is what the program writes accepted by `validate`? *(violated)* | as above |
| `confidence` | Are scores explained by their trace, the overall score decided by the fields that have a value, conflicts penalised and never rewarded? | every merge of two candidates over 4 recorded fields, and single candidates of either source; 3 strategy orders; a source with a weight and one without; scores in tenths |
| `absent_fields` | Do absent fields leave the average? *(violated)* | as above |
| `agreement_bonus` | Does a bonus for agreement mean that sources agreed? *(violated)* | as above |
| `resume_parser` | Is each section read as it stands, and does each line go to its entry and each entry to the candidate? | one section of up to 3 lines of any kind (up to 4 of the common kinds); two sections; 3 to 5 lines of varied structure; unreadable files |
| `graceful_mapping` | Does a bad entry cost only itself? *(violated)* | as above |
| `intake` | Is an ATS record accepted or refused as a whole, kept whole, and judged by every rule? | one field, or two together, varied at a time; lists of up to 3 or 4 entries |
| `configuration` | Are loads coherent and services built of present files, whatever happens to the files? | 2 files, 2 paths, 2 loaders, 8 contents, 2 changes from outside |

**Bounds.** The properties of the merge loop relate at most two positions and
the items that decided them: three items are enough for a fill followed by a
second fill of the same entry, for an append between them, and for an item
whose identity attribute is itself filled ("-" has no letters, so it fills a
missing issuer under the same key); the theorems then remove the bound. In
`MergeEngine` fields do not influence each other before the construction, so
one field per kind of decision suffices and scalars and lists vary separately;
two candidates give every combination of ranks, scores, blanks and sources,
three give a third voice; the maximal length is 2, reached by one candidate and
passed by two. The field of `first_non_empty` has two values as well, so that it
meets the disagreement it does not report. In `CommandLine` sessions have no bound: contents and candidates
are finite, so TLC explores every reachable session.
In `Confidence` fields do not influence each other before the average: a scalar,
a union and the two sub-fields of a contact are the kinds of decision there are.
Only one of the two sources has a weight, so that an absent field scores
something before `missing_field` takes it away, or nothing at all.
In `ResumeParser` an entry takes its lines from the stretch between the start of
the one before and the start of the next: four lines hold two entries with a
header or a bullet to lose between them, and three lines of every kind hold each
kind beside each. The structural family varies what sections depend on: headers
that repeat, have nothing under them or share a block, rows, columns and pages,
tables and page headers; five lines hold two sections of one name with a stop
section between.
In `Intake` fields are mapped, normalized and checked independently of each
other, so each is varied while the others are well-formed; only jobs and studies
are varied together, because the duplicate rules number both. Three entries are
needed for a repetition that does not follow what it repeats, and the maxima of
lists are lowered to 1, 2 and 3 so that they are passed. Two companies and two
schools have a "|" in their names, placed so that two different entries share one
key of the duplicate rules; others share a company and differ in the title.
In `Configuration` two files and two paths are enough for a link that leads
elsewhere between two steps of a load, two changes for one during each of two
loads, or one that is undone; one content has a version that is too old and one a
version that is too new; the theorems remove these bounds.

**Properties, and the seeded faults that break them.** Beside each definition
that a property guards stands a mutated form of it, marked *seeded fault*: a
dictionary that is not updated, a fill that overwrites, a sort that is dropped
or that collapses a source, provenance taken from any candidate, stages in
another order, partial output, an entry appended before the lines ahead of it, a
last flush forgotten, a later section that replaces the first, a comparison of
neighbours only, a loader that outlives its invocation. TLC finds
each property violated under its fault, so none of them holds by the shape of
the model.

**Fairness.** `CommandLine` is the only specification with a liveness property:
a started invocation ends. It assumes weak fairness of the program's own steps
(`System`), which is what a single thread without any waiting gives; nothing is
assumed of the user or of the outside world. The other specifications state
safety only: their loops are bounded `for` loops over finite lists.

**Where the code and its documentation part.** Five runs end in a violation, each
of a sentence in the repository:

- `own_results`: validation issues are promised as an unsuccessful result, not
  an exception; a record whose merge left dates out of order (`model_copy` in
  the gap fill runs no validator) is refused while it is loaded.
- `merge_certifications`: the report describes "exactly" how the golden record
  was built; the model drops a certification the report lists.
- `agreement_bonus`: the strategy is documented to reward fields where sources
  "independently agreed"; it rewards any two contributors without a recorded
  conflict, also when each supplied a different part.
- `graceful_mapping`: an invalid entry is to be skipped "rather than failing the
  whole parse"; an entry refused by the model's own validators (dates in the
  wrong order, a start in the future, an empty bullet as the description) fails
  the whole parse.
- `absent_fields`: a field whose value is absent everywhere is to be excluded from
  the average (`aggregator.py:64`, `strategies.py:212`); it is excluded only if
  `missing_field` lowered its score (`aggregator.py:104`). Where no source of the
  field has a weight, or the strategy is configured to run first, there was nothing
  to take away, and the field stays in the denominator with a score of zero.
  `PresentFieldsDecide` says what does hold: an absent field has a score
  of zero, every present field counts, and the best of these bounds the average.
  In the shipped configuration both sources have a weight, so there it is excluded.

**Noted while modelling.** The models follow the code in each of these; no run
is made of them.

- `resolvers.py:247`: a merged entry of the education list may end before it
  starts, although `cross_field_rules.py:16` says the models enforce the order.
- `merge_engine.py:154`: provenance in the report is keyed by source, so of two
  candidates of one source the last overwrites the first (`report.py:28` says
  "never overwritten").
- `strategies.py:50`, `resolvers.py:42`, `report.py:24` and `config/merge_policy.yaml:12`
  speak of every conflict between differing values. `first_non_empty` never reports one
  (its `conflict` is always false). `DisagreementsCanBeTold` says that a
  disagreement is recorded under the other strategies, and that under this
  one the provenance still names both sources.
- `duplicate_rules.py:53` and `:97` join the parts of a key with "|" without
  escaping it, so that two different entries may share one ("X|Y" with "Z", "X"
  with "Y|Z") and be flagged as duplicates.
- `ats_mapper.py:171`: the skills of an experience entry are taken apart by `list()`,
  so that a string becomes one skill per character and is accepted, although
  the schema checks refuse a string for the skills of the record itself.
- `config/skill_aliases.yaml:9` says that parentheses are stripped before an
  alias is looked up; `skill_normalizer.py` only cleans and lower-cases.
- `text_extractor.py:31`: `order` is called a reading-order position, but the
  tables, page headers and footers of a DOCX come after all paragraphs, and the
  rows of a two-column PDF interleave.
- `SectionDetector` never reads `is_isolated`, and one of its aliases,
  "licenses & certifications", cannot be matched by the text it is compared with.
- `name_detector.py`: the block at the top may be taken for a name although it is
  a section header of two words ("Work Experience"); only the scan of lines asks.
- `_extract_header_text` ends at section headers but not at stop headers, so a
  location may be read inside a summary.
- `extractors.py:163` counts parentheses wherever they stand: a line such as
  "a) b (c," is not joined to the line that closes its parenthesis.
- `schema_validator.py:80` announces checks of scalar types that are left to the
  models.
- `ConfigLoader` compares versions as texts, and lets a `UnicodeDecodeError`
  escape although callers "should only ever need to catch one exception type"
  (`config_loader.py:128`); `AssignmentProjection` raises its `ConfigError` where
  a `ProjectionError` is documented.
- `normalization_engine.py:6` says that the engine is idempotent. A segment of a name
  that is a single letter whose capital is two of them is not settled at once:
  "ß" becomes "SS", and "SS" becomes "Ss" (`string_normalizer.py:65`). Nor is an alias
  file refused in which a canonical skill is an alias of another.
- Languages and certifications may repeat after cleaning; only skills are
  de-duplicated again.

## Proofs

Every invariant and action property of the passing runs is proved for all values
of the constants, except `InvocationsEnd`, a liveness property. Each proof
module ends its argument in the same way: an inductive invariant, one lemma
per action or conjunct that says the action keeps it, and a theorem that combines
them. The sections below say what the invariant adds to the property, since that is
where the argument lies.

**Assumptions.** All are named `ASSUME`s in the modules, which TLC evaluates on
every run; nothing else is assumed. Most say what kind of value a constant is.
Those with content are these.

- `MergeEngine`: the loader lets no policy without a priority pass and there are
  two sources, so at most one of two sources is not ranked (`RanksAssumption`; two
  unranked sources would be ordered by the batch). Candidates satisfy their model
  (`CandidatesAssumption`): required fields, lengths, no blank string in a list.
- `Confidence`: a field that the golden record lacks was empty in every source,
  its sub-fields too, so nobody contributed to it and nothing was in conflict
  (`MergesAssumption`).
- `Intake`: facts about the tables of texts. Cleaning is idempotent and removes
  what `strip` removes; a text that is not blank does not become blank; aliases
  lead to canonical skills that are no alias of another one (true of the shipped
  `skill_aliases.yaml`). `FixedPointsAssumption` says of each single text that
  title case, the E.164 form, lower case and the aliases settle at once; it is what
  reduces a statement about candidates to one about the library functions, and it
  does not hold of every name (see below). `CaseAssumption` says that texts which differ in case
  alone still do when cleaned. It does not hold of every Unicode text: NFKC makes
  another letter of a lunate sigma, and may move the end of a word past a sigma.
  The theorems about `Intake` are of records without such texts. `Mailbox` and
  `Url` are what `EmailStr` and `AnyHttpUrl` make of a text they accept; what they
  make has the shape the format rules ask for (`ContactsAssumption`).
  `PiecesAssumption` says what dividing a text at its "|" characters gives: one
  piece or more, and the text itself if it has no such character.
- Resume modules: a document has a sequence of spans (`SpansAreSequences`), the list
  marker makes a line of a line (`MarkedIsLine`), a line is told as a sequence of
  tokens (`TokensAreTexts`), and `None` is neither a position, nor a text made of
  parts of lines, nor a refusal (`NoneAssumption`, `RefusalsAreNotNone`).
- `CommandLine`: what is in a document is fixed per document, as everywhere in
  that module, and `None` is none of the other values.

**Lists** (`SequenceLemmas`). The library's induction theorems take an operator as
a parameter, which the provers cannot instantiate. For natural numbers a set does
as well: `LeastElement` and `SetInduction` are stated of a set, and the lemmas
about lists rest on them. `ConcatenationExists` and `ConcatenationIsUnique` show
that the recursion of `FlattenSeq` has exactly one solution, `FlattenPlaces` where
in it each element lies, `AtPicks` that a selection holds the elements of its
positions in their order, `FirstOfKey` and `FirstsDiffer` that de-duplication
keeps each key once, `AtGrows` and `AtWhole` what a selection is when it gains a
position or has them all. `LoopExists` and `LoopTyped` give a loop as a function of
the number of turns: the recursive functions of the models have the values
that their equations say. The models state their loops over lists in one of these
two ways because a fold gives a proof nothing to hold on to.

**Merge loop** (`StructuredMergeProofs`): all properties that the run checks. The
inductive invariant is `Core == TypeOK /\ SeenMirrorsMerged`. Type correctness
alone is not inductive: `merged.index(existing)` is only known to
hit an element because the dictionary's objects are elements of the list, and it
is only known to hit the right one because no two entries share a key; neither
survives a fill unless a fill keeps the key. Hence the lemmas, in this order:
`FillIsItem`, `FillKeepsKey` (an identity attribute is only filled from an item
with the same key), `IndexFindsIt`, and one lemma per action saying what it
does to list and dictionary (`AppendEffect`, `FillEffect`, `KeepEffect`). The
other invariants are inductive relative to `Core`; `FirstUsableWins` also needs
`NothingInvented`, which no run states. No run states `NeverOverwritten` either, that a
step neither changes a usable value nor moves its entry: it says of steps what
`FirstUsableWins` and `FirstSeenOrder` say of states, and is proved as well. `Refinement` shows that `AppendNew` is an
`Introduce` of `KeyedUnion`, `FillExisting` an `Enrich`, and `KeepExisting` a
stutter, with `entries` mapped to the set of elements of the list.
`LoopComputesMergeStructuredHolds` links the loop to the declarative form that
`MergeEngine` uses: by `FirstUsableWins` and `BlankAsIntroduced` (an attribute
nobody could fill is as the introducing item had it, `None` or the empty string)
each entry is the gathered one, and by `FirstSeenOrder` it stands at its place.

**Merge engine** (`MergeEngineProofs`): all six invariants. First the strategies,
as lemmas about operators: `OrderedFacts` (the sorted values are the non-empty
ones, in ascending rank), and one lemma per strategy that says whose value it
chooses and when it reports a conflict (`SourcePriorityDecides`,
`FirstNonEmptyDecides`, `HighestConfidenceDecides`, `UnionDecides`), collected in
`ResolveDecides`. `MergeInv` carries the conclusions through the loop, together
with the fact that only resolved fields are warned about. `OrderIrrelevant` needs
`ResolveMirrored`, that with one candidate per source each rank has at most one
value, so that the sort has one outcome (`AscendingIsUnique`); `ReportInv` says
that the report and the keyword arguments hold the resolutions themselves.
`UnionLosesNothing` follows from `UnionHasEachItem`, without bounds on candidates
or lists. `SingleInv` shows that one candidate's fields resolve to themselves, so
that the construction cannot refuse them.

**Command line** (`CommandLineProofs`): all invariants and `OutputsAreWhole`. The
invariant is `CommandInv`. It lists the sequences of stages that can still lie
ahead (`Plans` names the suffixes of what the five use cases build) and what each
of them can rely on (`Supplied`): before the merge, two parsed candidates and
nothing of a later stage; before scoring, metadata that tell the sources of the
candidate (`Sourced`); after it, reports about that very candidate (`Agreed`). A
file that is replaced in between changes what is parsed, not what is supplied.
`NeverMisordered` is then that `Supplied` contradicts each `RuntimeError`.

**Confidence** (`ConfidenceProofs`): all six invariants, for every set of fields,
weights, order of strategies and merge.

- `OverallIsAnAverage`: `SumsBounded` carries two inequalities through the loop:
  what has been added to the weighted sum is at least the lower and at most the
  upper bound times the weight added so far. The sums alone say nothing about the
  scores they were made of.
- `RewardExcludesPenalty`: `NotesJustified` ties each note to the view of the field
  it was made for, which the loop does not change.
- `ConflictIsPenalisedHolds`: `PenaltiesComplete` says that every turn of the inner
  loop that had a conflict to penalise has; `ConflictOfRecords` relates the
  view of a parent field to the records of its sub-fields.
- `PresentFieldsDecideHolds`: `AbsenceSoFar` follows the score of an absent
  field through the strategies. Only `source_weight` can raise it, nothing brings it
  back to zero before `missing_field` does, and a field without weight has nothing
  to take, which is why it stays in the average. It adds nothing to the sum of
  scores there, so the best of the present fields bounds what is reported.
- `TraceExplainsScoresHolds`: `TraceSoFar` says the same of the fields done, of the
  one under way and of those to come.

**Resume parser** (`ResumeParserProofs`): all seven invariants.

- `AttributesStay`: an education entry is made of attributes that were pending for
  many lines, so the property of entries alone is not inductive: `EducationInv`
  adds `PendingBelongs`, that no heading was read since the pending institution and
  that every pending attribute was read after it. That it is re-established at
  a heading rests on the reset of every attribute there, also for a school that is
  skipped.
- `DegreesAreKeptHolds`: `DegreesSoFar` says of each institution and its first
  degree line where the degree is: awaited, pending, or in an entry.
- `SectionsHold`: `BodiesTellTheText` says at every header passed that the bodies
  are those of the first headers so far, and `RunUntilNextHeader` that the slice
  between two headers is the unbroken run.
- `EntriesAreGroupedHolds`: the property says from positions alone which lines make a
  group, looking ahead for the next date; the code keeps two cursors and three lists.
  `GroupInv` says, for each of the loops, that `experience` is the grouping of the
  lines before the stretch under way (`Built`), and what of that stretch is where:
  collected and not handed over (`Routing`), in the header, the date or the bullets
  of the newline flow (`Running`), or attached to a pipe line (`Attaching`). It needs
  that what is pending is an unbroken run without pipe lines (`PendingInv`).
- `CandidateTellsTheResumeHolds`: `MapperInv` says of the entries looked at so far
  which have been mapped. That two entries share no line and stand in order is a fact
  about the grouping, from the theorem before.
- `ListsTellTheSectionsHolds`: `LinesInv` says that sections hold lines, for which
  `RanksAreTaken` shows that every place in the extractor's order is taken by a span. The rest is
  about operators. `JoiningTells`: joining lines loses no token and leaves no line
  open but the last. `DepthTells`: the depth that the splitter counts is zero
  exactly outside parentheses; when it is not, it is the excess of opening over
  closing parentheses since a position from which every prefix has one, which is how
  a closing parenthesis without an opening one is told from a real one
  (`SplitStep` clamps there). `SplittingTells`: the parts so far end at the cuts so far
  (`CutsGrow`, `PartsGrow`). `DistinctTells`: the loop that keeps new items keeps
  those that have not stood before.
- `TypeCorrect` joins them with the cursors of both automata (`ExperienceTyped`: a
  hand-over ends within the pending lines it was given).

**Intake** (`IntakeProofs`): all six invariants. `IntakeInv` says what each
phase knows: data that were read are the record of some file there was, data past
the schema check satisfy it, and the candidate is what the mapper, the normalizers
and the scores make of *that* record, although the file may be another by then.
`ValidatedIsAccepted` then reduces each property to an operator lemma.
`DefenceFindsNothing` goes through the rules that are kept for defence;
`DuplicatesAreFlaggedHolds` shows that the rule's walk flags the positions whose
key stands earlier. Keys are joined names, so this is not the same as a repeated
entry: repetitions have equal keys and are all flagged, while an entry flagged without
being a repetition needs a "|" in it and in the one before, because a key made of
names without one has two pieces only (`JoinedNames`; `AppendedAlike` takes the
date off first).
`RefusalsAreParserErrorsHolds` goes through the steps that can refuse a file
(`RefusalsStep`): whatever the file has become by the time it is read, the
answer is one of the parser's own errors. `NothingSkippedHolds` is carried from the mapping
(`MappedStands`) through the normalizers (`NormalizedStands`) to the end.
`NormalizationIsIdempotentHolds` follows from `NormalizedIsSettled`: every field
that a normalizer writes is one it would leave. Text by text that is
`FixedPointsAssumption`; of the lists of skills it is not, since an alias may make
one skill of two that were spelled differently. `SkillsStay` shows that
`normalize_skills` compares them after the aliases, so that what it keeps has no
repetition left for a second pass to drop.

**Configuration** (`ConfigurationProofs`): all three properties, for any number of
changes from outside and every way versions may be ordered.

- `TypeCorrect` and `LoadsAreCoherentHolds` rest on `CacheInv`: beside the types,
  `CacheMirrorsAnswers` (a cache holds exactly what its loader has given since it
  was cleared), `OneLoadAtATime` (a loader with a load under way has given no
  answer yet, and has nothing cached for the file it resolved to), and
  `AnswersAreWhole` (an answer has a configuration or an error). The second is
  what makes two steps of one load safe: `given` cannot change between them,
  whatever the links do.
- `BuiltOfPresentFilesHolds` needs `PresentInv` as well: the builder's loader
  serves the construction alone and was cleared when it began
  (`BuilderServesConstruction`, `BuilderReadsPresentFiles`), and parts are
  installed in their order (`PartsInOrder`), so what it has cached or answered is
  in the history of the file.

**Only model-checked.**

- `InvocationsEnd` of `CommandLine`: liveness under fairness is beyond TLAPS.
- That the fixed texts of `FixedPointsAssumption` and the other tables are those of the
  library functions: the instances give a few texts each, written out by hand.
- The five properties of the runs that end in a violation: they are false.

## Plan

1. *(done)* The merge of identity-keyed lists, with its abstract specification
   and proofs: the heart of the program.
2. *(done)* The merge engine on top of it, and the pipeline, service and
   command line that call it, with proofs.
3. *(done)* `Confidence`, with proofs.
4. *(done)* The resume parser from the file to the candidate, with proofs of its
   sections, its education and experience entries, its lists and the candidate.
5. *(done)* `Intake`: the ATS record from the file to the validation report, with
   proofs.
6. *(done)* `Configuration`: the caching loader and the construction of the
   service, with proofs.

What could be added: the projection driven by a YAML file, once a command uses it, and
the two-line headers and trailing locations that `ResumeDocument` and `ResumeParser`
leave out.

## Not modelled

The JSON shape of the projections and their YAML-driven mode, which the command
line cannot reach: a conversion without state. PyMuPDF, python-docx, pydantic's
own types, phonenumbers and the regular expressions that recognise e-mail
addresses, phone numbers, URLs, dates, degrees and locations: they appear as
constants that say what is found in a line or a text. The wording of issues,
reasons and messages, logging, timings, and float rounding. The legacy
`run_pipeline` function and the validators of confidence and provenance records,
which only code fills.
