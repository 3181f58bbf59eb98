# BidExpert: a TLA+ model

TLA+ modules, TLC configurations and TLAPS proofs about the bid-writing server in
`src/app`. The server takes a tender package apart, has an outline confirmed by a user,
drafts the outline's sections with language models, validates and renders them, reviews
and scores the bid, and retrieves its evidence from a library of standards. Everything
below refers to the code under `src/`; line numbers are in `PROJECT.json` (`map`,
`hazards`, `findings`).

1. [The system](#1-the-system)
2. [Modules](#2-modules)
3. [Runs, bounds and fairness](#3-runs-bounds-and-fairness)
4. [Where the code departs from its documents](#4-where-the-code-departs-from-its-documents)
5. [Proofs](#5-proofs)
6. [What is not modelled](#6-what-is-not-modelled)
7. [Plan](#7-plan)

## 1. The system

Three kinds of processes share a database, a Redis server, a vector store and a directory of
files: the API processes (FastAPI handlers), the Celery workers, and the users' browsers.
A handler validates, writes a row and puts a task on the broker; a worker takes the task and
works through its steps. Celery runs with its default early acknowledgement (no
`acks_late`), so a task whose worker dies is not delivered again. Transient errors
(`worker/tasks.py: _TRANSIENT_TASK_ERRORS`) are retried `settings.task_max_retries` times with a delay.

| Component | State | Operations | Interacts with |
|---|---|---|---|
| Section workflow (`workflow_runs.py`, `workflow_artifacts.py`, the stage tasks of `tasks.py`, the handlers) | one `WorkflowRun` row; a JSON file per section and gate; the `SectionContent` rows and the project's `Requirement` rows | create, confirm outline, enqueue a section, confirm a section; stages G1 extract, G2 generate, G3 validate, G4 render | broker, draft generation, renderer |
| Generation run (`generation_run_orchestrator.py`) | one `GenerationRun` row: `step_results`, `resume_from_step`, counters, the redline status | `run_step`, `resume_run` | step handlers (none is wired in the repository); whoever writes the redline status |
| Tender import (`tender/pipeline.py`, `tender_tasks.py`, `endpoints/tender.py`, the extractors, `fatal_gate.py`) | one `TenderRun` row, the `derived/` files, `import_report.json`, addendum rows | upload, twelve pipeline steps, the fatal gate, retry | broker, assets, sections (an addendum marks them stale) |
| Tender analysis (`tender_analysis.py`, `tender_parser.py`) | the run's items, written in one transaction | read requirements and key points | gateway |
| Model gateway (`llm_gateway.py`, `concurrency_limiter.py`, `routing_optimizer.py`) | slot counters and routing statistics, in Redis and per process | a call through a fallback chain; an ensemble of reviewers | providers, profiles |
| Draft generation (`generation_pipeline.py`, `evidence_validator.py`, `semantic_cache.py`, `disqualification_matrix.py`, `global_facts.py`, `section_router.py`, `pricing_guard.py`) | semantic cache in Redis and per process, evidence links | one draft from request to answer; cache invalidation | gateway, knowledge base, budget |
| Budget and audit (`governance.py`, `llm_audit.py`) | the project's row, a Redis hash per project, a process's dictionary | reserve | draft generation |
| Knowledge base (`expert_library.py`, `lifecycle_manager.py`, `qdrant_store.py`) | document, version and run rows; vectors with payloads; conversion sessions and thresholds as files | ingest, deprecate, convert, confirm, edit thresholds, search | draft generation, statistics |
| Provider profiles (`byok/profiles.py`, `secrets/`, the profile handlers) | profile rows, secrets in row, Redis or vault, a policy per project | create, delete, bind, resolve, qualify | gateway |
| Review, redline and scoring (`review_engine.py`, `scoring_engine.py`, `redline_engine.py`, `redline_v2.py`, `mandatory_clause_service.py`) | reports, scores, audit rows | review a section or the document, score, override | sections, gateway, assets |
| Bid team matching (`personnel_matcher.py`, `assets/repository.py`) | none | match | assets |
| Statistics (`stats.py`) | none | aggregate, recommend thresholds | knowledge base |

What is hard in them, in the order of importance:

* **Interleaving through one row.** Every section of an outline reports into the same
  `WorkflowRun` row, the handler updates that row *after* it sent the chain, and the outline's
  status is read without a lock before it is used.
* **Products on disk.** A stage that finds its product file reuses it whoever made it; files
  are truncated and then filled; two chains of one section may both miss the file.
* **Two stores for one thing.** Rows and vectors, rows and secrets, rows and derived files,
  Redis and the process's own dictionary are written one after the other, without a
  transaction around both.
* **Read, then use.** Scoring reads three tables in three transactions while sections are
  rewritten; a call reads policy, row and key while the profile is deleted; routing
  statistics are changed without a lock.
* **Crashes and retries.** Between a handler's commit and its enqueue, between a step's
  files and its row, between a provider's answer and the release of its slot.
* **Error paths with errors of their own.** The import's failure handler may fail; a rendering
  error is a product like any other; a commit may fail before or after it is kept.
* **Judgements over texts.** Whether a gate opens, which hit is served and what a reviewer's
  vote counts is decided by functions whose branches a handful of examples does not cover.

What makes each component correct is listed with the runs (section 3); the hazards, each at
its line, with the properties that cover it, are in `PROJECT.json`.

## 2. Modules

```
MCSection ── SectionWorkflow ─────────── SectionWorkflow_proofs
MCGenerationRun ── GenerationRun ─────── GenerationRun_proofs
                        └ refines StepSequence
TenderImport ─────────────────────────── TenderImport_proofs
ModelGateway ─────────────────────────── ModelGateway_proofs
MCKnowledge ── KnowledgeBase ─────────── KnowledgeBase_proofs
MCDraft ── DraftGeneration ───────────── DraftGeneration_proofs
                ├ DraftJudgements
                └ TokenBudget ─ refines TokenLedger (three times)
MCProviders ── ProviderProfiles ──────── ProviderProfiles_proofs
                └ RoutingStats
MCReview ── BidReview ────────────────── Judgements_proofs
                ├ RedlineGate
                └ ReviewJudgements
MCLibrary ── ExpertLibrary ───────────── KnowledgeBase_proofs
                └ DocumentConversion
MCJudgements ── Judgements ───────────── Judgements_proofs
                ├ Retrieval
                ├ LibraryStatistics
                └ TenderReading ── ReviewJudgements
```

Mutant operators (`...Unguarded`, `...Mutant` and the like, each with a comment of its own) are
the plausible bugs each property is tested against; they are not part of any specification.

### SectionWorkflow

The `WorkflowRun` row is `run`, with one action per `with_for_update` transaction. `product[s][g]`
is the file `G<g>.json` of section `s`: absent, `Torn` (truncated or half written), or its
origin (which request's text it was computed from), its facts (from which request's text the facts it
was drafted with were extracted) and the status it records. `output` is the
section's content row: title, requirement codes, text and status, which need not all come from the same
request. `requirement` is the project's `Requirement` row of the first code: the parser numbers every text's
requirements from REQ-0001, so every section saved overwrites it. A request `c` passes through the handler (`api[c]`) and through its chain
of four stage tasks (`task[c]`, `gate[c]`, `retries[c]`), which hold in memory the payload they
read or computed (`held[c]`) and the extract and the draft in the chain's context (`extract[c]`, `draft[c]`).

| Action | Code |
|---|---|
| `ConfirmOutline`, `ConfirmSection` | the confirmation handlers and `workflow_runs.py` |
| `CheckRequest`, `Dispatch`, `DispatchFails`, `MarkPending`, `ApiCrash` | `enqueue_section_workflow_handler`: the unlocked check, `apply_async`, the 503, and `mark_section_pending`, which comes after the chain was sent |
| `Load`, `LoadTorn` | `load_gate_artifact` at the head of a stage; a truncated file raises `ValueError`, which is not retried |
| `Produce`, `FillFile` | the stage's computation and the two halves of `write_text` |
| `HandOver` | progress in the row, then the next task of the chain (G1 to G3) |
| `SaveOutput`, `Finish` | the end of G4: `_persist_pipeline_outputs`, which swallows its errors, then the row |
| `StageError`, `UnrecordedError`, `WorkerCrash` | an exception that is recorded, one that cannot be recorded, a dead worker |

A clause, draft or document is abstracted to origin and status: whether the text is any good is
not the workflow's concern, whose text it is, is. `NEED_HUMAN_INPUT` stands for every generation
status but `SUPPORTED`, which the code treats alike. The code does nothing to prevent two chains of one
section in flight together. The history variable `overlapped` remembers the sections that ever had two
(`MaxOverlapped` bounds how many, for TLC); `DeliveredWhatWasDrafted` leaves those out, since two chains that write
the same four files mix their requests.

### GenerationRun and StepSequence

`run_step` holds the row's lock from its first read to its commit, so it is one step:
`Succeed`, `Fail`, or one of the early returns (`Skipped`, `IsBlocked`, `Exhausted`) in the order of
the code. `WriteRedlineStatus` sets or clears the redline status at any moment, also under way: in the
repository nothing but a test writes it, and `run_step` reads it anew in every call and writes back the copy it
read, so what a handler reports does not reach it. `resume_run` is `ResumeStart` (the unlocked read of the pointer) followed by
`ResumeStep`s. `DieInStep` is a caller that dies after the handler ran and before the commit;
`Redeliver` a `run_step` call from elsewhere. `calls` is a ghost: how often each handler has run.

`StepSequence` is the promise: the steps take effect in order, each once (`Advance`), and none past the
barrier while a redline closes it (`Redline` closes and opens). `GenerationRun` implements it with `done` as the number of steps
before the pointer and `closed` as the status in the row (`ImplementsSequence`).

`OutOfOrder = FALSE` states what the code takes for granted of its callers: nobody calls
`run_step` for a step the run has not reached. `run_step` does not check it; `resume_run`, its only
caller in the repository, observes it (and is proved to).

### TenderImport

`step` is `run.current_step`, numbered by `_STEP_ORDER`, with `FATAL_BLOCKED` and `FAILED` after it.
A step is two actions, files first (`DeriveFiles`, `CheckGate`, `Additions`) and row second
(`CommitStep`, `Ready`, `Block`), with a crash, a failing commit or a raising extractor in between. A
step that raises is caught (`MarkFailed`) unless the handler's own update fails
(`MarkFailedFails`); then, and for the steps without a `try`, the exception reaches the
task (`HandleEscape`, `RetryOrFail`), whose own update may fail as well.
`Start` is the resume logic: a retried task starts at the step that was
committed last, executing it again.

The package is `unmet`: does it demand qualifications, personnel or deposits the assets cannot
meet? `check_fatal_gate` blocks those and, when an asset query fails, may block others. How the
gate comes to its verdict is in `TenderReading`.

### ModelGateway

A call is at one of its attempts (`left[c]` are the profiles it has not tried). `AcquireRedis` is
`_ACQUIRE_LUA`, `AcquireLocal` the fallback counter of the process, `AcquireReplyLost` the script that
ran although its reply was lost. `ReleaseRedis` and `ReleaseLocal` are the slot's `finally`. Redis
goes down and comes back, processes die with their calls, and the key of the counter expires.
The order of the profiles is arbitrary here; it is `RoutingStats`' subject. The key's
time to live starts with the first holder and is not renewed, so `Expire` may come at any moment, also under
holders; the history variable `lapsed` remembers how many there were when it last did.

### KnowledgeBase

A request brings up to `MaxFiles` documents, either uploads or the categories of the structured
form, and works on them one after the other; `phase[r]` is where it is with document `at[r]`. A
document is its `year`: the version of the one standard modelled (versions of different standards
do not touch each other), or 0 when no version is recognised. `row`, `ingest` and `vector` are what
the database and the vector store hold of it.

| Action | Code |
|---|---|
| `RejectFile`, `CheckVersion` | what precedes the first write: extraction, `detect_standard_info`, `validate_standard_version` |
| `Deprecate` | `auto_deprecate_old_versions`, one transaction |
| `Store`, `Index`, `MarkReady` | the document's transaction, `upsert_chunks`, the update of the `KBIngestRun` |
| `WriteFiles` | the derived files; the end of a document |
| `FileFails`, `RequestFails`, `Crash` | an error the batch loop turns into a `FAILED` item, one that it does not catch, a dead process; `WriteRaises` is a write that raises with or without having taken effect |

### DraftGeneration, DraftJudgements, TokenBudget, TokenLedger

`generate_draft_with_retrieval` by several workers. `job[w]` is the draft under way, with one action
per access to something shared and the computation in between as part of it:

| Action | Code |
|---|---|
| `Start`, `StartFails` | pricing guard, section routing, retrieval, and the beginning of the reservation; the retrieval that raises |
| `Reserve`, `StoreFails`, `TakeReservation` | the budget (`TokenBudget`); a refused reservation does not stop a draft |
| `get_cache`, `get_cache_fails` | Redis, or the process's own tier |
| `Write` | the model or the local template, section enhancement, three gates, disqualification matrix, global facts: the verdict |
| `Review` | the second model, where the policy or the section asks for it |
| `set_cache`, `set_cache_fails` | both tiers |
| `ReadLinks`, `WriteLinks`, `Return` | the evidence links, and the answer |
| `invalidate_cache`, `Expire`, `EvidenceAges` | the environment of a draft |

`DraftJudgements` holds the judgements as functions of a text's record: what signs of pricing it
shows, whether its fact sentences are grounded, which facts it states, which keywords it holds.
The key of the cache is what `build_cache_key` hashes; what it leaves out (global facts, age
of evidence) is part of the request and not of the key.

`TokenBudget` is `reserve_budget_persistent`: the project's row under its lock, the Redis hash under
WATCH (`WatchHash`, `ExecHash`), the process's dictionary. A store that fails may have taken the
tokens already (`RowFails`, `RedisFails`). `TokenLedger` is what one store promises; each of the
three implements it (`StoresAreLedgers`).

### ProviderProfiles, RoutingStats

`rows`, `secrets` and `policy` are three stores; a request in process `c` is `job[c]`. `CreateProfile`,
`WriteSecret`, `InsertRow` and `DeleteProfile`, `FindRow`, `EraseSecret`, `RemoveRow` are creation and
deletion, store by store, each with a `...Fails` twin that may or may not have done its work.
`UpsertPolicy`, `ReadPolicyRow`, `WritePolicyRow` bind; the foreign key refuses what is gone, but
not inside the JSON of the experts' bindings. `Resolve`, `ReadBinding`, `ReadRow`, `ReadKey` build a
call's chain; `Route` orders it by the statistics, `Attempt` and `SaveFeedback` record how it went.

`RoutingStats` is `routing_optimizer.py`: `Load` and `Save` are the two halves of
`record_route_feedback`, with Redis answering or not; `build_routing_order` is the sort.

### BidReview, ReviewJudgements

`rows` are the section rows by key and generation version, `reports` the review reports in the
order of their creation. A client's request is `job[c]`: a review reads its section
(`ReadSection`), asks the model (`ReviewAnswers`, `ReviewFails`), saves; a scoring reads requirements, sections and
reports in three actions and saves; an override is found admissible (`Override`), recorded
(`record_audit_event`, `AuditFails`) and answered (`AnswerOverride`). `SaveSection` is what the
section pipeline's `_persist_pipeline_outputs` does to the rows; `ImportAddendum` what
`mark_generated_chapters_stale` does. When two rows of a section were created in one moment, which of them
owns a requirement is arbitrary.

`RedlineGate` is `run_redline_check`: the findings of the request and of its arithmetic (`Computed`), then three checks,
each with a read of its own (`CheckQualifications`, `CheckStaff`, `CheckAuthorization`), then the answer. Documents
(`Ingest`) and assets (`Supply`) are added and days pass meanwhile.

`ReviewJudgements` holds coverage, the ensemble's majority and merge, the scoring of a requirement and the redline checks
with their asset queries.

### ExpertLibrary, DocumentConversion

A session is a directory of files, written one after another with `meta.json` last; `meta` is absent, torn, open
or confirmed. `convert_upload_to_structured` computes the whole conversion at once (it touches
nothing shared) and then writes artifact by artifact (`WriteArtifact`, `TearMeta`, `WriteMeta`).
`confirm_structured_conversion_ingest` reads the session, ingests, and writes the meta file again. Threshold files
are truncated and filled (`Truncate`, `Fill`); a torn file reads as the base values.
`DocumentConversion` is the conversion itself: blocks to sections, rows to tables, texts to chunks under the budget.
Its loops are recursive functions of the position (`AddText`, `AddRow` and `Grow` are their bodies), and what it promises
is said without them (`HoldsBlocks`, `HoldsText`, `HoldsTables`). `HoldsTable` speaks of the uploaded rows that are not empty, before
any conversion: all are held, in order, with each cell that has a column in the header. The cells beyond are cut
(section 4). `InputsAssumption` says that a document is a list of blocks,
the base thresholds are numbers and an update carries numbers for thresholds that exist.

### Judgements, Retrieval, LibraryStatistics, TenderReading

Functions whose callers share nothing. `Judgements` puts each of them every question of a bounded
set: a behaviour asks one question, and each invariant compares the answer with a definition that
does not follow the code. `Retrieval` is hybrid search, fusion, three rerankers, the filter for key facts and
context compression; `LibraryStatistics` the quality statistics and recommended thresholds;
`TenderReading` the extraction of clauses and roles, the fatal gate, and the tender
analysis. What the code does in a loop over a sequence is a recursive function of the position, and a
sort is `InOrder`, which gives each member the place that the number of members before it says; both can be reasoned about.
Named assumptions say what a question of each kind is (`SearchesAssumption`, `TeamsAssumption` and so on):
that the settings ask the store for at least what a prompt takes, that the score of a person is a number. A hit is a point of
the store. Points are keyed by document and chunk (`qdrant_store.py:489`), while a chunk's id is made of eight characters of the document's id,
section, place and a digest of the text (`expert_chunking.py:48`), so points of two documents may share one id, and the fusion,
which goes by ids, keeps the last one's payload.

## 3. Runs, bounds and fairness

Each run finishes within about two minutes with two workers.

| Run | Instance | Properties |
|---|---|---|
| `section_overlap` | two requests for one or two sections, overlapping; one failure or crash, two decisions, no retries; symmetry | `NoWorkBeforeConfirmation`, `ProductsFormPrefix`, `ResumePointBacked` |
| `section_serial` | two requests for one section, not overlapping; two failures, one retry, one decision; `FairSpec` | `DeliveredWhatWasDrafted`, `ChainsEnd`, `SurvivesPastFaults` |
| `generation_run` | the code's seven steps with the barrier at the third; two resumers, one crash, two retries; the redline status written at any moment; `FairSpec` | `TypeOK`, `PointerMatchesResults`, `CallsAccountedFor`, `SucceededStepsRest`, `ResumersReturn`, `ImplementsSequence` |
| `tender_import` | one import, the code's two retries, five failures; `FairSpec` | `NothingPastTheGate`, `RowBackedByFiles`, `ReturnsWithOutcome` |
| `gateway_calls` | two calls, two profiles, two processes, limit one, three failures, keys that expire at any moment; `FairSpec` | `CountersCoverHolders`, `LeaksHeal`, `CallsEnd` |
| `knowledge` | two requests of one or two documents, three versions or none, one failure or crash; symmetry | `InForceUntilSuperseded`, `OneVersionPerRequest`, `AnswerMatchesStores` |
| `knowledge_retrieval` | the same with two versions and without failures | violates `DeprecatedIsNotRetrieved` |
| `drafts` | two workers, two drafts, four requests, four texts and the literal NEED_HUMAN_INPUT, totals of two tokens, one failing store | `SupportedIsJustified`, `StoresHoldCheckedDrafts`, `StoresAreLedgers` |
| `providers` | two processes, two profiles in two storages, four requests, two feedbacks, one failure; symmetry | `SecretsAccounted`, `ServesLiveProfiles`, `RoutingHolds` |
| `reviews` | two clients, two sections, one requirement, four requests, two edits, one failure; or redline checks over three documents, five assets and three days; symmetry | `SettledScoresWereReviewed`, `OverridesAreAudited`, `ClearsOnlyTheEquipped` |
| `library` | two clients, one session, three documents, five threshold updates, three edits, two confirmations, two failures; symmetry | `MetaIsTrue`, `ConfirmableHoldsUpload` |
| `judgements` | every question of bounded sets (`MCJudgements`) | `SearchServesAllowed`, `ContextFitsBudget`, `TeamIsBest`, `EnsembleKeepsIssues`, `AnsweringNeverCosts`, `RecommendationIsAccepted`, `GateFailsClosed`, `VoidingClausesAreListed` |

**section_overlap.** Is there work before an outline was confirmed, or a product without the
products it rests on, or a recovery point without files? Two requests suffice for every race of
the code, since a chain races only with handlers and with another chain; with two sections the
requests share only the row, with one also the files. One failure in any state covers each
error path once; two decisions allow an outline to be confirmed and then rejected while a request is
between check and dispatch. Retries are in the next run.

**section_serial.** What is a later request served, and does every chain end? Requests of a
section come one after the other, but one that fails leaves its products to the next, so the files and the row may come
from several requests. What is claimed is that they fit together: the draft was written with the facts on disk, validation, document
and row are that draft's, and the row lists the requirements extracted with its facts. `ChainsEnd` holds whatever fails;
`SurvivesPastFaults` says that after the last failure a waiting stage completes, unless a
truncated file is in its way. Two failures and one retry make a retry fail as well, and leave a failure
for the second request.

**generation_run.** Two resumers race with each other, with redelivered calls of every
step reached, and with the redline status, which is set and cleared between any two calls. The retry limit is two instead of three, which
still separates "below", "at" and "one before" the limit.

**tender_import.** Five failures allow a failing step, a failing failure handler and a failing task
handler, in a retry too; six were also run and show nothing new.

**gateway_calls.** Two calls under a limit of one, so that one is refused; two processes, so that
local counters and the shared one differ; three failures let a reply, a release and a process be lost in one behaviour. The key may undercount
what is held, after it expired under its holders, and `CountersCoverHolders` says by how much: no more than were held when
a key last did. `LeaksHeal` is the other side of the expiry: slots
leaked by dead processes or lost replies come back. For larger limits there is the proof.

**knowledge.** Is the newest version in force, and does the answer say what the stores hold? Two
requests race in every order of their transactions; with two documents a request supersedes its own
versions while the other one interferes; three versions allow one above, between and below two others. Two
*requests* may each leave a version active (both check before either stores): the code does not
prevent it, and only what holds whatever the interleaving is claimed.

**drafts.** What did a supported draft pass, and what may the caches and budgets hold? The four
requests differ in what the cache's key leaves out and in the checks they ask for; of
the texts one is sound and each other is what one of the judgements must refuse. Two drafts by two
workers meet in every tier of the cache, in one key and in different ones; a total of two tokens is used up
by the second reservation, so that "fits", "just fits" and "no longer fits" all occur, and estimates
of up to four tokens reach beyond it.

**providers.** Does every profile have its secret, and does a call run on what is there? Each
request is one of creation, deletion, binding and call; four of them let a profile be
created, bound, deleted and used with another request anywhere in between. The one failure may hit
either store, before or after it worked. `SecretsAccounted` counts: no more profiles without
secret or secrets without profile than there were failures. `RoutingHolds` claims of the unlocked
statistics what survives the races: they never invent an attempt or a success, lose none
as long as feedbacks come one at a time with Redis answering, and put a model that has only failed behind one
that has only succeeded.

**reviews.** What does a score rest on, and what does a redline check that does not block? One requirement that moves between two sections suffices,
since requirements are scored independently of each other; four requests are two reviews and two
scorings, or a scoring with three reviews inside it. An empty answer, one that names the requirement and one that
could not be read are the three kinds of report the code tells apart. A requirement passes only if the last review of its section
was shown it and did not speak against it; two cases are excepted, a review that failed (section 4) and a section that was
saved again after it was first saved, whose new text no review has seen. The redline check shares no state with the rest, so
a behaviour of `MCReview` is one of either. Its documents run out within the three days or not, its people are free, busy or insured
for too short a time, its letters complete or not: each check has a reason to find something, and each can be satisfied after it
was made.

**library.** Do the chunks hold the uploaded blocks and rows, and is what a session's meta file says true? One
session is created and confirmed by two clients, while thresholds change between any two of
its files. The documents have texts under, at and over the budgets, a table that is
split, a row with more cells than the header, an empty text, and a section that comes back after another one.

**judgements.** The sets are chosen at the limits: three chunks ranked in any order by both searches, one of
them with a second point the filters refuse; four lengths of text around the context's budget; three people for up to three
roles; three reviewers that answer or not; libraries around every threshold; tenders
of up to three sentences out of eight that together hold a word of every list.

`CHECK_DEADLOCK FALSE` is stated where requests, drafts or questions run out by their bound.

**Fairness.** A worker that took a task, and a client inside `resume_run`, keep executing:
weak fairness of `StageStep(c)`, `ResumeStep(c)`, `Progress` and `CallStep(c)`. A provider
call ends because the HTTP clients have timeouts (`adapters/providers.py`); a key expires because time
passes (`WF(Expire)`). Nothing is assumed of users, of API processes (but that `TenderImport`'s
endpoint sends what it stored or fails), of retry budgets, or of failures, which may happen at any time or never;
a lost task is a legal end of a chain. The other modules state no fairness: their requests are
straight-line code without loops or waits, which ends when it is executed.

## 4. Where the code departs from its documents

One departure is a run of its own: **deprecated standards are retrieved** (`knowledge_retrieval`).
Deprecation updates the database; retrieval filters on the payload of the vectors, which
nobody updates.

The following were met while modelling. The modules follow the code in each, and the
properties claim no more than it does.

* **A failed rendering is kept.** `_render_stage` turns an exception into a product with status
  `FAILED`; `section_render_stage_task` stores it as `G4.json` and loads it for every later request
  (`worker/tasks.py:747`). The design document (V1.1, line 34) promises to continue from the last
  gate that *succeeded*.
* **A section's requirements may be another's.** `_persist_pipeline_outputs` looks requirements up by code in the whole project
  and overwrites what it finds (`worker/tasks.py:245-265`), and every text's codes start at REQ-0001; the first section's row then lists
  codes under which a review finds the second one's requirements.
* **`FATAL_BLOCKED` is not terminal**, as `pipeline.py:9` has it: the report of a blocked run is
  written inside the step's `try` (line 194); if the disk refuses it, the handler overwrites the status with
  `FAILED`.
* **A reported redline does not block.** What the handler of G2_REDLINE returns goes into `step_results`; the barrier looks at
  `output_json["redline_status"]` (`generation_run_orchestrator.py:67`), which nothing in `src/app` writes but a test. The V2.0 delivery
  document, line 24, says a fatal risk must block the text's generation.
* **The redline check asks about today.** `run_redline_check` does not pass the day of the opening to `check_qualifications`
  (`redline_engine.py:299`), so a qualification that runs out before the bids are opened clears the project (V2.0 delivery document,
  line 68: validity covers the opening). The rule QUAL-EXPIRED cannot fire: the query has left out what it looks for.
* **The concurrency cap may be exceeded.** The time to live of the slot key, 180 s, starts with its first
  holder and is not renewed (`concurrency_limiter.py:86`), while two HTTP timeouts alone make
  240 s; when it expires the next calls count from 0. `LimitHolds` says by how much.
* **An outline rejected between read and use** still gets its section: the handler reads its status without a lock and sends the chain later.
* **Two chains of one section mix their requests**: each stage takes the product it finds on disk, whoever wrote it. Without overlap the products
  of a request that failed are used by the next one, with its title.
* **Chunk ids repeat over documents** (see Retrieval): a chunk that may be served is lost when a later point in the lists has its id
  and may not.
* **Cells are cut.** A row's cells beyond the header's columns do not reach the table
  (`expert_enterprise_pipeline.py:523`), nor any chunk.
* **No ingestion becomes `KB_READY`** (architecture v1.4, lines 51 and 181). The update reads the id of a row object whose
  session was committed and closed (`expert_library.py:892`); the exception is swallowed.
* **A section's products are kept for ever.** A rejected section that is requested again with another
  text is served its first draft.
* **A cached draft bypasses the validator** (`generation_pipeline.py:807`; the white paper v3.2, line 239, says it must not): its key
  leaves out the global facts and the age of the evidence.
* **The first mention of a role counts.** `key_personnel_extractor.py:58` says it keeps the richer
  one; a later sentence that asks for a certificate is dropped, and the gate may open.
* **Candidates are not filtered** by social security and active projects as the docstring of
  `get_people_candidates` says.
* **Any valid qualification meets any fatal clause** in `_match_prelim_to_assets`; the risk of a clause is that of
  the scan's first hit, and a warning without one.
* **"不予受理"** is fatal for the gate, but not among the words the analysis looks for.
* **A recommended chunk is capped, an accepted one is not.** `stats.py:434` recommends at most 4000 tokens, and
  `expert_library.py:401` accepts any chunk above its overlap: a library that runs with an overlap of 4000 or more is
  recommended thresholds the update would refuse.
* **A review that failed scores like one that passed** (`review_engine.py:287`,
  `scoring_engine.py:152`): its report names no requirement.

## 5. Proofs

Every theorem is about the module's `Spec`, for any value of its constants that the named assumptions
allow: any number of sections, steps, calls, requests, profiles, clients, retries and failures.

| Module | Theorems | Beyond the module's assumptions |
|---|---|---|
| `GenerationRun_proofs` | `TypeCorrect`, `PointerCorrect`, `PointerMonotone`, `Idempotent`, `CallsAccounted`, `Refinement` | `OutOfOrder = FALSE` |
| `SectionWorkflow_proofs` | `TypeCorrect`, `FilesFormPrefix`, `NothingBeforeConfirmation`, `ResumePointHolds`, `DeliveryMatches` | |
| `TenderImport_proofs` | `TypeCorrect`, `GateHolds`, `FilesBackTheRow`, `RowMovesInOrder` | |
| `ModelGateway_proofs` | `TypeCorrect`, `CountersCover`, `LimitHolds` | |
| `KnowledgeBase_proofs` | `TypeCorrect`, `AnswerIsStored`, `OneVersionActive`, `IngestedStaysInForce`; `MetaStaysTrue`, `DirectoryIsWhole`, `UploadStaysWhole` | `AutoDeprecate` for `OneVersionActive` |
| `DraftGeneration_proofs` | `BudgetIsLedgers`, `BudgetIsKept`, `SupportedIsSound`, `StoresAreChecked` | |
| `ProviderProfiles_proofs` | `CallsUseLiveProfiles`, `SecretsStayAccounted`, `FeedbackStaysCounted`, `RoutingStaysSound` | |
| `Judgements_proofs` | `ScoresWereReviewed`, `OverridesRecorded`; `SearchesServeAllowed`, `ContextStaysInBudget`, `PickedTeamIsBest`, `EnsembleStaysSound`, `AnswersNeverCost`, `RecommendationsAreAccepted`, `GateStaysClosed`, `VoidingStaysListed` | |

The assumptions the modules name are no stronger than the code: there is a section in an outline, calls and
workers are finitely many, a text's size is one a reservation may ask for, and the values that stand
for "nothing" (`NoFile`, `Nobody`) are not also values of something.

**GenerationRun.** `IInv == TypeOK /\ PointerMatchesResults /\ NobodyAhead`. That exactly the
steps before the pointer have succeeded is not inductive alone: a resumer that is ahead of
the pointer would execute a step past it and leave a gap. `NobodyAhead` excludes that: a resumer read the pointer
when it started, and it only moves on past steps that have succeeded, hence never beyond the pointer,
which never retreats. The lemma `ExecutingIsPointer` draws the consequence that carries every
proof: the step that executes is the pointer's. The action properties and
the refinement, whose barrier opens and closes under way, follow from `IInv` and a lemma on what one step does.

**SectionWorkflow.** Four layers. `TypeInv` adds to the types what a stage holds in memory
(`ChainsCarry`). `FileInv == ChainsBehind /\ ProductsFormPrefix`: a running chain has the files of
the gates behind it, so what it adds extends the prefix, and other chains do not take files away. `DecisionInv` adds
that an undecided outline has no request that passed the check. `ResumePointBacked` needs the first two: progress
is reported by a chain that has the files it reports. `SerialInv` is about the sections that are not in `overlapped`: such a section
has one chain in flight at most (`Alone`), what comes after the draft was made from it, and it with the facts on disk (`MadeFromDraft`), and of the chain that runs there
the extract and the draft that it hands from stage to stage are the ones on disk (`Knows`): without the last a stage that is
retried, or that finds an earlier chain's product, could mix two requests.

**TenderImport.** The property says nothing of the task in memory; `Position` ties it to the row
(a step works on what comes next and commits when its files are there), `Stopped` keeps the task of an
unmet package before the gate, `Inserted` counts addenda per attempt.

**ModelGateway.** Types and `CountersCoverHolders` are inductive together: a key that expires moves its holders into `lapsed`, and a
release takes one holder away with at most one of the count, whichever key it is counted down on. The lemmas `Gain`, `Lose` and `Shrink` are about
cardinalities of sets of calls.

**KnowledgeBase.** `KInv` says what a request has stored of the document it works on, `VInv` that what a
request is about to store supersedes or equals its own active versions, `FInv` that a document newer than all begun ones
stays active from its check to its answer. The frames (what one request's step leaves of another's) are lemmas.

**DraftGeneration.** Each step of a draft is a step of the budget or leaves the stores alone
(`DraftsUseTheBudget`). What was read under WATCH still fits when it is executed
(`ReadsStillFit`), since an intervening change makes the execution fail; then each store's step
is a `Reservation` of its ledger or a stutter. `DInv` says what a draft has passed at each point of its way
(`DraftOK`) and that every entry of both tiers of the cache was checked (`CheckedEntry`): a hit is as good as what was
stored, and only what was judged, and needs no review, is stored. For the links, `LinksOK` counts with a section's links the workers that
are about to add one; once it is linked only those that read it before can be among them.

**ProviderProfiles.** `PInv` says what a process may rely on at each point: what is being created is
nobody else's, what is being deleted existed, and a call has not seen what was gone when it began. `SInv` (in `SecretsStayAccounted`) sets
apart the profiles whose secret and row are about to be brought together, by a process between its two writes:
each of the others that is half there costs a failure, and no failure leaves more than one. `RInv` (in
`FeedbackStaysCounted`) says that, while feedbacks come one at a time, all that was reported is in Redis or in the
hands of the one process that saves. It also says that no statistics, whatever the races lost, count more successes than
calls. Then (`RewardIsFraction`) the reward of a model that only failed is at most 12000 of 80000, and that of one that never
failed at least 40000; `OrderPutsFailingLast` compares them by cross-multiplication and shows that the place of a model, one
more than the number of models better than it, is nobody else's.

**Conversion sessions.** (`KnowledgeBase_proofs`) `LibraryInv` ties a request to its session: which files are written
before the one it writes next, and that a request past the ingestion had its document stored. `UploadInv`, on top of
it, says what the files hold: a session is whole from the moment its meta file is begun (`SessionFull`), a request
that has a session in hand has a whole one (`RequestFull`), and the thresholds, in the files and on their way into one, are numbers
a conversion can read (`FilesOk`, `Budgeted`), however updates, publications and torn files succeed one another. Readable sessions alone
are not inductive: between the directory and its meta file only the request knows that the budget could cut the text.

That the directory is whole to begin with (`DirectoryIsWhole`) is about the functions, for documents of any size and any budget that
`cuts` accepts; `CountingUp` and `Follows` (see Judgements) lead along each loop, with an invariant of its own:
the sections so far hold the blocks so far (`StructureHoldsBlocks`); the numbers of two blocks of one type in a section differ, so the
layout has as many rows as there are blocks (`LayoutHasRows`); the chunks and the buffer so far hold the words so far, none over the
budget (`Cuts`, `TextAdded`, `TextsCut`), where the slices of a long text overlap or meet and leave no gap since the overlap is below
the budget (`SlicesCover`); the parts and the open part so far are the rows so far, each part one row or within what the
header leaves (`Pieces`, `RowAdded`, `TableSplit`); and the parts, put together, render the uploaded rows, those
that are empty left out and each with the cells that have a column (`Renders`, `Portioned`, `UploadedRowsHeld`).

**BidReview.** (`Judgements_proofs`) That the report a score rests on was shown the requirement needs more than the branches of
`ScoreStatus`. `RInv` says what a review was shown (`ReportsInv`: all that its section lists, unless the section was rewritten), what a
scoring under way has read (`JobInv`: the owner of each requirement lists it), and that a section that was not rewritten has one row, whose
codes stay (`RowsInv`). Reports are only ever added, so the last one at a count stays what it is.

**Judgements.** `AskedInv` says that the question asked is one of its kind; what remains is about the functions, for questions of any
size. What is computed along a sequence is followed position by position (`CountingUp`, an induction over the natural numbers for
one formula at a time, and `Follows`, a loop as the states it leads through):
the sums of a team's scores, the texts taken into a context, the ids kept of a model's answer. Where
the best of several is chosen (`max` over votes and over teams), `OneUnbeaten` says that a finite nonempty set under a strict
order has a member nothing beats. For the team that is not enough, since `_pick_best_team` leaves a role empty only when all
its candidates sit already: of all teams, one that nothing is ahead of (in people, then score, then how early its roles are
filled, `TeamAhead`) is an assignment the code tries (`UnbeatenIsAssigned`), so the best of those it tries is the best of all. For
the search, `InOrderIsAll` says that a finite set in a strict total order is listed once each; of the points that share a chunk id the
fusion keeps the last, so a chunk is served with one payload and only if that one may be; `Serves` (so many hits, of
these chunks, none twice) is then kept by every stage: fusion, the three rerankers, the filter. That
no setting cuts the lists below what the prompt takes is arithmetic on the limits (`StoreIsAskedForEnough`).

Every safety invariant and action property of the passing runs is stated by a theorem but `ClearsOnlyTheEquipped`, which is
model-checked. Only model-checked, too, is liveness, which
is out of the proof system's reach: `ChainsEnd`, `SurvivesPastFaults`, `ResumersReturn`, `ReturnsWithOutcome`,
`LeaksHeal`, `CallsEnd`; and that deprecated standards are retrieved, which is a counterexample.

## 6. What is not modelled

* The contents of texts: prompts, answers, wording, rendering. They appear as arbitrary
  outcomes, or as the signs a judgement looks for, where control depends on them.
* `tasks.section_pipeline` and the older stand-alone tasks, which have no row and share no
  product files; what the pipeline saves of a section is in `BidReview`.
* The step handlers of the generation run: the repository wires none.
* The scorecard (`scorecard_parser.py`, `endpoints/scorecard_v2.py`): a JSON file per project that one
  handler at a time rewrites in place and nothing reads back into scoring.
* Of the review: triage (`review_triage.py`), the second scoring function (`scoring_engine_v2`), the list of the documents a bid still misses, and the wording of
  mandatory clauses and of an addendum's overrides: functions of one request's own data that nothing else reads.
* Of the knowledge base: evidence upserts and feedback that write vectors without rows, and
  completed bids (called by tests only).
* Reading pages out of PDF and DOCX files, OCR, unpacking of packages, the extractors of formats, scores and
  scope, whose results decide nothing the run depends on.
* Encryption, the HTTP probes of a provider, the adapters: opaque answers.
* What a retry delay is: time only appears as the expiry of a key and the ageing of evidence.
* Authentication and rate limiting, which stand before the handlers; statistics that are queries and
  formatting; schema, migrations, user interface. `PROJECT.json` gives the reason per component.

## 7. Plan

All modules of the first plan exist. What would add most next:

1. Composition: an addendum of `TenderImport` marking, as `BidReview` has it, the sections that
   `SectionWorkflow` is writing.
2. The knowledge base's evidence upserts and feedback, with the vectors they leave without rows.
3. The redline check's theorem, and the departures of section 4 as properties that a corrected program would be checked against.
