# File Translator: TLA+ models, checks and proofs

File Translator is a FastAPI service that translates office and CAD documents
with an LLM. Users authenticate against LDAP, jobs run in background tasks of
one API process, job records live in Redis, users, roles and grants in MongoDB,
glossaries in MySQL, uploads and results in temp directories. This directory
keeps formal models of its coordination code: what happens when requests,
background tasks, deferred deletions, crashes and caches interleave.

Line numbers refer to `src/` at the commit this directory was written for.
Under `src/file_translator/`: `app.py` is `presentation/api/app.py`,
`service.py`, `job_manager.py`, `user_queue.py` and `auth_service.py` are in
`application/`, `redis_job_repository.py` in `infrastructure/repositories/`.

## 1. Inventory

| Component | State it keeps | Operations | Interacts with | Hard behaviour | What makes it correct |
|---|---|---|---|---|---|
| Per-user job queue (`user_queue.py`) | a deque and a worker task per user, a shared map of displayed positions | `enqueue`, `cancel_pending`, the worker loop | called by the submit and cancel handlers; runs the job pipeline | a worker retires while a job arrives; cancellation of tasks at shutdown; the position map is shared by all workers | one job of a user at a time, FIFO, no job left without a worker, nothing leaks, positions mean something |
| Job lifecycle (`app.py`, `job_manager.py`, `service.py`, `redis_job_repository.py`, `domain/job.py`) | the job's JSON record and its index entry in Redis, the upload directory, the translator's working directory, deferred deleters | submit, pipeline (about 30 awaited steps), cancel, download, purge, deferred deletion, startup recovery | queue, providers, translators, retention flags | every status change is a Redis read and a whole-record write with an await in between; handlers act on a status they looked at before | what completed or failed never runs again, a cancel is respected, failed runs give their space back, no record without its file, every job ends |
| Translation providers (`openai_provider.py`, the batch loop of `service.py`) | batches, the recursion of one batch, the rounds over missing units | translate a batch, split it, ask again, fall back to the source | LLM endpoint, fidelity checks | answers that lack units, repeat or invent one, cannot be read, or never come | every unit is translated, recorded as fallen back, or was asked for as often as promised; the passes end |
| Document translators, Okapi (`docx_`, `xlsx_`, `pdf_`, `dxf_translator.py`, `okapi_service.py`) | working directories, the pieces of a document | extract, translate, save | job lifecycle, converters, cleanup | exceptions between creating and registering a directory; a translation cut over pieces by rounded shares; outputs written in steps | a translation arrives whole; directories are removed; an output is a whole document |
| Fidelity checks (`numeric_fidelity.py`, `cad_token_protector.py`, `integrity.py`, scanners) | none | protect, restore, compare, repair | providers, pipeline | several passes over the same text | numbers and codes arrive |
| ODA converter (`oda_converter_service.py`, `oda-converter/`) | files of a shared volume | convert by HTTP or locally | DXF translator | names shared by calls, a client that gives up, a product left by an earlier call | a call gets its own drawing, files are removed |
| PDF conversion (`pdf_to_docx_converter.py`, `first_pdf_converter/`) | one conversion at a time, the First PDF process | convert | PDF translator | two deadlines and a lock; a program driven through its window | a conversion ends and returns its own document |
| Periodic sweep and debug retention (`app.py:392-515`, `diagnostics/retention.py`) | directories and markers with ages | sweep every hour, purge by age and count | job records (protected directories) | failing or short listings | never takes what somebody needs; keeps no more than the cap |
| Login and accounts (`auth_service.py`, `auth_repository.py`, `auth_router.py`, `jwt_auth_provider.py`, `admin_service/routers/users.py`) | user documents, refresh tokens, a blacklist | login, refresh, logout, administrator changes, forgetting a user | LDAP, MongoDB, Redis, both services | read, LDAP call, whole-document write | an administrator's decision survives a login |
| Login rate limiter (`rate_limiter.py`) | the times of recent requests per address | `is_allowed`, `get_retry_after` | login and refresh routes | the edge of the window; the clock is read twice | a bounded number in any window; the told time is right |
| Role configuration, its cache and version (`role_config.py`, `admin_config_version.py`, `config_seeder.py`, `mongo_config_repository.py`, `admin_service/routers/roles.py`, `access.py`) | roles and grants in MongoDB, a snapshot per process, a version in Redis | read, seed, edit, invalidate | two services, Redis, MongoDB | loads in flight across a change, lost bumps, an unreachable Redis or MongoDB, restarts | bounded staleness; an announced write is read; no deleted role comes back |
| Group grants (`group_grants.py`) | grant documents | provisioning at login, at start and in the hourly sweep | LDAP, configuration cache | decides on cached data | an old decision is never overwritten |
| Glossary access (`glossary_access_resolver.py`, the matrix of `access.py`) | none of its own | resolve, explain, show, delete a group | grants, roles | three computations of one level; spellings of group names | explained, shown and enforced are the same |
| Glossary service (`glossary_service.py`, its repositories) | a table per collection | create, import, update, delete | MySQL | check-then-insert, tables that are missing | duplicates only by a race |
| Journal and monitoring | append-only files | append, read | | nothing decides by them | |
| Settings, dashboard, documentation pages, frontend, tools | none of their own | reads, single writes | the services above | | |

`PROJECT.json` lists the same components with their status, and every hazard at
its line.

## 2. The modules

| Module | Models | Main sources |
|---|---|---|
| `FifoService` | what the queue promises: each user's jobs are served one at a time, in order | abstract specification |
| `UserQueue` | the queue with its workers as asyncio tasks | `user_queue.py` |
| `JobLifecycle` | one asynchronous job and every actor that writes its record or its directories | `app.py`, `service.py`, `job_manager.py`, `redis_job_repository.py` |
| `UserAccounts` | one person's account: document, grants, tokens, logins, refreshes, administrators | `auth_service.py`, `auth_repository.py`, `auth_router.py`, `users.py`, `access.py` |
| `ConfigStore` | roles or grants in MongoDB, the caches of the processes, the version key, the requests | `role_config.py`, `admin_config_version.py`, `mongo_config_repository.py`, `group_grants.py`, `config_seeder.py`, `roles.py`, `access.py` |
| `AccessLevels` | a user's level on a collection, its explanation, the matrix, deleting a group | `glossary_access_resolver.py`, `access.py` |
| `GlossaryEntries` | the rows of glossary tables under concurrent requests | `glossary_service.py`, `mysql_glossary_repository.py`, `glossary_collection_repository.py`, `app.py` |
| `RateLimiter` | requests let through, forgotten and refused | `rate_limiter.py` |
| `TranslationBatch` | the passes over a document's units and the provider's recursion | `service.py`, `openai_provider.py` |
| `DocumentText` | a translation put back into the pieces it came from | `okapi_service.py`, `xlsx_translator.py`, `dxf_translator.py`, `cad_token_protector.py`, `numeric_fidelity.py` |
| `TranslatorFiles` | the directories and the output of one run of a translator | the translators, `okapi_service.py`, `ezdxf_backend.py`, `dxf_builder.py`, `service.py`, `app.py` |
| `DocumentConversion` | calls of the ODA converter, First PDF and LibreOffice, with their servers | `oda_converter_service.py`, `oda-converter/`, `pdf_to_docx_converter.py`, `first_pdf_converter/`, `doc_to_docx_converter.py` |
| `ArtifactSweep` | jobs' directories and records with ages, the hourly cleanup, the purge | `app.py:392-515`, `retention.py` |
| `MC*` with `.cfg` | instances for TLC; `MCAdministration` and `MCDocuments` run several modules | |
| `Administration_proofs` | theorems about `AccessLevels`, `GlossaryEntries`, `RateLimiter`, and the four parts of `MCAdministration` together | |
| `Translation_proofs` | theorems about `TranslatorFiles`, `ArtifactSweep`, `TranslationBatch`, and the five parts of `MCDocuments` together | |
| other `*_proofs` | theorems about the module they are named after | |

`MCAdministration` and `MCDocuments` put modules that share no variable into one
run: a behaviour is one of one part, chosen at its start. They are not a composition;
each part is explored exactly as it would be alone, with the fairness of its own
specification. That a part behaves there as its own specification says is proved
(`PartsRunAsSpecified`, `DocumentPartsRun`), so what is proved of a part holds in the run.

### UserQueue

asyncio runs one task at a time and switches only at an `await`, so one action
is the code between two awaits. `enqueue` and `cancel_pending` await nothing.
The worker (`_worker`, lines 70-133) gives up control in two places: before its
first step and in `process_func`. Its third await, `wait_for(queue.get(), timeout=30)`,
never waits: a worker is created behind the put of its first job, and at the end of each
job it goes on only if its queue has another (lines 127-133), so `get` always finds an
item, and in Python 3.12 (`Dockerfile`) `wait_for` does not switch tasks then. That a
worker never comes to `get` with an empty queue is part of `WorkersMatchQueues`; the branch
for the timeout (85-93) is dead. Hence `WorkerStart` and `ProcessEnds` take the next
job without a gap, or `Retire`: with an empty queue the worker removes the user's
queue and its own registration at the end of a job. Each task has a state of its own
(`task`) beside the registration of its user (`workers`), so that a second worker of one
user is representable. `Shutdown` cancels all tasks; a task cancelled in `process_func`
drains its queue, one cancelled before its first step never runs.

`FifoService` has the queue and the job being served per user, and the fairness
that a waiting job is eventually started and a started one ends. The run `queue`
checks that `UserQueue` implements it under the mapping in `UserQueue`
(`ImplementsFifo`), fairness included.

### JobLifecycle

The record under `job:<id>` has a status and two facts about its metadata: the
upload directory is known (`main`), the translator's directory is known (`work`).
`JobManager` reads the record, awaits, changes its copy and writes the whole copy:
`ReadRecord`/`WriteRecord` for the pipeline, `CancelRead`/`CancelWrite` for a
cancel. The stages of the pipeline are the awaited steps of `_run_translation_job`
and `translate_document` in the order of the code (`After`); each is one action.
`keep` is who keeps the job's artifacts: nobody, the flag of the job, or the global flag.
`Handle(q)` are the continuations of request handlers. `GraceOver` is the end of
the 60 s sleep of a deferred deleter and `DeleteAfterGrace` its Redis call, which
looks at no status. `Crash` is the death of the process together with the startup
recovery that follows it.

Abstractions: formats, texts and units are left out (a document either has
translatable text or not, batches are counted); Redis calls succeed; the TTL of
records (days) is not reached; the periodic sweep, which only looks at old
directories, is `ArtifactSweep`. The sleep of a deleter outlasts
the Redis calls that were under way when it began (`OutlastsCalls`), but not those
that begin later.

### UserAccounts

Two services write the same MongoDB document: the API at every login, the admin
service (`admin_service/routers/users.py`) at every edit. Both read it, await, and
write *all* fields of their copy with `$set` and without upsert (`Overwrite`), so a
login is modelled with each of its database calls: `FindByLdap` or `FindLocally`,
`Create` or `Sync`, `Token` (`create_token` looks the document up again), `Stamp` (the
second whole write, for `last_login_at`) and `StoreToken` (the route handler stores the
refresh token afterwards). An edit is `LoadForEdit`, `Write` and, where deviations are
dropped, `DeleteGrants`; forgetting is `LoadToForget`, `Purge` (the call to the main API,
which may abort it), `DeleteGrants`, `DeleteTokens`, `DeleteUser`, and a request that
stops in between is one that takes no further step. A start of either service migrates old
role names (`migrate_legacy_roles`, called by `run_startup_seeding` at `app.py:600` and
`deps.py:279`): `ListUsers` is the listing and `WriteMigrated` the whole write of the listed copy
some time later, while the other service serves requests; the documents it begins with include
those of old versions (`LegacyRoles`). No order is assumed between a start and the requests of its own
service, which is more than can happen. Ids are numbers drawn once
(`uuid4`), and the unique index on the username fails the second `Create`. AD groups
are reduced to what the two role mappings tell apart: the login compares the name of
the administrators' group exactly, `ldap_derived_role` without case. `decided`, `gone`
and `erased` are history variables: no action reads `decided` or `erased`, and `gone`
only stands for pages that still show an id.

### ConfigStore

`RoleConfigStore` and `GrantStore` are two instances of one cache class, so a
behaviour follows one collection (`cfKind`) in every process; the other one shows as
bumps of the shared version key (`OtherBump`). A request is a coroutine that gives up
control where the code awaits: `Begin` runs to the first await (`Enter` says which),
`VersionAnswer`/`VersionUnavailable` are Redis answering the comparison of versions or
failing, `LoadAnswer` is MongoDB answering or failing (then the defaults stand in),
`LoadDone` the continuation that stores what was loaded whatever happened meanwhile,
`ApplyWrite`, `WriteFails` and `Bump` the write path with its reset of the writer's own
cache. What a request will write is decided when it has its snapshot (`Plan`), and
written one document at a time. Time is counted in ticks: `TTL` is the life of a cache
and `CallMax` the longest a call takes, enforced in `Tick`. `cfServed` says, for the step
that serves a read, how old it was and whether it missed an announced write; `cfDue` and
`cfTouched` are history for the same purpose.

`StaleReadsBounded`: no read returns what MongoDB held more than TTL plus two calls ago.
`AnnouncedWriteIsRead`: after a write was announced the next read of a process sees it,
if the process had seen the version before (or wrote itself) and was not loading; the
exceptions are what the code does not cover, see section 5. `OldDecisionStands`: the
provisioning of group grants overwrites an administrator's document only if it is
younger than the view it decided on. `RolesKeepTheirLife`: a stale edit never brings a
deleted role back, and no built-in role is ever lost.

### AccessLevels

One user, one collection, and the grant documents on it: the resolver
(`RoleNamesOf`, `MatchingDocs`, `LegacyLevel`, `ResolveLevel`), its explanation (`SourcesOf`,
`Inherited`), and the matrix (`CellDocs`, `MatrixRows`, `GroupHasEffectiveRights`) are
three computations over the same documents, and the administrators' edits are the steps.
Spellings of a group's name fold to one group; the resolver folds them, the documents do
not. A user with a role that administrators made has two role names, since the enum member
beside it is `VIEWER` (`auth_repository.py:60-86`), and gets the documents of both. The properties compare the three computations with each other, and
`GroupDeletionRevokesNothing` compares the levels before and after a deletion.

### GlossaryEntries

A request is handled in stages, one per database call: find, check, write, read back.
Every call opens a connection of its own and nothing orders calls, so requests
interleave at each. `Duplicates` and `Deduplicated` are the check and the import's own
filter; the fallback of `get_entries` to the default table when a collection has none is
part of `CheckDuplicate`. A row remembers (`sound`) whether its check saw the table it was written
to as it was at the write. `DuplicatesNeedARace` says that two rows share a word only if
one of them was not `sound`.

### RateLimiter

All requests ever let through are kept as history next to the ones the limiter still
remembers; the clock moves between the refusal and the question how long to wait.
`RateBounded` is stated over the history, in any window; `RetryHonest` bounds the told
time from both sides.

### TranslationBatch

The loop of `service.py` over batches (main pass, then gap-filling rounds) and
`translate_batch` of the provider as a stack of frames: a call that cannot read its
answer splits, one that finds units missing or spoilt calls itself with those, and
`Resume` is the caller continuing with what the frame below returned or raised. The
answers are arbitrary: any units missing, one repeated, one that was not asked for, not a list,
unreadable, without content, or an error. Findings live in `batch_data`, whose copies
share a list only if it was there before (`Collected`). `UnitsAccountedFor` and
`TranslationEnds` are the promises of the gap filling.

### DocumentText

Six ways in which a document gives its text away in pieces and gets a translation back,
each an operator (`WrittenSegment`, `WrittenRuns`, `WrittenLabels`, `WrittenParagraphs`,
`Decoded`, `CheckedNumbers`), evaluated over every small document and every
small reply. Words are numbers, since it matters where they end up. The largest-remainder
split of words over inline codes, the rounded shares of characters over runs, labels that
are found again by their text, split paragraphs, placeholders and repaired numbers each
have a reference definition (`SegmentArrives` and the like) that `TranslationArrives`
joins. Of the numbers, dates are protected and not compared, single digits are neither
(`Protected`, `Compared`). What is checked ends at the pieces: for a drawing that is the text handed
to it, and whether it takes that text is in `TranslatorFiles`.

### TranslatorFiles

One run of any of the translators for the seven suffixes: which directories exist, which
the job's record names, which are marked as kept, what stands under the output's name.
Each stage can fail where the code can raise, and cleans up what that `except` or
`finally` cleans up. `ProcessDies`, `RecordLost` and `SweepDirs` are the crash, the expiry
of the record and the hourly sweep. `DirsReclaimed` lists the only reasons for a directory
that is left; `OutputIsWhole` says what a completed job can have as its output: the
translated document, for a drawing without the texts that could not be set (`SetTexts`,
mishap "unset"), or what a local ODA converter left. The post-processing of a DOCX is a step
that passes over its own failures, as in the code, and changes layout only.

### DocumentConversion

Several calls of converters at once. The ODA server takes its documents from a shared
volume, by names made of the process id and the document's stem, and serves one request at a
time; the First PDF server holds a lock, drives a program and has a watchdog, and its
client a deadline; LibreOffice has a profile per call. At its timeout the ODA server kills
`xvfb-run` only (`OdaBreaks`); the converter below may live on and write its product when its
request was answered long ago (`dcOrphans`, `OrphanWrites`). A client that gives up leaves a
server working. Sizes decide the PDF watchdog's time (`ServerEndsFirst`).

### ArtifactSweep

Jobs reduced to what the sweep sees of them, directories with ages and marks, and the
sweep in the steps between its awaits: the two listings (either may fail, the first is
limited), the scan with the purge of kept directories, the listing and deletion of stale
records. The scan and the purge know a directory by its name: those of XLSX translators
(`XlsxJobs`) they do not (`Seen`). A removal may fail, whole or half way (`Leftover`).
`SweepSparesTheLiving` and `RetentionIsBounded` are action properties of these steps; the second
speaks of what the purge sees and of removals that succeed. A sweep is taken to last less than a tick.

### How the models fit together

The modules share no variable; what passes between components is an input or an
outcome on either side:

- the queue hands a job to the pipeline: `UserQueue` treats the pipeline as a process
  that ends, `JobLifecycle` starts where it is called. A cancel calls both
  (`cancel_pending` and the record's update) and is an action of each;
- forgetting a user calls the purge of the main API: a request `purge` of
  `JobLifecycle`, and in `UserAccounts` a step that succeeds or aborts the forgetting;
- a login provisions group grants: `op = "provision"` of `ConfigStore`; `UserAccounts` has
  the grants of one person as documents;
- the resolver reads a `ConfigStore` snapshot; `AccessLevels` takes any documents, hence
  stale ones too, and its theorems hold for all of them;
- the pipeline calls provider and translators: outcomes of its stages in `JobLifecycle`
  (success, failure, cancelled between batches), their insides in `TranslationBatch`,
  `DocumentText`, `TranslatorFiles`, `DocumentConversion`; the units without
  translation that `TranslationBatch` leaves are the partial replies of `DocumentText`;
- directories: `JobLifecycle` has the upload's and one working directory with the
  actors that race for them, `TranslatorFiles` every directory of one run, `ArtifactSweep`
  those of several jobs with ages.

What is lost by this is the simultaneous interleaving across components, for example a
sweep in the middle of a cancel. The records a sweep may delete have been terminal for
days, so those steps do not meet in practice.

## 3. Runs

| Run | Instance | Shows |
|---|---|---|
| `queue` | 2 users, one with 3 jobs, one with 1; shutdown at any time | one job at a time, workers and registrations match the queues (no lost wakeup), positions never overstated and exact for a user who is alone, every job served, FIFO refinement |
| `queue_positions` | the same | **violated**: the displayed position is the index in the user's queue |
| `job_safety` | 2 requests of any kind, 2 batches, 1 crash with or without recovery, artifacts kept by nobody, by the job's flag or globally, with and without text | failed runs remove or mark their upload, retention keeps it, a clean cancel is honoured, what completed or failed never becomes active again |
| `job_liveness` | 2 cancels or downloads, 1 crash with recovery | a completed record without its file has its deletion on the way, every job ends, cancelled and failed jobs vanish |
| `job_lostcancel` | 1 request | **violated**: a cancelled job does not run on |
| `job_queuedcancel` | 1 request | **violated**: a job cancelled in the queue is not processed |
| `job_notext` | no request, a document without text | **violated**: every job reaches a terminal status |
| `accounts` | 2 logins, 1 refresh, 1 administrator's request; 1 login, 1 refresh, 2 administrators' requests, 1 start of a service | a decision written while nobody holds a copy stands, a forgotten id never has a document again, a repeated forget is final |
| `accounts_manual` | 1 login, 1 administrator, 1 start | **violated**: a manually assigned role survives a login |
| `administration` | `ConfigStore`, `AccessLevels`, `GlossaryEntries`, `RateLimiter` one at a time | the properties of those modules, for roles and for grants |
| `documents` | `DocumentConversion`, `TranslationBatch`, `DocumentText`, `TranslatorFiles`, `ArtifactSweep` one at a time | the properties of those modules; conversions and translations end |
| `cad_names` | 2 conversions of drawings of the same name | **violated**: a conversion returns the caller's own drawing |

Bounds of the queue, the jobs and the accounts. Three jobs of one user are the least
number for which a job waits behind a waiting job, so that cancels from the middle,
position shifts and order are all exercised; the second user is there because the
position map is shared. Two requests make every pair of actors race (each also races the
pipeline and the deleters). Two batches let a checkpoint lie between batches. One crash
suffices because recovery acts on the record alone and a recovered job does not run
again. In `accounts` two logins race each other's creation and two administrators each
other's edits; an account that is forgotten needs one administrator, the retry the
second, and a login or refresh to cross them. Each process performs one request. All of them
at once are too many states, so `MCUserAccounts` lets one login meet everybody else, or two logins meet
a refresh and one administrator (`FewAtWork`); the documents a behaviour begins with stand
for what earlier logins have made, and the proofs are about any number of each. One start is enough
to race each of the others.

Bounds of `administration`. One main and one admin process, two coroutines at once (two in
one process, or one in each), one grant key which is also a group's, one built-in and one other
role; TTL 1 and `CallMax` 1 with a clock to 4 let a cache expire, a load overtake a
change and a second load follow; a version key of life 3 expires once; three events
(two for roles) are the edit, the read and the fault that the properties need, and the
mutants show that each property has room to fail. Within a clock to 4 only documents that are there
from the start are old enough for `OldDecisionStands` to speak of them, so the run shows that
provisioning decides by its view, and the race of a view with a younger document in general is
the theorem's (`OldDecisionsStand`). Of groups there are two, one with two spellings, of roles two, the made one and the one beside it,
the levels 0 and 3, the two between which `max` and "effective" differ, and an environment's
map of one group at most (`MapBound`), whose names are compared exactly; four glossary
columns are filled with two words by two requests in two collections; two requests in a
window of 4 half-second ticks, with a clock of 9, let the window slide twice.

Bounds of `documents`. Two conversions of different names on all four routes, of 1 and 10
MB so that each end of the First PDF deadlines comes first once; three units in a batch of three,
gap batches of two, one round, a split depth of two: a split half still splits, and a gap
batch is cut; documents of three pieces of size up to 2 and three words exercise shares that round
up, down and to nothing, four labels with two that share a prefix, two numbers; every
suffix; two jobs with a listing limit of one and a cap of one so that both limits bind,
lives of 1 and 2 and a clock of 2 so that each limit is crossed.

`CHECK_DEADLOCK FALSE`: requests are finite, a job or a document is done once, and clocks are
bounded, so the modelled part of the system really stops.

Fairness. The event loop runs every task that is ready, each call of the pipeline
has a timeout of its own, and a sleep ends: weak fairness of the pipeline, of each
request handler once called, of the deleters, of the workers. Nobody has to send a
request, and crashes and shutdowns are never required. `TranslationBatch`: the HTTP
client's timeout ends every request, so some answer or failure comes. In
`DocumentConversion` the clients' worker threads run, the ODA server's subprocess has a
timeout and First PDF a watchdog (`PdfLate`); giving up is never required of a client,
except of one whose deadline comes before the watchdog's (`GivesUpFirst`).
`ConfigStore`, `GlossaryEntries`, `RateLimiter`, `TranslatorFiles` and `ArtifactSweep` are
checked for safety only.

## 4. Proofs

All proofs hold for every value of the constants (any sets of users, jobs, requests,
processes and directories, any number of batches, any lives and limits), from the
named assumptions in the modules, which TLC evaluates for the instances.

`UserQueue_proofs`: type correctness, with the fact that a busy task has a job at hand
(`BusyHasJob`); `OneJobAtATime` and `NoLostWakeup`, by `WorkerInv`: every live worker task is
the one registered for its user and, while the server is up, every registered one is live,
the users with a queue are those with a worker, and no worker starts on an empty queue; `PositionsOptimistic`, by `PositionInv`: what waits in a queue is its user's
and has arrived, and a job is enqueued once, so an index can only go down;
`PositionsExactAlone`, because with a single user every tracked job is that user's
(`SoleTracked`) and each take that lowers an index lowers the position with it;
`QueueIsService`, the safety part of the refinement of `FifoService`, by `ServiceInv`: what waits
is the part of the log that was not begun, and a busy task holds the one job that was begun
and has not ended.

`JobLifecycle_proofs`: type correctness (with the facts that a handler about to use
its copy has one, and that a batch check has a batch); `CleanCancelRespected`;
`FailedRunsReclaim`; `UploadStaysKept`; `CompletedOrFailedNeverRuns`; `NoGhostResults`.
`CleanCancelHonoured` says nothing of the copies in flight, so it is not inductive:
`CancelInv` adds that either the record *and* the pipeline's copy are cancelled and the
pipeline is at a stage that does not overwrite the status before it looks at it, or the
pipeline is on its way to fail. `FailedRunReclaims` needs that no copy about to
overwrite the record has lost the upload directory's path (`MainKnown`).
`StatusMovesForward` needs that the status in the record and in every copy fits the
pipeline's stage (`ForwardInv`), `NoGhostResult` that the index is written once, so
that a deletion on its way cannot be outrun by a new entry (`GhostInv`).

`UserAccounts_proofs`: type correctness (with every id in use among those issued);
`QuietDecisionsStand`, whose inductive invariant adds that every copy a login will
write back agrees with the decision, that of a start too, which may turn an old role name into
`user` (`MigratedAgrees`, `DecisionsCarryOver`); `ForgottenStayForgotten`, by the fact that the ids
of documents about to be inserted are new and differ from each other; `RetriedForgetFinal`,
by the fact that nobody who passed the check for the document is left for an erased id.

`ConfigStore_proofs`: `StaleReadsAreBounded`, by `StaleInv`: a cache dates what it holds by the
end of the call that read it (`Dated`), a request is in one call for `CallMax` at most and
holds what was read since it began (`Timely`), and a request that compares versions does
so against a cache that was fresh when it entered or is younger (`WasFresh`).

`AnnouncedWritesAreRead`, by `AnnouncedInv`. The property speaks of one step, the one that serves
a read, so the invariant has to say beforehand that this read will not miss anything. A request
knows no more than is due to its process, and what it has loaded is not behind that
(`KnownInv`); a cache that is behind, with no load on its way, has observed a version below
the present one, or is from before the last life of the version key and then expired itself
(`ReloadInv`), so that the comparison or the age makes the next read load. The second half
needs that the key outlives the caches (`VersionOutlivesCaches`): an hour against the 30
seconds of a cache and the time of a call (`admin_config_version.py`, `role_config.py`).

`RolesLive`, by the fact that everything a request on roles still has to write is an insertion, an
update, or a deletion that spares the built-in roles (`OnRoles`), which has to hold for
the whole list of writes and not only for the next.

`OldDecisionsStand`, by `DecidedInv`: what provisioning still has to write was missing when its view was
read (`Missing`, `SnapTrue`), a key that somebody touched since has that in `cfTouched`, and
each document already written cost two calls at most, so that the view's age is bounded by the number of
documents written (`InBudget`) and at last by the number of groups; this is where the grant
keys must be finite. `ConfigTypeCorrect`: the types, with what every request carries and still
has to write (`Typed`).

`Administration_proofs`. The limiter: type correctness; `AtMostMaxRequests`, by the fact that what was
forgotten is out of the window and that the remembered rest is full exactly when the last
`MaxRequests` of the history are in it (`Forgotten`, `FullIff`); `RetryAfterHonest`.
The levels: type correctness; `ExplainedIsEnforced`, `ShownIsEnforced`,
`DeletionRevokesNothing`, which hold in every state of the right types and rest on what the
strongest of some documents is (`StrongestIs`, `StrongestOnly`).
The glossary: `DuplicatesOnlyByRace`, by the fact that a request that is about to
write has seen no row with a word of its own, its own row aside (`Looked`), and the typing of
ids; `GlossaryTypeCorrect`, by `EntriesInv`, where the rows a request goes through come from the
import's own filter, whose result is typed by induction on the number of rows it has looked at
(`DeduplicatedType`).
Together: `PartsRunAsSpecified`, by an argument on initial states and steps (`PartsStart`, `PartsStep`),
and `AdministrationTypesCorrect`.

`DocumentConversion_proofs`: type correctness, by `ServersInv`: the shape of clients, servers and files
(`ShapeInv`), the ODA server has each request once and its client waits or gave up
(`QueueInv`), First PDF has only what was sent to it (`UploadsInv`). `KeptApart` adds that a file
of the shared volume stands there for a call that gave up or broke, for one that will still
remove it, or for one whose converter has just exited (`LeftInv`), and, when the stems
differ, that what stands under a call's names is of that call and whole, but for the
product of a converter that broke (`OwnInv`). A converter that outlived its timeout is one of a
broken call for as long as it may write (`OrphansInv`), so what it writes is among those exceptions.

`Translation_proofs`. The files: `FilesInv` joins the types, what each stage says of the document and
the record (`StageInv`), which directories there may be that the job has not heard of yet
(`DirsInv`), and that a whole output is the only one a completed run can have (`WholeInv`);
`NothingForgotten` and `WholeOutputs` follow.
The batches: `UnitsKept`, by `BatchInv`. A frame of the provider that waits for the one above it has
asked for units of its own, a text that is spoilt came for a unit nobody asked about,
and what fell back to the source is among the findings unless the batch was split
(`ProviderInv`). Batches of a pass share no unit, a unit whose batch still waits was sent in every
pass before this one, and one that has no text is in a waiting batch, or was sent in this pass too
and is remembered for the next (`PassInv`, on the types of `ServiceInv`). That the batches of a
pass are all of its units is by induction on finite sets.
The sweep: type correctness; `SweepTakesTheDead`, by `SweepInv`: what the scan could take
and belongs to a record is there because more jobs are known than are listed, and after
the second listing its job has ended (`ProtectedOK`), which the steps of jobs between the
listings keep because they touch their directories now and the cutoff does not move
(`CutoffOK`), and a doomed record stays one that may go (`DoomedOK`); `RetentionBounded`, from the
typing and the cardinalities of finite sets, where a directory that could not be removed counts
as left but not as kept.
Together: `DocumentPartsRun` (fairness aside) and `DocumentsTypesCorrect`.

`DocumentText_proofs`: `TranslationArrivesAlways`, all six kinds of documents, with
`RunsArriveAlways`, `LabelsArriveAlways` and `DocumentTypeCorrect` on the way. The state machine is one
step and its invariant says little (`TextInv`); the proofs are about the operators. These compute by
folds and sums, and the definitions of the community modules give a fold as a chosen function over sets
of places. `FoldExists` and `FoldSteps` turn it into a sequence of steps, `SumAddsUp` does the same for
sums, `FlattenIs` for the pieces of a text, `RanksAre` and `InOrderIs` for places in their order.

- Runs: each begins where the one before it ended, and the last takes all that is left (`ShareIs`).
- Labels: no step before a label's own touches the first element that has its text.
- Segments: the whole shares leave fewer words than there are positions with text, and exactly the
  positions that fewer than that many others are preferred to get one more, since preference orders
  them (`WordsAreShared`); the pieces then follow each other to the last word (`WordsArrive`). A kept
  space is kept by the position itself or, where a tail drops its own, by the one before it
  (`SpacesKept`).
- Paragraphs: the places of the units are a numbering of the paragraphs with text (`ParagraphsWritten`).
- Codes: a placeholder that comes once on both sides makes the places of a code in the result and
  in the text match one to one (`CodesComeBack`).
- Numbers: each repair replaces one number by another (`RepairIs`), so a text that could be repaired
  has what it had, with what was lost and without what came in its place (`RepairedCounts`); what was lost
  is exactly what the source has more often, and what came is at most what the text has more
  often (`BeyondCounts`, `AllMismatches`), which leaves at least the source's count (`NumbersKept`).

Induction. The induction theorems of the library take an operator as a parameter, which the
provers used here cannot instantiate. Where a proof goes by induction over
numbers or finite sets, the set of those for which the statement holds is written down, and the
least element that is missing from it (`WFMin` for `<` on the numbers and for strict inclusion on
finite sets) contradicts the step (`NumbersBelow`).

Assumptions on constants are those that the code justifies: the constants of `ConfigStore` are of their
types, with a finite set of grant keys; the version key outlives the caches; a clock or an id that is
capped is capped at one or more (an initial table may hold the row 1); a glossary has words
(`WordsAssumption`) and drawings are among the documents (`StaysAssumption`), which only the initial
states of parts that stay need.

Only model-checked: liveness (`EveryJobServed`, `EveryJobEnds`, `EndedJobsVanish`,
`TranslationEnds`, `ConversionsEnd`: fairness and ENABLED are out of the prover's reach) and the
fairness of the refinement of `FifoService`.

## 5. Departures of the code from what it says

Checked by a run: see the `violation` runs above and "findings" in `PROJECT.json`.
Found with the same models and kept as prose, each at its line:

- `app.py:1622`: the cancel handler decides by a status it read before an await whether
  it may delete the directory; the job may have started in between, and a running
  pipeline loses its files ("Only delete temp dir for jobs that never started").
- `app.py:181`: the deferred deleter does not look at the status ("Delete a terminal
  job's Redis record"); after a cancel that was answered for a queued job it removes
  the record of a job that is running.
- `redis_job_repository.py:177`: `update` writes the record whether or not it exists and
  leaves the index alone, so an update that races a deletion brings back a record no
  listing finds. This is why `NoGhostResult`, `EveryJobEnds` and `EndedJobsVanish` speak
  of listed records.
- `job_manager.py:105`: an update read before a cancel sets a cancelled record running again (run
  `job_lostcancel`); `StatusMovesForward` is about records that completed or failed.
- `docx_translator.py:243`: the DOCX translator removes its working directory although
  artifacts are kept.
- `app.py:236`: when the record is gone at the end of a failed run, the per-job retention
  flag is gone with it and the kept directory is removed (`UploadKept` is about the global
  flag).
- `xlsx_translator.py:337`, `app.py:437`: an exception during extraction leaks the
  translator's directory, and `xlsx_*` is not among the sweep's patterns.
- `auth_service.py:174`: what holds for the manual role (run `accounts_manual`) holds for
  every field: a login in flight also restores rights an administrator took away and
  reactivates an account that was deactivated.
- `users.py:603`: "remove every personal trace" fails when a login or a refresh looked
  at the document before it was deleted and stores its token after the tokens were: the
  token stays, although it cannot be used any more. The retry removes it
  (`RetriedForgetIsFinal`); `access.py:276` can give a forgotten id a personal grant again.
- `legacy_role_migration.py:64-76`: each start of a service reads every user and writes back the whole
  documents of those who follow AD, so like a login it undoes what an administrator stored in
  between; "users already on user/admin/custom roles are only updated when their manual_role
  flag needs stamping" (41-42), which is nearly all of them, since nothing tells that the stamp is
  there already. A role that an administrator made again under the name `operator` or `viewer`
  and assigned by hand becomes `user` at the next start.
- `users.py:86`: "Role an AD login would assign" compares group names without case and
  stripped, the login (`ldap_service.py:169`) compares them exactly, so after "reset to AD" a
  person may be an administrator until the next login.
- `app.py:1720`: the purge leaves a running job to its pipeline, which completes it when
  its last checkpoint is behind.
- `service.py:827`: `import json` inside `translate_document` makes `json` local to the whole
  function; its uses at lines 601 and 650 raise `UnboundLocalError`, which is caught, so
  those diagnostics are never written.

Jobs and their directories:

- `retention.py:1-8` ("including the OKAPI/XLIFF working dirs — survive"), the description of
  `POST /jobs` (`app.py:702-705`) and `README.md:18, 141` promise that artifacts are kept. The
  `finally` of the DOCX, XLSX and PDF translators removes their directory in every run.
- `xlsx_*` and `lo_profile_*` match no pattern of the sweep and none of
  `_TEMP_PREFIXES` (`retention.py:37`), although `service.py:214-219` speaks of `xlsx_*`;
  the shared volume of the ODA converter is covered by no sweep. A PDF translator
  removes its directory only on `ConversionError`, `cleanup_temp` of the ezdxf backend is never called.
- `app.py:418-425`: when a listing fails, the protected set is empty and the directory of a job
  that runs for longer than the cutoff may be swept; the same holds for ended jobs
  beyond the 500 newest. `SweepSparesTheLiving` has both as its exceptions.
- `service.py:850`: `fail_job` inside the integrity gate may raise and is swallowed, so a job with a
  critical finding is completed. The gate finds losses only for DOCX uploads.

- `retention.py:15` ("keep at most N retained dirs") and 17 hold for the directories that `_TEMP_PREFIXES`
  names: a marked `xlsx_*` directory of a failed run is never counted and never purged. A
  removal that fails (`retention.py:184-190`) is logged and the directory stays over the cap; one
  that broke off behind the marker is no retained directory any more.
- `ezdxf_backend.py:137-149`: `set_text` swallows every exception, and a DIMENSION's override is
  written to an attribute that does not exist (`dim_text_override`), so it never changes; the texts
  of a table are set on entities of a proxy graphic that is not part of the document. The
  drawing is saved with the source texts in these places and the job completes; `dxf_builder.py`
  logs a DIMENSION among its updates (`OutputIsWhole`, mishap "unset").

Conversion:

- `automation.py:52-59, 167-184`: First PDF's DOCX is taken as soon as it is not empty, and its
  process is killed; it may be torn. The loop looks for the DOCX and then polls the
  process, so a program that writes and exits in between counts as `CONVERT_FAILED`,
  although `automation.py:17-18` says that an exit is a failure only without a DOCX.
- `config.py:24-42`, `pdf_to_docx_converter.py:150-156`: under about 2.7 MB the client's
  deadline is earlier than the server's watchdog, so `CONVERT_TIMEOUT` never reaches it;
  the deadline also runs while the request waits for the lock (`server.py:127`).
- `oda-converter/converter.py:100-132`: the timeout kills `xvfb-run` and not the converter below it,
  which may write its product behind the answer; nobody removes it, and a later call on the same
  stem may take it (`OrphanWrites`).
- `oda_converter_service.py`: names of the shared volume are made of the process id and the stem, so
  two jobs with equal names collide (run `cad_names`); a product of an earlier call is taken when
  the converter exits with 0 and writes nothing; the local mode takes the output of a
  converter that failed or was killed (222-224, 269-273) and `os.rmdir` fails on a
  directory that is not empty (227).

Texts:

- An answer without content, or one that is no object, raises an `AttributeError` that ends the
  whole job, although `service.py:566-577` says that a failed batch keeps its originals; ids
  that are not in the batch are stored unchecked; the findings of split halves are lost
  (`openai_provider.py:576-578`).
- `xlsx_content_classifier.py:259, 280`: ids of chart and shape texts are made of 20 characters
  and are not unique, contrary to `TextSource` (60-62); `_apply_to_chart_or_shape` finds a
  label by its text, which an earlier translation may have become; `_set_r_text` drops a
  translation when several runs have no text; of a rich comment only the first `<t>` is
  written.
- `_set_target_with_inline_codes` (`okapi_service.py`): a tail's trailing and an element's
  leading space are dropped, so words may be glued together; elements nested in
  others keep their source.
- `dxf_translator.py`: a source text that reads like `[[F0]]` is replaced by a code; nothing checks
  the placeholders of a translation (`translation_validator.py` is not used); paragraphs
  without text are dropped when a split text is joined, although the docstring speaks of
  originals; proxy texts of tables are never written back.
- `numeric_fidelity.py`: numbers that were added and stray placeholders are accepted, repaired
  references may trade places, dates are protected but not compared. A number of a single digit
  is neither protected nor compared (42-43: "Bare digit runs (>=2 digits to reduce decimal
  noise)"), so a translation with another digit in its place is accepted.

Roles, grants, glossary, limiter:

- `glossary_access_resolver.py:341`: "Always includes `default`" is not so when nothing grants it;
  the environment's map is used again when loading the grants fails or the last grant was
  deleted (124-137), contrary to `config_seeder.py:12-13`. A user with a custom role also gets
  the grants of the role `viewer` (103-110), and the matrix cell of the custom role does not show
  them; `MatrixShowsWhatIsEnforced` takes the rows of both names together.
- `role_config.py:235-243`: "on the next read" fails for a process that has not observed a version
  yet, for a load in flight across the change, and when the key expired.
- `group_grants.py:89-91`: provisioning decides on the cached documents and may overwrite a decision that
  is younger than they are; it compares the exact spelling (102-114), the enforcement folds
  it (`role_config.py:438-446`).
- `config_seeder.py`: seeding that stops half way is never completed, since the collection is not
  empty any more. The deletion of a role and its assignment to a user are not ordered;
  deleting a group decides on a cache that may be stale.
- `glossary_service.py:221`: "the duplicate check always runs" does not keep two requests from
  both passing it, and `get_entries` looks at the default table when a collection has
  none. `GET /glossary/{id}` always reads the default table.
- `auth_router.py:76`: `Retry-After` is rounded down, so a client that comes back exactly then may be
  refused again; the header is missing when the request left the window between the two
  readings of the clock.

## 6. Not modelled

- The activity journal and the monitoring log: appended and read, no decision depends on them.
- The settings, dashboard and documentation pages of the admin service, the frontend, the
  scripts and tools: they show or forward what the modelled parts keep.
- The diagnostics scanners (glue, quality, loss reports): pure functions over texts whose
  results are reports; of the integrity gate only whether it can fail a job is in
  `TranslatorFiles`.
- Layout: fonts, styles, page geometry, what the post-processing of a DOCX changes, the geometry
  of a drawing. What `DocumentText` keeps is where words end up.
- The search and the import formats of the glossary; the prompts.
- Redis failing in the middle of a job (`app.py:238`): `JobLifecycle` takes Redis as available, so the
  record and directory left by a failing handler are in no run. `ConfigStore` has Redis and
  MongoDB failing at every call.
- Two documents of one username: the unique index makes the second insertion fail.
- LDAP answers: the groups of an answer are an input of the login.

## 7. Plan

Done: all modules of section 2, their runs, and the proofs of section 4: every safety invariant and
action property that a run checks is a theorem. Left, in this order:

1. Failing Redis calls in `JobLifecycle`, with the handlers of a crashed run.
2. A composition of `JobLifecycle` with `ArtifactSweep` over the directories of one job.
