# Cinematic Story Studio: verification project

Cinematic Story Studio turns a written story into a cast, annotated and
auditioned audio production on the user's own machine. An Electron desktop shell
(`src/apps/desktop`, TypeScript) owns one child process, the local service
(`src/apps/local-service`, Python, FastAPI, SQLite). The service answers HTTP
requests, keeps every durable fact in one SQLite database, runs long work as
*jobs* in one worker thread, and owns further processes: one parser for each
document and the speech workers that speak auditions.

This directory holds TLA+ modules of that system, TLC configurations that check
them on small instances, and proofs checked by TLAPS. All paths below are
relative to `src/`; `service/` abbreviates
`apps/local-service/src/cinematic_story_service/`.

| module | what it is |
|--------|------------|
| `JobQueue` | the job queue, its worker thread and the service process |
| `JobLifecycle` | what the queue promises its clients (abstract) |
| `ServiceManager` | the desktop's owner of the service process |
| `DatabaseUpgrade` | the data-directory lock, backups and the migration chain |
| `RecoverableStore` | what opening the database promises (abstract) |
| `ModelPackages` | the files and rows of the managed speech model |
| `ParserProcess` | one document extraction in its own process tree |
| `SpeechRuntime` | the managed speech workers of a generation |
| `OwnedProcesses` | the two composed with the worker thread and the lifespan |
| `StoryReview` | documents, analyses, their corrections and review gates |
| `CastingReview` | the casting of an analysis, its corrections and gates |
| `EvidenceChain` | the two composed: what an audition may start from |
| `AuditionReview` | sessions, clips, pronunciation and voice readiness |
| `StoryCorrections` | what each human correction of an analysis changes |
| `PrivateStorage` | the files of documents, scripts and audio, and their rows |
| `JobQueueProofs`, `ServiceManagerProofs`, `DatabaseUpgradeProofs`, `ModelPackagesProofs`, `OwnedProcessesProofs`, `StoryProofs`, `AuditionReviewProofs`, `PrivateStorageProofs` | theorems and their proofs |
| `MC*.tla`, `MC*.cfg` | instances for TLC, one configuration for each question |

PROJECT.json lists components, runs, mutants, the source lines of every
definition, hazards, findings and theorems.

## 1. Inventory

For each component: the state it keeps, what it does, with whom it interacts,
what is hard about it, and what makes it correct.

**Job queue and worker** (`service/jobs.py`, with the lifespan of
`service/app.py` and `service/launcher.py`; `JobQueue`). State: the tables
`jobs`, `job_attempts`, `job_events`, `job_checkpoints`, `idempotency_records`,
the parser and analysis execution rows, and the status column of the row a job
works for (extraction, casting run, audition session); in memory, the worker's
stop flag and `_active_job_id`. Operations: five ways to create a job, cancel,
retry, resume, read events; the worker's claim, five pipelines with boundaries,
progress, checkpoint and publication; start-up reconciliation and recovery of
imports without a job; graceful stop. API handlers and the worker interact only
through transactions. Hard: cancellations that commit between any two
transactions of a pipeline; crashes and stops at any point; retries of old jobs
beside new ones; checkpoints that outlive a release; several rows that must tell
one story; SQLite refusing a transaction. Correct when a target has at most one
active job, a committed cancellation wins, no running job is forgotten, every
mirror row agrees, results are published once for each success, and work goes on.

**Document import and extraction** (`service/projects.py`,
`service/document_ingest.py`; `JobQueue`, `StoryReview`, `PrivateStorage`). State:
source documents and their files, extractions, Import Reviews, the project's
story. Operations: import, re-extract, publish an extraction, decide a review,
sort out staged files at start. Hard: a crash between the extraction and its job,
or between a file and its row; reviews of extractions that are not the newest any
more. Correct when every pending extraction gets its job, every row has its file,
and only the newest approved text counts.

**Whole-book story intelligence** (`service/story_intelligence.py`,
`service/whole_book_analysis.py`, `service/analysis.py`; `JobQueue`,
`StoryReview`, `StoryCorrections`). State: runs, stage checkpoints, findings,
corrections, gates. Operations: run agents, publish, correct, decide gates. Hard:
corrections and approvals against superseded evidence; corrections of one row that
change what other rows show; corrections replayed over another run. Correct when
what is approved refers to the current text and corrections, and a correction
means the same in a rerun.

**Casting** (`service/casting_repository.py`, `service/casting.py`; `JobQueue`,
`CastingReview`). State: runs, roles, assignments, snapshots, gate decisions, the
catalog of voices. Operations: create or reuse a run, publish, assign, lock,
reject, add a role, decide a gate, record drift. Hard: nothing tells a casting
that its analysis, its text, the catalog or a right changed; every consumer
compares again. Correct when what counts as approved is what the reviewer saw.

**Auditions** (`service/audition_repository.py`, `service/audition_jobs.py`,
`service/auditions.py`, with `service/pronunciation.py`; `JobQueue`,
`SpeechRuntime`, `AuditionReview`, `PrivateStorage`). State: sessions, requests,
clips, cache artifacts, the pronunciation dictionary, five kinds of review; the
files of scripts and audio. Operations: create a session, generate, take from the
cache, decide entries and reviews, clear the cache, read the workspace (which
reconciles and refreshes), sort out files at start. Hard: invalidation follows
several dependencies at once, reviews are content-addressed and come back, files
and rows change in different steps. Correct when readiness rests on current
evidence, rows have their files and cleared audio stays away.

**Database open, lock and migration** (`service/database.py`,
`service/models.py`; `DatabaseUpgrade`). State: the schema version and ledger,
one backup for each older version, the data-directory lock. Operations: lock,
inspect, back up, migrate from version 1 to 5, create, verify, close. Hard: a
crash between any two steps, a second service, older releases and restored
backups in between. Correct when an interrupted upgrade goes on and every
recovery point survives.

**Desktop service manager** (`apps/desktop/src/main/service-manager.ts`;
`ServiceManager`). State: the child process, its phase, generation counters, the
restart budget, timers. Operations: start, stop, reconnect, terminate, health
checks, the child's exit, automatic restart. Hard: all of them interleave at
every `await`. Correct when at most one child is owned, a stopped service stays
stopped, and late answers of an old generation change nothing.

**Managed speech runtime** (`service/speech_runtime.py`,
`service/speech_runtime_worker.py`, `service/local_speech.py`,
`service/speech_providers.py`, and their users in
`service/audition_repository.py`; `SpeechRuntime`). State: worker processes, the
cached runtime, the quarantine, exit records, rows of instances. Operations:
acquire, reuse, reap, dispatch, terminate, shut down, reconcile at start. Hard:
idle exit, termination, synthesis, cancellation and shutdown race. Correct when
no worker escapes and every exit is recorded once.

**Parser process** (`service/parser_process.py`; `ParserProcess`). A launcher, a
target and a pipe. Hard: deadline, cancellation, death, termination and a late
result race. Correct when a returned result is vouched for by an exit that was
seen, and a tree that may live is reported.

**Model packages** (`service/model_packages.py` and the model actions of
`service/audition_repository.py`; `ModelPackages`). State: the package
directory, directories set aside, the active marker, installation and
verification rows. Operations: install, repair, verify, activate, deactivate,
remove, reconcile at start. Hard: crashes and failures between file operations
and transactions. Correct when a listed installation keeps its bytes and is in
its place.

**Desktop IPC and API client** (`apps/desktop/src/main/ipc.ts`,
`apps/desktop/src/main/api-client.ts`). Polling of a job's events; otherwise
forwarding.

**Without state of their own**: the HTTP layer, launcher and configuration apart
from start-up and exit; input validation and shutdown evidence; renderer and
preload; normalisation and audio quality control (pure functions); capability
checks; contracts, schemas, scripts, prototypes and fixtures.

The 40 hazards found while reading are listed at their lines in PROJECT.json.
Two of them have no property that a run checks, because the code does not keep the
one there is; section 15 describes them.

## 2. Plan and state of the work

| # | module | composes | state |
|---|--------|----------|-------|
| 1 | `JobQueue`, `JobLifecycle` | requests, worker, process | modelled, checked, proved, refinement proved |
| 2 | `ServiceManager` | | modelled, checked, proved |
| 3 | `DatabaseUpgrade`, `RecoverableStore` | services, older releases, operator | modelled, checked, proved, refinement proved |
| 4 | `ModelPackages` | files, rows, service | modelled, checked, proved |
| 5 | `ParserProcess`, `SpeechRuntime`, `OwnedProcesses` | worker thread, processes, lifespan | modelled, checked, proved |
| 6 | `StoryReview`, `CastingReview`, `EvidenceChain` | documents, analyses, castings | modelled, checked, proved |
| 7 | `AuditionReview` | sessions, dictionary, reviews | modelled, checked, proved |
| 8 | `StoryCorrections` | corrections, projections, reruns | modelled, checked, proved |
| 9 | `PrivateStorage` | uploads, scripts, generations, clearings, starts | modelled, checked, proved |

Every safety property that a run checks is proved (section 14). What would come
next: the client that follows a job's events, and the merging of cast roles.

The modules meet in these places. `JobQueue` gives the others their jobs: an
extraction, a run or a generation in them begins and ends where its job does,
and the status row a job mirrors is the row they publish. `OwnedProcesses` is the
inside of the step `Work` of an extraction and of an audition, together with the
lifespan whose outline is `BeginRuntimeShutdown` to `JoinWorker`. `EvidenceChain`
ends in `CastAuthority`, which `AuditionReview` sees as its `world`. `ModelPackages`
asks whether a generation still needs the installation (`work`), and its verified
row is the `verification` of `AuditionReview`. `StoryCorrections` is the inside of
the step `Correct` of `StoryReview`: which gates a correction sends back, and why
these. `PrivateStorage` is the inside of `PublishClip`, `RejectCached`, `ClearCache`
and `DamageFile` of `AuditionReview` and of `ImportSource` of `JobQueue`, at the
level of file operations. `DatabaseUpgrade` is the lock and
the file that every other module takes for granted.

## 3. JobQueue: how the model corresponds to the code

### Atomicity

Every repository method opens one session whose first statement is a write: a
conditional UPDATE, or `BEGIN IMMEDIATE`. SQLite admits one writer, so methods
are serialised and each is one action. Three methods read first:
`reconcile_interrupted` and `interrupt_active` run before requests are admitted or
after they were drained, and `settle_pending_cancellation` repeats its condition
in the UPDATE, so that only the order of two settlements can differ. Where the code uses two sessions the
model has two actions: an import (`ImportSource`, then `CreateExtractionJob`)
and a story analysis (`ReadStorySnapshot`, then `CreateStoryJob`); `inflight`
holds the requests between them. The worker's memory between two transactions is
its program counter `pc` and its job `cur`. `active` is `_active_job_id`,
assigned after the claim has committed (`NoteActive`), and `captured` is the
value `JobWorker.stop` reads.

A *target* stands for everything a job freezes when it is created: project,
type, row and fingerprint. Its type decides which rows mirror the job. All
generation requests of one audition session share the session's status
(`RowOf`); all other targets have a status of their own.

### State

| model | code |
|-------|------|
| `target`, `state`, `attempt`, `cancelling`, `resuming`, `retryable` | columns of `jobs` |
| `outcome`, `producer` | `job_attempts` |
| `execution` | parser and analysis execution rows of each attempt |
| `checkpoint` | release that wrote the job checkpoint of each attempt |
| `lastEvent` | the state in the newest `job_events` row |
| `activeKey`, `replay` | the `active_job` and `create_*` idempotency rows |
| `targetState` | status of an extraction, casting run or audition session |
| `publications`, `stale` | results published; inputs superseded by the user |
| `service`, `version`, `orphans`, `starts` | the process, its release, its start-up work |

### Actions

*Requests* (while serving): the creations, `SupersedeInput`, `Cancel`, `Retry`,
`Resume`, and `RequestFails`, a handler the database refuses between its two
transactions. Handlers are drained before the lifespan exit runs, so no request
acts after `BeginRuntimeShutdown`.

*Worker*: `LoopTop` (the stop flag, read twice each round),
`SettlePendingCancellation`, `ClaimNext`, `NoteActive`; then the pipeline
`StartBoundary`, `LoadProgress`, `ReadInput`, `Work`, `SaveCheckpoint`,
`CheckpointBoundary`, `PublishingProgress`, `PublicationBoundary`, `Publish`,
`FinishFailed`, `Finish`. The five job types share these steps; where they
differ, the guard names the type. Extraction and audition have no stored result
checkpoint, the audition runner does not look at the stop flag, the whole-book
runner leaves a cancellation it meets in a stage to the loop.

*Failures*: `WorkerBusy` is a transaction SQLite refuses: the loop tries again, a
pipeline reports a retryable failure, and where nothing catches the exception the
thread ends. `Crash` takes the process away at any moment.

*Process*: `Start` of the same release or a newer one, `ReconcileInterrupted`,
one `RecoverOrphan` for each extraction without a job, `Serve`,
`BeginRuntimeShutdown`, `StopWorker`, `JoinWorker`.

### What is abstracted

- Progress fractions, event numbers, warnings, error texts, payload bytes.
- The stage checkpoints inside a whole-book run are part of `Work`; only the
  result checkpoint is modelled. A resume that may restart from a structure stage
  is a disjunct of `Resume`.
- `"complete"` also stands for an extraction's `partial` and a run's `succeeded`;
  `"pending"` and `"running"` for a session's `queued` and `generating`.
- A join of the worker that times out makes the lifespan drain once more and give
  up; the first is `JoinWorker` taken later, the second `Crash`.
- A target's input is superseded once. A later approval is a new target.

### Idempotency keys

`replay` remembers the job each key was answered with. A request with a used key
changes no row, whether it matches (the job) or not (a conflict), so the model
needs no second case for a mismatch.

## 4. JobLifecycle: what the queue promises

A job is created queued, claimed in order of creation while no other job runs,
cancelled from queued or running, ended as succeeded, failed, interrupted or
cancelled, and queued again only after a failure with fewer than three attempts
or after an interruption; never while another job of its target is unsettled.
`ImplementsLifecycle` says that every step of `JobQueue` is one of these steps or
leaves target, state and attempt of all jobs unchanged. The mapping is the
identity on these variables; the worker, the processes, the transactions and all
other rows are hidden. Run `queue` checks it.

## 5. ServiceManager: one event loop

The main process runs one callback at a time: a request, a timer, a file or
network answer, or the exit event of a child. A step of the model is one
callback, or one asynchronous function from an `await` to the next. When a
callback makes a promise settle or aborts a signal, the functions that wait for it
go on before the next callback; `Quiet` says that none of them is ready, and
every callback is guarded by it. The order among ready functions is left open.

| model | code |
|-------|------|
| `child`, `expectedExits`, `credentials`, `shuttingDown`, `restartTimer` | the fields of those names |
| `attempt` | where `#startOwnedService`, behind `#startPromise`, waits: for its preparations, for readiness and health, for the termination of its child |
| `cancelled` | the attempt's number is no longer `#generation` and its signal is aborted; the code does both together (lines 219-220 and 809-810), and begins no attempt beside another |
| `stopping` | where `#stopOwnedService`, behind `#stopPromise`, waits |
| `termination` | the entry of `#child` in `#terminationPromises`: end of input sent, or killed |
| `startAfterStop` | a `start()` or `reconnect()` that waits for `#stopPromise` |
| `restarts` | `#restartHistory` without the entries older than the window |
| `probes` | calls of `#checkConnectedHealth` that wait for their answer |
| `alive` | processes that run, as far as the event loop knows |

The health timer is not a variable: it is set with the credentials, cleared with
them, and does nothing without them. `ChildExits` may happen at any time, with or
without a termination; `ShutdownTimeout` and `KillTimeout` are the two waits of
`#terminateOwnedChild`, 20 and 2 seconds. Several callers that wait for one stop
are one flag, since all of them get the attempt the first of them begins. A child
object whose executable could not be run (`SpawnFails`) is a `child` that is not
alive: Node reports an error and an exit code for it, but no exit event and no
process id.

## 6. DatabaseUpgrade: every step may be the last

`Database.__init__` takes the operating system's lock on the data directory, and
only then looks at the file. `pc` of a service is the place in that function;
each transaction and each file operation is an action, and `Crash` or `OpenFails`
may come instead of any of them.

| model | code |
|-------|------|
| `db` | version, ledger, rows and journal mode of the database file; `issued` says that version, ledger and schema signature belong to a release |
| `backup[v]` | the file `<stem>.v<v>-backup<suffix>` |
| `lock` | `_DataDirectoryLock`; the system frees it when its holder dies |
| `at`, `digest`, `temporary` | the local variables of the upgrade |
| `Rows(c)` | what the logical digest of a database covers: not its journal mode |
| `clock` | time stamps of ledger rows and new data, all different |

`TakeLock`, `Inspect`, then for each older version `CompareBackup`, `CopyBackup`,
`PublishBackup` and `Migrate`, with `EnableWal` at the first one; a new database is
made by `CreateSchema`; `Verify` opens it; `Transact` is the service's own writing.
Outside, while nobody has the lock, an older release writes to a database of its
version (`OldReleaseWrites`), the operator restores a backup or damages one. That an older release respects
the lock is an assumption about the binaries, not about this source. A temporary
copy that a crash leaves has a name nobody uses again and is not modelled.

`RecoverableStore` is the abstract specification: content moves to the next
version only while the content is kept as a recovery point, its earlier ledger
stays, and a recovery point is never written again. Its variables are the
database file and the backups; locks, places and copies are hidden.

## 7. ModelPackages: files first, then one transaction

Every model action holds `_model_action_lock` from its first read to its last
file operation: `op` is that request and the step it is at. A request reads the
rows and is admitted (`Begin`), changes files, writes the rows in one transaction
(`Persist`), and then deletes what it set aside, or undoes its file operations
when the transaction fails. `Start` is the reconciliation of the next start.

`place` is the package directory, `tomb` are the directories that removals set
aside (`.removing-...pending`), `spare` the one a running repair set aside; each
is absent, exactly what the manifest says, or wrong. A name of a directory set
aside is never used again; the configuration has one more of them than
accidents, so they never run out.

`caveat` remembers the accidents the code does not recover from by itself: bytes
changed from outside, a put-back or a deletion that failed, a repair cut off
between its two renames. `InstalledIsInPlace` and `StartsUnlessCleanupFailed` say
that nothing else leads there. What the model shows about these accidents:

- After a failed deletion or put-back, a package installed again before the next
  start is in the way of every later start, which is refused with
  `MODEL_PACKAGE_REMOVAL_COLLISION`.
- A crash between the two renames of a repair leaves a listed package missing,
  its bytes in a `.backup-...` directory that nothing reads.
- A crash after the marker of an activation leaves `active.json` beside an
  inactive row; the next activation or deactivation settles it.

## 8. ParserProcess, SpeechRuntime, OwnedProcesses

*ParserProcess.* `pstep` is the place in `ParserProcessRunner.run`. The launcher
and the target (`tree`) may die at any step, the target may send a result, an
error or something malformed, and cancellation or deadline are seen at each look.
A termination is confirmed or not; whatever survives is killed when the job
object's handle is closed (`SurvivorsEnd`). The parent polls the pipe and asks
afterwards whether the target is alive, so a target that sends its result and
exits between the two is reported as `PARSER_PROCESS_FAILED`, which is retryable.

*SpeechRuntime.* One runtime key (package and profile) with identities of its
instances. `gen` is the place in `run_generation_job`: acquire (reuse the cached
one, or start and record a new one), mark busy, dispatch, publish, or the
exception handler with quarantine, exit evidence and row. `DatabaseFails` lets
every transaction of these handlers fail. Shutdown seals acquisition and
publication, takes the runtimes one by one and counts what it could not account
for. Identities are interchangeable, so the run uses symmetry.

*OwnedProcesses* composes them: one worker thread that runs one job at a time, the
lifespan that seals the runtimes, stops the thread, stops the runtimes and repeats
what did not complete, and a restart at any moment.

## 9. StoryReview, CastingReview, EvidenceChain

Every action is one `BEGIN IMMEDIATE` transaction. Rows are only appended, so a
row is its index, and a fingerprint over rows is modelled by the revisions it is
computed from.

*StoryReview*: extractions of all documents (pending, complete, failed, retried)
with their Import Review, the project's story, analysis runs with the corrections
they were created from, four gates for each run. *CastingReview*: a run pins the
decisions, corrections and catalog it was created from; a human chooses, locks,
clears, rejects and adds roles, each publishing a new snapshot; decisions belong
to a snapshot; drift is recorded when a read or decision looks (`LatchDrift`), and
then invalidates decisions. The readers differ in when they look: the project
summary (`SummaryLatchesDrift`) and a request that is answered from its idempotency
record (`ReplayCorrection`, `ReplayDecision`) record drift without asking first whether
the evidence still holds. *EvidenceChain* lets both change and states what an
audition may start from (`CastAuthority`).

Abstracted: scores, warnings and conflicts (taken as acknowledged), restricted
rights (taken as acknowledged), `changes_requested` (as `rejected`, which the code
never tells apart), one review for each snapshot and gate, merging of roles.

## 10. AuditionReview

The database is one record, `book`; each handler is the composition of the
functions it calls, from book to book, with the reconciliation and the refresh
that the code runs before and after. `world` is what the rest of the system
says: the approvals of the cast, its assignments, whether the evidence holds, the
verified model.

A session freezes the approvals, the dictionary and the verification it was
created under. A clip knows which pronunciations it was spoken with (`plan`) and
its audio artifact, which a later generation may take from the cache. A review is
the evidence it shows; a decision belongs to a review. `Refreshed` makes the
reviews that the current evidence asks for and, in the code's order, whatever
invalidations follow from what it finds.

Abstracted: a queued and a generating session are one state; looking up the cache
and publishing are one step; clips with a blocking quality finding are not
published; the script has one word the dictionary may explain; the cast and its
assignments are version numbers, rights and runtime part of `current`. The
instance starts from two finished projects, made with the operators of the
handlers that lead to them (`MCAuditionReview`), because the way there from an
empty book uses up the bounds.

A model that was verified again makes a session drift, but the checks of a request
(`EvidenceValid`) accept any verified model; only a publication asks for both.

## 11. StoryCorrections

A correction is a row that is only appended; every read replays the rows that are
in scope over the machine's rows. The model has the rows of a small book (chapters
and scenes, characters, mentions, lines) and seven kinds of corrections: boundary
(add, remove, move), label, identity, merge, split, mention and speaker. The other
categories of the code change one row that no other entity reads.

Everything that is read is read from a view: a run and the corrections in its scope,
as a value (`At(r, n)` is what run `r` shows of the first `n` corrections, `Now(r)`
what it shows of all). What two views show can so be compared whether they are of two
instants or of two runs.

| model | code |
|-------|------|
| `InScope` | `_correction_scope_condition`: the run's own corrections, and those of compatible runs recorded until it was created |
| `About`, `Applicable`, `EffectiveCorrection` | `_effective_corrections`, `_applicable_corrections`, `_effective_correction`, each in its own order (`Latest`, `LatestRevised`) |
| `Remapped`, `PatchFor` | `_correction_patch_for_run` |
| `Replayed`, `Replay`, `BoundaryState`, `Item`, `Standing` | `_structure_boundary_state`, `_structure_item_from_effects`, `_project_structure_row` |
| `Merges`, `Chain`, `Followed`, `Replacements`, `SplitOwner` | `_registry_effect_index` |
| `OfMention`, `OfLine` | `_apply_registry_effects`, `_effective_mention_index` |
| `Evidence` | what the entities of each gate show |
| `GatesSentBack` | the gates that `append_correction` returns to pending |
| `clock`, `at` | `recorded_at` and `created_at`; they may be equal |

A correction of run `r` is checked as the last of a history: the evidence before
and after it is compared, gate by gate, with the gates it sends back
(`ChangedEvidenceGoesBack`) and with what the other runs show (`RunsAreIsolated`).
`CorrectionsSurviveReruns` compares two runs of one text that see the same
corrections.

The code overlooks some of what a legal correction changes, and loses one kind of
correction in a rerun. The properties name these cases and say that there are no
others: `Overlooked` is what a correction changes and no gate is sent back for
(`MovesUnseen`, `LinesUnseen`), `CarriedEvidence` what a run shows less the scenes
under an added chapter. `EveryChangeGoesBack` and `EveryCorrectionSurvives` are the
same properties without the exceptions; section 15 has what breaks them.

## 12. PrivateStorage

A file and its row never change in one step. A document is staged, moved to the
place its digest names, and then recorded; a script is staged and recorded in one
transaction and moved afterwards; audio is staged, moved and recorded in one
transaction. Clearing the cache renames each file to a tombstone, marks the rows
`purged` in the same transaction, and then deletes the tombstones or renames them
back; the request holds one list of what it renamed, set to `purged` or to
`quarantined`, and one word for what it will do with it (`clear`, `delete`,
`restore`). Requests are handled by a pool of threads and
only the transaction excludes others, so any number of clearings may be renaming back or
deleting while another one begins. `Start` is what the lifespan does before it serves: it removes staged uploads,
finishes or removes scripts (`StartScript`), puts back or deletes tombstones and
removes audio without a row (`StartAudio`), and marks missing audio (`Serve`).

| model | code |
|-------|------|
| `writer` | the holder of `BEGIN IMMEDIATE`; `archive` the holder of the import's archive lock |
| `sourceFiles`, `scriptFiles`, `audioFiles` | files at their final places |
| `scriptStaging`, `audioStaging`, `tombstones` | staged files and renamed ones |
| `availability`, `cache` | `audio_artifacts.availability`, the cache record of one key |
| `clearing` | the list of renamed files a clearing request still holds |
| `lost` | audio that somebody deleted from outside |

Every file operation and every commit may fail, and the process may die between
any two of them, also while a start is under way; these and deletions from outside
are the `MaxFaults` faults. Names, digests and path checks are the identity of a
file; whether bytes are the right ones is `Readable`.

## 13. What each run shows

| run | instance | states | shows |
|-----|----------|--------|-------|
| `queue` | a story `s`, requests `a1`, `a2` of one session; 2 jobs, 2 keys, 2 attempts, 2 starts | 799,583 | `TargetsAreExclusive`, `WorkerAndJobAgree`, `NoRowStuck`, `GracefulStop`, `CancelWins`, and the refinement of `JobLifecycle` |
| `attempts` | one job of an import, whole book, casting or audition; 4 attempts, 2 releases, 3 starts, 1 refused transaction | 1,195,273 | `RowsMirrorJobs`, `EventLogAgrees`, `PublishedOncePerSuccess`, `CheckpointProvenance` |
| `liveness` | an import and a story; 2 jobs, 2 attempts, 2 starts, fair | 179,871 | `OneJobPerExtraction`, `StartRecoversImports`, `StartedJobsEnd`, `QueuedIsClaimed` |
| `service_manager` | three process names, two automatic restarts, fair | 24,614 | `OwnedAndConnected`, `PhaseTruthful`, `LostServiceRestarts`, `StaysDown`, `PhasesEnd`, `AutomaticRestartsEnd` |
| `database_upgrade` | 2 services, the 5 schema versions, 2 faults, fair | 361,344 | `RecoveryPoints`, `InterruptedUpgradeResumes`, `UpgradeCompletes`, and the refinement of `RecoverableStore` |
| `model_packages` | 5 names for directories set aside, 4 faults | 52,627 | `BytesKept`, `InstalledIsInPlace`, `WorkKeepsInstallation`, `StartsUnlessCleanupFailed` |
| `owned_processes` | 2 runtime identities, failing transactions | 3,517,896 | `NoOrphan`, `ResultIsVouched`, `ExitIsFinal` |
| `evidence_chain` | 2 extractions, a run with 2 upstream gates, a casting with a narrator and a custom role, 2 voices with 2 versions, 2 changes, 3 corrections | 909,148 | `NothingApprovedHasChanged`, `RefusalStands` |
| `auditions` | from two finished books; 3 sessions, 3 clips, 2 entries, 1 change | 68,691 | `ReadyRestsOnCurrentEvidence`, `UnrelatedApprovalsStay` |
| `corrections` | 2 chapters, 2 scenes, 2 characters, 2 mentions, a line; runs of 2 texts; 4 runs and corrections together | 279,698 | `CorrectionsSurviveReruns`, `ChangedEvidenceGoesBack`, `RunsAreIsolated` |
| `storage` | 2 uploads of 2 contents, a script, 2 generations, 2 clearings that overlap, 3 faults | 3,218,114 | `RowsHaveTheirBytes`, `PurgedAudioIsGone` |
| `busy_worker` | an import; two refused transactions | until found | violation: `WorkerSurvivesBusy` |

### Bounds, and why they are enough

- *Jobs.* Conflicts about a target, a key, a row or the worker are between two
  jobs, and the third party is always a request or the process. One job is
  enough where the question is about a single job's rows (`attempts`).
  `HasRoom` keeps a place under the bound for every pending extraction, so that
  start-up recovery never meets it; the code has no such limit.
- *Attempts.* 4 lets a retry meet the limit of three, and a resume pass it.
- *Releases and starts.* Old and new; save a checkpoint, interrupt, resume, stop,
  upgrade, claim takes three starts. A process that has no start left is neither
  stopped nor killed, so that a run does not end in a service that stays down.
- *Refused transactions* (`MaxBusy`). One reaches every place a refusal can be
  met, two also the report of the failure it caused.
- *Service manager.* No counters: requests, crashes and restarts go on for ever.
  Three names are enough for a live child, an older connection whose probe is
  still on its way, and a fresh process; a name is used again once nothing refers
  to it.
- *Database.* `Latest` is the code's. Eight time stamps let a start find any
  version, upgrade it and be written to once in between, by the service or an
  older release. Two faults are a crash in the recovery from a crash.
- *Model packages.* Four faults are, for example, a failed put-back, a failed
  deletion, and a crash at each of two starts. A name is used by at most one
  removal, and no removal leaves its directory behind without a fault.
- *Owned processes.* A leaked runtime and its successor. `MaxOwned` bounds the
  runtimes of the life of a data directory.
- *Evidence.* Two extractions are the old text and the new one. Every change
  matters only by differing from what was pinned, so one change makes every
  mismatch, and the second undoes it where the code can undo it (a catalog that
  comes back). A correction that repairs a missing or invalidated assignment is not
  counted as a change, so that a third one finds the repaired role.
- *Auditions.* Old and new evidence of one kind, and a third session that takes
  the first one's clip from the cache.
- *Corrections.* Two runs and two corrections, or one and three: the second
  correction meets what the first one made, the third is of the row that both
  concern, and a rerun sees the two. Both scenes are in one chapter so that moving,
  removing and adding beside it touch both.
- *Storage.* Two of each kind that competes: uploads of the same or other bytes, an
  audio file and its successor under the cache key, a clearing and one that begins
  before the first has renamed or deleted its files.
  Three faults are a failed operation, a crash, and a crash of the start after it.

Symmetry is used for idempotency keys (`queue`), runtime identities
(`owned_processes`), and voices and catalog versions (`evidence_chain`): no constant,
initial value or action tells the members of these sets apart. `owned_processes`
checks an action property of the form `[][A]_vars`, which symmetry preserves; runs
with liveness use none.

`CHECK_DEADLOCK FALSE` stands in `attempts`, `busy_worker`, `evidence_chain`,
`auditions`, `corrections` and `storage`, where the bounds come to an end (a single
job at its last attempt, requests or changes used up), and in `service_manager`,
where the application ends.

### Fairness

*JobQueue.* Weak fairness of `WorkerStep` and `Recovery`. The worker is a thread
of the service that only waits for bounded times (the loop polls, the parser and
the speech worker have deadlines), so a step that stays possible is taken. The
desktop shell starts the service again and start-up does not wait for anybody, so
`Recovery` is fair; it includes the steps of a stop already begun. Requests,
refused transactions, shutdown and crashes are not fair: nothing makes a user act
or a failure happen. `QueuedIsClaimed` rests on the limit of attempts, since a
retried older job is claimed first.

*ServiceManager.* Attempts and stops are fair, as each of their waits has a time
limit (readiness, health, shutdown, kill) or is a local file operation; so are a
restart timer that was set, a caller whose stop has settled, and the last step of
a quit. Exits, probes, the passing of the restart window and the user are not.

*DatabaseUpgrade.* `TakeLock(p)` and `OpenStep(p)` are weakly fair: the holder of
the lock waits for nobody, and a service that is down is started again by the
shell or its user. Writing, closing, faults and everything outside are not.

## 14. Proofs

Each proof module names the assumptions on the constants that its module makes;
no other assumption is used, and all constants are arbitrary otherwise.

`JobQueueProofs` (for every set of targets and keys, every assignment of types and
every bound: `ConstantsAssumption`, and `RowAssumption`, that targets which share a
status row have one type):

| theorem | says |
|---------|------|
| `Invariance` | `IInv` holds in every reachable state |
| `TypeCorrect` | `TypeOK`; each status row only takes values of its own column |
| `ActiveKeyExact`, `NoTwins`, `TargetExclusion` | at most one active job for each target, and its active key names exactly that job |
| `EventLogFaithful` | the newest event carries the job's state |
| `ExtractionJobUnique` | an extraction has at most one job |
| `WorkerKeepsItsJob`, `NoForgottenJob`, `WorkerJobAgreement` | nobody but the pipeline ends the pipeline's job; a running job has a worker, or its absence is accounted for |
| `StopIsClean` | a graceful stop leaves no job running |
| `CancellationWins` | a committed cancellation is never overruled |

None of these is inductive alone, so the invariant `IInv == Data /\ Control` ties
them together. `Data` speaks of rows: their types, that a job's row is complete
once it exists, that active keys are exact, that events agree, that an extraction
has one job. `OneActivePerTarget` is not preserved by itself: `AcquireActiveKey`
would allow a second active job if a key could be missing or left over. Exactness
of the keys is the strengthening, and it needs every path that ends a job to
release its key. `Control` says who may hold a running job at which point.
`GracefulStop` needs `RunningPlaced` (a running job is the worker's own, or the
captured one of a stop after the pipeline was left, or its worker died, or the next
start will reconcile it), which needs `StopCaptured` (a stop that finds a pipeline
past its first boundary has captured its job), which needs `ActiveIsCurrent` (the
note of the active job is written before that boundary). `OrphansAreJobless`
carries the list of jobless extractions through recovery, so that each is given
its first and only job. The module proves one lemma for each way the rows change,
one for the control part of requests and of pipeline steps, then one for each
action of `Next`, each giving `IInv'` and that no cancellation is overruled.

The last part of the module is about what several tables say of one job (the same
assumptions):

| theorem | property |
|---------|----------|
| `RowsTellOneStory` | `RowsMirrorJobs`: attempts are a history, executions end as their attempt, a status never contradicts its job |
| `BusyRowsHaveJobs` | `NoRowStuck` |
| `PublicationsAreSuccesses` | `PublishedOncePerSuccess` |
| `OwnReleaseResults` | `CheckpointProvenance` |
| `NoImportForgotten` | `StartRecoversImports`, an action property |

The many actions change these tables in eight ways only: not at all, a job
appears, attempts of active jobs end without success, another attempt is queued, a
cancellation is requested, a job is claimed, a result is published, or one row is
written beside the jobs (an import, a superseded session, an execution that begins).
`RowSteps` proves this from `IInv`, once for all actions, and each property is
then proved for the eight ways. Several attempts may end in one step because
the reconciliation of a start ends all of them, and then several jobs of one
session row decide its status together: `AttemptsEnd` names the last one of each
row. `RowsMirrorJobs` is strengthened by `HistoryInv` (which outcomes may precede
the present attempt, and that no execution outlives it) and `StatusInv` (what each
type's status may be in each state of its job, and in which state it waits for its
job); `CheckpointProvenance` by `CheckpointInv`: attempts that have not begun have no
checkpoint, so that the one just written is the latest; `StartRecoversImports` by
`RecoveryCovers`: while a start recovers, every pending extraction without a job is in
its list. `PublishedOncePerSuccess` needs from `IInv` only that
a job succeeds once; the count is `FS_AddElement` of the library.

Between the two stands `Refinement`: each action of `JobQueue` is a step of
`JobLifecycle` or a stutter. It needs `IInv` in two places: a target without an
active key has no unsettled job (for the steps that create or requeue one), and no
job is running when the worker claims.

`ServiceManagerProofs` (for every set of process names and every limit of restarts:
`ManagerAssumption`) proves `ManagerInvariance`, `ManagerTypeCorrect`,
`SingleOwnedProcess`, `LiveConnection`, `OwnershipAndConnection`, `NoLateSpawn`,
`TruthfulPhase` and `LostServiceIsRestarted`. `ManagerInv` has two parts.
`Ownership` says that an attempt that was not aborted is alone with its child,
that whatever a stop finds alive is expected to exit, and that a stop which joins
an attempt has no child left; without it, an attempt that goes on after a stop
could own a second process. `Display` says which functions may stand behind each
status; it needs that a stop which is not final always has a caller that starts
the service afterwards.

`DatabaseUpgradeProofs` (for any services and any number of schema versions:
`ServiceAssumption`, `LatestAssumption`, `BoundsAssumption`, `MarksAssumption`):

| theorem | says |
|---------|------|
| `Invariance` | `Inv` holds in every reachable state |
| `TypeCorrect` | `DatabaseTypeOK`; who is past the lock is its holder, so nobody works beside it |
| `RecoveryPointsKept` | the rows a migration started with stay in the backup of their version |
| `NoLockOut` | the service's own interrupted upgrade never makes a start refuse a backup |
| `Refinement` | `DatabaseUpgrade` implements `RecoverableStore` |

`RecoveryPoints` is not inductive: that a migration starts from rows which its
backup has, depends on what was found out several steps before. `Knows` says at
each place what the lock's holder knows: from `copy` on that there is no backup
and what the digest is, at `migrate` that the backup is the database.
`OwnBackups` says that backups nobody outside touched are of the versions the
database has passed, and the one of its present version equal to it; this is why a
backup found at a restart can be gone on from.

`ModelPackagesProofs` (for any number of faults: `FaultAssumption`,
`TombAssumption`):

| theorem | says |
|---------|------|
| `Invariance` | `Inv` holds in every reachable state |
| `BytesAreKept` | a listed installation has exact bytes somewhere |
| `InPlace` | between requests it is in its place, unless a named accident happened |
| `WorkIsSafe` | no unfinished audition job loses its installation |
| `NoCollisionOfItsOwn` | a start is refused for a collision only after a failed cleanup |

The properties speak of the time between requests; in the middle of one, `OpShape`
says what it remembers, `OpRows` which row admitted it, `OpBytes` what it knows of
the bytes. `OneAside` is the heart: without a failed put-back or deletion at most
one directory is set aside, it belongs to the running request, and the place is
empty, so reconciliation has one thing to do. `Somewhere` and `Undamaged` say where
the bytes of a listed installation are. The proofs have one lemma for each action
and in it one step for each of the seven conjuncts.

`OwnedProcessesProofs` (any runtimes and bounds: `SpeechAssumption`, which keeps the
runtimes apart from the two marks that stand beside them):

| theorem | property |
|---------|----------|
| `OwnedInvariance` | `OwnedInv` holds in every reachable state |
| `NothingEscapes` | `NoOrphan` |
| `ResultsAreVouched` | `ResultIsVouched` |
| `EndedRuntimesStayEnded` | `ExitIsFinal`, an action property |

`NoOrphan` looks at one process after its call or its owner has ended; the invariant
says who holds it until then. `InstanceOK` does so for a runtime: whatever may still
run, has a live row or is owned without an exit record is cached or in quarantine, an
exit counts as confirmed only if the process is gone, and a row is written before its
runtime is cached. The lifespan adds what a shutdown may take for granted: once the
thread has ended after `worker.stop()` it stays ended (`quiesced`), and from then on
the cached runtime is among those to be stopped (`Kept`) and the quarantine is, or the
shutdown knows that it was incomplete (`Listed`). A shutdown that began while the
worker was alive gives neither, and this is why the lifespan runs it again.

`StoryProofs`, its first part about `EvidenceChain` (any gates, roles, voices, catalogs
and bounds: `StoryAssumption`, `CastingAssumption`):

| theorem | says |
|---------|------|
| `CastingsSound` | `CastsInv` holds in every reachable state |
| `ApprovedUnchanged` | what may start auditions is what its approvers saw |
| `RefusalsStand` | `RefusalStands`: no casting starts auditions with a refused voice, and only a human correction, on a snapshot nobody approved, ends a refusal |

`NothingApprovedHasChanged` compares an approval with what the reviewer would be
shown now. `CastsInv` replaces "now" by "at the published snapshot": a decision that
counts for it saw the pinned corrections and catalog and the assignments of the
snapshot, and none of those was latched. That every correction republishes and
every latch removes the decisions is what makes it inductive; `CastAuthority`
itself asks that the pins are still the present state. `RefusalStands` follows: for a
casting that may start auditions from the decisions, which saw no refused voice, and
for a step from the handlers, since a new row is only written by a correction and every
correction republishes.

The second part of `StoryProofs`, about `StoryCorrections` (any chapters, scenes,
characters, mentions, lines, names and bounds, any claims of the machine:
`CorrectionsAssumption`, that a key is of one collection and the characters are
finitely many):

| theorem | says |
|---------|------|
| `CorrectionsTyped` | `CorrectionsInv` holds in every reachable state |
| `EarlierRunsUnchanged` | `RunsAreIsolated` |
| `ApprovalsAreOfWhatIsShown` | `ChangedEvidenceGoesBack` |
| `RerunsShowTheSame` | `CorrectionsSurviveReruns` |

No legal correction is left out, so the theorems also say that the exceptions which
the last two properties name are the only ones. All three properties compare what two
views show, and the views are projected by
replays and chains; so most of the part is about operators, and little about steps.

`CorrectionsInv` says two things of each correction. It is `Sound`: about an entity of
its category, speaking of rows of its own run, of names, or of what an *earlier*
correction added. And it was `Legal` in what its run showed just before it. The second
is not a statement about the present state of the run, which has moved on; it is
inductive because rows are only appended, so that `At(r, i - 1)` never changes again
(`ViewsKept`). Without it the last correction could be any row, and could change what
its gates do not cover. And it says that runs and corrections are in the order of their
instants (`InOrder`), so that of two runs which see the same corrections the later one
has none of its own.

*Two runs.* Views of two runs with the same corrections are `Twins`. Each operator is
shown to commute with renaming the rows of one run into those of the other (`Twin`):
the pieces, the scenes, the merges, the chain of replacements, the splits, the claims
and what is made of a mention or a line. The evidence says `Local` what a row is, so
it is the same. An added parent is not renamed by `_correction_patch_for_run`
(`LooseItems`): the later run shows nothing under it, and what the earlier one shows
under the other chapters is `Carried` (`TwinCarried`). The later run has added nothing
under such a parent itself, as it has no corrections (`CarriedIsAll`).

*One correction more.* `Grown` relates what a run shows with its last correction and
without it. What the correction is not about is read as before (`GrownReads`,
`GrownPiece`, `GrownCharacter`, `GrownClaim`), so what remains is how far its own change
is seen. A label moves nothing (`LabelScenes`). A boundary of a scene touches the scene;
that of a chapter touches the scenes under its target, before or after, and an addition
beside an uncorrected piece touches none, as no scene can name as its parent what is
only added now (`ChapterBoundary`, with `ParentEarlier`). A second addition beside a
piece moves the piece and is `MovesUnseen`. A merge moves the character and whoever's
chain of merges comes by it (`Passing`): any other chain stays what it was
(`ChainAvoids`, `MergeMoves`). If the character was not merged yet, the chains that come
by it end in it, so the code finds their lines (`PassingIsReplaced`); a line whose
candidates, and whose speaker if one was given, are all others stays whose it was
(`LineNames`, `LineStays`).

The replay of a piece and the chain of merges are recursive functions over a range of
numbers. What holds of them is proved by induction over sets of numbers (`Induction`,
from the least element of a set), which needs no operator as a parameter.

`AuditionReviewProofs` (any cast, scopes and bounds: `AuditionAssumption`, that the
names of the roles are not those of the three gates, as one function holds the
decisions of both):

| theorem | property |
|---------|----------|
| `AuditionInvariance` | `AuditionInv` holds in every reachable state |
| `ReadyIsCurrent` | `ReadyRestsOnCurrentEvidence` |
| `UnrelatedApprovals` | `UnrelatedApprovalsStay`, an action property |

Both properties need to know that a clip which counts speaks what the dictionary says
now. No field says so: the code invalidates sessions and decisions, and compares
dictionary revisions. `Spoken` is the bridge: a clip speaks as its text would be spoken
now, or its session is invalidated *and* froze another dictionary. The second half
matters because a publication makes an invalidated session reviewable again without
looking at its state; it asks for the present dictionary instead, which only grows
(`Frozen`). `ApprovedSpoken` says the same of the newest clip of a role whose decision
stands, which is the clip an invalidation looks at and not always the one that was
decided on; that later clips never rest on older dictionaries closes the gap.
`Vouched` says that a pronunciation review of the present dictionary is eligible only
if no entry is open.

The handlers are compositions, and so are the proofs: one lemma for each function on
the book. Most only take things away (`Follows`), so that looking at the reviews keeps
the invariant and everything current (`Fresh`). `PlanElsewhere` and `PlanDiffers` are
about the dictionary alone: deciding an entry changes exactly the plans that use the
entry or one it stands for, before or after. `Affected` is therefore neither too small
(which `Spoken` needs) nor too large (which `UnrelatedApprovalsStay` needs).

`PrivateStorageProofs` (for any sets of uploads, contents, scripts, audio files and
clearings, and any number of faults: `StorageAssumption`, which only keeps the names
apart):

| theorem | says |
|---------|------|
| `StorageInvariance` | `StorageIInv` holds in every reachable state |
| `BytesOfRows` | `RowsHaveTheirBytes` |
| `ClearedStaysCleared` | `PurgedAudioIsGone` |

Clearings overlap freely in all three.

`RowsHaveTheirBytes` is about rows; the invariant also says what is known while
there is no row yet or none any more: a script whose transaction goes on is staged,
the file of a generation in progress is staged or placed, a tombstone is in the list
of the clearing that holds it or is left for a start, and a clearing whose transaction has
not ended speaks of rows that are not purged yet (`ClearingOK`). That nobody works while the service is down
(`Quiet`) lets a start treat every tombstone as left over. `PurgedAudioIsGone` needs
more: no two clearings hold the same file (`Held`), since the second finds it missing;
so what a clearing took itself, no other has to rename back, and once its rows are
purged and its transaction is over the file is `Gone` (`TakenIsGone`). From then on no
step brings it back (`GoneStays`).

*Only model-checked.* Liveness is out of the prover's reach, as is everything about
fairness and `ENABLED`: `StartedJobsEnd`, `QueuedIsClaimed`, `PhasesEnd`,
`AutomaticRestartsEnd`, `UpgradeCompletes`. The type
invariants `TypeOK`, `ManagerTypeOK` and `DatabaseTypeOK` are proved and in no run.

## 15. Where code and documentation differ

One run states what a document says and shows a behaviour of the code that does not
keep it; PROJECT.json quotes the lines.

- `busy_worker` (`service/jobs.py:3101`): two refused transactions end the worker
  thread of a service that goes on serving.

The modules hold more properties that the code does not keep. Each is found at once
by TLC with the instance given here.

- `ReleaseOrIdle` of `OwnedProcesses` (one identity, `MaxOwned = 1`,
  `DatabaseFails = FALSE`): `docs/architecture/audition-sessions-cache-and-governance.md:39`
  ends a generation with "release or idle the runtime". A generation whose
  cancellation commits before the publication's write claim leaves its runtime
  marked busy (`service/audition_repository.py:7784`), and nothing releases it
  before shutdown.
- `WholeBookRestsOnUpstream` under `StorySpec` of `StoryReview` (two upstream gates,
  one extraction, one run, two changes): `docs/agents/approval-gates.md:53-55`
  requires three current approvals. A whole book refused while its upstream gates
  were approved stays eligible (`service/story_intelligence.py:9349`) and can be
  approved after one of them was refused. Casting asks for all four gates again.
- `ReselectionIsExplicit` of `EvidenceChain` in the instance of `evidence_chain`: an
  invalidation "remains latched if catalog content later reverts; a human must
  explicitly reselect eligible evidence" (`docs/agents/approval-gates.md:106-109`,
  likewise `docs/product/phase-3a-voice-casting.md:172-174` and
  `docs/architecture/failure-recovery.md:39`). Once the catalog is back, locking the
  invalidated assignment, or unlocking it, makes a new row of the same voice without
  the record (`service/casting_repository.py:6542-6556`), and the voice can be approved.
  `RefusalStands` says what is left: it takes a human correction of that role, and all
  gates have to be approved again.
- `EveryCorrectionSurvives` of `StoryCorrections` in the instance of `corrections`:
  "Every applicable correction survives a compatible deterministic rerun"
  (`docs/product/vertical-slice-acceptance-tests.md:98`). The identifier of a chapter that
  a correction added is not translated for a rerun
  (`service/story_intelligence.py:4106-4164`), so a scene moved under it, or added there,
  is not shown. `CorrectionsSurviveReruns` says that nothing else is lost.
- `EveryChangeGoesBack` of `StoryCorrections` in the instance of `corrections`. The
  gates record approvals of evidence, and three kinds of corrections change evidence of
  a gate that they do not send back. `ChangedEvidenceGoesBack` says that there is no
  fourth.
  - A second addition beside a scene takes no branch of its own: it puts the scene
    itself, with its mentions and lines, under the parent it names, or under none that
    is shown. Only the structure gate goes back: the code tells an addition that touches nothing by its replacing nothing
    (`service/story_intelligence.py:8689`). TLC reports this one.
  - A line that was given to a character whom the machine had not considered is not
    found when that character is merged, as the code looks for names in the machine's
    payloads (8780-8804). (With merges and speakers as the only corrections.)
  - When *y* was merged into *x* and *x* into *a*, merging *x* again into *b* moves the
    lines of *y*, whose replacement is *a* and not *x* (8770-8779), and the dialogue gate
    keeps its approval. (With a third character, and merges as the only corrections.)
- `MergesLeadSomewhere` of `StoryCorrections`: each identity in a circle of merges
  stands for itself.
  - With a third character in the instance of `corrections`: merges that are made again
    close a circle, since each is checked against final replacements only
    (`service/story_intelligence.py:7592-7636`).
  - With three runs and five events: one run merges *x* into *y*, another run of the
    text that does not see it merges *y* into *x*, and a run created afterwards sees
    both (3921).
- `PurgedStaysAway` of `PrivateStorage` in the instance of `storage`: a clearing renames
  a file and fails, and its rows are rolled back; before it renames the file back,
  another clearing finds the file missing, and marks its row purged; then the file comes
  back (`service/audition_repository.py:9892-9937`). No later clearing looks at a purged
  row, and a start keeps files that have a row, so the audio stays on the disk.
  `PurgedAudioIsGone` says that what a clearing took away itself does not return.

Read, and visible in the models, but not stated as properties:

- *Jobs.* An interrupted casting run, a new run of its evidence and a resume of the
  first are two active casting jobs (`service/casting_repository.py:947`). An
  attempt names the release that queued it, not the one that computed its result
  (`docs/architecture/background-jobs.md:88`). A retry never restores a checkpoint,
  although `docs/architecture/casting-jobs-and-recovery.md:88` speaks of resuming
  from the last one. An audition about to publish when its runtime is sealed fails
  as retryable instead of being interrupted
  (`docs/architecture/background-jobs.md:106`).
- *Service manager.* After the executable could not be run, the next reconnect
  fails and a quit counts as failed, with the report that a process did not
  terminate (`apps/desktop/src/main/service-manager.ts:1042`). A service that lives
  but does not answer is shown as disconnected and probed on, while
  `docs/architecture/failure-recovery.md:12` names a restart; restarts are delayed
  linearly, not with exponential backoff and jitter
  (`docs/architecture/desktop-runtime.md:94`).
- *Runtimes.* A transaction refused inside the failure handler of a generation
  also leaves a busy row until the next start.
- *Story review.* `correct_speaker` sends back the gates of those runs only in
  which it finds the line; `append_correction` does not ask whether an approval is
  current; a correction of the baseline between a run's creation and its
  publication makes the publication refuse.
- *Casting.* Drift that no read recorded
  invalidates nothing: `CastAuthority` compares again and refuses.
- *Auditions.* `docs/product/user-workflows.md:170-171` and
  `docs/agents/approval-gates.md:126` let unrelated approvals stay. In the code, a
  session with several clips is invalidated as a whole; the newest review of a role
  by revision need not be that of its current clip; the quality row of a cached
  artifact is shared, so that an earlier approved clip may fail its integrity
  check; a decision posted on a stale review invalidates its session.
  `UnrelatedApprovalsStay` says what holds: a decision about an entry takes a role's
  approval away only if one of the role's clips would now be spoken differently. A cast of the narrator alone never
  reaches readiness. A new dictionary entry hides the verdict of readiness but does
  not invalidate it. Two requests of one session may be active at once.
- *Storage.* A crash between moving an imported document to its place and committing
  its row leaves a file that no row names and no start removes; the next import of
  the same bytes takes it over. A cache record whose audio could not be read is given
  its successor, and the old file, `corrupt` in its row, is never reached by
  `clear_cache` again (`service/audition_repository.py:9349`).
- *Database.* That a start is refused after an older release or the operator
  changed the database or a backup of it is intended
  (`docs/migrations/0002-phase-1-secure-ingest.md:26`); `InterruptedUpgradeResumes`
  says that nothing else leads there.

## 16. Not modelled

Components marked `not_modelled` in PROJECT.json, with the reason there: the
desktop's IPC and API client (forwarding, shape checks, and a polling client that
keeps one number), input validation and shutdown evidence (shape checks), the
renderer and the preload (they present what the service owns), capability checks
(probes without state), contracts, schemas, scripts, prototypes and fixtures
(nothing that runs in the product).

Inside modelled components: the heuristics of analysis, casting scores, audio and
text processing are data, which no transition depends on except through its
fingerprint; temporary backups are space, not facts; progress fractions, event
sequence numbers and request fingerprints are abstracted, so nothing is said about
the page and the newest number that `get_events` reads apart
(`service/jobs.py:1252`), a progress below the stored one (1658), or one key used
for an import and a re-extraction (1150); the Windows job object
only kills what survives (`SurvivorsEnd`); merging of cast roles; the record of how
earlier processes ended (`last_evidence`). `models.py`, `schemas.py` and most of
`whole_book_analysis.py` and `casting.py` are declarations and pure functions, which is
why the modelled share of lines is smaller than that of the behaviour.
