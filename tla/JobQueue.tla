------------------------------ MODULE JobQueue ------------------------------
(***************************************************************************)
(* The persisted job queue of the local service (jobs.py) with the three   *)
(* parties that act on it: the API handlers of a serving process, its one  *)
(* worker thread, and the process life cycle (start, startup               *)
(* reconciliation, graceful stop, crash).                                  *)
(*                                                                         *)
(* Every repository method runs in one SQLite transaction that starts with *)
(* a write (a conditional UPDATE or BEGIN IMMEDIATE), so a method is one   *)
(* action.  Three read first: reconcile_interrupted and interrupt_active,  *)
(* which run while no request can, and settle_pending_cancellation, whose  *)
(* UPDATE repeats the condition.  What the worker remembers between two    *)
(* transactions is its program counter `pc` and the job `cur` it claimed.  *)
(*                                                                         *)
(* Left out: progress fractions, event sequence numbers, wording, payload  *)
(* bytes.  A target stands for everything a job freezes at creation        *)
(* (project, type, target row, revision and fingerprint).                  *)
(***************************************************************************)
EXTENDS Naturals, FiniteSets

CONSTANTS
  Target,        \* the work items jobs can be created for
  TypeOf,        \* the job type of each target
  InputOf,       \* the casting evidence of a run, the session of an audition
                 \* request; not used for the other types
  Key,           \* idempotency keys clients choose
  MaxJobs,       \* bound: job rows
  MaxAttempts,   \* bound: attempts of one job (resume has no limit in the code)
  MaxVersion,    \* bound: releases of the application installed over time
  MaxStarts,     \* bound: starts of the service process
  MaxBusy        \* bound: transactions refused by SQLite as locked or busy

JobType == {"extract_document", "analyze_story", "analyze_whole_book",
            "analyze_casting", "generate_audition"}

ASSUME ConstantsAssumption ==
  /\ TypeOf \in [Target -> JobType]
  /\ MaxJobs \in Nat /\ MaxAttempts \in Nat \ {0}
  /\ MaxVersion \in Nat \ {0}
  /\ MaxStarts \in Nat /\ MaxBusy \in Nat

Job     == 1 .. MaxJobs        \* in creation order: (created_at, id)
Attempt == 1 .. MaxAttempts
Version == 1 .. MaxVersion
None    == 0                   \* no job, no version, no checkpoint

MaxJobAttempts == 3            \* _MAX_JOB_ATTEMPTS
ActiveStates   == {"queued", "running", "cancel_requested"}
EndStates      == {"succeeded", "failed", "cancelled", "interrupted"}

(* Types whose result is stored as a job checkpoint before publication.    *)
Checkpointed == {"analyze_story", "analyze_whole_book", "analyze_casting"}
(* Types that keep one execution row per attempt beside the attempt row.   *)
Executed     == {"extract_document", "analyze_whole_book"}
(* Types whose target row has a status column the queue keeps up to date.   *)
Mirrored     == {"extract_document", "analyze_casting", "generate_audition"}

(* The row a target's status lives in.  The generation requests of one      *)
(* audition session share the session's row; the others have their own.     *)
RowOf(t) == IF TypeOf[t] = "generate_audition" THEN InputOf[t] ELSE t
Row      == {RowOf(t) : t \in Target}

(* A row belongs to one table.                                             *)
ASSUME RowAssumption ==
  \A t, u \in Target : RowOf(t) = RowOf(u) => TypeOf[t] = TypeOf[u]

(* The values of the status columns; jobs of the other types have none.    *)
(* "complete" is also an extraction's "partial" and a run's "succeeded",    *)
(* "pending" and "running" a session's "queued" and "generating".          *)
StatusColumn(type) ==
  CASE type = "extract_document" ->
         {"absent", "pending", "running", "complete", "failed"}
    [] type = "analyze_casting" ->
         {"absent", "pending", "running", "complete", "failed", "cancelled", "interrupted"}
    [] type = "generate_audition" ->
         {"absent", "pending", "running", "complete", "failed", "cancelled", "invalidated"}
    [] OTHER -> {"absent"}
RowStates == {"absent", "pending", "running", "complete", "failed", "cancelled",
              "interrupted", "invalidated"}

VARIABLES
  created,       \* number of job rows: jobs 1..created exist
  target,        \* JobRow target and frozen input
  state,         \* JobRow.state
  attempt,       \* JobRow.current_attempt
  cancelling,    \* JobRow.cancellation_requested
  resuming,      \* JobRow.resume_requested
  retryable,     \* JobRow.error_retryable
  lastEvent,     \* the state carried by the newest JobEventRow
  outcome,       \* JobAttemptRow.outcome; "open" before the attempt ends
  producer,      \* JobAttemptRow.producer_version
  execution,     \* ParserExecutionRow / AnalysisExecutionRow outcome
  checkpoint,    \* JobCheckpointRow.producer_version of each attempt
  activeKey,     \* the "active_job" idempotency row of each target
  replay,        \* the create_* idempotency rows
  targetState,   \* the status of each row: extraction, run or session
  publications,  \* how often a result of the target was published
  stale          \* targets whose approved input has been superseded

jobVars == <<target, attempt, resuming, retryable, producer>>
endVars == <<state, cancelling, lastEvent, outcome, execution, activeKey,
             targetState>>
keptVars == <<checkpoint, replay, publications, stale>>
durable == <<created, jobVars, endVars, keptVars>>

VARIABLES
  service,       \* phase of the service process
  version,       \* the release it runs
  inflight,      \* targets of requests between their two transactions
  orphans,       \* extractions startup still has to create a job for
  pc,            \* the worker thread's next step
  cur,           \* the job the worker claimed
  active,        \* JobWorker._active_job_id
  captured,      \* the active job JobWorker.stop read
  starts, busy   \* counters of the two bounds

worker   == <<pc, cur, active>>
process  == <<service, version, orphans, captured, starts>>
vars     == <<durable, worker, process, inflight, busy>>

Existing == 1 .. created
Typ(j)   == TypeOf[target[j]]
Status(t) == targetState[RowOf(t)]

(* Where the worker thread can be: between jobs, inside a job's pipeline.   *)
IdlePoints == {"off", "top", "settle", "gate", "claim", "exited", "dead"}
JobPoints  == {"claimed", "start", "loading", "input", "work", "save",
               "checkpointed", "publishing", "prePublish", "publish",
               "failRetryable", "failFinal"}

JobRowsOK ==
  /\ created \in 0 .. MaxJobs
  /\ target \in [Job -> Target \cup {None}]
  /\ state \in [Job -> ActiveStates \cup EndStates \cup {"none"}]
  /\ attempt \in [Job -> 0 .. MaxAttempts]
  /\ cancelling \in [Job -> BOOLEAN]
  /\ resuming \in [Job -> BOOLEAN]
  /\ retryable \in [Job -> BOOLEAN]
  /\ lastEvent \in [Job -> ActiveStates \cup EndStates \cup {"none"}]

AttemptRowsOK ==
  /\ outcome \in [Job -> [Attempt -> EndStates \cup {"none", "open"}]]
  /\ producer \in [Job -> [Attempt -> Version \cup {None}]]
  /\ execution \in [Job -> [Attempt -> EndStates \cup {"none"}]]
  /\ checkpoint \in [Job -> [Attempt -> Version \cup {None}]]

TargetRowsOK ==
  /\ activeKey \in [Target -> Job \cup {None}]
  /\ replay \in [JobType -> [Key -> Job \cup {None}]]
  /\ targetState \in [Row -> RowStates]
  /\ \A t \in Target : targetState[RowOf(t)] \in StatusColumn(TypeOf[t])
  /\ publications \in [Target -> Nat]
  /\ stale \subseteq Target

ProcessOK ==
  /\ service \in {"down", "reconciling", "recovering", "serving", "sealed",
                  "stopping", "closed"}
  /\ version \in Version
  /\ inflight \subseteq Target
  /\ orphans \subseteq Target
  /\ pc \in IdlePoints \cup JobPoints \cup {"finish"}
  /\ cur \in Job \cup {None}
  /\ active \in Job \cup {None}
  /\ captured \in Job \cup {None}
  /\ starts \in 0 .. MaxStarts
  /\ busy \in 0 .. MaxBusy

TypeOK == JobRowsOK /\ AttemptRowsOK /\ TargetRowsOK /\ ProcessOK

Init ==
  /\ created = 0
  /\ target = [j \in Job |-> None]
  /\ state = [j \in Job |-> "none"]
  /\ attempt = [j \in Job |-> 0]
  /\ cancelling = [j \in Job |-> FALSE]
  /\ resuming = [j \in Job |-> FALSE]
  /\ retryable = [j \in Job |-> FALSE]
  /\ lastEvent = [j \in Job |-> "none"]
  /\ outcome = [j \in Job |-> [a \in Attempt |-> "none"]]
  /\ producer = [j \in Job |-> [a \in Attempt |-> None]]
  /\ execution = [j \in Job |-> [a \in Attempt |-> "none"]]
  /\ checkpoint = [j \in Job |-> [a \in Attempt |-> None]]
  /\ activeKey = [t \in Target |-> None]
  /\ replay = [y \in JobType |-> [k \in Key |-> None]]
  /\ targetState = [r \in Row |-> "absent"]
  /\ publications = [t \in Target |-> 0]
  /\ stale = {}
  /\ service = "down"
  /\ version = 1
  /\ inflight = {}
  /\ orphans = {}
  /\ pc = "off"
  /\ cur = None /\ active = None /\ captured = None
  /\ starts = 0 /\ busy = 0

-----------------------------------------------------------------------------
(* Creating job rows.                                                      *)

JobsOf(t) == {j \in Existing : target[j] = t}

HoldsUntilCancelled(j) == state[j] \in {"queued", "running"}            \* mutation

(* A job in one of _ACTIVE_STATES holds its target.                        *)
Holds(j)  == state[j] \in ActiveStates

(* _active_conflict, for a new job and for another attempt of j.           *)
Conflict(t)    == \E j \in JobsOf(t) : Holds(j)
OtherActive(j) == \E i \in JobsOf(target[j]) \ {j} : Holds(i)

(* _acquire_active_key: a row left by a settled job is replaced, a row of  *)
(* an active job refuses.                                                  *)
AcquireActiveKey(t, j) ==
  /\ activeKey[t] \notin {None, j} => ~Holds(activeKey[t])
  /\ activeKey' = [activeKey EXCEPT ![t] = j]

AnnounceUnlessCancelling(j, s) ==                                      \* mutation
  lastEvent' = [lastEvent EXCEPT ![j] = IF s = "cancel_requested" THEN @ ELSE s]

(* _append_event: the newest event of a job carries its new state.         *)
Announce(j, s) == lastEvent' = [lastEvent EXCEPT ![j] = s]

JoblessIgnoresEndedJobs(t) == /\ TypeOf[t] = "extract_document"         \* mutation
                              /\ Status(t) = "pending" /\ ~Conflict(t)

(* A pending extraction no job was created for yet.                        *)
Jobless(t) == /\ TypeOf[t] = "extract_document"
              /\ Status(t) = "pending"
              /\ JobsOf(t) = {}

(* Room under the job bound once every jobless extraction has its job.     *)
HasRoom == created + Cardinality({t \in Target : Jobless(t)}) < MaxJobs

(* The statement sequence the five create paths share: insert the job row, *)
(* acquire the active key, insert attempt 1 and the "created" event.       *)
InsertJob(t) ==
  LET j == created + 1 IN
  /\ j \in Job
  /\ created' = j
  /\ target' = [target EXCEPT ![j] = t]
  /\ state' = [state EXCEPT ![j] = "queued"]
  /\ attempt' = [attempt EXCEPT ![j] = 1]
  /\ Announce(j, "queued")
  /\ outcome' = [outcome EXCEPT ![j] = [@ EXCEPT ![1] = "open"]]
  /\ producer' = [producer EXCEPT ![j] = [@ EXCEPT ![1] = version]]
  /\ AcquireActiveKey(t, j)
  /\ UNCHANGED <<cancelling, resuming, retryable, execution, checkpoint,
                 publications, stale>>

Remember(t, k, j) ==
  replay' = [replay EXCEPT ![TypeOf[t]] = [@ EXCEPT ![k] = j]]

SetStatus(t, s) == targetState' = [targetState EXCEPT ![RowOf(t)] = s]

(* A key already used for this job type answers with its job, or with      *)
(* IDEMPOTENCY_CONFLICT when the request differs; neither changes a row.   *)
Replayed(t, k) == replay[TypeOf[t]][k] # None

-----------------------------------------------------------------------------
(* Ending attempts.  The one statement sequence of finish_failed,          *)
(* interrupt_active, _finish_cancelled and reconcile_interrupted.  `end`   *)
(* maps the ended jobs to their outcome; `last` names, for each row, the   *)
(* ended job that wrote it last.                                           *)

MirrorForgetsInterruption(j, o, old) ==                                \* mutation
  IF o = "interrupted" \/ Typ(j) \notin Mirrored THEN old
  ELSE IF o = "cancelled" /\ Typ(j) = "extract_document" THEN "failed" ELSE o

Mirror(j, o, old) ==
  CASE Typ(j) = "extract_document" /\ o \in {"failed", "cancelled"} -> "failed"
    [] Typ(j) = "extract_document" /\ o = "interrupted" ->
         IF old = "complete" THEN old ELSE "pending"
    [] Typ(j) = "analyze_casting" -> o
    [] Typ(j) = "generate_audition" /\ old # "invalidated" ->
         IF o = "cancelled" THEN o ELSE "failed"
    [] OTHER -> old

(* _release_active_key                                                     *)
ReleaseActiveKeys(Ended) ==
  activeKey' = [t \in Target |-> IF activeKey[t] \in Ended THEN None ELSE activeKey[t]]

(* The execution row of an attempt, which this may be the first to write.  *)
ExecutionEnded(j, o) ==
  IF Typ(j) \in Executed THEN [execution[j] EXCEPT ![attempt[j]] = o] ELSE execution[j]

EndAttempts(end, last) ==
  LET Ended == DOMAIN end IN
  /\ state' = [j \in Job |-> IF j \in Ended THEN end[j] ELSE state[j]]
  /\ lastEvent' = [j \in Job |-> IF j \in Ended THEN end[j] ELSE lastEvent[j]]
  /\ cancelling' = [j \in Job |-> IF j \in Ended THEN end[j] = "cancelled"
                                  ELSE cancelling[j]]
  /\ outcome' = [j \in Job |-> IF j \in Ended
                               THEN [outcome[j] EXCEPT ![attempt[j]] = end[j]]
                               ELSE outcome[j]]
  /\ execution' = [j \in Job |-> IF j \in Ended THEN ExecutionEnded(j, end[j])
                                 ELSE execution[j]]
  /\ ReleaseActiveKeys(Ended)
  /\ targetState' = [r \in Row |-> IF last[r] = None THEN targetState[r]
                                   ELSE Mirror(last[r], end[last[r]], targetState[r])]

EndAttempt(j, o) ==
  EndAttempts([i \in {j} |-> o],
              [r \in Row |-> IF r = RowOf(target[j]) THEN j ELSE None])

InterruptOverridesCancel(j) ==                                         \* mutation
  \/ state[j] \in {"running", "cancel_requested"} /\ EndAttempt(j, "interrupted")
  \/ state[j] \notin {"cancel_requested", "running"} /\ UNCHANGED endVars

(* interrupt_active: a requested cancellation wins over the interruption.  *)
Interrupt(j) ==
  \/ state[j] = "cancel_requested" /\ EndAttempt(j, "cancelled")
  \/ state[j] = "running" /\ EndAttempt(j, "interrupted")
  \/ state[j] \notin {"cancel_requested", "running"} /\ UNCHANGED endVars

-----------------------------------------------------------------------------
(* API handlers.  The server drains its requests before the lifespan exit  *)
(* code runs, so they act only while the service is serving.               *)

Serving == service = "serving"

(* POST imports / reextract, first transaction: the pending extraction     *)
(* commits before its job exists.  A repeated import of the same bytes     *)
(* finds the extraction it made before.                                    *)
ImportSource(t) ==
  /\ Serving /\ TypeOf[t] = "extract_document" /\ t \notin inflight
  /\ \/ /\ Status(t) = "absent" /\ HasRoom
        /\ SetStatus(t, "pending")
     \/ /\ Status(t) # "absent"
        /\ UNCHANGED targetState
  /\ inflight' = inflight \cup {t}
  /\ UNCHANGED <<created, jobVars, state, cancelling, lastEvent, outcome,
                 execution, activeKey, keptVars, worker, process,
                 busy>>

(* ... second transaction: create_extraction_job.  Whatever job the        *)
(* extraction already has is the answer; it never gets a second one.       *)
CreateExtractionJob(t, k) ==
  /\ Serving /\ TypeOf[t] = "extract_document" /\ t \in inflight
  /\ inflight' = inflight \ {t}
  /\ \/ /\ Replayed(t, k)
        /\ UNCHANGED <<durable>>
     \/ /\ ~Replayed(t, k) /\ JobsOf(t) # {}
        /\ \E j \in JobsOf(t) : Remember(t, k, j)
        /\ UNCHANGED <<created, jobVars, endVars, checkpoint, publications, stale>>
     \/ /\ ~Replayed(t, k) /\ JobsOf(t) = {}
        /\ InsertJob(t) /\ Remember(t, k, created + 1)
        /\ UNCHANGED targetState
  /\ UNCHANGED <<worker, process, busy>>

(* create_job, first session: the approved story is read outside the       *)
(* transaction that creates the job.                                       *)
ReadStorySnapshot(t) ==
  /\ Serving /\ TypeOf[t] = "analyze_story"
  /\ t \notin stale /\ t \notin inflight
  /\ inflight' = inflight \cup {t}
  /\ UNCHANGED <<durable, worker, process, busy>>

(* create_job, second session.                                             *)
CreateStoryJob(t, k) ==
  /\ Serving /\ TypeOf[t] = "analyze_story" /\ t \in inflight
  /\ inflight' = inflight \ {t}
  /\ \/ /\ Replayed(t, k) \/ Conflict(t)
        /\ UNCHANGED <<durable>>
     \/ /\ ~Replayed(t, k) /\ ~Conflict(t) /\ HasRoom
        /\ InsertJob(t) /\ Remember(t, k, created + 1)
        /\ UNCHANGED targetState
  /\ UNCHANGED <<worker, process, busy>>

(* A handler that is refused by the database answers 5xx; an extraction it *)
(* committed stays behind without a job.                                   *)
RequestFails(t) ==
  /\ Serving /\ t \in inflight /\ busy < MaxBusy
  /\ busy' = busy + 1
  /\ inflight' = inflight \ {t}
  /\ UNCHANGED <<durable, worker, process>>

(* create_whole_book_run: a new run and its job, in one transaction.       *)
CreateWholeBookRun(t, k) ==
  /\ Serving /\ TypeOf[t] = "analyze_whole_book"
  /\ ~Replayed(t, k) /\ JobsOf(t) = {} /\ t \notin stale /\ HasRoom
  /\ InsertJob(t) /\ Remember(t, k, created + 1)
  /\ UNCHANGED <<targetState, worker, process, inflight, busy>>

(* Casting runs: the newest run of the same evidence that is pending,      *)
(* running or succeeded is reused; without one a run and a job are made.   *)
ReusableJobs(t) == {j \in Existing :
                      /\ Typ(j) = "analyze_casting"
                      /\ InputOf[target[j]] = InputOf[t]
                      /\ Status(target[j]) \in {"pending", "running", "complete"}}

CreateCastingRun(t, k) ==
  /\ Serving /\ TypeOf[t] = "analyze_casting"
  /\ ~Replayed(t, k) /\ JobsOf(t) = {} /\ t \notin stale
  /\ \/ \E j \in ReusableJobs(t) :
          /\ \A i \in ReusableJobs(t) : i <= j
          /\ Remember(t, k, j)
          /\ UNCHANGED <<created, jobVars, endVars, checkpoint, publications, stale>>
     \/ /\ ReusableJobs(t) = {} /\ HasRoom
        /\ InsertJob(t) /\ Remember(t, k, created + 1) /\ SetStatus(t, "pending")
  /\ UNCHANGED <<worker, process, inflight, busy>>

(* queue_generation: refused while the session row says queued, generating *)
(* or invalidated.  A request carries its own key, so it makes one job.    *)
CreateAuditionJob(t, k) ==
  /\ Serving /\ TypeOf[t] = "generate_audition"
  /\ ~Replayed(t, k) /\ JobsOf(t) = {} /\ HasRoom
  /\ Status(t) \notin {"pending", "running", "invalidated"}
  /\ InsertJob(t) /\ Remember(t, k, created + 1) /\ SetStatus(t, "pending")
  /\ UNCHANGED <<worker, process, inflight, busy>>

(* The user supersedes an approved input (a newer import, correction or    *)
(* decision): every target frozen on it is stale, and an audition session  *)
(* whose evidence drifted is invalidated for good.                         *)
SharesInput(t, u) ==
  \/ t = u
  \/ /\ TypeOf[t] = TypeOf[u] /\ InputOf[t] = InputOf[u]
     /\ TypeOf[t] \in {"analyze_casting", "generate_audition"}

SupersedeInput(t) ==
  /\ Serving /\ TypeOf[t] # "extract_document" /\ t \notin stale
  /\ stale' = stale \cup {u \in Target : SharesInput(t, u)}
  /\ IF TypeOf[t] = "generate_audition" THEN SetStatus(t, "invalidated")
                                        ELSE UNCHANGED targetState
  /\ UNCHANGED <<created, jobVars, state, cancelling, lastEvent, outcome,
                 execution, activeKey, checkpoint, replay, publications,
                 worker, process, inflight, busy>>

CancelAtOnce(j) ==                                                     \* mutation
  /\ Serving /\ state[j] \in {"queued", "running"} /\ EndAttempt(j, "cancelled")
  /\ UNCHANGED <<created, jobVars, keptVars, worker, process, inflight, busy>>

(* cancel.                                                                 *)
Cancel(j) ==
  /\ Serving /\ state[j] \in {"queued", "running"}
  /\ state' = [state EXCEPT ![j] = "cancel_requested"]
  /\ cancelling' = [cancelling EXCEPT ![j] = TRUE]
  /\ Announce(j, "cancel_requested")
  /\ UNCHANGED <<created, jobVars, outcome, execution, activeKey, targetState,
                 keptVars, worker, process, inflight, busy>>

NextAttempt(j) == attempt[j] + 1

(* _queue_new_attempt, shared by retry and resume.  Another active job on  *)
(* the target refuses both.  The target's status row is left as it was.    *)
QueueNewAttempt(j, resume) ==
  LET a == NextAttempt(j) IN
  /\ ~OtherActive(j) /\ a \in Attempt
  /\ state' = [state EXCEPT ![j] = "queued"]
  /\ attempt' = [attempt EXCEPT ![j] = a]
  /\ cancelling' = [cancelling EXCEPT ![j] = FALSE]
  /\ resuming' = [resuming EXCEPT ![j] = resume]
  /\ retryable' = [retryable EXCEPT ![j] = FALSE]
  /\ Announce(j, "queued")
  /\ outcome' = [outcome EXCEPT ![j] = [@ EXCEPT ![a] = "open"]]
  /\ producer' = [producer EXCEPT ![j] = [@ EXCEPT ![a] = version]]
  /\ AcquireActiveKey(target[j], j)
  /\ UNCHANGED <<created, target, execution, targetState, keptVars, worker,
                 process, inflight, busy>>

RetryCancelled(j) ==                                                   \* mutation
  /\ Serving /\ state[j] \in {"failed", "cancelled"} /\ attempt[j] < MaxJobAttempts
  /\ QueueNewAttempt(j, FALSE)

Retry(j) ==
  /\ Serving /\ state[j] = "failed" /\ retryable[j]
  /\ attempt[j] < MaxJobAttempts
  /\ QueueNewAttempt(j, FALSE)

(* The checkpoint of the highest attempt that has one, or None.            *)
IsLatestCheckpoint(j, v) ==
  \/ /\ v = None /\ \A a \in Attempt : checkpoint[j][a] = None
  \/ \E a \in Attempt : /\ v # None /\ checkpoint[j][a] = v
                         /\ \A b \in Attempt : b > a => checkpoint[j][b] = None

(* A checkpoint of another release is refused.  A whole-book job without a *)
(* result checkpoint may still have a structure stage to resume from.      *)
Resume(j) ==
  /\ Serving /\ state[j] = "interrupted"
  /\ \/ IsLatestCheckpoint(j, version) /\ QueueNewAttempt(j, TRUE)
     \/ IsLatestCheckpoint(j, None) /\ QueueNewAttempt(j, FALSE)
     \/ /\ IsLatestCheckpoint(j, None) /\ Typ(j) = "analyze_whole_book"
        /\ QueueNewAttempt(j, TRUE)

-----------------------------------------------------------------------------
(* The worker thread.  Stopping is its _stop flag, Sealed the flag that     *)
(* refuses audition runtimes.                                               *)

Sealed   == service \in {"sealed", "stopping"}
Stopping == service = "stopping"

restVars == <<created, jobVars, keptVars>>   \* what ending attempts leaves alone

At(here)     == pc = here
GoTo(next)   == pc' = next /\ UNCHANGED <<cur, active>>
WorkerFrame  == UNCHANGED <<process, inflight, busy>>

Newest(j, s) == /\ j \in Existing /\ state[j] = s                        \* mutation
                /\ \A i \in Existing : state[i] = s => j >= i
OldestUnlessBlocked(j, s) == /\ j \in Existing /\ state[j] = s           \* mutation
                             /\ \A i \in Existing : i < j => state[i] # "failed"
Oldest(j, s) == /\ j \in Existing /\ state[j] = s
                /\ \A i \in Existing : state[i] = s => j <= i
Nobody(s)    == \A j \in Existing : state[j] # s

(* The loop of _run.  The stop flag is read before the settlement and again *)
(* before the claim, each time apart from the transaction that follows.     *)
LoopTop ==
  /\ pc \in {"top", "gate"}
  /\ GoTo(IF Stopping THEN "exited" ELSE IF pc = "top" THEN "settle" ELSE "claim")
  /\ UNCHANGED durable /\ WorkerFrame

(* An older job cancelled after this one was read is settled next round.   *)
SettlePendingCancellation ==
  /\ At("settle")
  /\ \/ \E j \in Existing : /\ Oldest(j, "cancel_requested")
                            /\ EndAttempt(j, "cancelled")
                            /\ UNCHANGED restVars /\ GoTo("top")
     \/ Nobody("cancel_requested") /\ UNCHANGED durable /\ GoTo("gate")
  /\ WorkerFrame

ClaimNext ==
  /\ At("claim")
  /\ \/ \E j \in Existing :
          /\ Oldest(j, "queued")
          /\ state' = [state EXCEPT ![j] = "running"]
          /\ Announce(j, "running")
          /\ IF /\ Typ(j) \in Mirrored
                /\ Status(target[j]) \notin
                     (IF Typ(j) = "extract_document" THEN {"complete"} ELSE {"invalidated"})
             THEN SetStatus(target[j], "running") ELSE UNCHANGED targetState
          /\ cur' = j /\ pc' = "claimed"
          /\ UNCHANGED <<restVars, cancelling, outcome, execution, activeKey, active>>
     \/ Nobody("queued") /\ UNCHANGED durable /\ GoTo("top")
  /\ WorkerFrame

(* _active_job_id is assigned after the claim has committed.               *)
NoteActive ==
  /\ At("claimed") /\ pc' = "start" /\ active' = cur
  /\ UNCHANGED <<durable, cur>> /\ WorkerFrame

(* The ways out of a pipeline that every step shares.                      *)
CancelledOut ==
  /\ state[cur] = "cancel_requested"
  /\ EndAttempt(cur, "cancelled") /\ UNCHANGED restVars /\ GoTo("finish")
InterruptedOut ==
  /\ Stopping /\ Interrupt(cur) /\ UNCHANGED restVars /\ GoTo("finish")
Fails(how) == UNCHANGED durable /\ GoTo(how)

(* _wait_at_boundary, passed or not; and update_progress.                  *)
Boundary(here, next) ==
  /\ At(here)
  /\ \/ InterruptedOut
     \/ ~Stopping /\ CancelledOut
     \/ ~Stopping /\ state[cur] # "cancel_requested" /\ UNCHANGED durable /\ GoTo(next)
  /\ WorkerFrame

UpdateProgress(here, next) ==
  /\ At(here)
  /\ \/ CancelledOut
     \/ /\ state[cur] = "running"
        /\ Announce(cur, "running")
        /\ UNCHANGED <<restVars, state, cancelling, outcome, execution, activeKey,
                       targetState>>
        /\ GoTo(next)
  /\ WorkerFrame

StartBoundary        == Boundary("start", "loading")
LoadProgress         == UpdateProgress("loading", "input")
CheckpointBoundary   == Boundary("checkpointed", "publishing")
PublishingProgress   == UpdateProgress("publishing", "prePublish")
PublicationBoundary  == Boundary("prePublish", "publish")

(* load_resume_checkpoint and the frozen-input comparison.  A restored     *)
(* story analysis does not look at the story again before it publishes.    *)
HasCheckpoint(j) == \E a \in Attempt : checkpoint[j][a] # None
Restored == resuming[cur] /\ HasCheckpoint(cur) /\ Typ(cur) \in Checkpointed
InputRefusedIfStale == target[cur] \in stale                           \* mutation
InputRefused ==
  \/ target[cur] \in stale /\ ~(Restored /\ Typ(cur) = "analyze_story")
  \/ Restored /\ ~IsLatestCheckpoint(cur, version)

(* A whole-book execution is recorded as interrupted until it has ended.    *)
OpenExecution(j) ==
  IF Typ(j) = "analyze_whole_book"
  THEN [execution[j] EXCEPT ![attempt[j]] = "interrupted"] ELSE execution[j]

ReadInput ==
  /\ At("input")
  /\ \/ InputRefused /\ Fails("failFinal")
     \/ /\ ~InputRefused
        /\ Typ(cur) = "analyze_whole_book" => state[cur] = "running"
        /\ execution' = [execution EXCEPT ![cur] = OpenExecution(cur)]
        /\ UNCHANGED <<restVars, state, cancelling, lastEvent, outcome, activeKey,
                       targetState>>
        /\ GoTo(IF Restored THEN "checkpointed" ELSE "work")
     \/ /\ Typ(cur) = "analyze_whole_book" /\ state[cur] = "cancel_requested"
        /\ UNCHANGED durable /\ GoTo("finish")
  /\ WorkerFrame

(* Work that reaches its end without another look at the stop flag.        *)
IgnoresStop == {"analyze_casting", "generate_audition"}

(* The bounded work itself.  The audition runner does not look at the stop *)
(* flag; a whole-book stage that finds the job cancelled leaves the        *)
(* settlement to the loop.                                                 *)
Work ==
  /\ At("work")
  /\ \/ /\ state[cur] = "running"
        /\ Stopping => Typ(cur) \in IgnoresStop
        /\ UNCHANGED durable
        /\ GoTo(IF Typ(cur) \in Checkpointed THEN "save" ELSE "publishing")
     \/ Typ(cur) # "generate_audition" /\ InterruptedOut
     \/ CancelledOut
     \/ /\ Typ(cur) = "analyze_whole_book" /\ state[cur] = "cancel_requested"
        /\ UNCHANGED durable /\ GoTo("finish")
     \/ \E how \in {"failRetryable", "failFinal"} : Fails(how)
  /\ WorkerFrame

SaveCheckpoint ==
  /\ At("save")
  /\ \/ CancelledOut
     \/ /\ state[cur] = "running"
        /\ checkpoint' = [checkpoint EXCEPT ![cur] =
                           [@ EXCEPT ![attempt[cur]] = version]]
        /\ UNCHANGED <<created, jobVars, endVars, replay, publications, stale>>
        /\ GoTo("checkpointed")
  /\ WorkerFrame

(* publish_*_and_finish: one transaction that refuses, or publishes and    *)
(* ends the attempt.  The stop flag is read inside it.                     *)
Current(j) ==
  /\ target[j] \notin stale
  /\ Typ(j) = "extract_document" => Status(target[j]) \in {"pending", "running"}

CommitWithoutFinish ==                                                 \* mutation
  /\ publications' = [publications EXCEPT ![target[cur]] = @ + 1]
  /\ UNCHANGED <<created, jobVars, endVars, checkpoint, replay, stale>>

(* The rows of the job itself, its attempt, its event and its key.         *)
Succeed(j) ==
  /\ state' = [state EXCEPT ![j] = "succeeded"]
  /\ cancelling' = [cancelling EXCEPT ![j] = FALSE]
  /\ resuming' = [resuming EXCEPT ![j] = FALSE]
  /\ Announce(j, "succeeded")
  /\ outcome' = [outcome EXCEPT ![j] = [@ EXCEPT ![attempt[j]] = "succeeded"]]
  /\ ReleaseActiveKeys({j})

CommitPublication ==
  LET t == target[cur] IN
  /\ publications' = [publications EXCEPT ![t] = @ + 1]
  /\ Succeed(cur)
  /\ execution' = [execution EXCEPT ![cur] = ExecutionEnded(cur, "succeeded")]
  /\ checkpoint' = IF Typ(cur) = "generate_audition"
                   THEN [checkpoint EXCEPT ![cur] = [@ EXCEPT ![attempt[cur]] = version]]
                   ELSE checkpoint
  /\ IF Typ(cur) \in Mirrored THEN SetStatus(t, "complete") ELSE UNCHANGED targetState
  /\ UNCHANGED <<created, target, attempt, retryable, producer, replay, stale>>

CommitOrRefuse ==
  /\ state[cur] = "running" /\ ~Stopping
  /\ \/ ~Current(cur) /\ Fails("failFinal")
     \/ Current(cur) /\ CommitPublication /\ GoTo("finish")

(* An audition that meets the stop flag leaves its job running for stop()  *)
(* to interrupt, and its runtimes are sealed before the flag is set.       *)
PublishGeneration ==
  /\ Typ(cur) = "generate_audition"
  /\ \/ state[cur] = "running" /\ Stopping /\ UNCHANGED durable /\ GoTo("finish")
     \/ state[cur] = "running" /\ Sealed /\ ~Stopping /\ Fails("failRetryable")
     \/ (Sealed => ~Current(cur)) /\ CommitOrRefuse

PublishAnalysis ==
  /\ Typ(cur) # "generate_audition"
  /\ InterruptedOut \/ CommitOrRefuse

Publish ==
  /\ At("publish")
  /\ CancelledOut \/ PublishGeneration \/ PublishAnalysis
  /\ WorkerFrame

(* finish_failed.                                                          *)
FinishFailed ==
  /\ pc \in {"failRetryable", "failFinal"}
  /\ \/ CancelledOut
     \/ /\ state[cur] = "running"
        /\ EndAttempt(cur, "failed")
        /\ retryable' = [retryable EXCEPT ![cur] = (pc = "failRetryable")]
        /\ UNCHANGED <<created, target, attempt, resuming, producer, keptVars>>
        /\ GoTo("finish")
  /\ WorkerFrame

Finish ==
  /\ At("finish") /\ pc' = "top" /\ cur' = None /\ active' = None
  /\ UNCHANGED durable /\ WorkerFrame

(* A transaction of the worker is refused as busy: the loop tries again, a *)
(* pipeline reports a retryable failure, and an exception that escapes the *)
(* pipeline (finish_failed refused as well; an audition's first boundary)  *)
(* ends the thread.                                                        *)
Outside == \/ pc \in {"failRetryable", "failFinal"}
           \/ pc = "start" /\ Typ(cur) = "generate_audition"

WorkerBusy ==
  /\ busy < MaxBusy /\ busy' = busy + 1
  /\ \/ pc \in {"settle", "claim"} /\ GoTo("top")
     \/ pc \in JobPoints \ {"claimed"} /\ ~Outside /\ GoTo("failRetryable")
     \/ Outside /\ pc' = "dead" /\ cur' = None /\ active' = None
  /\ UNCHANGED <<durable, process, inflight>>

-----------------------------------------------------------------------------
(* The service process.                                                    *)

Off == pc' = "off" /\ cur' = None /\ active' = None

(* A start after an exit, of the same release or a newer one.              *)
Start ==
  /\ service \in {"down", "closed"} /\ starts < MaxStarts
  /\ service' = "reconciling" /\ starts' = starts + 1
  /\ version' \in version .. MaxVersion
  /\ UNCHANGED <<durable, worker, orphans, captured, inflight, busy>>

(* reconcile_interrupted, one transaction before the worker exists, and    *)
(* the select that opens reconcile_orphaned_extractions.                   *)
AbandonedIfCancelling == {j \in Existing : state[j] = "cancel_requested"} \* mutation
Abandoned == {j \in Existing : state[j] \in {"running", "cancel_requested"}}

ReconcileInterrupted ==
  /\ service = "reconciling"
  /\ \E last \in [Row -> Abandoned \cup {None}] :
       /\ \A r \in Row : LET mine == {j \in Abandoned : RowOf(target[j]) = r}
                         IN  last[r] \in (IF mine = {} THEN {None} ELSE mine)
       /\ EndAttempts([j \in Abandoned |-> IF state[j] = "running" THEN "interrupted"
                                           ELSE "cancelled"], last)
  /\ UNCHANGED restVars
  /\ service' = "recovering"
  /\ orphans' = {t \in Target : Jobless(t)}
  /\ UNCHANGED <<version, captured, starts, worker, inflight, busy>>

(* One create_extraction_job of startup recovery.  Its key is derived from *)
(* the extraction, so no client key is used up.                            *)
RecoverOrphan(t) ==
  /\ service = "recovering" /\ t \in orphans
  /\ InsertJob(t) /\ UNCHANGED <<targetState, replay>>
  /\ orphans' = orphans \ {t}
  /\ UNCHANGED <<service, version, captured, starts, worker, inflight, busy>>

ServeAtOnce ==                                                         \* mutation
  /\ service = "recovering" /\ service' = "serving" /\ pc' = "top" /\ orphans' = {}
  /\ UNCHANGED <<durable, cur, active, version, captured, starts, inflight, busy>>

Serve ==
  /\ service = "recovering" /\ orphans = {}
  /\ service' = "serving" /\ pc' = "top"
  /\ UNCHANGED <<durable, cur, active, version, orphans, captured, starts,
                 inflight, busy>>

(* Lifespan exit: the server has drained its requests, audition runtimes   *)
(* are sealed first, then JobWorker.stop sets the flag and reads the       *)
(* active job, and joins.  A process is only told to stop, or dies, while  *)
(* the bound on starts leaves it another start.                            *)
BeginRuntimeShutdown ==
  /\ Serving /\ inflight = {} /\ starts < MaxStarts
  /\ service' = "sealed"
  /\ UNCHANGED <<durable, worker, version, orphans, captured, starts, inflight, busy>>

StopWorkerBlindly ==                                                   \* mutation
  /\ service = "sealed" /\ service' = "stopping" /\ captured' = None
  /\ UNCHANGED <<durable, worker, version, orphans, starts, inflight, busy>>

StopWorker ==
  /\ service = "sealed"
  /\ service' = "stopping" /\ captured' = active
  /\ UNCHANGED <<durable, worker, version, orphans, starts, inflight, busy>>

JoinWorker ==
  /\ Stopping /\ pc \in {"exited", "dead"}
  /\ IF captured = None THEN UNCHANGED endVars ELSE Interrupt(captured)
  /\ UNCHANGED restVars
  /\ service' = "closed" /\ captured' = None /\ Off
  /\ UNCHANGED <<version, orphans, starts, inflight, busy>>

(* The process dies at any moment, also because the worker did not reach a *)
(* boundary in time.                                                       *)
Crash ==
  /\ service \notin {"down", "closed"} /\ starts < MaxStarts
  /\ service' = "down" /\ Off
  /\ inflight' = {} /\ orphans' = {} /\ captured' = None
  /\ UNCHANGED <<durable, version, starts, busy>>

-----------------------------------------------------------------------------
Request ==
  \/ \E t \in Target :
       \/ ImportSource(t) \/ ReadStorySnapshot(t) \/ RequestFails(t) \/ SupersedeInput(t)
       \/ \E k \in Key : \/ CreateExtractionJob(t, k) \/ CreateStoryJob(t, k)
                         \/ CreateWholeBookRun(t, k) \/ CreateCastingRun(t, k)
                         \/ CreateAuditionJob(t, k)
  \/ \E j \in Existing : Cancel(j) \/ Retry(j) \/ Resume(j)

WorkerStep ==
  \/ LoopTop \/ SettlePendingCancellation \/ ClaimNext \/ NoteActive
  \/ StartBoundary \/ LoadProgress \/ ReadInput \/ Work \/ SaveCheckpoint
  \/ CheckpointBoundary \/ PublishingProgress \/ PublicationBoundary
  \/ Publish \/ FinishFailed \/ Finish

Recovery == \/ Start \/ ReconcileInterrupted \/ Serve \/ StopWorker \/ JoinWorker
            \/ \E t \in Target : RecoverOrphan(t)

Next == Request \/ WorkerStep \/ WorkerBusy \/ Recovery
        \/ BeginRuntimeShutdown \/ Crash

Spec == Init /\ [][Next]_vars

(* The worker thread keeps running, and a service that went down is started *)
(* again and completes its start-up.  Requests and failures are not fair.   *)
Fairness == WF_vars(WorkerStep) /\ WF_vars(Recovery)
FairSpec == Spec /\ Fairness

-----------------------------------------------------------------------------
(* Safety.                                                                 *)

Active(j) == state[j] \in {"queued", "running", "cancel_requested"}

(* At most one job of a target is queued, running or being cancelled,      *)
(* whatever creations, retries, resumes and recoveries interleave.         *)
OneActivePerTarget ==
  \A i, j \in Existing : target[i] = target[j] /\ Active(i) /\ Active(j) => i = j

(* The active_job row that guards a target names exactly its active job:   *)
(* none is missing, and none survives the job that took it.                *)
ActiveKeyNamesActiveJob ==
  /\ \A t \in Target : activeKey[t] # None =>
       activeKey[t] \in JobsOf(t) /\ Active(activeKey[t])
  /\ \A j \in Existing : Active(j) => activeKey[target[j]] = j

(* A target has one active job, and the key that guards it says which.     *)
TargetsAreExclusive == OneActivePerTarget /\ ActiveKeyNamesActiveJob

(* Attempts form a history: only failed and interrupted attempts were      *)
(* followed by another one, the current attempt is open exactly while the  *)
(* job is active, and afterwards it ended the way the job did.  The        *)
(* execution rows tell the same story.                                     *)
AttemptHistory ==
  \A j \in Existing : \A a \in Attempt :
    /\ a < attempt[j] => outcome[j][a] \in {"failed", "interrupted"}
    /\ a = attempt[j] => outcome[j][a] = IF Active(j) THEN "open" ELSE state[j]
    /\ a > attempt[j] => outcome[j][a] = "none"
    /\ Typ(j) \in Executed /\ outcome[j][a] \notin {"none", "open"}
         => execution[j][a] = outcome[j][a]

(* A client that follows the event log of a job ends in the job's state.   *)
EventLogAgrees == \A j \in Existing : lastEvent[j] = state[j]

(* The status row of an extraction or a casting run never disagrees with   *)
(* its job: it is running while the job runs, complete exactly when the    *)
(* job succeeded, and after a failure or an interruption it is back in a   *)
(* state the user can act on.                                              *)
StatusRowAgrees ==
  \A j \in Existing :
    Typ(j) \in {"extract_document", "analyze_casting"} =>
      /\ state[j] = "running" => Status(target[j]) = "running"
      /\ state[j] = "succeeded" <=> Status(target[j]) = "complete"
      /\ ~Active(j) => Status(target[j]) # "running"
      /\ Status(target[j]) \in {"failed", "interrupted", "cancelled"} =>
           state[j] \in {"queued", "cancel_requested", "failed", "interrupted", "cancelled"}

(* Every row that mirrors an attempt tells the story of its job.           *)
RowsMirrorJobs == AttemptHistory /\ StatusRowAgrees

(* No status row says that work is going on when no job would ever change  *)
(* it again; an audition session in that state would refuse every request. *)
NoRowStuck ==
  \A t \in Target :
    \/ Status(t) = "running"
    \/ Status(t) = "pending" /\ TypeOf[t] # "extract_document"
    => \E j \in Existing : RowOf(target[j]) = RowOf(t) /\ Active(j)

(* An extraction has at most one job, although its import commits before   *)
(* the job and requests, replays and start-up recovery all may create it.  *)
OneJobPerExtraction ==
  \A i, j \in Existing :
    target[i] = target[j] /\ Typ(i) = "extract_document" => i = j

(* A job that says it is running is one a live worker is on, except until  *)
(* the next start has reconciled it, between the worker's last step and    *)
(* the end of a graceful stop, and after the worker thread died.           *)
RunningJobHasWorker ==
  \A j \in Existing : state[j] = "running" =>
    \/ cur = j \/ captured = j
    \/ pc = "dead" \/ service \in {"down", "closed", "reconciling"}

(* The worker never acts for a job another actor has already ended: from   *)
(* the claim to the last step its job is running or being cancelled.       *)
WorkerOwnsItsJob ==
  pc \in JobPoints => cur \in Existing /\ state[cur] \in {"running", "cancel_requested"}

(* A running job has its worker, and the worker a job that is its own.     *)
WorkerAndJobAgree == RunningJobHasWorker /\ WorkerOwnsItsJob

(* A graceful stop leaves no job running, whichever step it interrupted.   *)
GracefulStop ==
  service = "closed" /\ busy = 0 => \A j \in Existing : state[j] # "running"

(* What the worker is about to publish was computed by this release, also  *)
(* when it was restored from the checkpoint of an earlier attempt.         *)
CheckpointProvenance ==
  /\ pc \in {"checkpointed", "publishing", "prePublish", "publish"}
  /\ Typ(cur) \in Checkpointed
  => IsLatestCheckpoint(cur, version)

(* Each target's result was published once for each job that succeeded.    *)
PublishedOncePerSuccess ==
  \A t \in Target :
    publications[t] = Cardinality({j \in JobsOf(t) : state[j] = "succeeded"})

(* Actions.                                                                *)

(* A cancellation, once committed, wins: the job is never published,       *)
(* failed, interrupted or queued again.                                    *)
CancelWins ==
  [][\A j \in Existing : state[j] \in {"cancel_requested", "cancelled"} =>
       state'[j] \in {state[j], "cancelled"}]_vars

(* When a start opens the service, no import is left without its job.      *)
StartRecoversImports ==
  [][service # "serving" /\ service' = "serving" =>
       \A t \in Target : TypeOf[t] = "extract_document" /\ Status(t)' = "pending" =>
         \E j \in Existing' : target'[j] = t]_vars

(* Liveness.                                                               *)

(* A requested cancellation is settled, across crashes and restarts.       *)
CancelSettles ==
  \A j \in Job : state[j] = "cancel_requested" ~> state[j] = "cancelled"

(* A queued job is claimed or cancelled: retries of older jobs, which the  *)
(* claim order prefers, cannot starve it.                                  *)
QueuedIsClaimed == \A j \in Job : state[j] = "queued" ~> state[j] # "queued"

(* A claimed job does not stay running for ever.                           *)
RunningEnds == \A j \in Job : state[j] = "running" ~> state[j] # "running"

(* A job a worker took, or a user cancelled, does not stay in between.     *)
StartedJobsEnd == CancelSettles /\ RunningEnds

(* What the documentation says of the program and the code does not keep.   *)

(* A transaction refused as busy is retried, so it does not cost a serving *)
(* process its worker (failure-recovery.md).                               *)
WorkerSurvivesBusy == service = "serving" => pc # "dead"

(* The queue implements the abstract life cycle of jobs: every step of a   *)
(* handler, the worker or the process is one of its steps or leaves the    *)
(* jobs as they were.                                                      *)
Lifecycle == INSTANCE JobLifecycle
               WITH target <- target, state <- state, attempt <- attempt
ImplementsLifecycle == Lifecycle!Spec
=============================================================================
