---------------------------- MODULE SpeechRuntime ----------------------------
(***************************************************************************)
(* The managed speech workers of the audition repository                   *)
(* (speech_runtime.py; _acquire_runtime, run_generation_job and            *)
(* shutdown_runtimes of audition_repository.py).                           *)
(*                                                                         *)
(* A generation acquires the cached runtime of its model package and       *)
(* profile, or starts a worker process and records it in a row; it marks   *)
(* the row busy, dispatches one request, and the publication of the result *)
(* makes the row idle.  A runtime that failed is put in quarantine, its    *)
(* exit evidence persisted, and released once the exit of its whole        *)
(* process tree is confirmed.  A shutdown seals acquisition and            *)
(* publication and stops every runtime in its own thread.                  *)
(*                                                                         *)
(* One runtime key is modelled, so at most one runtime is cached.  What    *)
(* the frames contain is not: a request succeeds or ends in a failure.     *)
(***************************************************************************)
EXTENDS FiniteSets, Naturals

CONSTANTS
  Inst,           \* identities of runtime instances
  MaxOwned,       \* _MAX_OWNED_RUNTIME_SHUTDOWN_PROOFS
  DatabaseFails,  \* whether a transaction of these handlers can fail
  None

ASSUME SpeechAssumption ==
  /\ None \notin Inst /\ "quarantined" \notin Inst \cup {None}
  /\ MaxOwned \in Nat
  /\ DatabaseFails \in BOOLEAN

VARIABLES
  proc,        \* the process tree of an instance
  lastExit,    \* last_exit of its runtime object
  row,         \* the state of its row
  cached,      \* _runtimes
  quarantine,  \* _quarantined_runtimes
  bound,       \* those of them that have a row
  owned,       \* _owned_runtime_instance_ids
  records,     \* _runtime_exit_records
  sealed,      \* _runtime_shutdown_started
  gen,         \* where run_generation_job is
  cur,         \* runtime_instance_id of the running generation
  cancel,      \* the job's cancellation is requested
  pending,     \* runtimes the running shutdown_runtimes has still to stop
  stopped,     \* the one it stopped and has to account for
  incomplete   \* shutdown_incomplete

speechVars == <<proc, lastExit, row, cached, quarantine, bound, owned, records,
                sealed, gen, cur, cancel, pending, stopped, incomplete>>

instVars == <<proc, lastExit>>
holdVars == <<cached, quarantine, bound, owned, records>>
genVars == <<gen, cur, cancel>>
shutVars == <<sealed, pending, stopped, incomplete>>

\* A process that is there, or was there when the runtime last looked.
Handle == {"live", "idled", "crashed", "resisting"}
\* Processes that may be alive.
Alive == {"live", "resisting"}
LiveRow == {"ready", "busy", "idle"}

SpeechInit ==
  /\ proc = [i \in Inst |-> "none"] /\ lastExit = [i \in Inst |-> "none"]
  /\ row = [i \in Inst |-> "none"]
  /\ cached = None /\ quarantine = {} /\ bound = {} /\ owned = {} /\ records = {}
  /\ gen = "none" /\ cur = None /\ cancel = FALSE
  /\ sealed = FALSE /\ pending = {} /\ stopped = None /\ incomplete = FALSE

----------------------------------------------------------------------------
(* The runtime object.  Each operation holds its lock throughout.          *)

\* _terminate_owned: the tree is gone, or could not be seen to be gone and
\* is kept for another try.
Terminated == {<<"gone", "forced">>, <<"resisting", "unconfirmed">>}

\* stop: what it leaves of the process, and the evidence it returns.
StopResult(i) ==
  CASE proc[i] \in {"none", "gone"} -> {<<proc[i], lastExit[i]>>}
    [] proc[i] = "resisting"        -> Terminated
    [] proc[i] = "crashed"          -> Terminated
    [] OTHER                        -> Terminated \cup {<<"gone", "graceful">>}

SetProcess(i, result) ==
  /\ proc' = [proc EXCEPT ![i] = result[1]]
  /\ lastExit' = [lastExit EXCEPT ![i] = result[2]]

Confirms(evidence) == evidence \in {"graceful", "forced"}

----------------------------------------------------------------------------
(* Accounting for an exit.                                                 *)

\* _persist_runtime_exit_evidence: the state of a row whose process ended.
ExitState(evidence, stopFailed) ==
  IF evidence = "graceful" /\ ~stopFailed THEN "stopped" ELSE "failed"

Quarantine(i, isBound) ==
  /\ cached' = IF cached = i THEN None ELSE cached
  /\ quarantine' = quarantine \cup {i}
  /\ bound' = IF isBound THEN bound \cup {i} ELSE bound

\* Quarantine, evidence, release: the runtime stays in quarantine when its
\* exit is not confirmed, and when the evidence cannot be written.
AccountBound(i, evidence) ==
  \/ /\ row' = [row EXCEPT ![i] = ExitState(evidence, ~Confirms(evidence))]
     /\ records' = records \cup {i}
     /\ cached' = IF cached = i THEN None ELSE cached
     /\ quarantine' = IF Confirms(evidence) THEN quarantine \ {i} ELSE quarantine \cup {i}
     /\ bound' = IF Confirms(evidence) THEN bound \ {i} ELSE bound \cup {i}
     /\ UNCHANGED owned
  \/ /\ DatabaseFails
     /\ Quarantine(i, TRUE)
     /\ UNCHANGED <<row, records, owned>>

\* _account_unbound_runtime: a runtime that never had a row.
AccountUnbound(i, evidence) ==
  /\ owned' = owned \cup {i}
  /\ records' = IF evidence = "none" THEN records ELSE records \cup {i}
  /\ quarantine' = IF Confirms(evidence) THEN quarantine \ {i} ELSE quarantine \cup {i}
  /\ UNCHANGED <<row, cached, bound>>

----------------------------------------------------------------------------
(* Acquisition, under the repository's runtime lock.                       *)

Return == gen' = "none" /\ cur' = None /\ cancel' = FALSE

Request ==
  /\ gen = "none"
  /\ gen' = "reap" /\ UNCHANGED <<cur, cancel>>
  /\ UNCHANGED <<instVars, row, holdVars, shutVars>>

\* _reap_idle_runtimes looks at a cached runtime whose row is idle: there is
\* nothing to reap, or the job fails unless the reaped exit is confirmed and
\* recorded.
NothingToReap ==
  /\ gen = "reap"
  /\ cached # None =>
       row[cached] # "idle" \/ proc[cached] \notin Handle \/ proc[cached] \in Alive
  /\ gen' = "acquire" /\ UNCHANGED <<cur, cancel>>
  /\ UNCHANGED <<instVars, row, holdVars, shutVars>>

ReapIdle ==
  /\ gen = "reap"
  /\ cached # None /\ row[cached] = "idle" /\ proc[cached] \in Handle
  /\ \E result \in StopResult(cached) :
       /\ SetProcess(cached, result)
       /\ AccountBound(cached, result[2])
       /\ IF Confirms(result[2]) /\ cached \in records'
          THEN gen' = "acquire" /\ UNCHANGED <<cur, cancel>>
          ELSE Return
  /\ UNCHANGED shutVars

\* The owner is shutting down, the cached row is neither ready nor idle, or
\* there is none and the capacity is used up or no process can be created.
AcquireRefused ==
  /\ gen = "acquire"
  /\ \/ sealed
     \/ cached # None /\ row[cached] \notin {"ready", "idle"}
     \/ cached = None
  /\ Return
  /\ UNCHANGED <<instVars, row, holdVars, shutVars>>

\* The cached runtime already reported an exit.
AcquirePoisoned ==
  /\ gen = "acquire" /\ ~sealed
  /\ cached # None /\ row[cached] \in {"ready", "idle"} /\ lastExit[cached] # "none"
  /\ AccountBound(cached, lastExit[cached])
  /\ Return
  /\ UNCHANGED <<instVars, shutVars>>

AcquireCached ==
  /\ gen = "acquire" /\ ~sealed
  /\ cached # None /\ row[cached] \in {"ready", "idle"} /\ lastExit[cached] = "none"
  /\ proc[cached] = "live"
  /\ \/ /\ row' = [row EXCEPT ![cached] = "ready"]
        /\ gen' = "acquired" /\ cur' = cached /\ UNCHANGED cancel
     \/ DatabaseFails /\ Return /\ UNCHANGED row
  /\ UNCHANGED <<instVars, holdVars, shutVars>>

\* start() finds the process gone: a confirmed exit is recorded and the
\* runtime forgotten, any other stays cached for the next acquisition.
AcquireExited ==
  /\ gen = "acquire" /\ ~sealed
  /\ cached # None /\ row[cached] \in {"ready", "idle"} /\ lastExit[cached] = "none"
  /\ proc[cached] \in {"idled", "crashed"}
  /\ \E result \in StopResult(cached) :
       /\ SetProcess(cached, result)
       /\ \/ /\ Confirms(result[2])
             /\ row' = [row EXCEPT ![cached] = ExitState(result[2], FALSE)]
             /\ records' = records \cup {cached}
             /\ cached' = None
          \/ /\ ~Confirms(result[2]) \/ DatabaseFails
             /\ UNCHANGED <<row, records, cached>>
  /\ Return
  /\ UNCHANGED <<quarantine, bound, owned, shutVars>>

CanStart(i) ==
  /\ gen = "acquire" /\ ~sealed
  /\ cached = None /\ Cardinality(owned) < MaxOwned
  /\ proc[i] = "none"

StartNew(i) ==
  /\ CanStart(i)
  /\ proc' = [proc EXCEPT ![i] = "live"] /\ UNCHANGED lastExit
  /\ row' = [row EXCEPT ![i] = "ready"]
  /\ cached' = i /\ owned' = owned \cup {i}
  /\ gen' = "acquired" /\ cur' = i
  /\ UNCHANGED <<cancel, quarantine, bound, records, shutVars>>

\* The handshake fails, or the process starts but its executable cannot be
\* read or its row added: the runtime is stopped and accounted for.
StartFails(i) ==
  /\ CanStart(i)
  /\ \E result \in Terminated \cup {<<"gone", "graceful">>} :
       SetProcess(i, result) /\ AccountUnbound(i, result[2])
  /\ Return
  /\ UNCHANGED shutVars

----------------------------------------------------------------------------
(* The generation.                                                         *)

Usable == lastExit[cur] = "none" /\ proc[cur] = "live"

MarkBusy ==
  /\ gen = "acquired"
  /\ IF cached = cur /\ row[cur] = "ready" /\ Usable
     THEN row' = [row EXCEPT ![cur] = "busy"] /\ gen' = "busy"
     ELSE gen' = "failing" /\ UNCHANGED row
  /\ UNCHANGED <<cur, cancel, instVars, holdVars, shutVars>>

\* A stage finds the cancellation, or anything else raises, before dispatch.
StageFails ==
  /\ gen = "busy"
  /\ gen' = "failing"
  /\ UNCHANGED <<cur, cancel, instVars, row, holdVars, shutVars>>

\* synthesize holds the runtime's lock from the dispatch to the answer.
Dispatch ==
  /\ gen = "busy" /\ ~cancel
  /\ row[cur] = "busy" /\ Usable
  /\ gen' = "speaking"
  /\ UNCHANGED <<cur, cancel, instVars, row, holdVars, shutVars>>

\* The worker has exited before the dispatch; its exit may be the idle one.
DispatchExited ==
  /\ gen = "busy" /\ proc[cur] \in Handle \ {"live"}
  /\ \E result \in StopResult(cur) : SetProcess(cur, result)
  /\ gen' = "failing"
  /\ UNCHANGED <<cur, cancel, row, holdVars, shutVars>>

Speak ==
  /\ gen = "speaking" /\ proc[cur] = "live"
  /\ gen' = "spoken"
  /\ UNCHANGED <<cur, cancel, instVars, row, holdVars, shutVars>>

\* An error frame, the deadline, a malformed frame or the end of the pipe.
SpeakFails ==
  /\ gen = "speaking"
  /\ \E result \in Terminated : SetProcess(cur, result)
  /\ gen' = "failing"
  /\ UNCHANGED <<cur, cancel, row, holdVars, shutVars>>

\* The stages up to "validate_audio_artifact", the last that can stop.
Validate ==
  /\ gen = "spoken"
  /\ \/ ~cancel /\ gen' = "publish"
     \/ gen' = "failing"
  /\ UNCHANGED <<cur, cancel, instVars, row, holdVars, shutVars>>

\* Mutant: the publication looks neither at the seal nor at the row.
PublishBlind ==
  /\ gen = "publish"
  /\ row' = IF cancel THEN row ELSE [row EXCEPT ![cur] = "idle"]
  /\ Return
  /\ UNCHANGED <<instVars, holdVars, shutVars>>

\* The publication and the release of the runtime are one transaction.
Publish ==
  /\ gen = "publish"
  /\ IF cancel
     THEN Return /\ UNCHANGED row
     ELSE \/ /\ ~sealed /\ row[cur] = "busy"
             /\ row' = [row EXCEPT ![cur] = "idle"]
             /\ Return
          \/ /\ sealed \/ row[cur] # "busy" \/ DatabaseFails
             /\ gen' = "failing" /\ UNCHANGED <<row, cur, cancel>>
  /\ UNCHANGED <<instVars, holdVars, shutVars>>

\* The worker thread is stopping: the publication is given up.
PublishStopped ==
  /\ gen = "publish" /\ sealed
  /\ Return
  /\ UNCHANGED <<instVars, row, holdVars, shutVars>>

\* The handler of a failure: a runtime that still runs is idle again.
HandleRow ==
  /\ gen = "failing"
  /\ row' = IF row[cur] \in {"stopped", "failed"} THEN row
            ELSE [row EXCEPT ![cur] = IF Usable THEN "idle" ELSE "failed"]
  /\ IF Usable THEN Return ELSE gen' = "accounting" /\ UNCHANGED <<cur, cancel>>
  /\ UNCHANGED <<instVars, holdVars, shutVars>>

\* Any other is stopped if need be, quarantined and accounted for.
HandleExit ==
  /\ gen = "accounting"
  /\ \E result \in (IF lastExit[cur] = "none" THEN StopResult(cur)
                    ELSE {<<proc[cur], lastExit[cur]>>}) :
       SetProcess(cur, result) /\ AccountBound(cur, result[2])
  /\ Return
  /\ UNCHANGED shutVars

\* The handler cannot write: the exception ends the job there.
HandlerFails ==
  /\ gen = "failing" /\ DatabaseFails
  /\ Return
  /\ UNCHANGED <<instVars, row, holdVars, shutVars>>

CancelGeneration ==
  /\ gen # "none" /\ ~cancel
  /\ cancel' = TRUE
  /\ UNCHANGED <<gen, cur, instVars, row, holdVars, shutVars>>

GenerationStep ==
  \/ NothingToReap \/ ReapIdle \/ AcquireRefused \/ AcquirePoisoned
  \/ AcquireCached \/ AcquireExited
  \/ \E i \in Inst : StartNew(i) \/ StartFails(i)
  \/ MarkBusy \/ StageFails \/ Dispatch \/ DispatchExited \/ Speak \/ SpeakFails
  \/ Validate \/ Publish \/ PublishStopped
  \/ HandleRow \/ HandleExit \/ HandlerFails

----------------------------------------------------------------------------
(* Shutdown, in the thread of the application's lifespan.                  *)

SealRuntimes ==
  /\ ~sealed /\ sealed' = TRUE
  /\ UNCHANGED <<instVars, row, holdVars, genVars, pending, stopped, incomplete>>

\* shutdown_runtimes takes the cached runtimes; the quarantined ones follow.
BeginStop ==
  /\ sealed /\ pending = {} /\ stopped = None
  /\ pending' = {cached, "quarantined"} \ {None}
  /\ incomplete' = FALSE
  /\ UNCHANGED <<instVars, row, holdVars, genVars, sealed, stopped>>

\* runtime.stop waits for the lock that a running synthesis holds.
StopOne(i) ==
  /\ stopped = None /\ i \in pending \cap Inst
  /\ ~(gen = "speaking" /\ cur = i)
  /\ \E result \in StopResult(i) : SetProcess(i, result)
  /\ stopped' = i
  /\ UNCHANGED <<row, holdVars, genVars, sealed, pending, incomplete>>

\* The evidence is persisted and the runtime dropped, or kept in quarantine.
AccountOne(i) ==
  /\ stopped = i /\ i \in pending
  /\ IF i \in quarantine /\ i \notin bound
     THEN /\ AccountUnbound(i, lastExit[i])
          /\ incomplete' = (incomplete \/ ~Confirms(lastExit[i]))
     ELSE /\ AccountBound(i, lastExit[i])
          /\ incomplete' = (incomplete \/ ~Confirms(lastExit[i])
                              \/ i \in quarantine')
  /\ stopped' = None /\ pending' = pending \ {i}
  /\ UNCHANGED <<instVars, genVars, sealed>>

\* After the cached ones, those in quarantine at that moment.
TakeQuarantined ==
  /\ stopped = None /\ pending = {"quarantined"}
  /\ pending' = quarantine
  /\ UNCHANGED <<instVars, row, holdVars, genVars, sealed, stopped, incomplete>>

ShutdownStep ==
  \/ TakeQuarantined
  \/ \E i \in Inst : StopOne(i) \/ AccountOne(i)

----------------------------------------------------------------------------
(* The processes, and a restart of the service.                            *)

Crash(i) ==
  /\ proc[i] = "live"
  /\ proc' = [proc EXCEPT ![i] = "crashed"]
  /\ UNCHANGED <<lastExit, row, holdVars, genVars, shutVars>>

\* A worker that had no request for its idle timeout says so and exits.
IdleOut(i) ==
  /\ proc[i] = "live"
  /\ ~(gen = "speaking" /\ cur = i)
  /\ proc' = [proc EXCEPT ![i] = "idled"]
  /\ UNCHANGED <<lastExit, row, holdVars, genVars, shutVars>>

\* The end of the service closes the job objects, which ends the workers;
\* the next start fails the rows closed without touching any process.
RestartRuntimes ==
  /\ proc' = [i \in Inst |-> IF proc[i] = "none" THEN "none" ELSE "gone"]
  /\ row' = [i \in Inst |-> IF row[i] \in LiveRow THEN "failed" ELSE row[i]]
  /\ cached' = None /\ quarantine' = {} /\ bound' = {} /\ owned' = {} /\ records' = {}
  /\ lastExit' = [i \in Inst |-> "none"]
  /\ Return
  /\ sealed' = FALSE /\ pending' = {} /\ stopped' = None /\ incomplete' = FALSE

SpeechEnv == CancelGeneration \/ \E i \in Inst : Crash(i) \/ IdleOut(i)

----------------------------------------------------------------------------
\* A worker process that may be alive belongs to a runtime the service still
\* holds, cached or in quarantine, whatever step was interrupted by a failure
\* (audition_repository.py:8435).
NoSpeechOrphan ==
  \A i \in Inst : proc[i] \in Alive => i = cached \/ i \in quarantine

\* While the service runs, no runtime is busy without a generation that uses
\* it: a generation ends by releasing or idling its runtime
\* (docs/architecture/audition-sessions-cache-and-governance.md:39).  The code
\* does not keep it when a cancellation is found at audition_repository.py:7784.
ReleaseOrIdle ==
  ~sealed /\ gen = "none" => \A i \in Inst : row[i] # "busy"

\* A row that says stopped or failed never becomes live again
\* (audition_repository.py:7815).
ExitIsFinal ==
  [][\A i \in Inst : row[i] \in {"stopped", "failed"} => row'[i] \in {"stopped", "failed"}]_row
=============================================================================
