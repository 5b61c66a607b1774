---------------------------- MODULE ServiceManager ----------------------------
(***************************************************************************)
(* The part of the desktop's main process that owns the local service:     *)
(* class ServiceManager of service-manager.ts, with the callers of its     *)
(* three public methods (the first start and the quit of main.ts, the      *)
(* reconnect request of ipc.ts).                                           *)
(*                                                                         *)
(* The main process has one event loop.  A step of this module is one      *)
(* callback, or one asynchronous function from an await to the next.  The  *)
(* continuations that a callback makes ready (promise jobs) run before the *)
(* next callback: every callback is guarded by `Quiet`.                    *)
(*                                                                         *)
(* Left out: paths, environments, tokens and the bootstrap record; the     *)
(* record of how each process ended, which only labels the outcome of a    *)
(* stop; the wording of errors.  "ready" also stands for "degraded".        *)
(***************************************************************************)
EXTENDS Naturals

CONSTANTS
  Process,              \* names for service processes, used again after an exit
  NoProcess,            \* null
  MaxAutomaticRestarts  \* MAX_AUTOMATIC_RESTARTS within RESTART_WINDOW_MS

ASSUME ManagerAssumption ==
  /\ NoProcess \notin Process
  /\ MaxAutomaticRestarts \in Nat

VARIABLES
  app,            \* "running", "quitting" (completeShutdown runs) or "gone"
  launched,       \* main.ts has made the first call of start()
  alive,          \* processes whose exit the event loop has not seen
  child,          \* #child
  expectedExits,  \* #expectedExits
  termination,    \* the pending #terminateOwnedChild of #child: its stdin is
                  \* "closed", it was "killed", or there is none
  credentials,    \* #credentials: the process they belong to
  attempt,        \* where the function behind #startPromise waits
  cancelled,      \* #generation has moved on since that attempt began, and its
                  \* signal is aborted
  stopping,       \* where the function behind #stopPromise waits
  startAfterStop, \* some start() or reconnect() waits for that promise
  shuttingDown,   \* #shuttingDown
  restartTimer,   \* #restartTimer is set
  restarts,       \* length of #restartHistory within the window
  probes,         \* credentials of the health probes on their way
  phase           \* the phase of #snapshot

processVars == <<alive, child, expectedExits, termination>>
restartVars == <<restartTimer, restarts>>
vars == <<app, launched, processVars, credentials, attempt, cancelled, stopping,
          startAfterStop, shuttingDown, restartVars, probes, phase>>

Phase == {"starting", "ready", "disconnected", "stopping", "stopped", "unavailable"}

-----------------------------------------------------------------------------
(* Conditions                                                              *)

(* #isAttemptActive of the pending attempt.                                *)
AttemptActive == ~cancelled /\ ~shuttingDown /\ stopping = "none"

(* A continuation is ready: an aborted attempt, a function whose child was  *)
(* terminated or could not be, a stop whose startup settled, a caller whose *)
(* stop settled.                                                           *)
Quiet ==
  /\ attempt \in {"preparing", "verifying"} => ~cancelled
  /\ attempt = "terminating" \/ stopping = "terminating" => termination # "none"
  /\ stopping = "joining" => attempt # "none"
  /\ stopping = "none" => ~startAfterStop

-----------------------------------------------------------------------------
(* Functions called within a step                                          *)

(* #terminateChild of a live child, up to its first wait; a termination     *)
(* already under way is joined.                                            *)
BeginTermination ==
  /\ expectedExits' = expectedExits \cup {child}
  /\ termination' = IF termination = "none" THEN "closed" ELSE termination
  /\ UNCHANGED <<alive, child>>

MustAttemptBesideChild == ~shuttingDown /\ attempt = "none"   \* mutation

(* start(), once no stop is pending: refused in the final shutdown, or      *)
(* while a child lives that could not be terminated; answered by the        *)
(* attempt under way or the connection there is; else a new attempt.        *)
MustAttempt ==
  /\ ~shuttingDown
  /\ attempt = "none"
  /\ child \notin alive

Start ==
  /\ IF MustAttempt
       THEN /\ child' = NoProcess
            /\ attempt' = "preparing"
            /\ cancelled' = FALSE
            /\ phase' = "starting"
       ELSE UNCHANGED <<child, attempt, cancelled, phase>>
  /\ UNCHANGED <<alive, expectedExits, termination, credentials, stopping,
                 shuttingDown, probes>>

CallStart ==
  IF stopping = "none"
    THEN Start /\ UNCHANGED startAfterStop
    ELSE /\ startAfterStop' = TRUE
         /\ UNCHANGED <<processVars, credentials, attempt, cancelled, stopping,
                        shuttingDown, probes, phase>>

(* The end of #stopOwnedService.                                           *)
StopSucceeds ==
  /\ stopping' = "none"
  /\ phase' = IF shuttingDown' THEN "stopped" ELSE "disconnected"

(* The promise rejects, and with it every call that waits for it.           *)
StopFails ==
  /\ stopping' = "none"
  /\ startAfterStop' = FALSE
  /\ phase' = "unavailable"

(* One round of #stopOwnedService, up to its next wait.  A child object that *)
(* has exited without an exit event never had a process id, and             *)
(* #terminateChild refuses to report on it.  The loop's check for a round   *)
(* without progress is never met: a termination that succeeds clears #child.*)
StopRound(follow, busy) ==
  IF child \in alive
    THEN /\ BeginTermination
         /\ stopping' = "terminating" /\ startAfterStop' = follow /\ phase' = busy
  ELSE IF child # NoProcess
    THEN /\ child' = NoProcess
         /\ UNCHANGED <<alive, expectedExits, termination>>
         /\ StopFails
  ELSE /\ UNCHANGED processVars
       /\ startAfterStop' = follow
       /\ IF attempt # "none"
            THEN stopping' = "joining" /\ phase' = busy
            ELSE StopSucceeds

CallStopJoinsFirst(final, follow) ==                            \* mutation
  /\ shuttingDown' = (shuttingDown \/ (final /\ stopping = "none"))
  /\ cancelled' = TRUE /\ restartTimer' = FALSE /\ credentials' = NoProcess
  /\ UNCHANGED <<restarts, probes, attempt>>
  /\ IF stopping = "none"
       THEN StopRound(follow, "stopping")
       ELSE /\ startAfterStop' = (startAfterStop \/ follow)
            /\ UNCHANGED <<processVars, stopping, phase>>

(* stop(final): `follow` says that the caller starts the service after it.  *)
CallStop(final, follow) ==
  /\ shuttingDown' = (shuttingDown \/ final)
  /\ cancelled' = TRUE
  /\ credentials' = NoProcess
  /\ restartTimer' = FALSE
  /\ UNCHANGED <<restarts, probes, attempt>>
  /\ IF stopping = "none"
       THEN StopRound(follow, "stopping")
       ELSE /\ startAfterStop' = (startAfterStop \/ follow)
            /\ UNCHANGED <<processVars, stopping, phase>>

ScheduleUnrecorded ==                                           \* mutation
  IF restarts >= MaxAutomaticRestarts
    THEN phase' = "unavailable" /\ UNCHANGED restartVars
    ELSE restartTimer' = TRUE /\ phase' = "disconnected" /\ UNCHANGED restarts

ScheduleQuietly ==                                              \* mutation
  IF restarts >= MaxAutomaticRestarts
    THEN phase' = "disconnected" /\ UNCHANGED restartVars
    ELSE restarts' = restarts + 1 /\ restartTimer' = TRUE /\ phase' = "disconnected"

(* #scheduleAutomaticRestart                                               *)
ScheduleRestart ==
  IF restarts >= MaxAutomaticRestarts
    THEN phase' = "unavailable" /\ UNCHANGED restartVars
    ELSE /\ restarts' = restarts + 1
         /\ restartTimer' = TRUE
         /\ phase' = "disconnected"

-----------------------------------------------------------------------------
Init ==
  /\ app = "running" /\ launched = FALSE
  /\ alive = {} /\ child = NoProcess /\ expectedExits = {} /\ termination = "none"
  /\ credentials = NoProcess
  /\ attempt = "none" /\ cancelled = FALSE
  /\ stopping = "none" /\ startAfterStop = FALSE
  /\ shuttingDown = FALSE
  /\ restartTimer = FALSE /\ restarts = 0
  /\ probes = {}
  /\ phase = "starting"

-----------------------------------------------------------------------------
(* Callers                                                                 *)

(* The window has loaded: main.ts starts the service, even in a quit.       *)
Launch ==
  /\ Quiet /\ app # "gone" /\ ~launched
  /\ launched' = TRUE
  /\ CallStart
  /\ UNCHANGED <<app, restartVars>>

(* The user asks to reconnect; the handlers are removed before a quit.      *)
Reconnect ==
  /\ Quiet /\ app = "running"
  /\ CallStop(FALSE, TRUE)
  /\ UNCHANGED <<app, launched>>

(* The first before-quit event.                                            *)
Quit ==
  /\ Quiet /\ app = "running"
  /\ app' = "quitting"
  /\ CallStop(TRUE, FALSE)
  /\ UNCHANGED launched

(* completeShutdown ends, whether the stop succeeded or failed.            *)
Leave ==
  /\ Quiet /\ app = "quitting" /\ stopping = "none"
  /\ app' = "gone"
  /\ UNCHANGED <<launched, processVars, credentials, attempt, cancelled, stopping,
                 startAfterStop, shuttingDown, restartVars, probes, phase>>

RestartTimerFires ==
  /\ Quiet /\ app # "gone" /\ restartTimer
  /\ restartTimer' = FALSE
  /\ CallStart
  /\ UNCHANGED <<app, launched, restarts>>

(* The caller of a stop goes on to start().                                *)
StartReleased ==
  /\ stopping = "none" /\ startAfterStop
  /\ startAfterStop' = FALSE
  /\ Start
  /\ UNCHANGED <<app, launched, restartVars>>

-----------------------------------------------------------------------------
(* #startOwnedService                                                      *)

attemptOnly == <<app, launched, cancelled, stopping, startAfterStop, shuttingDown,
                 restartVars, probes>>

(* The runtime directory, the launch command or the spawn itself fails; or  *)
(* the attempt was aborted at one of these waits.                          *)
PreparationFails ==
  /\ attempt = "preparing"
  /\ (Quiet /\ app # "gone") \/ cancelled
  /\ attempt' = "none"
  /\ credentials' = NoProcess
  /\ phase' = IF AttemptActive THEN "unavailable" ELSE phase
  /\ UNCHANGED <<attemptOnly, processVars>>

(* A process is spawned.  Its name is fresh: nothing refers to it.          *)
Spawn(p) ==
  /\ Quiet /\ app # "gone" /\ attempt = "preparing"
  /\ AttemptActive
  /\ p \notin alive \cup probes
  /\ alive' = alive \cup {p}
  /\ child' = p
  /\ expectedExits' = expectedExits \ {p}
  /\ attempt' = "verifying"
  /\ UNCHANGED <<attemptOnly, termination, credentials, phase>>

(* The executable cannot be run: a child object without a process, which    *)
(* reports an error event and never an exit event.                         *)
SpawnFails(p) ==
  /\ Quiet /\ app # "gone" /\ attempt = "preparing"
  /\ AttemptActive
  /\ p \notin alive \cup probes
  /\ child' = p
  /\ expectedExits' = expectedExits \ {p}
  /\ credentials' = NoProcess
  /\ attempt' = "none"
  /\ phase' = "unavailable"
  /\ UNCHANGED <<attemptOnly, alive, termination>>

(* The readiness line and an authenticated health answer have arrived.      *)
Verified ==
  /\ Quiet /\ app # "gone" /\ attempt = "verifying"
  /\ AttemptActive
  /\ credentials' = child
  /\ attempt' = "none"
  /\ phase' = "ready"
  /\ UNCHANGED <<attemptOnly, processVars>>

(* The readiness or the health answer is late or wrong, or the attempt was  *)
(* aborted: a live child is terminated.                                    *)
VerificationFails ==
  /\ attempt = "verifying"
  /\ (Quiet /\ app # "gone") \/ cancelled
  /\ credentials' = NoProcess
  /\ IF child \in alive
       THEN BeginTermination /\ attempt' = "terminating" /\ UNCHANGED phase
       ELSE /\ attempt' = "none"
            /\ phase' = IF AttemptActive THEN "unavailable" ELSE phase
            /\ UNCHANGED processVars
  /\ UNCHANGED attemptOnly

AttemptEndsSilently ==                                          \* mutation
  /\ attempt = "terminating" /\ termination = "none"
  /\ attempt' = "none"
  /\ UNCHANGED <<attemptOnly, processVars, credentials, phase>>

(* The child of a failed attempt is terminated, or could not be.            *)
AttemptEnds ==
  /\ attempt = "terminating" /\ termination = "none"
  /\ attempt' = "none"
  /\ phase' = IF AttemptActive THEN "unavailable" ELSE phase
  /\ UNCHANGED <<attemptOnly, processVars, credentials>>

-----------------------------------------------------------------------------
(* #stopOwnedService, #terminateOwnedChild and the exit of a process       *)

stopOnly == <<app, launched, credentials, attempt, cancelled, shuttingDown,
              restartVars, probes>>

(* The wait for the child is over: it has gone, or the stop fails.          *)
StopTerminated ==
  /\ stopping = "terminating" /\ termination = "none"
  /\ IF child = NoProcess
       THEN stopping' = "joining" /\ UNCHANGED <<startAfterStop, phase>>
       ELSE StopFails
  /\ UNCHANGED <<stopOnly, processVars>>

(* No startup is pending any more: the loop looks again.                    *)
StopJoined ==
  /\ stopping = "joining" /\ attempt = "none"
  /\ UNCHANGED stopOnly
  /\ StopRound(startAfterStop, phase)

(* The child did not exit in shutdownTimeoutMs: it is killed.               *)
ShutdownTimeout ==
  /\ Quiet /\ app # "gone" /\ termination = "closed"
  /\ termination' = "killed"
  /\ UNCHANGED <<alive, child, expectedExits, stopOnly, stopping, startAfterStop, phase>>

(* Nor in forcedTerminationTimeoutMs: the termination fails.                *)
KillTimeout ==
  /\ Quiet /\ app # "gone" /\ termination = "killed"
  /\ termination' = "none"
  /\ UNCHANGED <<alive, child, expectedExits, stopOnly, stopping, startAfterStop, phase>>

(* The exit event of a process, at any time: #handleChildExit, then the     *)
(* wait of a termination.                                                  *)
ChildExits(p) ==
  /\ Quiet \/ app = "gone"
  /\ p \in alive
  /\ alive' = alive \ {p}
  /\ UNCHANGED <<app, launched, expectedExits, attempt, stopping, startAfterStop,
                 shuttingDown, probes>>
  /\ IF child # p \/ app = "gone"
       THEN UNCHANGED <<child, termination, credentials, cancelled, restartVars, phase>>
       ELSE /\ child' = NoProcess
            /\ termination' = "none"
            /\ credentials' = NoProcess
            /\ IF p \in expectedExits \/ shuttingDown
                 THEN UNCHANGED <<cancelled, restartVars, phase>>
                 ELSE cancelled' = TRUE /\ ScheduleRestart

-----------------------------------------------------------------------------
(* #checkConnectedHealth, before and after its await                       *)

SendProbe ==
  /\ Quiet /\ app # "gone"
  /\ credentials # NoProcess /\ ~shuttingDown
  /\ probes' = probes \cup {credentials}
  /\ UNCHANGED <<app, launched, processVars, credentials, attempt, cancelled, stopping,
                 startAfterStop, shuttingDown, restartVars, phase>>

ProbeAnswersUnchecked(p) ==                                     \* mutation
  /\ Quiet /\ app # "gone" /\ p \in probes
  /\ probes' = probes \ {p}
  /\ phase' \in {"ready", "disconnected"}
  /\ UNCHANGED <<app, launched, processVars, credentials, attempt, cancelled, stopping,
                 startAfterStop, shuttingDown, restartVars>>

ProbeAnswers(p) ==
  /\ Quiet /\ app # "gone" /\ p \in probes
  /\ probes' = probes \ {p}
  /\ IF credentials = p /\ ~shuttingDown /\ stopping = "none"
       THEN phase' \in {"ready", "disconnected"}
       ELSE UNCHANGED phase
  /\ UNCHANGED <<app, launched, processVars, credentials, attempt, cancelled, stopping,
                 startAfterStop, shuttingDown, restartVars>>

(* The oldest restart is no longer within the window.                      *)
WindowSlides ==
  /\ Quiet /\ app # "gone" /\ restarts > 0
  /\ restarts' = restarts - 1
  /\ UNCHANGED <<app, launched, processVars, credentials, attempt, cancelled, stopping,
                 startAfterStop, shuttingDown, restartTimer, probes, phase>>

-----------------------------------------------------------------------------
AttemptStep ==
  \/ PreparationFails \/ Verified \/ VerificationFails \/ AttemptEnds
  \/ \E p \in Process : Spawn(p) \/ SpawnFails(p)

StopStep == StopTerminated \/ StopJoined \/ ShutdownTimeout \/ KillTimeout

Next ==
  \/ Launch \/ Reconnect \/ Quit \/ Leave \/ RestartTimerFires \/ StartReleased
  \/ AttemptStep \/ StopStep
  \/ SendProbe \/ WindowSlides
  \/ \E p \in Process : ChildExits(p) \/ ProbeAnswers(p)

Spec == Init /\ [][Next]_vars

(* Every wait of an attempt and of a stop is bounded by a timer, a set timer *)
(* fires, and the loop runs the callbacks that are due.  Nobody makes a user *)
(* act, a process exit or a probe be sent.                                 *)
FairSpec ==
  /\ Spec
  /\ WF_vars(AttemptStep) /\ WF_vars(StopStep)
  /\ WF_vars(RestartTimerFires) /\ WF_vars(StartReleased) /\ WF_vars(Leave)

-----------------------------------------------------------------------------
(* Properties                                                              *)

(* The values of the manager's fields; the restart history never grows past *)
(* its limit (scheduleAutomaticRestart).                                   *)
ManagerTypeOK ==
  /\ app \in {"running", "quitting", "gone"}
  /\ launched \in BOOLEAN
  /\ alive \subseteq Process /\ expectedExits \subseteq Process
  /\ probes \subseteq Process
  /\ child \in Process \cup {NoProcess}
  /\ credentials \in Process \cup {NoProcess}
  /\ termination \in {"none", "closed", "killed"}
  /\ attempt \in {"none", "preparing", "verifying", "terminating"}
  /\ stopping \in {"none", "terminating", "joining"}
  /\ cancelled \in BOOLEAN /\ startAfterStop \in BOOLEAN
  /\ shuttingDown \in BOOLEAN /\ restartTimer \in BOOLEAN
  /\ restarts \in 0 .. MaxAutomaticRestarts
  /\ phase \in Phase

(* However starts, stops, reconnects, restarts and exits interleave, at most *)
(* one service process lives, and it is the one the manager owns: none is   *)
(* ever left behind (start, stop and terminateOwnedChild).                  *)
OneOwnedProcess == alive \subseteq {child}

(* Requests are only sent to a verified, live process that nobody is        *)
(* stopping, and no start is pending beside it (connection()).              *)
ConnectionIsLive ==
  credentials # NoProcess =>
    /\ credentials = child /\ child \in alive \ expectedExits
    /\ attempt = "none" /\ stopping = "none" /\ ~shuttingDown

(* The process, the connection and the manager's fields belong together.    *)
OwnedAndConnected == OneOwnedProcess /\ ConnectionIsLive

(* Once the user has quit no process is started, whatever timer, reconnect   *)
(* or attempt was under way (shuttingDown in stop, start, isAttemptActive). *)
StaysDown == [][app # "running" => alive' \subseteq alive]_vars

(* What the user is shown agrees with what is there: a connection is not    *)
(* claimed without one, an operation is not shown that nobody performs, and *)
(* "stopped" means that no process is left (setSnapshot in every function). *)
PhaseTruthful ==
  /\ phase = "ready" => credentials # NoProcess
  /\ phase = "starting" /\ launched => attempt # "none"
  /\ phase = "stopping" => stopping # "none"
  /\ phase = "stopped" => shuttingDown /\ alive = {}
  /\ stopping # "none" /\ alive # {} => phase = "stopping"

(* A service that exited unexpectedly is not forgotten: when the user sees  *)
(* a lost connection and no process is left, a restart is due               *)
(* (handleChildExit against a start still pending, stop and reconnect).     *)
LostServiceRestarts ==
  phase = "disconnected" /\ child = NoProcess /\ Quiet => restartTimer

(* A quit is never held up, by a start, another stop or a process that does *)
(* not die (completeShutdown).                                             *)
QuitCompletes == app = "quitting" ~> app = "gone"

(* The user is not left looking at "starting" or "stopping" for ever.       *)
PhaseSettles ==
  launched /\ phase \in {"starting", "stopping"} ~> phase \notin {"starting", "stopping"}

(* Neither a quit nor a phase that promises an end stays as it is.          *)
PhasesEnd == QuitCompletes /\ PhaseSettles

(* A service that keeps exiting is not restarted for ever: while no restart *)
(* leaves the window and the user does not ask, restarts end                *)
(* (scheduleAutomaticRestart).                                             *)
AutomaticRestartsEnd ==
  <>[][~WindowSlides]_vars /\ <>[][~Reconnect]_vars => <>[]~restartTimer
=============================================================================
