------------------------- MODULE ServiceManagerProofs -------------------------
(***************************************************************************)
(* The safety of ServiceManager for every set of process names and every   *)
(* limit of restarts.  ManagerInv is inductive: Ownership says which       *)
(* process each function deals with, Display ties what the user sees to    *)
(* the functions under way.                                                *)
(***************************************************************************)
EXTENDS ServiceManager, TLAPS

(* An attempt not yet aborted is the only thing going on and has its child  *)
(* to itself; a termination and a stop concern an expected exit; whoever    *)
(* waits for a stop waits for one that nobody but a quit began.             *)
Ownership ==
  /\ OneOwnedProcess
  /\ ConnectionIsLive
  /\ attempt = "preparing" => child = NoProcess
  /\ attempt = "verifying" /\ ~cancelled => child \in alive \ expectedExits
  /\ attempt # "none" /\ (shuttingDown \/ stopping # "none") => cancelled
  /\ termination # "none" => child \in alive \cap expectedExits
  /\ stopping # "none" /\ child \in alive => child \in expectedExits
  /\ stopping = "joining" => child = NoProcess
  /\ stopping # "none" /\ ~shuttingDown => startAfterStop
  /\ stopping = "none" /\ startAfterStop => attempt = "none" /\ alive = {}
  /\ app # "running" => shuttingDown
  /\ child \notin alive \cup {NoProcess} => attempt = "none"
  /\ stopping = "terminating" /\ termination = "none" =>
       attempt \in {"none", "terminating"}
  /\ stopping = "none" /\ shuttingDown =>
       termination = "none" /\ attempt \in {"none", "terminating"}
  /\ app = "gone" => stopping = "none" /\ attempt = "none"

Display ==
  /\ phase = "stopping" <=> stopping # "none"
  /\ attempt \in {"preparing", "verifying"} /\ ~cancelled => phase = "starting"
  /\ phase = "starting" /\ attempt = "none" =>
       ~launched /\ child = NoProcess /\ ~shuttingDown /\ ~startAfterStop
  /\ phase = "starting" /\ attempt # "none" => ~cancelled
  /\ phase = "ready" => credentials # NoProcess
  /\ phase = "stopped" => shuttingDown /\ alive = {}
  /\ phase = "disconnected" /\ child \in alive => credentials # NoProcess
  /\ phase = "disconnected" => ~shuttingDown
  /\ phase = "disconnected" /\ child = NoProcess => restartTimer \/ startAfterStop

ManagerInv == ManagerTypeOK /\ Ownership /\ Display /\ phase \in Phase

-----------------------------------------------------------------------------
(* One lemma for each action: the fields keep their ranges, the functions  *)
(* keep their processes, and what is shown stays true.                     *)

(* The first start, before or after a quit, answers or begins an attempt. *)
LEMMA LaunchPreserves ==
  ASSUME ManagerInv, Launch
  PROVE  ManagerInv'
<1>1. ManagerTypeOK' /\ phase' \in Phase
  <2>1. CASE stopping = "none" /\ MustAttempt
    BY <2>1 DEF ManagerInv, ManagerTypeOK, Phase, restartVars, Launch, Start,
       CallStart
  <2>2. CASE stopping = "none" /\ ~MustAttempt
    BY <2>2 DEF ManagerInv, ManagerTypeOK, restartVars, Launch, Start, CallStart
  <2>3. CASE stopping # "none"
    BY <2>3 DEF ManagerInv, ManagerTypeOK, processVars, restartVars, Launch,
       CallStart
  <2>. QED BY <2>1, <2>2, <2>3
<1>2. Ownership'
  BY DEF ManagerInv, Ownership, OneOwnedProcess, ConnectionIsLive, Quiet,
     processVars, Launch, MustAttempt, Start, CallStart
<1>3. Display'
  BY ManagerAssumption DEF ManagerInv, ManagerTypeOK, Ownership, Display, Quiet,
     Launch, MustAttempt, Start, CallStart
<1>. QED BY <1>1, <1>2, <1>3 DEF ManagerInv

(* A reconnect stops what there is and remembers to start. *)
LEMMA ReconnectPreserves ==
  ASSUME ManagerInv, Reconnect
  PROVE  ManagerInv'
<1>1. ManagerTypeOK' /\ phase' \in Phase
  BY DEF ManagerInv, ManagerTypeOK, Phase, processVars, Reconnect, CallStop,
     StopRound, StopSucceeds, StopFails, BeginTermination
<1>2. Ownership'
  BY DEF ManagerInv, ManagerTypeOK, Ownership, OneOwnedProcess, ConnectionIsLive,
     processVars, Reconnect, CallStop, StopRound, StopFails, BeginTermination
<1>3. Display'
  BY DEF ManagerInv, Ownership, Display, OneOwnedProcess, processVars, Reconnect,
     CallStop, StopRound, StopSucceeds, StopFails
<1>. QED BY <1>1, <1>2, <1>3 DEF ManagerInv

(* A quit stops what there is for good. *)
LEMMA QuitPreserves ==
  ASSUME ManagerInv, Quit
  PROVE  ManagerInv'
<1>1. ManagerTypeOK' /\ phase' \in Phase
  BY DEF ManagerInv, ManagerTypeOK, Phase, processVars, Quit, CallStop, StopRound,
     StopSucceeds, StopFails, BeginTermination
<1>2. shuttingDown' = TRUE
  BY DEF Quit, CallStop
<1>3. Ownership'
  <2>1. CASE stopping # "none"
    BY <1>2, <2>1 DEF ManagerInv, Ownership, OneOwnedProcess, ConnectionIsLive,
       processVars, Quit, CallStop
  <2>2. CASE stopping = "none" /\ child \in alive
    BY <1>2, <2>2 DEF ManagerInv, Ownership, OneOwnedProcess, ConnectionIsLive,
       Quit, CallStop, StopRound, BeginTermination
  <2>3. CASE stopping = "none" /\ child \notin alive
    BY <1>2, <2>3 DEF ManagerInv, Ownership, OneOwnedProcess, ConnectionIsLive,
       processVars, Quit, CallStop, StopRound
  <2>. QED BY <2>1, <2>2, <2>3
<1>4. Display'
  BY DEF ManagerInv, Ownership, Display, OneOwnedProcess, processVars, Quit,
     CallStop, StopRound, StopSucceeds, StopFails
<1>. QED BY <1>1, <1>3, <1>4 DEF ManagerInv

(* The application goes when its stop has settled. *)
LEMMA LeavePreserves ==
  ASSUME ManagerInv, Leave
  PROVE  ManagerInv'
<1>1. ManagerTypeOK' /\ phase' \in Phase
  BY DEF ManagerInv, ManagerTypeOK, processVars, restartVars, Leave
<1>2. Ownership'
  BY DEF ManagerInv, Ownership, OneOwnedProcess, ConnectionIsLive, Quiet,
     processVars, Leave
<1>3. Display'
  BY DEF ManagerInv, Ownership, Display, processVars, Leave
<1>. QED BY <1>1, <1>2, <1>3 DEF ManagerInv

(* A due restart answers or begins an attempt. *)
LEMMA RestartTimerFiresPreserves ==
  ASSUME ManagerInv, RestartTimerFires
  PROVE  ManagerInv'
<1>1. ManagerTypeOK' /\ phase' \in Phase
  <2>1. CASE stopping = "none" /\ MustAttempt
    BY <2>1 DEF ManagerInv, ManagerTypeOK, Phase, RestartTimerFires, Start,
       CallStart
  <2>2. CASE stopping = "none" /\ ~MustAttempt
    BY <2>2 DEF ManagerInv, ManagerTypeOK, RestartTimerFires, Start, CallStart
  <2>3. CASE stopping # "none"
    BY <2>3 DEF ManagerInv, ManagerTypeOK, processVars, RestartTimerFires, CallStart
  <2>. QED BY <2>1, <2>2, <2>3
<1>2. Ownership'
  BY DEF ManagerInv, Ownership, OneOwnedProcess, ConnectionIsLive, Quiet,
     processVars, RestartTimerFires, MustAttempt, Start, CallStart
<1>3. Display'
  BY DEF ManagerInv, ManagerTypeOK, Ownership, Display, ConnectionIsLive, Quiet,
     RestartTimerFires, MustAttempt, Start, CallStart
<1>. QED BY <1>1, <1>2, <1>3 DEF ManagerInv

(* A start that waited for a stop goes on. *)
LEMMA StartReleasedPreserves ==
  ASSUME ManagerInv, StartReleased
  PROVE  ManagerInv'
<1>1. ManagerTypeOK' /\ phase' \in Phase
  BY DEF ManagerInv, ManagerTypeOK, Ownership, Phase, restartVars, StartReleased,
     Start
<1>2. Ownership'
  BY DEF ManagerInv, Ownership, OneOwnedProcess, ConnectionIsLive, StartReleased,
     MustAttempt, Start
<1>3. Display'
  BY DEF ManagerInv, Ownership, Display, StartReleased, MustAttempt, Start
<1>. QED BY <1>1, <1>2, <1>3 DEF ManagerInv

(* An attempt ends before it has a process. *)
LEMMA PreparationFailsPreserves ==
  ASSUME ManagerInv, PreparationFails
  PROVE  ManagerInv'
<1>1. ManagerTypeOK' /\ phase' \in Phase
  BY DEF ManagerInv, ManagerTypeOK, Phase, processVars, restartVars,
     PreparationFails, attemptOnly
<1>2. Ownership'
  BY DEF ManagerInv, Ownership, OneOwnedProcess, ConnectionIsLive, processVars,
     PreparationFails, attemptOnly
<1>3. Display'
  <2>1. CASE AttemptActive
    BY <2>1 DEF ManagerInv, Display, PreparationFails, attemptOnly, AttemptActive
  <2>2. CASE ~AttemptActive
    BY <2>2 DEF ManagerInv, Ownership, Display, ConnectionIsLive, processVars,
       restartVars, PreparationFails, attemptOnly, AttemptActive
  <2>. QED BY <2>1, <2>2
<1>. QED BY <1>1, <1>2, <1>3 DEF ManagerInv

(* Only an active attempt spawns, and it has no process yet. *)
LEMMA SpawnPreserves ==
  ASSUME ManagerInv, NEW p \in Process, Spawn(p)
  PROVE  ManagerInv'
<1>1. ManagerTypeOK' /\ phase' \in Phase
  BY DEF ManagerInv, ManagerTypeOK, restartVars, Spawn, attemptOnly
<1>2. Ownership'
  BY ManagerAssumption DEF ManagerInv, ManagerTypeOK, Ownership, OneOwnedProcess,
     ConnectionIsLive, Spawn, attemptOnly, AttemptActive
<1>3. Display'
  BY DEF ManagerInv, Display, Spawn, attemptOnly, AttemptActive
<1>. QED BY <1>1, <1>2, <1>3 DEF ManagerInv

(* A child object without a process is not alive. *)
LEMMA SpawnFailsPreserves ==
  ASSUME ManagerInv, NEW p \in Process, SpawnFails(p)
  PROVE  ManagerInv'
<1>1. ManagerTypeOK' /\ phase' \in Phase
  BY DEF ManagerInv, ManagerTypeOK, Phase, restartVars, SpawnFails, attemptOnly
<1>2. Ownership'
  BY ManagerAssumption DEF ManagerInv, ManagerTypeOK, Ownership, OneOwnedProcess,
     ConnectionIsLive, SpawnFails, attemptOnly, AttemptActive
<1>3. Display'
  BY DEF ManagerInv, Display, SpawnFails, attemptOnly, AttemptActive
<1>. QED BY <1>1, <1>2, <1>3 DEF ManagerInv

(* A connection is that of the live child of an active attempt. *)
LEMMA VerifiedPreserves ==
  ASSUME ManagerInv, Verified
  PROVE  ManagerInv'
<1>1. ManagerTypeOK' /\ phase' \in Phase
  BY DEF ManagerInv, ManagerTypeOK, Phase, processVars, restartVars, Verified,
     attemptOnly
<1>2. Ownership'
  BY DEF ManagerInv, Ownership, OneOwnedProcess, ConnectionIsLive, processVars,
     Verified, attemptOnly, AttemptActive
<1>3. Display'
  BY ManagerAssumption DEF ManagerInv, ManagerTypeOK, Ownership, Display, Verified,
     attemptOnly, AttemptActive
<1>. QED BY <1>1, <1>2, <1>3 DEF ManagerInv

(* A failed attempt terminates its child if it lives. *)
LEMMA VerificationFailsPreserves ==
  ASSUME ManagerInv, VerificationFails
  PROVE  ManagerInv'
<1>1. ManagerTypeOK' /\ phase' \in Phase
  BY DEF ManagerInv, ManagerTypeOK, Ownership, processVars, restartVars,
     VerificationFails, BeginTermination, attemptOnly, AttemptActive
<1>2. Ownership'
  BY DEF ManagerInv, Ownership, OneOwnedProcess, ConnectionIsLive, processVars,
     VerificationFails, BeginTermination, attemptOnly
<1>3. Display'
  <2>1. CASE child \in alive
    BY <2>1 DEF ManagerInv, Ownership, Display, ConnectionIsLive, VerificationFails,
       attemptOnly
  <2>2. CASE child \notin alive /\ AttemptActive
    BY <2>2 DEF ManagerInv, Display, VerificationFails, attemptOnly, AttemptActive
  <2>3. CASE child \notin alive /\ ~AttemptActive
    BY <2>3 DEF ManagerInv, Ownership, Display, ConnectionIsLive, processVars,
       restartVars, VerificationFails, attemptOnly
  <2>. QED BY <2>1, <2>2, <2>3
<1>. QED BY <1>1, <1>2, <1>3 DEF ManagerInv

(* The end of a failed attempt. *)
LEMMA AttemptEndsPreserves ==
  ASSUME ManagerInv, AttemptEnds
  PROVE  ManagerInv'
<1>1. ManagerTypeOK' /\ phase' \in Phase
  BY DEF ManagerInv, ManagerTypeOK, Phase, processVars, restartVars, AttemptEnds,
     attemptOnly
<1>2. Ownership'
  BY DEF ManagerInv, Ownership, OneOwnedProcess, ConnectionIsLive, processVars,
     AttemptEnds, attemptOnly
<1>3. Display'
  <2>1. CASE AttemptActive
    BY <2>1 DEF ManagerInv, Display, AttemptEnds, attemptOnly, AttemptActive
  <2>2. CASE ~AttemptActive
    BY <2>2 DEF ManagerInv, Ownership, Display, processVars, restartVars,
       AttemptEnds, attemptOnly, AttemptActive
  <2>. QED BY <2>1, <2>2
<1>. QED BY <1>1, <1>2, <1>3 DEF ManagerInv

(* A stop goes on or fails after its termination. *)
LEMMA StopTerminatedPreserves ==
  ASSUME ManagerInv, StopTerminated
  PROVE  ManagerInv'
<1>1. ManagerTypeOK' /\ phase' \in Phase
  BY DEF ManagerInv, ManagerTypeOK, Ownership, Phase, processVars, restartVars,
     StopTerminated, StopFails, stopOnly
<1>2. Ownership'
  BY DEF ManagerInv, Ownership, OneOwnedProcess, ConnectionIsLive, processVars,
     StopTerminated, StopFails, stopOnly
<1>3. Display'
  BY DEF ManagerInv, Display, StopTerminated, StopFails, stopOnly
<1>. QED BY <1>1, <1>2, <1>3 DEF ManagerInv

(* A stop whose startup settled has nothing left. *)
LEMMA StopJoinedPreserves ==
  ASSUME ManagerInv, StopJoined
  PROVE  ManagerInv'
<1>1. ManagerTypeOK' /\ phase' \in Phase
  BY DEF ManagerInv, ManagerTypeOK, Ownership, Phase, processVars, restartVars,
     StopJoined, StopRound, StopSucceeds, BeginTermination, stopOnly
<1>2. Ownership'
  BY DEF ManagerInv, Ownership, OneOwnedProcess, ConnectionIsLive, processVars,
     StopJoined, StopRound, BeginTermination, stopOnly
<1>3. Display'
  BY DEF ManagerInv, Ownership, Display, OneOwnedProcess, processVars, StopJoined,
     StopRound, StopSucceeds, stopOnly
<1>. QED BY <1>1, <1>2, <1>3 DEF ManagerInv

(* The kill after a shutdown in vain. *)
LEMMA ShutdownTimeoutPreserves ==
  ASSUME ManagerInv, ShutdownTimeout
  PROVE  ManagerInv'
<1>1. ManagerTypeOK' /\ phase' \in Phase
  BY DEF ManagerInv, ManagerTypeOK, restartVars, ShutdownTimeout, stopOnly
<1>2. Ownership'
  BY DEF ManagerInv, Ownership, OneOwnedProcess, ConnectionIsLive, ShutdownTimeout,
     stopOnly
<1>3. Display'
  BY DEF ManagerInv, Ownership, Display, ConnectionIsLive, ShutdownTimeout, stopOnly
<1>. QED BY <1>1, <1>2, <1>3 DEF ManagerInv

(* The end of a termination in vain. *)
LEMMA KillTimeoutPreserves ==
  ASSUME ManagerInv, KillTimeout
  PROVE  ManagerInv'
<1>1. ManagerTypeOK' /\ phase' \in Phase
  BY DEF ManagerInv, ManagerTypeOK, restartVars, KillTimeout, stopOnly
<1>2. Ownership'
  BY DEF ManagerInv, ManagerTypeOK, Ownership, OneOwnedProcess, ConnectionIsLive,
     Quiet, KillTimeout, stopOnly
<1>3. Display'
  BY DEF ManagerInv, Ownership, Display, ConnectionIsLive, KillTimeout, stopOnly
<1>. QED BY <1>1, <1>2, <1>3 DEF ManagerInv

(* An exit, expected or not. *)
LEMMA ChildExitsPreserves ==
  ASSUME ManagerInv, NEW p \in Process, ChildExits(p)
  PROVE  ManagerInv'
<1>1. ManagerTypeOK' /\ phase' \in Phase
  <2>1. child' \in Process \cup {NoProcess} /\ credentials' \in Process \cup {NoProcess}
    BY DEF ManagerInv, ManagerTypeOK, ChildExits
  <2>2. restarts' \in 0 .. MaxAutomaticRestarts
    <3>1. \/ restarts' = restarts
          \/ restarts < MaxAutomaticRestarts /\ restarts' = restarts + 1
      BY ManagerAssumption DEF ManagerInv, ManagerTypeOK, ChildExits,
         ScheduleRestart, restartVars
    <3>. QED BY <3>1, ManagerAssumption DEF ManagerInv, ManagerTypeOK
  <2>3. /\ termination' \in {"none", "closed", "killed"} /\ phase' \in Phase
        /\ cancelled' \in BOOLEAN /\ restartTimer' \in BOOLEAN
    BY Zenon DEF ManagerInv, ManagerTypeOK, Phase, ChildExits, ScheduleRestart,
       restartVars
  <2>. QED BY <2>1, <2>2, <2>3 DEF ManagerInv, ManagerTypeOK, ChildExits
<1>2. Ownership'
  <2>1. CASE child # p \/ app = "gone"
    BY <2>1 DEF ManagerInv, Ownership, OneOwnedProcess, ConnectionIsLive, ChildExits
  <2>2. CASE child = p /\ app # "gone" /\ p \in expectedExits
    BY <2>2 DEF ManagerInv, ManagerTypeOK, Ownership, OneOwnedProcess,
       ConnectionIsLive, Quiet, ChildExits
  <2>3. CASE child = p /\ app # "gone" /\ shuttingDown
    BY <2>3 DEF ManagerInv, ManagerTypeOK, Ownership, OneOwnedProcess,
       ConnectionIsLive, Quiet, ChildExits
  <2>4. CASE child = p /\ app # "gone" /\ p \notin expectedExits /\ ~shuttingDown
    BY <2>4 DEF ManagerInv, Ownership, OneOwnedProcess, ConnectionIsLive, ChildExits
  <2>. QED BY <2>1, <2>2, <2>3, <2>4
<1>3. Display'
  <2>1. CASE child # p \/ app = "gone"
    BY <2>1 DEF ManagerInv, Ownership, Display, OneOwnedProcess, ChildExits
  <2>2. CASE child = p /\ app # "gone" /\ p \in expectedExits
    BY <2>2 DEF ManagerInv, Ownership, Display, ConnectionIsLive, ChildExits
  <2>3. CASE child = p /\ app # "gone" /\ shuttingDown
    BY <2>3 DEF ManagerInv, Ownership, Display, ConnectionIsLive, ChildExits
  <2>4. CASE child = p /\ app # "gone" /\ p \notin expectedExits /\ ~shuttingDown
    BY <2>4 DEF ManagerInv, Ownership, Display, OneOwnedProcess, ChildExits,
       ScheduleRestart
  <2>. QED BY <2>1, <2>2, <2>3, <2>4
<1>. QED BY <1>1, <1>2, <1>3 DEF ManagerInv

(* A health probe is sent. *)
LEMMA SendProbePreserves ==
  ASSUME ManagerInv, SendProbe
  PROVE  ManagerInv'
<1>1. ManagerTypeOK' /\ phase' \in Phase
  BY DEF ManagerInv, ManagerTypeOK, processVars, restartVars, SendProbe
<1>2. Ownership'
  BY DEF ManagerInv, Ownership, OneOwnedProcess, ConnectionIsLive, processVars,
     SendProbe
<1>3. Display'
  BY DEF ManagerInv, Ownership, Display, ConnectionIsLive, processVars, SendProbe
<1>. QED BY <1>1, <1>2, <1>3 DEF ManagerInv

(* A health probe answers; only its own connection is judged. *)
LEMMA ProbeAnswersPreserves ==
  ASSUME ManagerInv, NEW p \in Process, ProbeAnswers(p)
  PROVE  ManagerInv'
<1>1. ManagerTypeOK' /\ phase' \in Phase
  BY DEF ManagerInv, ManagerTypeOK, Phase, processVars, restartVars, ProbeAnswers
<1>2. Ownership'
  BY DEF ManagerInv, Ownership, OneOwnedProcess, ConnectionIsLive, processVars,
     ProbeAnswers
<1>3. Display'
  BY ManagerAssumption DEF ManagerInv, Ownership, Display, ConnectionIsLive,
     processVars, restartVars, ProbeAnswers
<1>. QED BY <1>1, <1>2, <1>3 DEF ManagerInv

(* A restart leaves the window. *)
LEMMA WindowSlidesPreserves ==
  ASSUME ManagerInv, WindowSlides
  PROVE  ManagerInv'
<1>1. ManagerTypeOK' /\ phase' \in Phase
  BY ManagerAssumption DEF ManagerInv, ManagerTypeOK, processVars, WindowSlides
<1>2. Ownership'
  BY DEF ManagerInv, Ownership, OneOwnedProcess, ConnectionIsLive, processVars,
     WindowSlides
<1>3. Display'
  BY DEF ManagerInv, Display, processVars, WindowSlides
<1>. QED BY <1>1, <1>2, <1>3 DEF ManagerInv

-----------------------------------------------------------------------------
(* The manager begins with nothing under way.                              *)
LEMMA ManagerInit ==
  Init => ManagerInv
<1>. SUFFICES ASSUME Init PROVE ManagerInv
  OBVIOUS
<1>1. ManagerTypeOK /\ phase \in Phase
  <2>1. restarts \in 0 .. MaxAutomaticRestarts
    BY ManagerAssumption DEF Init
  <2>2. launched \in BOOLEAN /\ cancelled \in BOOLEAN /\ startAfterStop \in BOOLEAN
        /\ shuttingDown \in BOOLEAN /\ restartTimer \in BOOLEAN
    BY DEF Init
  <2>. QED BY <2>1, <2>2 DEF Init, ManagerTypeOK, Phase
<1>2. Ownership
  BY ManagerAssumption DEF Init, Ownership, OneOwnedProcess, ConnectionIsLive
<1>3. Display
  BY DEF Init, Display
<1>. QED BY <1>1, <1>2, <1>3 DEF ManagerInv

(* Every step keeps the invariant.                                         *)
LEMMA ManagerNext ==
  ASSUME ManagerInv, [Next]_vars
  PROVE  ManagerInv'
<1>1. CASE Launch \/ Reconnect \/ Quit \/ Leave \/ RestartTimerFires \/ StartReleased
  BY <1>1, LaunchPreserves, ReconnectPreserves, QuitPreserves, LeavePreserves,
     RestartTimerFiresPreserves, StartReleasedPreserves
<1>2. CASE AttemptStep
  BY <1>2, PreparationFailsPreserves, VerifiedPreserves, VerificationFailsPreserves,
     AttemptEndsPreserves, SpawnPreserves, SpawnFailsPreserves DEF AttemptStep
<1>3. CASE StopStep
  BY <1>3, StopTerminatedPreserves, StopJoinedPreserves, ShutdownTimeoutPreserves,
     KillTimeoutPreserves DEF StopStep
<1>4. CASE \/ SendProbe \/ WindowSlides
           \/ \E p \in Process : ChildExits(p) \/ ProbeAnswers(p)
  BY <1>4, SendProbePreserves, WindowSlidesPreserves, ChildExitsPreserves,
     ProbeAnswersPreserves
<1>5. CASE UNCHANGED vars
  BY <1>5 DEF vars, processVars, restartVars, ManagerInv, ManagerTypeOK, Ownership, Display,
     Phase, OneOwnedProcess, ConnectionIsLive
<1>. QED BY <1>1, <1>2, <1>3, <1>4, <1>5 DEF Next

(* ManagerInv holds in every reachable state of the manager.               *)
THEOREM ManagerInvariance == Spec => []ManagerInv
<1>1. Init => ManagerInv
  BY ManagerInit
<1>2. ManagerInv /\ [Next]_vars => ManagerInv'
  BY ManagerNext
<1>. QED BY <1>1, <1>2, PTL DEF Spec

(* The manager's fields keep their values' ranges and the restart history  *)
(* its limit (scheduleAutomaticRestart).                                   *)
THEOREM ManagerTypeCorrect == Spec => []ManagerTypeOK
<1>1. ManagerInv => ManagerTypeOK
  BY DEF ManagerInv
<1>. QED BY <1>1, ManagerInvariance, PTL

(* At most one service process lives, and the manager owns it (start, stop, *)
(* terminateOwnedChild).                                                   *)
THEOREM SingleOwnedProcess == Spec => []OneOwnedProcess
<1>1. ManagerInv => OneOwnedProcess
  BY DEF ManagerInv, Ownership
<1>. QED BY <1>1, ManagerInvariance, PTL

(* Credentials are those of a verified, live process nobody is stopping     *)
(* (connection()).                                                         *)
THEOREM LiveConnection == Spec => []ConnectionIsLive
<1>1. ManagerInv => ConnectionIsLive
  BY DEF ManagerInv, Ownership
<1>. QED BY <1>1, ManagerInvariance, PTL

(* The two together: what lives is owned, and what is connected lives.      *)
THEOREM OwnershipAndConnection == Spec => []OwnedAndConnected
<1>1. OneOwnedProcess /\ ConnectionIsLive => OwnedAndConnected
  BY DEF OwnedAndConnected
<1>. QED BY <1>1, SingleOwnedProcess, LiveConnection, PTL

(* What the user is shown agrees with what is there (setSnapshot).          *)
THEOREM TruthfulPhase == Spec => []PhaseTruthful
<1>1. ManagerInv => PhaseTruthful
  BY DEF ManagerInv, Display, PhaseTruthful
<1>. QED BY <1>1, ManagerInvariance, PTL

(* A service that exited unexpectedly is due to be restarted, or the user   *)
(* is told that restarts are paused (handleChildExit).                     *)
THEOREM LostServiceIsRestarted == Spec => []LostServiceRestarts
<1>1. ManagerInv => LostServiceRestarts
  BY DEF ManagerInv, Display, LostServiceRestarts, Quiet
<1>. QED BY <1>1, ManagerInvariance, PTL

(* Once the user has quit no process is started (start, isAttemptActive).   *)
THEOREM NoLateSpawn == Spec => StaysDown
<1>1. ManagerInv /\ [Next]_vars => [app # "running" => alive' \subseteq alive]_vars
  <2>. SUFFICES ASSUME ManagerInv, Next, app # "running"
                PROVE  alive' \subseteq alive
    OBVIOUS
  <2>1. shuttingDown
    BY DEF ManagerInv, Ownership
  <2>2. CASE AttemptStep
    BY <2>1, <2>2 DEF AttemptStep, PreparationFails, Spawn, SpawnFails, Verified,
       VerificationFails, AttemptEnds, BeginTermination, AttemptActive, processVars
  <2>3. CASE StopStep
    BY <2>3 DEF StopStep, StopTerminated, StopJoined, StopRound, ShutdownTimeout,
       KillTimeout, BeginTermination, processVars
  <2>4. CASE Launch \/ Reconnect \/ Quit \/ Leave \/ RestartTimerFires \/ StartReleased
    BY <2>4 DEF Launch, Reconnect, Quit, Leave, RestartTimerFires, StartReleased,
       CallStart, Start, CallStop, StopRound, BeginTermination, processVars
  <2>5. CASE \/ SendProbe \/ WindowSlides
             \/ \E p \in Process : ChildExits(p) \/ ProbeAnswers(p)
    BY <2>5 DEF SendProbe, WindowSlides, ChildExits, ProbeAnswers, processVars
  <2>. QED BY <2>2, <2>3, <2>4, <2>5 DEF Next
<1>. QED BY <1>1, ManagerInvariance, PTL DEF Spec, StaysDown
=============================================================================
