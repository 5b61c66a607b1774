------------------------- MODULE OwnedProcessesProofs -------------------------
(***************************************************************************)
(* Proofs about OwnedProcesses: parser calls, speech workers and the end   *)
(* of the service, for any set of runtime identities, any limit of owned   *)
(* runtimes, and whether transactions fail or not.                         *)
(***************************************************************************)
EXTENDS OwnedProcesses, TLAPS

-----------------------------------------------------------------------------
(* The parser.  While a call goes on it has recorded no success.           *)

ParserInv ==
  /\ NoParserOrphan /\ ResultIsVouched
  /\ pstep # "idle" => evidence.reason # "succeeded"

LEMMA TerminateEnds ==
  ASSUME NEW reason, NEW out, reason # "succeeded", out # "result", Terminate(reason, out)
  PROVE  ParserInv' /\ pstep' = "idle"
BY DEF Terminate, Finish, Record, ParserInv, NoParserOrphan, ResultIsVouched

LEMMA StoppedEnds == Stopped => ParserInv' /\ pstep' = "idle"
<1>. SUFFICES ASSUME Stopped PROVE ParserInv' /\ pstep' = "idle"
  OBVIOUS
<1>1. CASE StopReason = "cancel"
  BY <1>1, TerminateEnds DEF Stopped
<1>2. CASE StopReason # "cancel"
  BY <1>2, TerminateEnds DEF Stopped
<1>. QED BY <1>1, <1>2

LEMMA BeginStep == ParserInv /\ (Begin \/ BeginFails) => ParserInv'
BY DEF ParserInv, NoParserOrphan, ResultIsVouched, Begin, BeginFails, Record, Finish, NoEvidence

LEMMA RunStepKeeps == ParserInv /\ RunStep => ParserInv' /\ pstep # "idle"
<1>. SUFFICES ASSUME ParserInv, RunStep PROVE ParserInv' /\ pstep # "idle"
  OBVIOUS
<1> USE DEF ParserInv, NoParserOrphan, ResultIsVouched
<1>1. CASE HandshakeStopped \/ ReadingStopped \/ JoinStopped
  BY <1>1, StoppedEnds DEF HandshakeStopped, ReadingStopped, JoinStopped
<1>2. CASE Handshake \/ PollTimesOut \/ JoinTarget
  BY <1>2 DEF Handshake, PollTimesOut, JoinTarget
<1>3. CASE HandshakeFails \/ ReadFails
  BY <1>3, TerminateEnds DEF HandshakeFails, ReadFails
<1>4. CASE Read
  BY <1>4, StoppedEnds DEF Read
<1>5. CASE LookAlive
  <2>1. CASE "launcher" \notin tree /\ tree # {}
    BY <1>5, <2>1, TerminateEnds DEF LookAlive
  <2>2. CASE "launcher" \in tree \/ tree = {}
    BY <1>5, <2>2 DEF LookAlive, Record, Finish
  <2>. QED BY <2>1, <2>2
<1>6. CASE CallbackFails
  <2>1. CASE "launcher" \in tree
    BY <1>6, <2>1, TerminateEnds DEF CallbackFails
  <2>2. CASE "launcher" \notin tree
    BY <1>6, <2>2 DEF CallbackFails, Finish
  <2>. QED BY <2>1, <2>2
<1>7. CASE Reap
  BY <1>7 DEF Reap, Record, Finish
<1>. QED BY <1>1, <1>2, <1>3, <1>4, <1>5, <1>6, <1>7 DEF RunStep

LEMMA ParserEnvKeeps == ParserInv /\ ParserEnv => ParserInv' /\ UNCHANGED pstep
BY DEF ParserInv, NoParserOrphan, ResultIsVouched, ParserEnv, Boot, ExitTarget, ExitLauncher,
       SurvivorsEnd, Send, StopCall

-----------------------------------------------------------------------------
(* The speech workers.                                                     *)

Evidence == {"none", "graceful", "forced", "unconfirmed"}

SpeechTypes ==
  /\ proc \in [Inst -> {"none", "gone"} \cup Handle]
  /\ lastExit \in [Inst -> Evidence]
  /\ row \in [Inst -> {"none", "stopped", "failed"} \cup LiveRow]
  /\ cached \in Inst \cup {None} /\ cur \in Inst \cup {None}
  /\ quarantine \subseteq Inst /\ owned \subseteq Inst
  /\ pending \subseteq Inst \cup {"quarantined"}
  /\ gen \notin {"none", "reap", "acquire"} => cur \in Inst

(* A process, a row or an owned runtime of which an end was not recorded   *)
(* is held by the service.                                                 *)
Open(i) == proc[i] \in Handle \/ row[i] \in LiveRow \/ i \in owned \ records

(* What is confirmed to have exited is gone; a row is there before it is   *)
(* cached, and a runtime in quarantine without being bound never had one.  *)
InstanceOK(i) ==
  /\ Open(i) => i = cached \/ i \in quarantine
  /\ Confirms(lastExit[i]) => proc[i] = "gone"
  /\ proc[i] = "none" => row[i] = "none" /\ i \notin quarantine \cup pending
  /\ i = cached \/ i = cur => row[i] # "none"
  /\ i \in quarantine \ bound => row[i] = "none"

SpeechInv ==
  /\ SpeechTypes
  /\ \A i \in Inst : InstanceOK(i)
  /\ gen = "speaking" => proc[cur] \in {"live", "crashed"}

(* One step of ExitIsFinal.                                                *)
FinalStep ==
  \A i \in Inst : row[i] \in {"stopped", "failed"} => row'[i] \in {"stopped", "failed"}

LEMMA InitSpeech == SpeechInit => SpeechInv
BY SpeechAssumption
   DEF SpeechInit, SpeechInv, SpeechTypes, InstanceOK, Open, Evidence, Confirms, Handle, LiveRow

(* What stopping a process that was there leaves of it.                    *)
LEMMA StopOutcome ==
  ASSUME SpeechInv, NEW i \in Inst, proc[i] # "none", NEW result \in StopResult(i)
  PROVE  /\ result[1] \in {"gone", "resisting"} /\ result[2] \in Evidence
         /\ Confirms(result[2]) => result[1] = "gone"
         /\ result[1] = "resisting" => proc[i] \in Handle
<1>1. proc[i] \in {"gone"} \cup Handle /\ lastExit[i] \in Evidence
  BY DEF SpeechInv, SpeechTypes
<1>2. CASE proc[i] = "gone"
  BY <1>1, <1>2 DEF StopResult
<1>3. CASE proc[i] \in Handle
  <2>1. result \in {<<"gone", "forced">>, <<"resisting", "unconfirmed">>, <<"gone", "graceful">>}
    BY <1>3 DEF StopResult, Terminated, Handle
  <2>. QED BY <1>3, <2>1 DEF Evidence, Confirms
<1>. QED BY <1>1, <1>2, <1>3

LEMMA TerminatedOutcome ==
  ASSUME NEW result \in Terminated \cup {<<"gone", "graceful">>}
  PROVE  /\ result[1] \in {"gone", "resisting"} /\ result[2] \in Evidence \ {"none"}
         /\ Confirms(result[2]) <=> result[1] = "gone"
BY DEF Terminated, Evidence, Confirms

(* A process that was stopped is accounted for.                            *)
LEMMA StoppedAndBound ==
  ASSUME SpeechInv, NEW i \in Inst, proc[i] # "none",
         NEW result, SetProcess(i, result), AccountBound(i, result[2]),
         result[1] \in {"gone"} \cup Handle, result[2] \in Evidence,
         Confirms(result[2]) => result[1] = "gone",
         pending' \subseteq pending, cur' \in {cur, None},
         gen' \in {"none", "reap", "acquire"} \/ cur' \in Inst,
         gen' = "speaking" => proc'[cur'] \in {"live", "crashed"}
  PROVE  SpeechInv' /\ FinalStep
<1>1. UNCHANGED owned /\ records \subseteq records'
  BY DEF AccountBound, Quarantine
<1>2. /\ proc' = [proc EXCEPT ![i] = result[1]]
      /\ lastExit' = [lastExit EXCEPT ![i] = result[2]]
  BY DEF SetProcess
<1>3. \/ /\ row' = [row EXCEPT ![i] = ExitState(result[2], ~Confirms(result[2]))]
         /\ records' = records \cup {i}
         /\ IF Confirms(result[2])
            THEN quarantine' = quarantine \ {i} /\ bound' = bound \ {i}
            ELSE quarantine' = quarantine \cup {i} /\ bound' = bound \cup {i}
      \/ /\ quarantine' = quarantine \cup {i} /\ bound' = bound \cup {i} /\ UNCHANGED row
  BY DEF AccountBound, Quarantine
<1>4. cached' = IF cached = i THEN None ELSE cached
  BY DEF AccountBound, Quarantine
<1>5. ExitState(result[2], ~Confirms(result[2])) \in {"stopped", "failed"}
  BY DEF ExitState
<1>6. SpeechTypes'
  BY <1>1, <1>2, <1>3, <1>4, <1>5 DEF SpeechInv, SpeechTypes
<1>7. ASSUME NEW j \in Inst PROVE InstanceOK(j)'
  <2>1. CASE j = i
    BY <1>1, <1>2, <1>3, <1>4, <1>5, <2>1, SpeechAssumption
       DEF SpeechInv, SpeechTypes, InstanceOK, Open, Handle, LiveRow
  <2>2. CASE j # i
    BY <1>1, <1>2, <1>3, <1>4, <2>2, SpeechAssumption
       DEF SpeechInv, SpeechTypes, InstanceOK, Open
  <2>. QED BY <2>1, <2>2
<1>8. FinalStep
  BY <1>3, <1>5 DEF FinalStep, SpeechInv, SpeechTypes
<1>. QED BY <1>6, <1>7, <1>8 DEF SpeechInv

(* A step that leaves processes, rows and what is held as they were.       *)
LEMMA GenerationMoves ==
  ASSUME SpeechInv, UNCHANGED <<instVars, row, holdVars>>,
         pending' \subseteq Inst \cup {"quarantined"},
         \A i \in pending' \cap Inst : proc[i] # "none",
         cur' \in {cur, None}, gen' \in {"none", "reap", "acquire"} \/ cur' \in Inst,
         gen' = "speaking" => proc[cur'] \in {"live", "crashed"}
  PROVE  SpeechInv' /\ FinalStep
<1>1. SpeechTypes'
  BY DEF SpeechInv, SpeechTypes, instVars, holdVars
<1>2. ASSUME NEW i \in Inst PROVE InstanceOK(i)'
  BY SpeechAssumption DEF SpeechInv, InstanceOK, Open, instVars, holdVars
<1>. QED BY <1>1, <1>2 DEF SpeechInv, FinalStep, instVars

(* A step that writes one row of a runtime that is held, or closes it.     *)
LEMMA RowMoves ==
  ASSUME SpeechInv, NEW i \in Inst, NEW r \in {"failed"} \cup LiveRow,
         row' = [row EXCEPT ![i] = r],
         row[i] \notin {"none", "stopped", "failed"} \/ (row[i] = "failed" /\ r = "failed"),
         UNCHANGED <<instVars, holdVars, pending>>,
         cur' \in {i, cur, None}, gen' \in {"none", "reap", "acquire"} \/ cur' \in Inst,
         gen' # "speaking"
  PROVE  SpeechInv' /\ FinalStep
<1>0. row[i] \in LiveRow \/ (row[i] = "failed" /\ r = "failed")
  BY DEF SpeechInv, SpeechTypes
<1>1. SpeechTypes'
  BY DEF SpeechInv, SpeechTypes, instVars, holdVars
<1>2. ASSUME NEW j \in Inst PROVE InstanceOK(j)'
  BY <1>0, SpeechAssumption DEF SpeechInv, SpeechTypes, InstanceOK, Open, instVars, holdVars, LiveRow
<1>3. FinalStep
  BY <1>0 DEF FinalStep, SpeechInv, SpeechTypes, LiveRow
<1>. QED BY <1>1, <1>2, <1>3 DEF SpeechInv

(* A step that changes the process of a runtime that is held.              *)
LEMMA ProcessMoves ==
  ASSUME SpeechInv, NEW i \in Inst, proc[i] # "none", NEW p \in {"gone"} \cup Handle, NEW e \in Evidence,
         proc' = [proc EXCEPT ![i] = p], lastExit' = [lastExit EXCEPT ![i] = e],
         p \in Handle => proc[i] \in Handle,
         Confirms(e) => p = "gone",
         UNCHANGED <<row, holdVars, cur, pending>>,
         gen' = gen \/ (gen' = "failing" /\ cur \in Inst),
         gen' = "speaking" => i # cur \/ p \in {"live", "crashed"}
  PROVE  SpeechInv' /\ FinalStep
<1>1. SpeechTypes'
  BY DEF SpeechInv, SpeechTypes, holdVars
<1>2. ASSUME NEW j \in Inst PROVE InstanceOK(j)'
  BY DEF SpeechInv, SpeechTypes, InstanceOK, Open, holdVars, Handle
<1>3. gen' = "speaking" => proc'[cur'] \in {"live", "crashed"}
  BY DEF SpeechInv, SpeechTypes
<1>. QED BY <1>1, <1>2, <1>3 DEF SpeechInv, FinalStep

LEMMA QuietSteps ==
  SpeechInv /\ (\/ Request \/ NothingToReap \/ AcquireRefused \/ StageFails \/ Dispatch \/ Speak
                \/ Validate \/ PublishStopped \/ HandlerFails \/ CancelGeneration
                \/ SealRuntimes \/ BeginStop \/ TakeQuarantined)
  => SpeechInv' /\ FinalStep
<1>. SUFFICES ASSUME SpeechInv,
                     \/ Request \/ NothingToReap \/ AcquireRefused \/ StageFails \/ Dispatch \/ Speak
                     \/ Validate \/ PublishStopped \/ HandlerFails \/ CancelGeneration
                     \/ SealRuntimes \/ BeginStop \/ TakeQuarantined
              PROVE  SpeechInv' /\ FinalStep
  OBVIOUS
<1>1. UNCHANGED <<instVars, row, holdVars>>
  BY DEF Request, NothingToReap, AcquireRefused, StageFails, Dispatch, Speak, Validate,
         PublishStopped, HandlerFails, CancelGeneration, SealRuntimes, BeginStop, TakeQuarantined
<1>2. \A i \in Inst : i \in pending \cup quarantine \/ i = cached => proc[i] # "none"
  BY DEF SpeechInv, InstanceOK
<1>3. \/ UNCHANGED pending
      \/ pending' = {cached, "quarantined"} \ {None}
      \/ pending' = quarantine
  BY DEF Request, NothingToReap, AcquireRefused, StageFails, Dispatch, Speak, Validate,
         PublishStopped, HandlerFails, CancelGeneration, SealRuntimes, BeginStop, TakeQuarantined,
         shutVars
<1>4. pending' \subseteq Inst \cup {"quarantined"} /\ \A i \in pending' \cap Inst : proc[i] # "none"
  BY <1>2, <1>3, SpeechAssumption DEF SpeechInv, SpeechTypes
<1>5. /\ cur' \in {cur, None} /\ (gen' \in {"none", "reap", "acquire"} \/ cur' \in Inst)
      /\ gen' = "speaking" => proc[cur'] \in {"live", "crashed"}
  BY DEF Request, NothingToReap, AcquireRefused, StageFails, Dispatch, Speak, Validate,
         PublishStopped, HandlerFails, CancelGeneration, SealRuntimes, BeginStop, TakeQuarantined,
         Return, genVars, SpeechInv, SpeechTypes, Usable
<1>. QED BY <1>1, <1>4, <1>5, GenerationMoves

(* Acquisition.                                                            *)
LEMMA AcquireSteps ==
  SpeechInv /\ (ReapIdle \/ AcquirePoisoned \/ AcquireCached \/ AcquireExited)
  => SpeechInv' /\ FinalStep
<1>. SUFFICES ASSUME SpeechInv, ReapIdle \/ AcquirePoisoned \/ AcquireCached \/ AcquireExited
              PROVE  SpeechInv' /\ FinalStep
  OBVIOUS
<1>1. cached # None
  BY DEF ReapIdle, AcquirePoisoned, AcquireCached, AcquireExited
<1>2. /\ cached \in Inst /\ proc[cached] # "none" /\ row[cached] # "none"
      /\ proc[cached] \in {"gone"} \cup Handle /\ lastExit[cached] \in Evidence
      /\ Confirms(lastExit[cached]) => proc[cached] = "gone"
  BY <1>1 DEF SpeechInv, SpeechTypes, InstanceOK
<1>3. CASE ReapIdle
  <2>1. PICK result \in StopResult(cached) :
          /\ SetProcess(cached, result) /\ AccountBound(cached, result[2])
          /\ gen' \in {"acquire", "none"} /\ cur' \in {cur, None} /\ UNCHANGED shutVars
    BY <1>3 DEF ReapIdle, Return
  <2>. QED BY <1>2, <2>1, StopOutcome, StoppedAndBound DEF shutVars, Handle
<1>4. CASE AcquirePoisoned
  <2> DEFINE result == <<proc[cached], lastExit[cached]>>
  <2>1. /\ SetProcess(cached, result) /\ AccountBound(cached, result[2])
        /\ gen' = "none" /\ cur' = None /\ UNCHANGED shutVars
    BY <1>4 DEF AcquirePoisoned, Return, SetProcess, instVars, SpeechInv, SpeechTypes
  <2>2. result[1] = proc[cached] /\ result[2] = lastExit[cached]
    OBVIOUS
  <2>. HIDE DEF result
  <2>. QED BY <1>2, <2>1, <2>2, StoppedAndBound DEF shutVars
<1>5. CASE AcquireCached
  <2>1. CASE Return /\ UNCHANGED row
    <3>1. pending \subseteq Inst \cup {"quarantined"} /\ \A i \in pending \cap Inst : proc[i] # "none"
      BY DEF SpeechInv, SpeechTypes, InstanceOK
    <3>. QED BY <1>5, <2>1, <3>1, GenerationMoves DEF AcquireCached, Return, shutVars
  <2>2. CASE row' = [row EXCEPT ![cached] = "ready"] /\ gen' = "acquired" /\ cur' = cached
    BY <1>5, <2>2, <1>2, RowMoves DEF AcquireCached, shutVars, LiveRow
  <2>. QED BY <1>5, <2>1, <2>2 DEF AcquireCached
<1>6. CASE AcquireExited
  <2>1. PICK result \in StopResult(cached) :
          /\ SetProcess(cached, result)
          /\ \/ /\ Confirms(result[2])
                /\ row' = [row EXCEPT ![cached] = ExitState(result[2], FALSE)]
                /\ records' = records \cup {cached}
                /\ cached' = None
             \/ UNCHANGED <<row, records, cached>>
    BY <1>6 DEF AcquireExited
  <2>2. /\ result[1] \in {"gone", "resisting"} /\ result[2] \in Evidence
        /\ Confirms(result[2]) => result[1] = "gone"
    BY <1>2, StopOutcome
  <2>3. gen' = "none" /\ cur' = None /\ UNCHANGED <<quarantine, bound, owned, pending>>
    BY <1>6 DEF AcquireExited, Return, shutVars
  <2>4. ExitState(result[2], FALSE) \in {"stopped", "failed"}
    BY DEF ExitState
  <2>5. SpeechTypes'
    BY <2>1, <2>2, <2>3, <2>4, <1>2 DEF SpeechInv, SpeechTypes, SetProcess, Handle
  <2>6. ASSUME NEW j \in Inst PROVE InstanceOK(j)'
    <3>1. CASE /\ Confirms(result[2])
               /\ row' = [row EXCEPT ![cached] = ExitState(result[2], FALSE)]
               /\ records' = records \cup {cached}
               /\ cached' = None
      <4>1. result[1] = "gone" /\ cur' # j /\ cached' # j
        BY <3>1, <2>2, <2>3, SpeechAssumption
      <4>2. CASE j = cached
        BY <4>1, <4>2, <3>1, <2>1, <2>3, <2>4, <1>2
           DEF SpeechInv, SpeechTypes, InstanceOK, Open, SetProcess, Handle, LiveRow
      <4>3. CASE j # cached
        BY <4>1, <4>3, <3>1, <2>1, <2>3 DEF SpeechInv, SpeechTypes, InstanceOK, Open, SetProcess
      <4>. QED BY <4>2, <4>3
    <3>2. CASE UNCHANGED <<row, records, cached>>
      BY <3>2, <2>1, <2>2, <2>3, <1>2, SpeechAssumption
         DEF SpeechInv, SpeechTypes, InstanceOK, Open, SetProcess, Handle, LiveRow
    <3>. QED BY <2>1, <3>1, <3>2
  <2>7. FinalStep
    BY <2>1, <2>4, <1>2 DEF FinalStep, SpeechInv, SpeechTypes
  <2>. QED BY <2>3, <2>5, <2>6, <2>7 DEF SpeechInv
<1>. QED BY <1>3, <1>4, <1>5, <1>6

LEMMA StartSteps ==
  ASSUME SpeechInv, NEW i \in Inst, StartNew(i) \/ StartFails(i)
  PROVE  SpeechInv' /\ FinalStep
<1>1. proc[i] = "none" /\ cached = None /\ row[i] = "none" /\ i \notin quarantine \cup pending
  BY DEF StartNew, StartFails, CanStart, SpeechInv, InstanceOK
<1>2. CASE StartNew(i)
  <2>1. SpeechTypes' /\ gen' = "acquired"
    BY <1>2 DEF StartNew, shutVars, SpeechInv, SpeechTypes, Handle, LiveRow
  <2>2. ASSUME NEW j \in Inst PROVE InstanceOK(j)'
    BY <1>1, <1>2, SpeechAssumption
       DEF StartNew, shutVars, SpeechInv, SpeechTypes, InstanceOK, Open, Handle, LiveRow
  <2>3. FinalStep
    BY <1>1, <1>2 DEF StartNew, FinalStep, SpeechInv, SpeechTypes
  <2>. QED BY <2>1, <2>2, <2>3 DEF SpeechInv
<1>3. CASE StartFails(i)
  <2>1. PICK result \in Terminated \cup {<<"gone", "graceful">>} :
          SetProcess(i, result) /\ AccountUnbound(i, result[2])
    BY <1>3 DEF StartFails
  <2>2. /\ result[1] \in {"gone", "resisting"} /\ result[2] \in Evidence \ {"none"}
        /\ Confirms(result[2]) <=> result[1] = "gone"
    BY TerminatedOutcome
  <2>3. gen' = "none" /\ cur' = None /\ UNCHANGED <<row, cached, bound, pending>>
    BY <1>3, <2>1 DEF StartFails, AccountUnbound, Return, shutVars
  <2>4. SpeechTypes'
    BY <2>1, <2>2, <2>3 DEF SpeechInv, SpeechTypes, SetProcess, AccountUnbound, Handle
  <2>5. ASSUME NEW j \in Inst PROVE InstanceOK(j)'
    BY <1>1, <2>1, <2>2, <2>3, SpeechAssumption
       DEF SpeechInv, SpeechTypes, InstanceOK, Open, SetProcess, AccountUnbound, Handle, LiveRow
  <2>. QED BY <2>3, <2>4, <2>5 DEF SpeechInv, FinalStep
<1>. QED BY <1>2, <1>3

(* The generation.                                                         *)
LEMMA GenerationSteps ==
  SpeechInv /\ (MarkBusy \/ DispatchExited \/ SpeakFails \/ Publish \/ HandleRow \/ HandleExit)
  => SpeechInv' /\ FinalStep
<1>. SUFFICES ASSUME SpeechInv,
                     MarkBusy \/ DispatchExited \/ SpeakFails \/ Publish \/ HandleRow \/ HandleExit
              PROVE  SpeechInv' /\ FinalStep
  OBVIOUS
<1>1. gen \notin {"none", "reap", "acquire"}
  BY DEF MarkBusy, DispatchExited, SpeakFails, Publish, HandleRow, HandleExit
<1>2. /\ cur \in Inst /\ proc[cur] # "none" /\ row[cur] # "none"
      /\ proc[cur] \in {"gone"} \cup Handle /\ lastExit[cur] \in Evidence
      /\ Confirms(lastExit[cur]) => proc[cur] = "gone"
  BY <1>1 DEF SpeechInv, SpeechTypes, InstanceOK
<1>3. pending \subseteq Inst \cup {"quarantined"} /\ \A i \in pending \cap Inst : proc[i] # "none"
  BY DEF SpeechInv, SpeechTypes, InstanceOK
<1>4. CASE MarkBusy \/ Publish \/ HandleRow
  <2>1. /\ UNCHANGED <<instVars, holdVars, pending>>
        /\ cur' \in {cur, None} /\ gen' # "speaking" /\ (gen' = "none" \/ cur' = cur)
    BY <1>4 DEF MarkBusy, Publish, HandleRow, Return, shutVars
  <2>2. CASE UNCHANGED row
    BY <1>2, <1>3, <2>1, <2>2, GenerationMoves
  <2>3. CASE row[cur] \notin {"stopped", "failed"}
             /\ \E r \in {"failed"} \cup LiveRow : row' = [row EXCEPT ![cur] = r]
    BY <1>2, <2>1, <2>3, RowMoves
  <2>4. UNCHANGED row \/ (row[cur] \notin {"stopped", "failed"}
                          /\ \E r \in {"failed"} \cup LiveRow : row' = [row EXCEPT ![cur] = r])
    BY <1>4 DEF MarkBusy, Publish, HandleRow, LiveRow
  <2>. QED BY <2>2, <2>3, <2>4
<1>5. CASE HandleExit
  <2>1. PICK result \in (IF lastExit[cur] = "none" THEN StopResult(cur)
                         ELSE {<<proc[cur], lastExit[cur]>>}) :
          SetProcess(cur, result) /\ AccountBound(cur, result[2])
    BY <1>5 DEF HandleExit
  <2>2. /\ result[1] \in {"gone"} \cup Handle /\ result[2] \in Evidence
        /\ Confirms(result[2]) => result[1] = "gone"
    BY <1>2, <2>1, StopOutcome DEF Handle
  <2>3. gen' = "none" /\ cur' = None /\ UNCHANGED pending
    BY <1>5 DEF HandleExit, Return, shutVars
  <2>. QED BY <1>2, <2>1, <2>2, <2>3, StoppedAndBound
<1>6. CASE DispatchExited \/ SpeakFails
  <2>1. proc[cur] \in Handle
    BY <1>6 DEF DispatchExited, SpeakFails, SpeechInv, Handle
  <2>2. PICK result : /\ SetProcess(cur, result)
                      /\ result[1] \in {"gone", "resisting"} /\ result[2] \in Evidence
                      /\ Confirms(result[2]) => result[1] = "gone"
    BY <1>2, <1>6, StopOutcome, TerminatedOutcome DEF DispatchExited, SpeakFails
  <2>3. gen' = "failing" /\ UNCHANGED <<cur, row, holdVars, pending>>
    BY <1>6 DEF DispatchExited, SpeakFails, shutVars
  <2>. QED BY <1>2, <2>1, <2>2, <2>3, ProcessMoves DEF SetProcess, Handle
<1>. QED BY <1>4, <1>5, <1>6

(* Shutdown.                                                               *)
LEMMA ShutdownSteps ==
  ASSUME SpeechInv, NEW i \in Inst, StopOne(i) \/ AccountOne(i)
  PROVE  SpeechInv' /\ FinalStep
<1>1. proc[i] # "none" /\ lastExit[i] \in Evidence
  BY DEF SpeechInv, SpeechTypes, InstanceOK, StopOne, AccountOne
<1>2. CASE StopOne(i)
  <2>1. PICK result \in StopResult(i) : SetProcess(i, result)
    BY <1>2 DEF StopOne
  <2>. QED BY <1>1, <1>2, <2>1, StopOutcome, ProcessMoves DEF StopOne, SetProcess, genVars, Handle
<1>3. CASE AccountOne(i) /\ i \in quarantine \ bound
  <2>1. AccountUnbound(i, lastExit[i]) /\ pending' = pending \ {i} /\ UNCHANGED <<instVars, genVars>>
    BY <1>3 DEF AccountOne
  <2>2. row[i] = "none" /\ (Confirms(lastExit[i]) => proc[i] = "gone")
    BY <1>3 DEF SpeechInv, InstanceOK
  <2>3. SpeechTypes'
    BY <2>1 DEF SpeechInv, SpeechTypes, AccountUnbound, instVars, genVars
  <2>4. ASSUME NEW j \in Inst PROVE InstanceOK(j)'
    BY <1>1, <1>3, <2>1, <2>2
       DEF SpeechInv, SpeechTypes, InstanceOK, Open, AccountUnbound, instVars, genVars, Confirms,
           Handle, LiveRow
  <2>. QED BY <2>1, <2>3, <2>4 DEF SpeechInv, FinalStep, AccountUnbound, instVars, genVars
<1>4. CASE AccountOne(i) /\ i \notin quarantine \ bound
  <2>1. AccountBound(i, lastExit[i]) /\ pending' = pending \ {i} /\ UNCHANGED <<instVars, genVars>>
    BY <1>4 DEF AccountOne
  <2> DEFINE result == <<proc[i], lastExit[i]>>
  <2>2. result[1] = proc[i] /\ result[2] = lastExit[i]
    OBVIOUS
  <2>3. SetProcess(i, result) /\ proc[i] \in {"gone"} \cup Handle
        /\ (Confirms(lastExit[i]) => proc[i] = "gone")
    BY <1>1, <2>1 DEF SetProcess, instVars, SpeechInv, SpeechTypes, InstanceOK
  <2>4. /\ cur' = cur /\ (gen' \in {"none", "reap", "acquire"} \/ cur' \in Inst)
        /\ gen' = "speaking" => proc'[cur'] \in {"live", "crashed"}
    BY <2>1 DEF instVars, genVars, SpeechInv, SpeechTypes
  <2>. HIDE DEF result
  <2>. QED BY <1>1, <2>1, <2>2, <2>3, <2>4, StoppedAndBound
<1>. QED BY <1>2, <1>3, <1>4 DEF StopOne, AccountOne

LEMMA ProcessEnds ==
  ASSUME SpeechInv, NEW i \in Inst, Crash(i) \/ IdleOut(i)
  PROVE  SpeechInv' /\ FinalStep
<1>1. /\ proc[i] = "live" /\ lastExit[i] \in Evidence
      /\ lastExit' = [lastExit EXCEPT ![i] = lastExit[i]]
      /\ ~Confirms(lastExit[i])
  BY DEF Crash, IdleOut, SpeechInv, SpeechTypes, InstanceOK
<1>2. PICK p \in {"crashed", "idled"} :
        /\ proc' = [proc EXCEPT ![i] = p]
        /\ p = "idled" => ~(gen = "speaking" /\ cur = i)
  BY DEF Crash, IdleOut
<1>3. UNCHANGED <<row, holdVars, cur, pending, gen>>
  BY DEF Crash, IdleOut, genVars, shutVars
<1>. QED BY <1>1, <1>2, <1>3, ProcessMoves DEF Handle

LEMMA RestartSpeech == SpeechInv /\ RestartRuntimes => SpeechInv' /\ FinalStep
<1>. SUFFICES ASSUME SpeechInv, RestartRuntimes PROVE SpeechInv' /\ FinalStep
  OBVIOUS
<1>1. SpeechTypes'
  BY DEF RestartRuntimes, Return, SpeechInv, SpeechTypes, Evidence, LiveRow
<1>2. ASSUME NEW i \in Inst PROVE InstanceOK(i)'
  BY SpeechAssumption
     DEF RestartRuntimes, Return, SpeechInv, SpeechTypes, InstanceOK, Open, Confirms, Handle, LiveRow
<1>3. FinalStep
  BY DEF RestartRuntimes, FinalStep, LiveRow
<1>. QED BY <1>1, <1>2, <1>3 DEF SpeechInv, RestartRuntimes, Return

LEMMA GenerationKeeps == SpeechInv /\ GenerationStep => SpeechInv' /\ FinalStep
BY QuietSteps, AcquireSteps, StartSteps, GenerationSteps DEF GenerationStep

LEMMA ShutdownKeeps == SpeechInv /\ ShutdownStep => SpeechInv' /\ FinalStep
BY QuietSteps, ShutdownSteps DEF ShutdownStep

LEMMA SpeechEnvKeeps == SpeechInv /\ SpeechEnv => SpeechInv' /\ FinalStep
BY QuietSteps, ProcessEnds DEF SpeechEnv

LEMMA SpeechStutters == SpeechInv /\ UNCHANGED speechVars => SpeechInv' /\ FinalStep
BY DEF speechVars, SpeechInv, SpeechTypes, InstanceOK, Open, FinalStep

-----------------------------------------------------------------------------
(* The lifespan.  Once the thread has ended after worker.stop(), it stays  *)
(* ended, and a shutdown of the runtimes that is complete leaves none.     *)

Kept == cached # None => cached \in pending
Listed == incomplete \/ "quarantined" \in pending \/ quarantine \subseteq pending

LifeInv ==
  /\ life \in {"up", "sealed", "draining", "stopping", "again", "closed", "error"}
  /\ quiesced => ThreadIdle /\ life \in {"stopping", "again", "closed", "error"}
  /\ life = "again" => quiesced
  /\ quiesced /\ life \in {"stopping", "again"} => Kept /\ Listed
  /\ life = "closed" => ThreadIdle /\ RuntimesStopped /\ cached = None /\ quarantine = {}

OwnedInv == ParserInv /\ SpeechInv /\ LifeInv

LEMMA InvariantSuffices == OwnedInv => NoOrphan /\ ResultIsVouched
<1>. SUFFICES ASSUME OwnedInv PROVE NoOrphan /\ ResultIsVouched
  OBVIOUS
<1>1. ASSUME NEW i \in Inst, i # cached, i \notin quarantine
      PROVE  proc[i] \notin Alive /\ row[i] \notin LiveRow /\ (i \in owned => i \in records)
  BY <1>1 DEF OwnedInv, SpeechInv, InstanceOK, Open, Handle, Alive
<1>2. NoSpeechOrphan
  BY <1>1 DEF NoSpeechOrphan
<1>3. ASSUME life = "closed"
      PROVE  /\ ThreadIdle /\ quarantine = {}
             /\ \A i \in Inst : proc[i] \notin Alive /\ row[i] \notin LiveRow
             /\ \A i \in Inst : i \in owned => i \in records
  <2>1. ThreadIdle /\ cached = None /\ quarantine = {}
    BY <1>3 DEF OwnedInv, LifeInv
  <2>. QED BY <1>1, <2>1, SpeechAssumption
<1>4. owned \subseteq Inst
  BY DEF OwnedInv, SpeechInv, SpeechTypes
<1>. QED BY <1>2, <1>3, <1>4 DEF OwnedInv, ParserInv, NoOrphan

(* The steps of the worker thread keep LifeInv: it has ended by the time    *)
(* it matters.                                                              *)
LEMMA ThreadKeepsLife ==
  ASSUME LifeInv, UNCHANGED <<life, quiesced>>,
         Extract \/ Generate \/ ExtractionStep \/ SpeechStep
  PROVE  LifeInv'
<1>1. ~ThreadIdle \/ life \in {"up", "sealed"}
  BY DEF Extract, Generate, ExtractionStep, SpeechStep, TakesJobs, ThreadIdle, RunStep, GenerationStep,
         HandshakeStopped, Handshake, HandshakeFails, ReadingStopped, Read, ReadFails, PollTimesOut,
         LookAlive, CallbackFails, JoinStopped, JoinTarget, Reap,
         NothingToReap, ReapIdle, AcquireRefused, AcquirePoisoned, AcquireCached, AcquireExited,
         StartNew, StartFails, CanStart, MarkBusy, StageFails, Dispatch, DispatchExited, Speak,
         SpeakFails, Validate, Publish, PublishStopped, HandleRow, HandleExit, HandlerFails
<1>. QED BY <1>1 DEF LifeInv

LEMMA BeginsComplete ==
  ASSUME SpeechInv, BeginStop PROVE (Kept /\ Listed)'
BY SpeechAssumption DEF BeginStop, Kept, Listed, holdVars, SpeechInv, SpeechTypes

(* Each step of a shutdown without a generation.                           *)
LEMMA StopsComplete ==
  ASSUME SpeechInv, Kept, Listed, ShutdownStep
  PROVE  (Kept /\ Listed)'
<1>1. CASE TakeQuarantined
  BY <1>1, SpeechAssumption DEF TakeQuarantined, Kept, Listed, holdVars, SpeechInv, SpeechTypes
<1>2. ASSUME NEW i \in Inst, StopOne(i) PROVE (Kept /\ Listed)'
  BY <1>2 DEF StopOne, Kept, Listed, holdVars
<1>3. ASSUME NEW i \in Inst, AccountOne(i) PROVE (Kept /\ Listed)'
  <2>1. CASE i \in quarantine \ bound
    <3>1. i # cached
      BY <2>1, SpeechAssumption DEF SpeechInv, InstanceOK
    <3>. QED BY <1>3, <2>1, <3>1, SpeechAssumption
             DEF AccountOne, AccountUnbound, Kept, Listed, SpeechInv, SpeechTypes
  <2>2. CASE i \notin quarantine \ bound
    BY <1>3, <2>2, SpeechAssumption
       DEF AccountOne, AccountBound, Quarantine, Kept, Listed, SpeechInv, SpeechTypes
  <2>. QED BY <2>1, <2>2
<1>. QED BY <1>1, <1>2, <1>3 DEF ShutdownStep

LEMMA LifespanKeeps ==
  OwnedInv /\ LifespanStep => OwnedInv' /\ FinalStep
<1>. SUFFICES ASSUME OwnedInv, LifespanStep PROVE OwnedInv' /\ FinalStep
  OBVIOUS
<1>1. ParserInv'
  <2>1. UNCHANGED parserVars \/ StopWorker
    BY DEF LifespanStep, Seal, StopRuntimes, Close, StopAgain, CloseFails
  <2>. QED BY <2>1 DEF OwnedInv, ParserInv, NoParserOrphan, ResultIsVouched, parserVars, StopWorker
<1>2. SpeechInv' /\ FinalStep
  <2>1. \/ UNCHANGED speechVars
        \/ SealRuntimes \/ BeginStop
        \/ ShutdownStep
    BY DEF LifespanStep, Seal, StopWorker, StopRuntimes, Close, StopAgain, CloseFails
  <2>. QED BY <2>1, QuietSteps, ShutdownKeeps, SpeechStutters DEF OwnedInv
<1>3. UNCHANGED pstep
  BY DEF LifespanStep, Seal, StopWorker, StopRuntimes, Close, StopAgain, CloseFails, parserVars
<1>4. LifeInv'
  <2>1. CASE Seal
    BY <2>1 DEF Seal, OwnedInv, LifeInv
  <2>2. CASE StopWorker
    BY <2>2 DEF StopWorker, OwnedInv, LifeInv
  <2>3. CASE StopRuntimes
    <3>1. (Kept /\ Listed)' /\ UNCHANGED gen
      BY <2>3, BeginsComplete DEF StopRuntimes, OwnedInv, BeginStop, genVars
    <3>. QED BY <1>3, <2>3, <3>1 DEF StopRuntimes, OwnedInv, LifeInv, ThreadIdle
  <2>4. CASE StopAgain
    <3>1. (Kept /\ Listed)' /\ UNCHANGED gen
      BY <2>4, BeginsComplete DEF StopAgain, OwnedInv, BeginStop, genVars
    <3>. QED BY <1>3, <2>4, <3>1 DEF StopAgain, OwnedInv, LifeInv, ThreadIdle
  <2>5. CASE Close
    <3>1. ThreadIdle /\ Kept /\ Listed /\ RuntimesStopped /\ ~incomplete
      BY <2>5 DEF Close, OwnedInv, LifeInv
    <3>2. cached = None /\ quarantine = {}
      BY <3>1 DEF RuntimesStopped, Kept, Listed
    <3>3. UNCHANGED <<pstep, gen, pending, stopped, cached, quarantine, quiesced>> /\ life' = "closed"
      BY <2>5 DEF Close, parserVars, speechVars
    <3>. QED BY <3>1, <3>2, <3>3 DEF OwnedInv, LifeInv, ThreadIdle, RuntimesStopped
  <2>6. CASE CloseFails
    BY <2>6 DEF CloseFails, OwnedInv, LifeInv, ThreadIdle, parserVars, speechVars
  <2>7. CASE ShutdownStep /\ UNCHANGED <<parserVars, life, quiesced>>
    <3>1. UNCHANGED gen /\ ~RuntimesStopped
      BY <2>7, SpeechAssumption DEF ShutdownStep, StopOne, AccountOne, TakeQuarantined, genVars, RuntimesStopped
    <3>2. Kept /\ Listed => (Kept /\ Listed)'
      BY <2>7, StopsComplete DEF OwnedInv
    <3>. QED BY <1>3, <2>7, <3>1, <3>2 DEF OwnedInv, LifeInv, ThreadIdle
  <2>. QED BY <2>1, <2>2, <2>3, <2>4, <2>5, <2>6, <2>7 DEF LifespanStep
<1>. QED BY <1>1, <1>2, <1>4 DEF OwnedInv

LEMMA OwnedStep == OwnedInv /\ [Next]_ownedVars => OwnedInv' /\ FinalStep
<1>. SUFFICES ASSUME OwnedInv, [Next]_ownedVars PROVE OwnedInv' /\ FinalStep
  OBVIOUS
<1>1. CASE Extract \/ ExtractionStep
  <2>1. ParserInv' /\ UNCHANGED speechVars /\ UNCHANGED <<life, quiesced>>
    BY <1>1, BeginStep, RunStepKeeps DEF Extract, ExtractionStep, OwnedInv
  <2>. QED BY <1>1, <2>1, ThreadKeepsLife, SpeechStutters DEF OwnedInv
<1>2. CASE Generate \/ SpeechStep
  <2>1. SpeechInv' /\ FinalStep /\ UNCHANGED parserVars /\ UNCHANGED <<life, quiesced>>
    BY <1>2, QuietSteps, GenerationKeeps DEF Generate, SpeechStep, OwnedInv
  <2>2. ParserInv'
    BY <2>1 DEF OwnedInv, ParserInv, NoParserOrphan, ResultIsVouched, parserVars
  <2>. QED BY <1>2, <2>1, <2>2, ThreadKeepsLife DEF OwnedInv
<1>3. CASE LifespanStep
  BY <1>3, LifespanKeeps
<1>4. CASE ParserEnv /\ UNCHANGED <<speechVars, life, quiesced>>
  <2>1. ParserInv' /\ SpeechInv' /\ FinalStep
    BY <1>4, ParserEnvKeeps, SpeechStutters DEF OwnedInv
  <2>2. LifeInv'
    BY <1>4, ParserEnvKeeps
       DEF OwnedInv, LifeInv, ThreadIdle, RuntimesStopped, Kept, Listed, speechVars
  <2>. QED BY <2>1, <2>2 DEF OwnedInv
<1>5. CASE SpeechEnv /\ UNCHANGED <<parserVars, life, quiesced>>
  <2>1. SpeechInv' /\ FinalStep
    BY <1>5, SpeechEnvKeeps DEF OwnedInv
  <2>2. UNCHANGED <<gen, pending, stopped, incomplete, cached, quarantine>>
    BY <1>5 DEF SpeechEnv, CancelGeneration, Crash, IdleOut, holdVars, genVars, shutVars
  <2>3. LifeInv' /\ ParserInv'
    BY <1>5, <2>2 DEF OwnedInv, LifeInv, ThreadIdle, RuntimesStopped, Kept, Listed, ParserInv,
       NoParserOrphan, ResultIsVouched, parserVars
  <2>. QED BY <2>1, <2>3 DEF OwnedInv
<1>6. CASE Restart
  <2>1. SpeechInv' /\ FinalStep
    BY <1>6, RestartSpeech DEF Restart, OwnedInv
  <2>2. ParserInv' /\ LifeInv'
    BY <1>6 DEF Restart, OwnedInv, ParserInv, NoParserOrphan, ResultIsVouched, NoEvidence, LifeInv
  <2>. QED BY <2>1, <2>2 DEF OwnedInv
<1>7. CASE UNCHANGED ownedVars
  <2>1. UNCHANGED <<parserVars, speechVars, life, quiesced>>
    BY <1>7 DEF ownedVars
  <2>2. ParserInv' /\ LifeInv'
    BY <2>1 DEF OwnedInv, LifeInv, ThreadIdle, RuntimesStopped, Kept, Listed, ParserInv,
       NoParserOrphan, ResultIsVouched, parserVars, speechVars
  <2>. QED BY <2>1, <2>2, SpeechStutters DEF OwnedInv
<1>. QED BY <1>1, <1>2, <1>3, <1>4, <1>5, <1>6, <1>7 DEF Next, Environment

-----------------------------------------------------------------------------
(* The theorems.                                                           *)

(* What the service knows of its parser call, its speech workers and its   *)
(* own end is true in every reachable state.                               *)
THEOREM OwnedInvariance == Spec => []OwnedInv
<1>1. Init => OwnedInv
  <2>. SUFFICES ASSUME Init PROVE OwnedInv
    OBVIOUS
  <2>1. ParserInv /\ SpeechInv /\ LifeInv
    BY InitSpeech DEF Init, ParserInit, ParserInv, NoParserOrphan, ResultIsVouched, NoEvidence, LifeInv
  <2>. QED BY <2>1 DEF OwnedInv
<1>2. OwnedInv /\ [Next]_ownedVars => OwnedInv'
  BY OwnedStep
<1>. QED BY <1>1, <1>2, PTL DEF Spec

(* However idle exits, crashes, terminations that are not confirmed,       *)
(* refused transactions, cancellations and the shutdown interleave: no     *)
(* parser outlives its call unreported, no speech worker that may be alive *)
(* is forgotten, and a lifespan that ends without an error leaves nothing  *)
(* running and no runtime without its exit record.                         *)
THEOREM NothingEscapes == Spec => []NoOrphan
<1>. QED BY OwnedInvariance, InvariantSuffices, PTL

(* A result of a document is returned exactly when the exit of the process *)
(* that computed it was seen, with the whole tree gone.                    *)
THEOREM ResultsAreVouched == Spec => []ResultIsVouched
<1>. QED BY OwnedInvariance, InvariantSuffices, PTL

(* The row of a runtime whose end was recorded is never live again.        *)
THEOREM EndedRuntimesStayEnded == Spec => ExitIsFinal
<1>1. OwnedInv /\ [Next]_ownedVars =>
        [\A i \in Inst : row[i] \in {"stopped", "failed"} => row'[i] \in {"stopped", "failed"}]_row
  BY OwnedStep DEF FinalStep
<1>. QED BY <1>1, OwnedInvariance, PTL DEF Spec, ExitIsFinal
=============================================================================
