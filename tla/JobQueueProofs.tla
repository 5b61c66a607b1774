--------------------------- MODULE JobQueueProofs ---------------------------
(***************************************************************************)
(* Proofs about JobQueue, for any targets, keys and bounds.                *)
(*                                                                         *)
(* The inductive invariant has two halves.  Data speaks of the database    *)
(* rows alone: their types, the active-key rows, the event log.  Control   *)
(* ties the worker thread and the service process to them: who may still   *)
(* hold a running job at which point.  First one lemma for each way the    *)
(* rows change, then one lemma for each action.  From this invariant it    *)
(* follows that JobQueue implements JobLifecycle.                          *)
(*                                                                         *)
(* The last part is about the rows that tell the story of a job in several *)
(* tables at once: attempts, executions, checkpoints, status columns and   *)
(* published results.  The many actions change these rows in eight ways    *)
(* only.  RowSteps says so, from the invariant; each property is then      *)
(* proved for the eight ways instead of for the actions.                   *)
(***************************************************************************)
EXTENDS JobQueue, TLAPS, FiniteSetTheorems

-----------------------------------------------------------------------------
(* The inductive invariant.                                                *)

(* A job row is complete from the transaction that inserts it.             *)
RowsComplete ==
  \A j \in Job :
    IF j \in Existing
    THEN target[j] \in Target /\ state[j] # "none" /\ attempt[j] \in Attempt
    ELSE state[j] = "none"

Data ==
  /\ JobRowsOK /\ AttemptRowsOK /\ TargetRowsOK
  /\ RowsComplete
  /\ ActiveKeyNamesActiveJob
  /\ EventLogAgrees
  /\ OneJobPerExtraction

(* A worker thread exists only between the start of serving and the end.   *)
WorkerOnlyInService ==
  service \in {"down", "closed", "reconciling", "recovering"} => pc = "off"

ActiveIsCurrent ==
  pc \in JobPoints \ {"claimed"} => active = cur

OrphansAreJobless ==
  \A t \in orphans : /\ service = "recovering"
                     /\ TypeOf[t] = "extract_document" /\ JobsOf(t) = {}

(* The points of a pipeline only reached past its first boundary.          *)
PastStart == JobPoints \ {"claimed", "start", "failRetryable", "failFinal"}

(* A stop that finds a pipeline past its first boundary captured its job.  *)
StopCaptured == Stopping /\ pc \in PastStart => captured = cur

RunningPlaced ==
  \A j \in Existing : state[j] = "running" =>
    \/ pc \in JobPoints /\ cur = j
    \/ Stopping /\ pc \in {"finish", "top", "exited"} /\ captured = j
    \/ pc = "dead"
    \/ service \in {"down", "closed", "reconciling"}

DeadOnlyWhenBusy == pc = "dead" => busy # 0

Control ==
  /\ ProcessOK
  /\ WorkerOnlyInService
  /\ WorkerOwnsItsJob
  /\ ActiveIsCurrent
  /\ OrphansAreJobless
  /\ StopCaptured
  /\ RunningPlaced
  /\ DeadOnlyWhenBusy
  /\ GracefulStop

IInv == Data /\ Control

-----------------------------------------------------------------------------
(* How the rows change.                                                    *)

(* The values of a status column are among those of all status columns.    *)
LEMMA StatusColumns ==
  ASSUME NEW y PROVE StatusColumn(y) \subseteq RowStates
BY DEF StatusColumn, RowStates

(* Writing a status of the target's own kind keeps every status column     *)
(* well typed, also when other targets share the row.                      *)
LEMMA SetStatusOK ==
  ASSUME TargetRowsOK, NEW t \in Target, NEW s \in StatusColumn(TypeOf[t]), SetStatus(t, s)
  PROVE  /\ targetState' \in [Row -> RowStates]
         /\ \A u \in Target : targetState'[RowOf(u)] \in StatusColumn(TypeOf[u])
<1>1. RowOf(t) \in Row /\ s \in RowStates
  BY StatusColumns DEF Row
<1>2. targetState' \in [Row -> RowStates]
  BY <1>1 DEF TargetRowsOK, SetStatus
<1>3. ASSUME NEW u \in Target PROVE targetState'[RowOf(u)] \in StatusColumn(TypeOf[u])
  <2>1. RowOf(u) \in Row
    BY DEF Row
  <2>2. CASE RowOf(u) = RowOf(t)
    BY <1>1, <2>2, RowAssumption DEF TargetRowsOK, SetStatus
  <2>3. CASE RowOf(u) # RowOf(t)
    BY <1>1, <2>1, <2>3 DEF TargetRowsOK, SetStatus
  <2>. QED BY <2>2, <2>3
<1>. QED BY <1>2, <1>3

(* Nothing about the rows changes when no row changes.                     *)
LEMMA DataUnchanged == ASSUME Data, UNCHANGED durable PROVE Data'
BY DEF Data, durable, jobVars, endVars, keptVars, JobRowsOK, AttemptRowsOK,
       TargetRowsOK, RowsComplete, ActiveKeyNamesActiveJob, EventLogAgrees,
       OneJobPerExtraction, Existing, JobsOf, Active, Typ

(* A new job is the first active one of its target.                        *)
LEMMA InsertJobData ==
  ASSUME Data, NEW t \in Target, InsertJob(t), version \in Version,
         TypeOf[t] = "extract_document" => JobsOf(t) = {},
         replay' \in [JobType -> [Key -> Job \cup {None}]],
         targetState' \in [Row -> RowStates],
         \A u \in Target : targetState'[RowOf(u)] \in StatusColumn(TypeOf[u])
  PROVE  Data'
<1> DEFINE j == created + 1
<1>0. created \in 0 .. MaxJobs /\ created' = j /\ j \in 1 .. MaxJobs /\ MaxJobs \in Nat
  BY ConstantsAssumption DEF InsertJob, Data, JobRowsOK, Job
<1>1. /\ j \in Job /\ created' = j
      /\ Existing' = Existing \cup {j} /\ j \notin Existing /\ Existing \subseteq Job
      /\ j # None
  <2>1. Existing' = Existing \cup {j}
    BY <1>0 DEF Existing
  <2>. QED BY <1>0, <2>1 DEF Existing, Job, None
<1>2. 1 \in Attempt
  BY ConstantsAssumption DEF Attempt
<1>3. JobRowsOK'
  BY <1>1, ConstantsAssumption
     DEF Data, JobRowsOK, InsertJob, Announce, Job, ActiveStates
<1>4. AttemptRowsOK'
  <2>1. outcome' \in [Job -> [Attempt -> EndStates \cup {"none", "open"}]]
    BY <1>1, <1>2 DEF Data, AttemptRowsOK, InsertJob
  <2>2. producer' \in [Job -> [Attempt -> Version \cup {None}]]
    BY <1>1, <1>2 DEF Data, AttemptRowsOK, InsertJob
  <2>. QED BY <2>1, <2>2 DEF Data, AttemptRowsOK, InsertJob
<1>5. TargetRowsOK'
  BY <1>1 DEF Data, TargetRowsOK, InsertJob, AcquireActiveKey
<1>6. /\ target' = [target EXCEPT ![j] = t] /\ state' = [state EXCEPT ![j] = "queued"]
      /\ lastEvent' = [lastEvent EXCEPT ![j] = "queued"]
      /\ attempt' = [attempt EXCEPT ![j] = 1]
      /\ activeKey' = [activeKey EXCEPT ![t] = j]
      /\ activeKey[t] \notin {None, j} => ~Holds(activeKey[t])
  BY DEF InsertJob, Announce, AcquireActiveKey
<1>7. RowsComplete'
  BY <1>1, <1>2, <1>6 DEF Data, RowsComplete, JobRowsOK
<1>8. activeKey[t] = None
  BY <1>1, <1>6 DEF Data, ActiveKeyNamesActiveJob, Holds, Active, ActiveStates, JobsOf
<1>9. ActiveKeyNamesActiveJob'
  <2>1. \A i \in Existing : Active(i) => target[i] # t
    BY <1>1, <1>8 DEF Data, ActiveKeyNamesActiveJob, None, Existing
  <2>2. \A i \in Existing : /\ state'[i] = state[i] /\ target'[i] = target[i]
    BY <1>1, <1>6 DEF Data, JobRowsOK
  <2>3. state'[j] = "queued" /\ target'[j] = t
    BY <1>1, <1>6 DEF Data, JobRowsOK
  <2>4. ASSUME NEW u \in Target, activeKey'[u] # None
        PROVE  (activeKey[u] \in JobsOf(u) /\ Active(activeKey[u]))'
    <3>1. CASE u = t
      BY <1>1, <1>6, <2>3, <3>1 DEF Data, TargetRowsOK, JobsOf, Active
    <3>2. CASE u # t
      BY <1>1, <1>6, <2>2, <2>4, <3>2 DEF Data, TargetRowsOK, JobsOf, Active, ActiveKeyNamesActiveJob
    <3>. QED BY <3>1, <3>2
  <2>5. ASSUME NEW i \in Existing', Active(i)' PROVE activeKey'[target'[i]] = i
    <3>1. CASE i = j
      BY <1>6, <2>3, <3>1 DEF Data, TargetRowsOK
    <3>2. CASE i \in Existing
      <4>1. Active(i) /\ target[i] # t
        BY <2>1, <2>2, <2>5, <3>2 DEF Active
      <4>. QED BY <4>1, <1>1, <1>6, <2>2, <3>2
               DEF Data, TargetRowsOK, ActiveKeyNamesActiveJob, RowsComplete
    <3>. QED BY <1>1, <3>1, <3>2
  <2>. QED BY <2>4, <2>5 DEF ActiveKeyNamesActiveJob
<1>10. EventLogAgrees'
  BY <1>1, <1>6 DEF Data, EventLogAgrees, JobRowsOK
<1>11. OneJobPerExtraction'
  BY <1>1, <1>6 DEF Data, OneJobPerExtraction, Typ, JobsOf, JobRowsOK
<1>. QED BY <1>3, <1>4, <1>5, <1>7, <1>9, <1>10, <1>11 DEF Data

(* The outcomes of attempts that published nothing.                        *)
Unsuccessful == {"failed", "cancelled", "interrupted"}

(* What the end of an attempt writes to its status row is a value of the   *)
(* row's column.                                                           *)
LEMMA MirrorOK ==
  ASSUME NEW j, NEW o \in Unsuccessful, Typ(j) \in JobType, NEW old \in StatusColumn(Typ(j))
  PROVE  Mirror(j, o, old) \in StatusColumn(Typ(j))
<1>1. CASE Typ(j) = "extract_document"
  <2>1. Mirror(j, o, old) \in {"failed", "pending", old}
    BY <1>1 DEF Mirror, Unsuccessful
  <2>. QED BY <1>1, <2>1 DEF StatusColumn
<1>2. CASE Typ(j) = "analyze_casting"
  BY <1>2 DEF Mirror, StatusColumn, Unsuccessful
<1>3. CASE Typ(j) = "generate_audition"
  <2>1. Mirror(j, o, old) \in {"failed", "cancelled", old}
    BY <1>3 DEF Mirror, Unsuccessful
  <2>. QED BY <1>3, <2>1 DEF StatusColumn
<1>4. CASE Typ(j) \in {"analyze_story", "analyze_whole_book"}
  <2>1. Mirror(j, o, old) = old
    BY <1>4 DEF Mirror
  <2>. QED BY <2>1
<1>. QED BY <1>1, <1>2, <1>3, <1>4 DEF JobType

(* When jobs end and their keys are released, the remaining active jobs    *)
(* are exactly the ones the remaining keys name.                           *)
LEMMA EndedData ==
  ASSUME Data, NEW Ended \in SUBSET Existing, NEW end \in [Ended -> EndStates],
         \A j \in Job : state'[j] = IF j \in Ended THEN end[j] ELSE state[j],
         \A j \in Job : lastEvent'[j] = IF j \in Ended THEN end[j] ELSE lastEvent[j],
         ReleaseActiveKeys(Ended),
         UNCHANGED <<created, target, attempt>>,
         JobRowsOK', AttemptRowsOK', TargetRowsOK'
  PROVE  Data'
<1>1. /\ Existing \subseteq Job /\ None \notin Existing /\ Existing' = Existing
      /\ JobRowsOK /\ TargetRowsOK /\ RowsComplete
  BY ConstantsAssumption DEF Existing, Job, None, Data, JobRowsOK
<1>2. RowsComplete'
  BY <1>1 DEF RowsComplete, EndStates
<1>3. ActiveKeyNamesActiveJob'
  <2>1. \A j \in Ended : ~Active(j)'
    BY <1>1 DEF Active, EndStates
  <2>2. \A j \in Existing \ Ended : Active(j)' = Active(j)
    BY <1>1 DEF Active
  <2>3. \A t \in Target : JobsOf(t)' = JobsOf(t)
    BY <1>1 DEF JobsOf
  <2>4. ASSUME NEW t \in Target, activeKey'[t] # None
        PROVE  (activeKey[t] \in JobsOf(t) /\ Active(activeKey[t]))'
    <3>1. activeKey'[t] = activeKey[t] /\ activeKey[t] \notin Ended /\ activeKey[t] # None
      BY <2>4 DEF ReleaseActiveKeys
    <3>2. activeKey[t] \in JobsOf(t) /\ Active(activeKey[t]) /\ activeKey[t] \in Existing
      BY <3>1 DEF Data, ActiveKeyNamesActiveJob, JobsOf
    <3>. QED BY <2>3, <3>1, <3>2, <1>1 DEF Active
  <2>5. ASSUME NEW j \in Existing', Active(j)' PROVE activeKey'[target'[j]] = j
    <3>1. j \in Existing \ Ended /\ Active(j)
      BY <1>1, <2>1, <2>2, <2>5
    <3>2. activeKey[target[j]] = j /\ target[j] \in Target
      BY <1>1, <3>1 DEF Data, ActiveKeyNamesActiveJob, RowsComplete
    <3>. QED BY <3>1, <3>2 DEF ReleaseActiveKeys
  <2>. QED BY <2>4, <2>5 DEF ActiveKeyNamesActiveJob
<1>4. EventLogAgrees'
  BY <1>1 DEF Data, EventLogAgrees
<1>5. OneJobPerExtraction'
  BY <1>1 DEF Data, OneJobPerExtraction, Typ
<1>. QED BY <1>2, <1>3, <1>4, <1>5 DEF Data

(* Ending attempts keeps the rows consistent, whichever jobs end and       *)
(* whichever of them writes a shared status row last.                      *)
LEMMA EndAttemptsData ==
  ASSUME Data, NEW Ended \in SUBSET Existing, NEW end \in [Ended -> Unsuccessful],
         NEW last \in [Row -> Ended \cup {None}],
         \A r \in Row : last[r] # None => RowOf(target[last[r]]) = r,
         EndAttempts(end, last),
         UNCHANGED <<created, target, attempt, resuming, producer, keptVars>>,
         retryable' \in [Job -> BOOLEAN]
  PROVE  /\ Data'
         /\ \A j \in Job : state'[j] = IF j \in Ended THEN end[j] ELSE state[j]
<1>0. /\ DOMAIN end = Ended /\ Existing \subseteq Job /\ None \notin Existing
      /\ Existing' = Existing
      /\ JobRowsOK /\ AttemptRowsOK /\ TargetRowsOK /\ RowsComplete
  BY ConstantsAssumption DEF Existing, Job, None, Data, JobRowsOK
<1>1. \A j \in Job : state'[j] = IF j \in Ended THEN end[j] ELSE state[j]
  BY <1>0 DEF EndAttempts
<1>2. \A j \in Job : lastEvent'[j] = IF j \in Ended THEN end[j] ELSE lastEvent[j]
  BY <1>0 DEF EndAttempts
<1>3. JobRowsOK'
  <2>1. state' \in [Job -> ActiveStates \cup EndStates \cup {"none"}]
    BY <1>0 DEF EndAttempts, JobRowsOK, Unsuccessful, EndStates
  <2>2. lastEvent' \in [Job -> ActiveStates \cup EndStates \cup {"none"}]
    BY <1>0 DEF EndAttempts, JobRowsOK, Unsuccessful, EndStates
  <2>3. cancelling' \in [Job -> BOOLEAN]
    BY <1>0 DEF EndAttempts, JobRowsOK
  <2>. QED BY <1>0, <2>1, <2>2, <2>3 DEF JobRowsOK
<1>4. AttemptRowsOK'
  <2>1. \A j \in Ended : attempt[j] \in Attempt /\ end[j] \in EndStates
    BY <1>0 DEF RowsComplete, Unsuccessful, EndStates
  <2>2. outcome' \in [Job -> [Attempt -> EndStates \cup {"none", "open"}]]
    BY <1>0, <2>1 DEF EndAttempts, AttemptRowsOK
  <2>3. execution' \in [Job -> [Attempt -> EndStates \cup {"none"}]]
    <3>1. \A j \in Ended : ExecutionEnded(j, end[j]) \in [Attempt -> EndStates \cup {"none"}]
      BY <1>0, <2>1 DEF ExecutionEnded, AttemptRowsOK
    <3>. QED BY <1>0, <3>1 DEF EndAttempts, AttemptRowsOK
  <2>. QED BY <1>0, <2>2, <2>3 DEF AttemptRowsOK, keptVars
<1>5. activeKey' = [t \in Target |-> IF activeKey[t] \in Ended THEN None ELSE activeKey[t]]
  BY <1>0 DEF EndAttempts, ReleaseActiveKeys
<1>6. TargetRowsOK'
  <2>1. activeKey' \in [Target -> Job \cup {None}]
    BY <1>0, <1>5 DEF TargetRowsOK
  <2>2. ASSUME NEW u \in Target
        PROVE  targetState'[RowOf(u)] \in StatusColumn(TypeOf[u])
    <3> DEFINE r == RowOf(u)
    <3>1. /\ r \in Row /\ targetState[r] \in StatusColumn(TypeOf[u])
          /\ targetState'[r] = IF last[r] = None THEN targetState[r]
                               ELSE Mirror(last[r], end[last[r]], targetState[r])
      BY <1>0 DEF EndAttempts, Row, TargetRowsOK
    <3>2. CASE last[r] = None
      BY <3>1, <3>2
    <3>3. CASE last[r] # None
      <4>1. /\ last[r] \in Ended /\ end[last[r]] \in Unsuccessful
            /\ target[last[r]] \in Target /\ RowOf(target[last[r]]) = RowOf(u)
        BY <1>0, <3>1, <3>3 DEF RowsComplete
      <4>2. Typ(last[r]) = TypeOf[u] /\ TypeOf[u] \in JobType
        BY <4>1, RowAssumption, ConstantsAssumption DEF Typ
      <4>. QED BY <3>1, <3>3, <4>1, <4>2, MirrorOK
    <3>. QED BY <3>2, <3>3
  <2>3. targetState' \in [Row -> RowStates]
    <3>1. \A r \in Row : targetState'[r] \in RowStates
      BY <2>2, StatusColumns DEF Row
    <3>. QED BY <1>0, <3>1 DEF EndAttempts
  <2>. QED BY <1>0, <2>1, <2>2, <2>3 DEF TargetRowsOK, keptVars
<1>7. ReleaseActiveKeys(Ended) /\ end \in [Ended -> EndStates]
  BY <1>0 DEF EndAttempts, Unsuccessful, EndStates
<1>. QED BY <1>1, <1>2, <1>3, <1>4, <1>6, <1>7, EndedData

(* The end of one attempt.                                                 *)
LEMMA EndAttemptData ==
  ASSUME Data, NEW j \in Existing, NEW o \in Unsuccessful, EndAttempt(j, o),
         UNCHANGED <<created, target, attempt, resuming, producer, keptVars>>,
         retryable' \in [Job -> BOOLEAN]
  PROVE  /\ Data' /\ state'[j] = o
         /\ \A i \in Job \ {j} : state'[i] = state[i]
<1> DEFINE Ended == {j}
           end == [i \in Ended |-> o]
           last == [r \in Row |-> IF r = RowOf(target[j]) THEN j ELSE None]
<1>1. Existing \subseteq Job /\ None \notin Existing
  BY ConstantsAssumption DEF Existing, Job, None, Data, JobRowsOK
<1>2. Ended \in SUBSET Existing /\ end \in [Ended -> Unsuccessful]
  OBVIOUS
<1>3. last \in [Row -> Ended \cup {None}]
  OBVIOUS
<1>4. \A r \in Row : last[r] # None => RowOf(target[last[r]]) = r
  BY <1>1
<1>5. EndAttempts(end, last)
  BY DEF EndAttempt
<1>6. /\ Data'
      /\ \A i \in Job : state'[i] = IF i \in Ended THEN end[i] ELSE state[i]
  <2> HIDE DEF Ended, end, last
  <2>. QED BY <1>2, <1>3, <1>4, <1>5, EndAttemptsData
<1>. QED BY <1>1, <1>6

(* An interruption leaves its job ended, or as it was when it had already  *)
(* ended, and lets a cancellation win.                                     *)
LEMMA InterruptData ==
  ASSUME Data, NEW j \in Existing, Interrupt(j), UNCHANGED restVars
  PROVE  /\ Data'
         /\ state'[j] \notin {"running", "cancel_requested"}
         /\ state[j] \in {"cancel_requested", "cancelled"} => state'[j] = "cancelled"
         /\ \A i \in Job \ {j} : state'[i] = state[i]
<1>1. /\ UNCHANGED <<created, target, attempt, resuming, producer, keptVars>>
      /\ retryable' \in [Job -> BOOLEAN]
  BY DEF restVars, jobVars, Data, JobRowsOK
<1>2. CASE state[j] = "cancel_requested" /\ EndAttempt(j, "cancelled")
  BY <1>1, <1>2, EndAttemptData DEF Unsuccessful
<1>3. CASE state[j] = "running" /\ EndAttempt(j, "interrupted")
  BY <1>1, <1>3, EndAttemptData DEF Unsuccessful
<1>4. CASE state[j] \notin {"cancel_requested", "running"} /\ UNCHANGED endVars
  <2>1. UNCHANGED durable
    BY <1>4 DEF restVars, durable
  <2>. QED BY <1>4, <2>1, DataUnchanged DEF endVars
<1>. QED BY <1>2, <1>3, <1>4 DEF Interrupt

(* What an active job's key says of its target.                            *)
LEMMA OnlyActive ==
  ASSUME Data, NEW j \in Existing, Active(j)
  PROVE  ~OtherActive(j) /\ activeKey[target[j]] = j
BY DEF Data, ActiveKeyNamesActiveJob, OtherActive, JobsOf, Holds, Active, ActiveStates

(* A job moves to an active state while no other job of its target is      *)
(* active, and the key of the target names it.                             *)
LEMMA ActivateData ==
  ASSUME Data, NEW j \in Existing, NEW s \in ActiveStates, ~OtherActive(j),
         state' = [state EXCEPT ![j] = s], Announce(j, s),
         activeKey' = [activeKey EXCEPT ![target[j]] = j],
         UNCHANGED <<created, target, replay, publications, stale>>,
         attempt' \in [Job -> 0 .. MaxAttempts],
         \A i \in Existing : attempt'[i] \in Attempt,
         cancelling' \in [Job -> BOOLEAN], resuming' \in [Job -> BOOLEAN],
         retryable' \in [Job -> BOOLEAN], AttemptRowsOK',
         targetState' \in [Row -> RowStates],
         \A u \in Target : targetState'[RowOf(u)] \in StatusColumn(TypeOf[u])
  PROVE  Data'
<1>1. /\ Existing \subseteq Job /\ None \notin Existing /\ Existing' = Existing
      /\ JobRowsOK /\ TargetRowsOK /\ RowsComplete
  BY ConstantsAssumption DEF Existing, Job, None, Data, JobRowsOK
<1>2. lastEvent' = [lastEvent EXCEPT ![j] = s] /\ target[j] \in Target /\ s # "none"
  BY <1>1 DEF Announce, RowsComplete, ActiveStates
<1>3. JobRowsOK'
  BY <1>1, <1>2 DEF JobRowsOK
<1>4. TargetRowsOK'
  BY <1>1, <1>2 DEF TargetRowsOK
<1>5. RowsComplete'
  BY <1>1, <1>2 DEF RowsComplete, JobRowsOK
<1>6. ActiveKeyNamesActiveJob'
  <2>1. /\ \A i \in Existing \ {j} : Active(i)' = Active(i)
        /\ Active(j)'
    BY <1>1 DEF Active, JobRowsOK, ActiveStates
  <2>2. \A i \in Existing \ {j} : Active(i) => target[i] # target[j]
    BY DEF OtherActive, JobsOf, Holds, Active, ActiveStates
  <2>3. ASSUME NEW t \in Target, activeKey'[t] # None
        PROVE  (activeKey[t] \in JobsOf(t) /\ Active(activeKey[t]))'
    <3>1. CASE t = target[j]
      <4>1. activeKey'[t] = j
        BY <1>1, <3>1 DEF TargetRowsOK
      <4>. QED BY <1>1, <2>1, <3>1, <4>1 DEF JobsOf, Active
    <3>2. CASE t # target[j]
      <4>1. activeKey'[t] = activeKey[t]
        BY <1>1, <1>2, <3>2 DEF TargetRowsOK
      <4>2. activeKey[t] \in JobsOf(t) /\ Active(activeKey[t]) /\ activeKey[t] # j
        BY <2>3, <3>2, <4>1 DEF Data, ActiveKeyNamesActiveJob, JobsOf
      <4>. QED BY <1>1, <2>1, <4>1, <4>2 DEF JobsOf, Active
    <3>. QED BY <3>1, <3>2
  <2>4. ASSUME NEW i \in Existing', Active(i)' PROVE activeKey'[target'[i]] = i
    <3>1. CASE i = j
      BY <1>1, <1>2, <3>1 DEF TargetRowsOK
    <3>2. CASE i # j
      <4>1. i \in Existing /\ Active(i) /\ target[i] # target[j]
        BY <1>1, <2>1, <2>2, <2>4, <3>2
      <4>2. activeKey[target[i]] = i /\ target[i] \in Target
        BY <1>1, <4>1 DEF Data, ActiveKeyNamesActiveJob, RowsComplete
      <4>. QED BY <1>1, <1>2, <4>1, <4>2 DEF TargetRowsOK
    <3>. QED BY <3>1, <3>2
  <2>. QED BY <2>3, <2>4 DEF ActiveKeyNamesActiveJob
<1>7. EventLogAgrees'
  BY <1>1, <1>2 DEF Data, EventLogAgrees, JobRowsOK
<1>8. OneJobPerExtraction'
  BY <1>1 DEF Data, OneJobPerExtraction, Typ
<1>. QED BY <1>3, <1>4, <1>5, <1>6, <1>7, <1>8 DEF Data

(* Steps that leave the job rows alone.                                    *)
LEMMA SameJobsData ==
  ASSUME Data, UNCHANGED <<created, jobVars, state, cancelling, lastEvent, activeKey>>,
         AttemptRowsOK', TargetRowsOK'
  PROVE  Data'
<1>1. JobRowsOK' /\ RowsComplete'
  BY DEF Data, jobVars, JobRowsOK, RowsComplete, Existing
<1>2. ActiveKeyNamesActiveJob' /\ EventLogAgrees' /\ OneJobPerExtraction'
  BY DEF Data, jobVars, ActiveKeyNamesActiveJob, EventLogAgrees, OneJobPerExtraction,
         Existing, JobsOf, Active, Typ
<1>. QED BY <1>1, <1>2 DEF Data

-----------------------------------------------------------------------------
(* What the actions share.                                                 *)

(* What a step may do to a job whose cancellation was committed.           *)
CancelKept ==
  \A j \in Existing : state[j] \in {"cancel_requested", "cancelled"} =>
    state'[j] \in {state[j], "cancelled"}

(* Outside the transient phases of a process no running job is unplaced.   *)
LEMMA NobodyRuns ==
  ASSUME IInv, pc \in {"settle", "gate", "claim"}
  PROVE  \A j \in Existing : state[j] # "running"
BY DEF IInv, Control, RunningPlaced, JobPoints, WorkerOnlyInService

(* The worker thread runs only while the service serves or stops.          *)
LEMMA WorkerPhases ==
  ASSUME IInv, pc # "off"
  PROVE  service \in {"serving", "sealed", "stopping"}
BY DEF IInv, Control, ProcessOK, WorkerOnlyInService

(* The job a pipeline is on exists and is active.                          *)
LEMMA CurrentJob ==
  ASSUME IInv, pc \in JobPoints
  PROVE  /\ cur \in Existing /\ cur \in Job /\ target[cur] \in Target
         /\ attempt[cur] \in Attempt
         /\ state[cur] \in {"running", "cancel_requested"} /\ Active(cur)
<1>1. cur \in Existing /\ state[cur] \in {"running", "cancel_requested"}
  BY DEF IInv, Control, WorkerOwnsItsJob
<1>2. Existing \subseteq Job
  BY ConstantsAssumption DEF Existing, Job, IInv, Data, JobRowsOK
<1>. QED BY <1>1, <1>2 DEF IInv, Data, RowsComplete, Active

(* A step of a pipeline touches the state of its own job only, and gives   *)
(* it up only once it has ended, or to a stop that has captured it.        *)
LEMMA PipelineControl ==
  ASSUME IInv, pc \in JobPoints,
         UNCHANGED <<created, target, cur, process, inflight>>, busy' \in 0 .. MaxBusy,
         active' = cur,
         pc' \in (JobPoints \ {"claimed"}) \cup {"finish"},
         pc' \in PastStart => pc \in PastStart \/ ~Stopping,
         \A j \in Job \ {cur} : state'[j] = state[j],
         pc' \in JobPoints => state'[cur] \in {"running", "cancel_requested"},
         pc' = "finish" /\ state'[cur] = "running" => Stopping /\ pc \in PastStart
  PROVE  Control'
<1>1. /\ Control /\ cur \in Existing /\ Existing' = Existing /\ Existing \subseteq Job
      /\ service \in {"serving", "sealed", "stopping"}
  BY CurrentJob, WorkerPhases, ConstantsAssumption
     DEF IInv, Existing, JobPoints, Job, Data, JobRowsOK
<1>2. ProcessOK'
  BY <1>1 DEF Control, ProcessOK, process
<1>3. WorkerOnlyInService' /\ WorkerOwnsItsJob' /\ ActiveIsCurrent' /\ DeadOnlyWhenBusy'
      /\ GracefulStop'
  BY <1>1 DEF WorkerOnlyInService, WorkerOwnsItsJob, ActiveIsCurrent, DeadOnlyWhenBusy,
              GracefulStop, process, JobPoints
<1>4. OrphansAreJobless'
  BY <1>1 DEF Control, OrphansAreJobless, process, JobsOf
<1>5. StopCaptured'
  BY <1>1 DEF Control, StopCaptured, Stopping, process, PastStart
<1>6. RunningPlaced'
  <2>1. ASSUME NEW j \in Existing, state'[j] = "running" PROVE j = cur
    BY <1>1, <2>1 DEF Control, RunningPlaced, JobPoints
  <2>2. state'[cur] = "running" /\ pc' = "finish" => Stopping /\ captured = cur
    BY <1>1 DEF Control, StopCaptured
  <2>. QED BY <1>1, <2>1, <2>2 DEF RunningPlaced, process, Stopping
<1>. QED BY <1>2, <1>3, <1>4, <1>5, <1>6 DEF Control

(* A request leaves the worker and the process alone, makes no job running *)
(* and does not end the job the worker is on.                              *)
LEMMA RequestControl ==
  ASSUME IInv, Serving, UNCHANGED <<worker, process>>, inflight' \subseteq Target,
         busy' \in 0 .. MaxBusy, busy # 0 => busy' # 0,
         Existing \subseteq Existing',
         \A j \in Existing' : state'[j] = "running" => j \in Existing /\ state[j] = "running",
         \A j \in Existing : state[j] \in {"running", "cancel_requested"} =>
           state'[j] \in {"running", "cancel_requested"}
  PROVE  Control'
<1>1. Control /\ service = "serving"
  BY DEF IInv, Serving
<1>2. ProcessOK'
  BY <1>1 DEF Control, ProcessOK, process, worker
<1>3. WorkerOwnsItsJob' /\ ActiveIsCurrent' /\ WorkerOnlyInService' /\ DeadOnlyWhenBusy'
  BY <1>1 DEF Control, WorkerOwnsItsJob, ActiveIsCurrent, WorkerOnlyInService,
              DeadOnlyWhenBusy, worker, process
<1>4. OrphansAreJobless' /\ StopCaptured' /\ GracefulStop'
  BY <1>1 DEF Control, OrphansAreJobless, StopCaptured, Stopping, GracefulStop, worker, process
<1>5. RunningPlaced'
  BY <1>1 DEF Control, RunningPlaced, Stopping, worker, process
<1>. QED BY <1>2, <1>3, <1>4, <1>5 DEF Control

-----------------------------------------------------------------------------
(* Requests.                                                               *)

(* A request that only moves bookkeeping of its own.                       *)
LEMMA IdleRequest ==
  ASSUME IInv, Serving, UNCHANGED <<durable, worker, process>>,
         inflight' \subseteq Target, busy' \in 0 .. MaxBusy, busy # 0 => busy' # 0
  PROVE  IInv' /\ CancelKept
<1>1. Data'
  BY DataUnchanged DEF IInv
<1>2. UNCHANGED <<created, state>>
  BY DEF durable, endVars
<1>3. Control'
  BY <1>2, RequestControl DEF Existing
<1>. QED BY <1>1, <1>2, <1>3 DEF IInv, CancelKept

(* A request that writes to the database without touching the state of     *)
(* any job.                                                                *)
LEMMA BookkeepingRequest ==
  ASSUME IInv, Serving, UNCHANGED <<worker, process, busy>>, inflight' \subseteq Target,
         UNCHANGED <<created, jobVars, state, cancelling, lastEvent, activeKey>>,
         AttemptRowsOK', TargetRowsOK'
  PROVE  IInv' /\ CancelKept
<1>1. Data'
  BY SameJobsData DEF IInv
<1>2. busy' \in 0 .. MaxBusy
  BY DEF IInv, Control, ProcessOK
<1>3. Control'
  BY <1>2, RequestControl DEF Existing
<1>. QED BY <1>1, <1>3 DEF IInv, CancelKept

(* A request that creates a job.                                           *)
LEMMA CreatingRequest ==
  ASSUME IInv, Serving, UNCHANGED <<worker, process, busy>>, inflight' \subseteq Target,
         NEW t \in Target, InsertJob(t),
         TypeOf[t] = "extract_document" => JobsOf(t) = {},
         replay' \in [JobType -> [Key -> Job \cup {None}]],
         targetState' \in [Row -> RowStates],
         \A u \in Target : targetState'[RowOf(u)] \in StatusColumn(TypeOf[u])
  PROVE  IInv' /\ CancelKept
<1>1. Data'
  BY InsertJobData DEF IInv, Control, ProcessOK
<1>2. /\ created \in 0 .. MaxJobs /\ created' = created + 1 /\ created' \in 1 .. MaxJobs
      /\ MaxJobs \in Nat
  BY ConstantsAssumption DEF InsertJob, Job, IInv, Data, JobRowsOK
<1>3. /\ Existing' = Existing \cup {created'} /\ created' \notin Existing
      /\ created' \in Job /\ Existing \subseteq Job
  BY <1>2 DEF Existing, Job
<1>4. state' = [state EXCEPT ![created'] = "queued"] /\ state \in [Job -> ActiveStates \cup EndStates \cup {"none"}]
  BY <1>2 DEF InsertJob, IInv, Data, JobRowsOK
<1>5. state'[created'] = "queued" /\ \A j \in Existing : state'[j] = state[j]
  BY <1>3, <1>4
<1>6. busy' \in 0 .. MaxBusy
  BY DEF IInv, Control, ProcessOK
<1>7. Control'
  BY <1>3, <1>5, <1>6, RequestControl
<1>. QED BY <1>1, <1>5, <1>7 DEF IInv, CancelKept

(* What IInv says of the rows a request reads.                             *)
LEMMA RowFacts ==
  ASSUME IInv
  PROVE  /\ inflight \subseteq Target /\ Existing \subseteq Job /\ TargetRowsOK
         /\ JobRowsOK /\ AttemptRowsOK /\ RowsComplete
         /\ \A t \in Target : TypeOf[t] \in JobType /\ JobsOf(t) \subseteq Job
BY ConstantsAssumption
   DEF IInv, Control, ProcessOK, Existing, Job, Data, JobRowsOK, JobsOf

(* Remembering the answer to a key.                                        *)
LEMMA RememberOK ==
  ASSUME IInv, NEW t \in Target, NEW k \in Key, NEW j \in Job, Remember(t, k, j)
  PROVE  replay' \in [JobType -> [Key -> Job \cup {None}]]
BY RowFacts DEF Remember, TargetRowsOK

(* Committing an extraction touches no job, only the status row.           *)
LEMMA ImportSourceStep ==
  ASSUME IInv, NEW t \in Target, ImportSource(t)
  PROVE  IInv' /\ CancelKept
<1>1. /\ targetState' \in [Row -> RowStates]
      /\ \A u \in Target : targetState'[RowOf(u)] \in StatusColumn(TypeOf[u])
  <2>1. CASE SetStatus(t, "pending")
    <3>1. "pending" \in StatusColumn(TypeOf[t])
      BY DEF ImportSource, StatusColumn
    <3>. QED BY <2>1, <3>1, SetStatusOK, RowFacts
  <2>2. CASE UNCHANGED targetState
    BY <2>2, RowFacts DEF TargetRowsOK
  <2>. QED BY <2>1, <2>2 DEF ImportSource
<1>2. AttemptRowsOK' /\ TargetRowsOK'
  BY <1>1, RowFacts DEF ImportSource, AttemptRowsOK, TargetRowsOK, jobVars, keptVars
<1>3. inflight' \subseteq Target
  BY RowFacts DEF ImportSource
<1>. QED BY <1>2, <1>3, BookkeepingRequest DEF ImportSource

(* The second transaction of an import answers with the job there is, or   *)
(* makes the only one.                                                     *)
LEMMA CreateExtractionJobStep ==
  ASSUME IInv, NEW t \in Target, NEW k \in Key, CreateExtractionJob(t, k)
  PROVE  IInv' /\ CancelKept
<1>1. /\ Serving /\ UNCHANGED <<worker, process, busy>> /\ inflight' \subseteq Target
  BY RowFacts DEF CreateExtractionJob
<1>2. CASE UNCHANGED durable
  BY <1>1, <1>2, IdleRequest DEF IInv, Control, ProcessOK
<1>3. ASSUME NEW j \in JobsOf(t), Remember(t, k, j),
             UNCHANGED <<created, jobVars, endVars, checkpoint, publications, stale>>
      PROVE  IInv' /\ CancelKept
  <2>1. replay' \in [JobType -> [Key -> Job \cup {None}]]
    BY <1>3, RowFacts, RememberOK
  <2>2. AttemptRowsOK' /\ TargetRowsOK'
    BY <1>3, <2>1, RowFacts DEF AttemptRowsOK, TargetRowsOK, jobVars, endVars
  <2>. QED BY <1>1, <1>3, <2>2, BookkeepingRequest DEF endVars
<1>4. CASE JobsOf(t) = {} /\ InsertJob(t) /\ Remember(t, k, created + 1) /\ UNCHANGED targetState
  <2>1. replay' \in [JobType -> [Key -> Job \cup {None}]]
    BY <1>4, RememberOK DEF InsertJob
  <2>. QED BY <1>1, <1>4, <2>1, RowFacts, CreatingRequest DEF TargetRowsOK
<1>. QED BY <1>2, <1>3, <1>4 DEF CreateExtractionJob

(* Reading the approved story changes no row.                              *)
LEMMA ReadStorySnapshotStep ==
  ASSUME IInv, NEW t \in Target, ReadStorySnapshot(t)
  PROVE  IInv' /\ CancelKept
BY RowFacts, IdleRequest DEF ReadStorySnapshot, IInv, Control, ProcessOK

(* A story analysis is created only when no other job of the story is      *)
(* active.                                                                 *)
LEMMA CreateStoryJobStep ==
  ASSUME IInv, NEW t \in Target, NEW k \in Key, CreateStoryJob(t, k)
  PROVE  IInv' /\ CancelKept
<1>1. /\ Serving /\ UNCHANGED <<worker, process, busy>> /\ inflight' \subseteq Target
      /\ TypeOf[t] # "extract_document"
  BY RowFacts DEF CreateStoryJob
<1>2. CASE UNCHANGED durable
  BY <1>1, <1>2, IdleRequest DEF IInv, Control, ProcessOK
<1>3. CASE InsertJob(t) /\ Remember(t, k, created + 1) /\ UNCHANGED targetState
  <2>1. replay' \in [JobType -> [Key -> Job \cup {None}]]
    BY <1>3, RememberOK DEF InsertJob
  <2>. QED BY <1>1, <1>3, <2>1, RowFacts, CreatingRequest DEF TargetRowsOK
<1>. QED BY <1>2, <1>3 DEF CreateStoryJob

(* A refused request leaves the rows as its first transaction left them.   *)
LEMMA RequestFailsStep ==
  ASSUME IInv, NEW t \in Target, RequestFails(t)
  PROVE  IInv' /\ CancelKept
<1>1. busy \in 0 .. MaxBusy /\ MaxBusy \in Nat
  BY ConstantsAssumption DEF IInv, Control, ProcessOK
<1>2. busy' \in 0 .. MaxBusy /\ busy' # 0
  BY <1>1 DEF RequestFails
<1>. QED BY <1>2, RowFacts, IdleRequest DEF RequestFails

(* A whole-book run and its job appear together.                           *)
LEMMA CreateWholeBookRunStep ==
  ASSUME IInv, NEW t \in Target, NEW k \in Key, CreateWholeBookRun(t, k)
  PROVE  IInv' /\ CancelKept
<1>1. replay' \in [JobType -> [Key -> Job \cup {None}]]
  BY RememberOK DEF CreateWholeBookRun, InsertJob
<1>. QED BY <1>1, RowFacts, CreatingRequest DEF CreateWholeBookRun, TargetRowsOK

(* A casting run is reused, or appears together with its job.              *)
LEMMA CreateCastingRunStep ==
  ASSUME IInv, NEW t \in Target, NEW k \in Key, CreateCastingRun(t, k)
  PROVE  IInv' /\ CancelKept
<1>1. /\ Serving /\ UNCHANGED <<worker, process, busy, inflight>>
      /\ TypeOf[t] = "analyze_casting"
  BY DEF CreateCastingRun
<1>2. ASSUME NEW j \in Existing, Remember(t, k, j),
             UNCHANGED <<created, jobVars, endVars, checkpoint, publications, stale>>
      PROVE  IInv' /\ CancelKept
  <2>1. replay' \in [JobType -> [Key -> Job \cup {None}]]
    BY <1>2, RowFacts, RememberOK
  <2>2. AttemptRowsOK' /\ TargetRowsOK'
    BY <1>2, <2>1, RowFacts DEF AttemptRowsOK, TargetRowsOK, jobVars, endVars
  <2>. QED BY <1>1, <1>2, <2>2, RowFacts, BookkeepingRequest DEF endVars
<1>3. CASE InsertJob(t) /\ Remember(t, k, created + 1) /\ SetStatus(t, "pending")
  <2>1. replay' \in [JobType -> [Key -> Job \cup {None}]]
    BY <1>3, RememberOK DEF InsertJob
  <2>2. "pending" \in StatusColumn(TypeOf[t])
    BY <1>1 DEF StatusColumn
  <2>. QED BY <1>1, <1>3, <2>1, <2>2, RowFacts, SetStatusOK, CreatingRequest
<1>. QED BY <1>2, <1>3 DEF CreateCastingRun, ReusableJobs

(* A generation request makes its job and marks its session in one         *)
(* transaction.                                                            *)
LEMMA CreateAuditionJobStep ==
  ASSUME IInv, NEW t \in Target, NEW k \in Key, CreateAuditionJob(t, k)
  PROVE  IInv' /\ CancelKept
<1>1. replay' \in [JobType -> [Key -> Job \cup {None}]]
  BY RememberOK DEF CreateAuditionJob, InsertJob
<1>2. "pending" \in StatusColumn(TypeOf[t])
  BY DEF CreateAuditionJob, StatusColumn
<1>. QED BY <1>1, <1>2, RowFacts, SetStatusOK, CreatingRequest DEF CreateAuditionJob

(* Superseding an input touches no job.                                    *)
LEMMA SupersedeInputStep ==
  ASSUME IInv, NEW t \in Target, SupersedeInput(t)
  PROVE  IInv' /\ CancelKept
<1>1. /\ targetState' \in [Row -> RowStates]
      /\ \A u \in Target : targetState'[RowOf(u)] \in StatusColumn(TypeOf[u])
  <2>1. CASE TypeOf[t] = "generate_audition"
    <3>1. "invalidated" \in StatusColumn(TypeOf[t]) /\ SetStatus(t, "invalidated")
      BY <2>1 DEF StatusColumn, SupersedeInput
    <3>. QED BY <3>1, SetStatusOK, RowFacts
  <2>2. CASE TypeOf[t] # "generate_audition"
    BY <2>2, RowFacts DEF TargetRowsOK, SupersedeInput
  <2>. QED BY <2>1, <2>2
<1>2. AttemptRowsOK' /\ TargetRowsOK'
  BY <1>1, RowFacts DEF SupersedeInput, AttemptRowsOK, TargetRowsOK, jobVars
<1>. QED BY <1>2, RowFacts, BookkeepingRequest DEF SupersedeInput

(* A cancellation keeps the job active and its key in place.               *)
LEMMA CancelStep ==
  ASSUME IInv, NEW j \in Existing, Cancel(j)
  PROVE  IInv' /\ CancelKept
<1>1. /\ ~OtherActive(j) /\ activeKey' = [activeKey EXCEPT ![target[j]] = j]
      /\ target[j] \in Target
  BY OnlyActive, RowFacts DEF IInv, Cancel, Active, RowsComplete, TargetRowsOK
<1>2. Data'
  <2>1. cancelling' \in [Job -> BOOLEAN]
    BY RowFacts DEF Cancel, JobRowsOK
  <2>2. AttemptRowsOK'
    BY RowFacts DEF Cancel, AttemptRowsOK, jobVars, keptVars
  <2>3. UNCHANGED <<created, target, attempt, resuming, retryable, replay,
                    publications, stale, targetState>>
    BY DEF Cancel, jobVars, keptVars
  <2>4. state' = [state EXCEPT ![j] = "cancel_requested"] /\ Announce(j, "cancel_requested")
    BY DEF Cancel
  <2>5. attempt' \in [Job -> 0 .. MaxAttempts] /\ \A i \in Existing : attempt'[i] \in Attempt
    BY <2>3, RowFacts DEF JobRowsOK, RowsComplete
  <2>6. /\ targetState' \in [Row -> RowStates]
        /\ \A u \in Target : targetState'[RowOf(u)] \in StatusColumn(TypeOf[u])
        /\ resuming' \in [Job -> BOOLEAN] /\ retryable' \in [Job -> BOOLEAN]
    BY <2>3, RowFacts DEF TargetRowsOK, JobRowsOK
  <2>. QED BY <1>1, <2>1, <2>2, <2>3, <2>4, <2>5, <2>6, ActivateData
           DEF IInv, ActiveStates
<1>3. /\ state'[j] = "cancel_requested" /\ state[j] \in {"queued", "running"}
      /\ \A i \in Job \ {j} : state'[i] = state[i]
  BY RowFacts DEF Cancel, JobRowsOK
<1>4. Existing' = Existing /\ Serving /\ UNCHANGED <<worker, process, inflight, busy>>
  BY DEF Existing, Cancel
<1>5. Control'
  BY <1>3, <1>4, RowFacts, RequestControl DEF IInv, Control, ProcessOK
<1>. QED BY <1>2, <1>3, <1>5, RowFacts DEF IInv, CancelKept

(* Another attempt of a job that ended: no other job of its target is      *)
(* active, so the key it takes is free.                                    *)
LEMMA QueueNewAttemptStep ==
  ASSUME IInv, Serving, NEW j \in Existing, NEW r \in BOOLEAN, QueueNewAttempt(j, r),
         state[j] \in {"failed", "interrupted"}
  PROVE  IInv' /\ CancelKept
<1> DEFINE a == NextAttempt(j)
<1>1. /\ ~OtherActive(j) /\ a \in Attempt /\ target[j] \in Target /\ j \in Job
      /\ a \in 0 .. MaxAttempts
  BY RowFacts, ConstantsAssumption DEF QueueNewAttempt, RowsComplete, Attempt
<1>2. Data'
  <2>1. /\ cancelling' \in [Job -> BOOLEAN] /\ resuming' \in [Job -> BOOLEAN]
        /\ retryable' \in [Job -> BOOLEAN]
    BY RowFacts DEF QueueNewAttempt, JobRowsOK
  <2>2. AttemptRowsOK'
    <3>1. outcome' \in [Job -> [Attempt -> EndStates \cup {"none", "open"}]]
      BY <1>1, RowFacts DEF QueueNewAttempt, AttemptRowsOK
    <3>2. producer' \in [Job -> [Attempt -> Version \cup {None}]]
      BY <1>1, RowFacts DEF QueueNewAttempt, AttemptRowsOK, IInv, Control, ProcessOK
    <3>. QED BY <3>1, <3>2, RowFacts DEF QueueNewAttempt, AttemptRowsOK, keptVars
  <2>3. UNCHANGED <<created, target, replay, publications, stale, targetState>>
    BY DEF QueueNewAttempt, keptVars
  <2>4. /\ state' = [state EXCEPT ![j] = "queued"] /\ Announce(j, "queued")
        /\ activeKey' = [activeKey EXCEPT ![target[j]] = j]
    BY DEF QueueNewAttempt, AcquireActiveKey
  <2>5. attempt' = [attempt EXCEPT ![j] = a]
    BY DEF QueueNewAttempt
  <2>6. attempt' \in [Job -> 0 .. MaxAttempts] /\ \A i \in Existing : attempt'[i] \in Attempt
    <3> HIDE DEF a
    <3>. QED BY <1>1, <2>5, RowFacts DEF JobRowsOK, RowsComplete
  <2>7. /\ targetState' \in [Row -> RowStates]
        /\ \A u \in Target : targetState'[RowOf(u)] \in StatusColumn(TypeOf[u])
    BY <2>3, RowFacts DEF TargetRowsOK
  <2>. QED BY <1>1, <2>1, <2>2, <2>3, <2>4, <2>6, <2>7, ActivateData
           DEF IInv, ActiveStates
<1>3. state'[j] = "queued" /\ \A i \in Job \ {j} : state'[i] = state[i]
  BY RowFacts DEF QueueNewAttempt, JobRowsOK
<1>4. Existing' = Existing /\ UNCHANGED <<worker, process, inflight, busy>>
  BY DEF Existing, QueueNewAttempt
<1>5. Control'
  BY <1>3, <1>4, RowFacts, RequestControl DEF IInv, Control, ProcessOK
<1>. QED BY <1>2, <1>3, <1>5, RowFacts DEF IInv, CancelKept

(* Retry queues an attempt of a failed job.                                *)
LEMMA RetryStep ==
  ASSUME IInv, NEW j \in Existing, Retry(j)
  PROVE  IInv' /\ CancelKept
BY QueueNewAttemptStep DEF Retry

(* Resume queues an attempt of an interrupted job, whichever checkpoint it *)
(* finds.                                                                  *)
LEMMA ResumeStep ==
  ASSUME IInv, NEW j \in Existing, Resume(j)
  PROVE  IInv' /\ CancelKept
BY QueueNewAttemptStep DEF Resume

(* Every request keeps the invariant and every cancellation.               *)
LEMMA RequestStep ==
  ASSUME IInv, Request
  PROVE  IInv' /\ CancelKept
BY ImportSourceStep, ReadStorySnapshotStep, RequestFailsStep, SupersedeInputStep,
   CreateExtractionJobStep, CreateStoryJobStep, CreateWholeBookRunStep,
   CreateCastingRunStep, CreateAuditionJobStep, CancelStep, RetryStep, ResumeStep
   DEF Request

-----------------------------------------------------------------------------
(* The worker between jobs.                                                *)

(* Reading the stop flag changes no row; a stopping worker only leaves.    *)
LEMMA LoopTopStep ==
  ASSUME IInv, LoopTop
  PROVE  IInv' /\ CancelKept
<1>1. Data' /\ UNCHANGED <<created, target, state>>
  BY DataUnchanged DEF IInv, LoopTop, durable, jobVars, endVars
<1>2. /\ pc \in {"top", "gate"} /\ pc' \in {"exited", "settle", "claim"}
      /\ Stopping => pc' = "exited"
      /\ UNCHANGED <<cur, active, process, inflight, busy>>
  BY DEF LoopTop, GoTo, WorkerFrame
<1>3. /\ Control /\ Existing' = Existing /\ service \in {"serving", "sealed", "stopping"}
  BY <1>1, <1>2, WorkerPhases DEF IInv, Existing
<1>4. ProcessOK'
  BY <1>2, <1>3 DEF Control, ProcessOK, process, IdlePoints
<1>5. WorkerOnlyInService' /\ WorkerOwnsItsJob' /\ ActiveIsCurrent' /\ DeadOnlyWhenBusy'
      /\ GracefulStop' /\ StopCaptured'
  BY <1>2, <1>3 DEF WorkerOnlyInService, WorkerOwnsItsJob, ActiveIsCurrent, DeadOnlyWhenBusy,
                    GracefulStop, StopCaptured, process, JobPoints, PastStart
<1>6. OrphansAreJobless'
  BY <1>1, <1>2, <1>3 DEF Control, OrphansAreJobless, process, JobsOf
<1>7. RunningPlaced'
  BY <1>1, <1>2, <1>3 DEF Control, RunningPlaced, process, JobPoints, Stopping
<1>. QED BY <1>1, <1>4, <1>5, <1>6, <1>7 DEF IInv, Control, CancelKept

(* A step at settle or claim that leaves no job running, or one running    *)
(* job in the hands of the worker.                                         *)
LEMMA BetweenJobsControl ==
  ASSUME IInv, pc \in {"settle", "claim"},
         UNCHANGED <<created, target, active, process, inflight, busy>>,
         \/ /\ pc' \in {"top", "gate"} /\ cur' = cur
            /\ \A j \in Existing : state'[j] # "running"
         \/ /\ pc' = "claimed" /\ cur' \in Existing /\ state'[cur'] = "running"
            /\ \A j \in Existing \ {cur'} : state'[j] # "running"
  PROVE  Control'
<1>1. /\ Control /\ Existing' = Existing /\ service \in {"serving", "sealed", "stopping"}
      /\ Existing \subseteq Job
  BY WorkerPhases, RowFacts DEF IInv, Existing
<1>2. ProcessOK'
  BY <1>1 DEF Control, ProcessOK, process, IdlePoints, JobPoints
<1>3. WorkerOnlyInService' /\ WorkerOwnsItsJob' /\ ActiveIsCurrent' /\ DeadOnlyWhenBusy'
      /\ GracefulStop' /\ StopCaptured'
  BY <1>1 DEF WorkerOnlyInService, WorkerOwnsItsJob, ActiveIsCurrent, DeadOnlyWhenBusy,
              GracefulStop, StopCaptured, process, JobPoints, PastStart
<1>4. OrphansAreJobless'
  BY <1>1 DEF Control, OrphansAreJobless, process, JobsOf
<1>5. RunningPlaced'
  BY <1>1 DEF RunningPlaced, JobPoints
<1>. QED BY <1>2, <1>3, <1>4, <1>5 DEF Control

(* A settlement ends one job whose cancellation was requested.             *)
LEMMA SettlePendingCancellationStep ==
  ASSUME IInv, SettlePendingCancellation
  PROVE  IInv' /\ CancelKept
<1>1. pc = "settle" /\ UNCHANGED <<process, inflight, busy>>
  BY DEF SettlePendingCancellation, At, WorkerFrame
<1>2. ASSUME NEW j \in Existing, state[j] = "cancel_requested", EndAttempt(j, "cancelled"),
             UNCHANGED restVars, GoTo("top")
      PROVE  IInv' /\ CancelKept
  <2>1. /\ UNCHANGED <<created, target, attempt, resuming, producer, keptVars>>
        /\ retryable' \in [Job -> BOOLEAN]
    BY <1>2, RowFacts DEF restVars, jobVars, JobRowsOK
  <2>2. /\ Data' /\ state'[j] = "cancelled"
        /\ \A i \in Job \ {j} : state'[i] = state[i]
    BY <1>2, <2>1, EndAttemptData DEF IInv, Unsuccessful
  <2>3. \A i \in Existing : state'[i] # "running"
    BY <1>1, <2>2, NobodyRuns, RowFacts
  <2>4. Control'
    BY <1>1, <1>2, <2>1, <2>3, BetweenJobsControl DEF GoTo
  <2>. QED BY <2>2, <2>4, RowFacts DEF IInv, CancelKept
<1>3. CASE UNCHANGED durable /\ GoTo("gate")
  <2>1. Data' /\ UNCHANGED <<created, target, state>>
    BY <1>3, DataUnchanged DEF IInv, durable, jobVars, endVars
  <2>2. Control'
    BY <1>1, <1>3, <2>1, NobodyRuns, BetweenJobsControl DEF GoTo
  <2>. QED BY <2>1, <2>2 DEF IInv, CancelKept
<1>. QED BY <1>2, <1>3 DEF SettlePendingCancellation, Oldest

(* A claim makes one queued job the only running one.                      *)
LEMMA ClaimNextStep ==
  ASSUME IInv, ClaimNext
  PROVE  IInv' /\ CancelKept
<1>1. pc = "claim" /\ UNCHANGED <<process, inflight, busy>>
  BY DEF ClaimNext, At, WorkerFrame
<1>2. ASSUME NEW j \in Existing, state[j] = "queued",
             state' = [state EXCEPT ![j] = "running"], Announce(j, "running"),
             \/ Typ(j) \in Mirrored /\ SetStatus(target[j], "running")
             \/ UNCHANGED targetState,
             cur' = j, pc' = "claimed",
             UNCHANGED <<restVars, cancelling, outcome, execution, activeKey, active>>
      PROVE  IInv' /\ CancelKept
  <2>1. /\ ~OtherActive(j) /\ activeKey' = [activeKey EXCEPT ![target[j]] = j]
        /\ target[j] \in Target /\ Typ(j) = TypeOf[target[j]]
    BY <1>2, OnlyActive, RowFacts DEF IInv, Active, RowsComplete, TargetRowsOK, Typ
  <2>2. UNCHANGED <<created, target, attempt, resuming, retryable, producer, checkpoint,
                    replay, publications, stale, cancelling, outcome, execution>>
    BY <1>2 DEF restVars, jobVars, keptVars
  <2>3. /\ targetState' \in [Row -> RowStates]
        /\ \A u \in Target : targetState'[RowOf(u)] \in StatusColumn(TypeOf[u])
    <3>1. CASE UNCHANGED targetState
      BY <3>1, RowFacts DEF TargetRowsOK
    <3>2. CASE Typ(j) \in Mirrored /\ SetStatus(target[j], "running")
      <4>1. "running" \in StatusColumn(TypeOf[target[j]])
        BY <2>1, <3>2 DEF Mirrored, StatusColumn
      <4>. QED BY <2>1, <3>2, <4>1, RowFacts, SetStatusOK
    <3>. QED BY <1>2, <3>1, <3>2
  <2>4. AttemptRowsOK'
    BY <2>2, RowFacts DEF AttemptRowsOK
  <2>5. /\ attempt' \in [Job -> 0 .. MaxAttempts] /\ \A i \in Existing : attempt'[i] \in Attempt
        /\ cancelling' \in [Job -> BOOLEAN]
        /\ resuming' \in [Job -> BOOLEAN] /\ retryable' \in [Job -> BOOLEAN]
    BY <2>2, RowFacts DEF JobRowsOK, RowsComplete
  <2>6. Data'
    BY <1>2, <2>1, <2>2, <2>3, <2>4, <2>5, ActivateData DEF IInv, ActiveStates
  <2>7. state'[j] = "running" /\ \A i \in Job \ {j} : state'[i] = state[i]
    BY <1>2, RowFacts DEF JobRowsOK
  <2>8. \A i \in Existing \ {j} : state'[i] # "running"
    BY <1>1, <2>7, NobodyRuns, RowFacts
  <2>9. Control'
    BY <1>1, <1>2, <2>2, <2>7, <2>8, BetweenJobsControl
  <2>. QED BY <1>2, <2>6, <2>7, <2>9, RowFacts DEF IInv, CancelKept
<1>3. CASE UNCHANGED durable /\ GoTo("top")
  <2>1. Data' /\ UNCHANGED <<created, target, state>>
    BY <1>3, DataUnchanged DEF IInv, durable, jobVars, endVars
  <2>2. Control'
    BY <1>1, <1>3, <2>1, NobodyRuns, BetweenJobsControl DEF GoTo
  <2>. QED BY <2>1, <2>2 DEF IInv, CancelKept
<1>. QED BY <1>2, <1>3 DEF ClaimNext, Oldest

-----------------------------------------------------------------------------
(* The worker inside a job's pipeline.  First the moves its steps share.   *)

(* Where a step of a pipeline may go.                                      *)
Onward(next) ==
  /\ pc' = next /\ next \in JobPoints \ {"claimed"}
  /\ next \in PastStart => pc \in PastStart \/ ~Stopping
  /\ cur' = cur /\ active' = cur

(* A step of a pipeline that writes nothing.                               *)
LEMMA QuietMove ==
  ASSUME IInv, pc \in JobPoints, UNCHANGED <<durable, process, inflight>>,
         busy' \in 0 .. MaxBusy, NEW next, Onward(next)
  PROVE  IInv' /\ CancelKept
<1>1. Data' /\ UNCHANGED <<created, target, state>>
  BY DataUnchanged DEF IInv, durable, jobVars, endVars
<1>2. Control'
  BY <1>1, CurrentJob, PipelineControl DEF Onward, JobPoints
<1>. QED BY <1>1, <1>2 DEF IInv, CancelKept

(* A transaction that keeps the states of the jobs.                        *)
LEMMA WritingMove ==
  ASSUME IInv, pc \in JobPoints, UNCHANGED <<process, inflight, busy>>,
         UNCHANGED <<created, jobVars, state, cancelling, lastEvent, activeKey>>,
         AttemptRowsOK', TargetRowsOK', NEW next, Onward(next)
  PROVE  IInv' /\ CancelKept
<1>1. Data' /\ UNCHANGED <<created, target, state>>
  BY SameJobsData DEF IInv, jobVars
<1>2. busy' \in 0 .. MaxBusy
  BY DEF IInv, Control, ProcessOK
<1>3. Control'
  BY <1>1, <1>2, CurrentJob, PipelineControl DEF Onward, JobPoints
<1>. QED BY <1>1, <1>3 DEF IInv, CancelKept

(* A transaction that ends the job.                                        *)
LEMMA EndingMove ==
  ASSUME IInv, pc \in JobPoints, UNCHANGED <<process, inflight, busy>>, GoTo("finish"),
         pc # "claimed", Data', UNCHANGED <<created, target>>,
         state'[cur] \notin {"running", "cancel_requested"},
         state[cur] = "cancel_requested" => state'[cur] = "cancelled",
         \A j \in Job \ {cur} : state'[j] = state[j]
  PROVE  IInv' /\ CancelKept
<1>1. busy' \in 0 .. MaxBusy /\ active' = cur
  BY DEF IInv, Control, ProcessOK, ActiveIsCurrent, GoTo
<1>2. Control'
  BY <1>1, PipelineControl DEF GoTo, JobPoints, PastStart
<1>. QED BY <1>2, CurrentJob, RowFacts DEF IInv, CancelKept

(* A pipeline that finds its job cancelled ends it as cancelled.           *)
LEMMA CancelledOutMove ==
  ASSUME IInv, pc \in JobPoints \ {"claimed"}, UNCHANGED <<process, inflight, busy>>,
         CancelledOut
  PROVE  IInv' /\ CancelKept
<1>1. /\ UNCHANGED <<created, target, attempt, resuming, producer, keptVars>>
      /\ retryable' \in [Job -> BOOLEAN]
  BY RowFacts DEF CancelledOut, restVars, jobVars, JobRowsOK
<1>2. /\ Data' /\ state'[cur] = "cancelled"
      /\ \A i \in Job \ {cur} : state'[i] = state[i]
  BY <1>1, CurrentJob, EndAttemptData DEF IInv, Unsuccessful, CancelledOut
<1>. QED BY <1>1, <1>2, EndingMove DEF CancelledOut

(* A pipeline that meets the stop flag ends its job.                       *)
LEMMA InterruptedOutMove ==
  ASSUME IInv, pc \in JobPoints \ {"claimed"}, UNCHANGED <<process, inflight, busy>>,
         InterruptedOut
  PROVE  IInv' /\ CancelKept
<1>1. UNCHANGED <<created, target>>
  BY DEF InterruptedOut, restVars, jobVars
<1>2. /\ Data' /\ state'[cur] \notin {"running", "cancel_requested"}
      /\ state[cur] = "cancel_requested" => state'[cur] = "cancelled"
      /\ \A i \in Job \ {cur} : state'[i] = state[i]
  BY CurrentJob, InterruptData DEF IInv, InterruptedOut
<1>. QED BY <1>1, <1>2, EndingMove DEF InterruptedOut

(* Leaving a pipeline without ending its job: the loop settles a requested *)
(* cancellation, and the stop interrupts the job it captured.              *)
LEMMA LeavingMove ==
  ASSUME IInv, pc \in JobPoints \ {"claimed"}, UNCHANGED <<process, inflight, busy>>,
         UNCHANGED durable, GoTo("finish"),
         state[cur] = "running" => Stopping /\ pc \in PastStart
  PROVE  IInv' /\ CancelKept
<1>1. Data' /\ UNCHANGED <<created, target, state>>
  BY DataUnchanged DEF IInv, durable, jobVars, endVars
<1>2. busy' \in 0 .. MaxBusy /\ active' = cur
  BY DEF IInv, Control, ProcessOK, ActiveIsCurrent, GoTo
<1>3. Control'
  BY <1>1, <1>2, PipelineControl DEF GoTo, JobPoints, PastStart
<1>. QED BY <1>1, <1>3 DEF IInv, CancelKept

(* GoTo keeps the job and the note of it.                                  *)
LEMMA OnwardBy ==
  ASSUME IInv, pc \in JobPoints \ {"claimed"}, NEW next \in JobPoints \ {"claimed"},
         GoTo(next), next \in PastStart => pc \in PastStart \/ ~Stopping
  PROVE  Onward(next)
BY DEF IInv, Control, ActiveIsCurrent, GoTo, Onward

(* A boundary ends the job or lets it pass.                                *)
LEMMA BoundaryStep ==
  ASSUME IInv, NEW here \in JobPoints \ {"claimed"}, NEW next \in JobPoints \ {"claimed"},
         Boundary(here, next)
  PROVE  IInv' /\ CancelKept
<1>1. pc \in JobPoints \ {"claimed"} /\ UNCHANGED <<process, inflight, busy>>
  BY DEF Boundary, At, WorkerFrame
<1>2. CASE InterruptedOut
  BY <1>1, <1>2, InterruptedOutMove
<1>3. CASE CancelledOut
  BY <1>1, <1>3, CancelledOutMove
<1>4. CASE ~Stopping /\ UNCHANGED durable /\ GoTo(next)
  <2>1. Onward(next)
    BY <1>1, <1>4, OnwardBy
  <2>2. busy' \in 0 .. MaxBusy
    BY <1>1 DEF IInv, Control, ProcessOK
  <2>. QED BY <1>1, <1>4, <2>1, <2>2, QuietMove
<1>. QED BY <1>2, <1>3, <1>4 DEF Boundary

(* A progress update repeats the state the event log already has.          *)
LEMMA UpdateProgressStep ==
  ASSUME IInv, NEW here \in PastStart, NEW next \in PastStart, UpdateProgress(here, next)
  PROVE  IInv' /\ CancelKept
<1>1. /\ pc \in JobPoints \ {"claimed"} /\ pc \in PastStart
      /\ UNCHANGED <<process, inflight, busy>>
  BY DEF UpdateProgress, At, WorkerFrame, PastStart
<1>2. CASE CancelledOut
  BY <1>1, <1>2, CancelledOutMove
<1>3. CASE /\ state[cur] = "running" /\ Announce(cur, "running")
           /\ UNCHANGED <<restVars, state, cancelling, outcome, execution, activeKey,
                          targetState>>
           /\ GoTo(next)
  <2>1. lastEvent' = lastEvent
    <3>1. lastEvent[cur] = "running" /\ lastEvent \in [Job -> ActiveStates \cup EndStates \cup {"none"}]
      BY <1>1, <1>3, CurrentJob, RowFacts DEF IInv, Data, EventLogAgrees, JobRowsOK
    <3>2. lastEvent' = [lastEvent EXCEPT ![cur] = "running"]
      BY <1>3 DEF Announce
    <3>. QED BY <3>1, <3>2, <1>1, CurrentJob
  <2>2. UNCHANGED durable
    BY <1>3, <2>1 DEF durable, restVars, endVars
  <2>3. Onward(next)
    BY <1>1, <1>3, OnwardBy DEF PastStart
  <2>4. busy' \in 0 .. MaxBusy
    BY <1>1 DEF IInv, Control, ProcessOK
  <2>. QED BY <1>1, <2>2, <2>3, <2>4, QuietMove
<1>. QED BY <1>2, <1>3 DEF UpdateProgress

(* The note of the active job is written before the first boundary.        *)
LEMMA NoteActiveStep ==
  ASSUME IInv, NoteActive
  PROVE  IInv' /\ CancelKept
<1>1. pc = "claimed" /\ UNCHANGED <<process, inflight, busy, durable>> /\ Onward("start")
  BY DEF NoteActive, At, WorkerFrame, Onward, JobPoints, PastStart
<1>2. busy' \in 0 .. MaxBusy
  BY <1>1 DEF IInv, Control, ProcessOK
<1>. QED BY <1>1, <1>2, QuietMove DEF JobPoints

(* Reading the input refuses the job, opens its execution row, or leaves   *)
(* it to the loop.                                                         *)
LEMMA ReadInputStep ==
  ASSUME IInv, ReadInput
  PROVE  IInv' /\ CancelKept
<1>1. /\ pc = "input" /\ pc \in JobPoints \ {"claimed"} /\ pc \in PastStart
      /\ UNCHANGED <<process, inflight, busy>> /\ busy' \in 0 .. MaxBusy
  BY DEF ReadInput, At, WorkerFrame, PastStart, JobPoints, IInv, Control, ProcessOK
<1>2. CASE Fails("failFinal")
  <2>1. Onward("failFinal")
    BY <1>1, <1>2, OnwardBy DEF Fails, JobPoints
  <2>. QED BY <1>1, <1>2, <2>1, QuietMove DEF Fails
<1>3. CASE /\ execution' = [execution EXCEPT ![cur] = OpenExecution(cur)]
           /\ UNCHANGED <<restVars, state, cancelling, lastEvent, outcome, activeKey,
                          targetState>>
           /\ GoTo(IF Restored THEN "checkpointed" ELSE "work")
  <2>1. AttemptRowsOK' /\ TargetRowsOK'
    <3>1. execution' \in [Job -> [Attempt -> EndStates \cup {"none"}]]
      BY <1>1, <1>3, CurrentJob, RowFacts DEF OpenExecution, AttemptRowsOK, EndStates
    <3>. QED BY <1>3, <3>1, RowFacts DEF AttemptRowsOK, TargetRowsOK, restVars, jobVars, keptVars
  <2>2. \E next \in {"checkpointed", "work"} : GoTo(next)
    BY <1>3
  <2>3. \E next : Onward(next)
    BY <1>1, <2>2, OnwardBy DEF JobPoints
  <2>. QED BY <1>1, <1>3, <2>1, <2>3, WritingMove DEF restVars
<1>4. CASE state[cur] = "cancel_requested" /\ UNCHANGED durable /\ GoTo("finish")
  BY <1>1, <1>4, LeavingMove
<1>. QED BY <1>2, <1>3, <1>4 DEF ReadInput

(* The work itself ends in a result, a failure, an interruption or a       *)
(* cancellation.                                                           *)
LEMMA WorkStep ==
  ASSUME IInv, Work
  PROVE  IInv' /\ CancelKept
<1>1. /\ pc \in JobPoints \ {"claimed"} /\ pc \in PastStart
      /\ UNCHANGED <<process, inflight, busy>> /\ busy' \in 0 .. MaxBusy
  BY DEF Work, At, WorkerFrame, PastStart, JobPoints, IInv, Control, ProcessOK
<1>2. ASSUME NEW next \in {"save", "publishing", "failRetryable", "failFinal"},
             UNCHANGED durable, GoTo(next)
      PROVE  IInv' /\ CancelKept
  <2>1. Onward(next)
    BY <1>1, <1>2, OnwardBy DEF JobPoints
  <2>. QED BY <1>1, <1>2, <2>1, QuietMove
<1>3. CASE InterruptedOut
  BY <1>1, <1>3, InterruptedOutMove
<1>4. CASE CancelledOut
  BY <1>1, <1>4, CancelledOutMove
<1>5. CASE state[cur] = "cancel_requested" /\ UNCHANGED durable /\ GoTo("finish")
  BY <1>1, <1>5, LeavingMove
<1>. QED BY <1>2, <1>3, <1>4, <1>5 DEF Work, Fails

(* Saving a result keeps the job running.                                  *)
LEMMA SaveCheckpointStep ==
  ASSUME IInv, SaveCheckpoint
  PROVE  IInv' /\ CancelKept
<1>1. /\ pc \in JobPoints \ {"claimed"} /\ pc \in PastStart
      /\ UNCHANGED <<process, inflight, busy>>
  BY DEF SaveCheckpoint, At, WorkerFrame, PastStart, JobPoints
<1>2. CASE CancelledOut
  BY <1>1, <1>2, CancelledOutMove
<1>3. CASE /\ checkpoint' = [checkpoint EXCEPT ![cur] = [@ EXCEPT ![attempt[cur]] = version]]
           /\ UNCHANGED <<created, jobVars, endVars, replay, publications, stale>>
           /\ GoTo("checkpointed")
  <2>1. AttemptRowsOK' /\ TargetRowsOK'
    <3>1. checkpoint' \in [Job -> [Attempt -> Version \cup {None}]]
      BY <1>1, <1>3, CurrentJob, RowFacts DEF AttemptRowsOK, IInv, Control, ProcessOK
    <3>. QED BY <1>3, <3>1, RowFacts DEF AttemptRowsOK, TargetRowsOK, jobVars, endVars
  <2>2. Onward("checkpointed")
    BY <1>1, <1>3, OnwardBy DEF JobPoints
  <2>. QED BY <1>1, <1>3, <2>1, <2>2, WritingMove DEF endVars
<1>. QED BY <1>2, <1>3 DEF SaveCheckpoint

(* Publication ends the job and takes its result in one transaction.       *)
LEMMA CommitPublicationMove ==
  ASSUME IInv, pc = "publish", UNCHANGED <<process, inflight, busy>>, state[cur] = "running",
         CommitPublication, GoTo("finish")
  PROVE  IInv' /\ CancelKept
<1> DEFINE t == target[cur]
           Ended == {cur}
           end == [i \in Ended |-> "succeeded"]
<1>1. /\ pc \in JobPoints /\ cur \in Existing /\ cur \in Job /\ t \in Target
      /\ attempt[cur] \in Attempt
  BY CurrentJob DEF JobPoints
<1>2. /\ state' = [state EXCEPT ![cur] = "succeeded"]
      /\ lastEvent' = [lastEvent EXCEPT ![cur] = "succeeded"]
      /\ ReleaseActiveKeys({cur})
      /\ UNCHANGED <<created, target, attempt, retryable, producer, replay, stale>>
  BY DEF CommitPublication, Succeed, Announce
<1>3. JobRowsOK'
  <2>1. /\ cancelling' \in [Job -> BOOLEAN] /\ resuming' \in [Job -> BOOLEAN]
    BY <1>1, RowFacts DEF CommitPublication, Succeed, JobRowsOK
  <2>. QED BY <1>1, <1>2, <2>1, RowFacts DEF JobRowsOK, EndStates
<1>4. AttemptRowsOK'
  <2>1. outcome' \in [Job -> [Attempt -> EndStates \cup {"none", "open"}]]
    BY <1>1, RowFacts DEF CommitPublication, Succeed, AttemptRowsOK, EndStates
  <2>2. execution' \in [Job -> [Attempt -> EndStates \cup {"none"}]]
    BY <1>1, RowFacts DEF CommitPublication, ExecutionEnded, AttemptRowsOK, EndStates
  <2>3. checkpoint' \in [Job -> [Attempt -> Version \cup {None}]]
    BY <1>1, RowFacts DEF CommitPublication, AttemptRowsOK, IInv, Control, ProcessOK
  <2>. QED BY <1>2, <2>1, <2>2, <2>3, RowFacts DEF AttemptRowsOK
<1>5. TargetRowsOK'
  <2>1. /\ targetState' \in [Row -> RowStates]
        /\ \A u \in Target : targetState'[RowOf(u)] \in StatusColumn(TypeOf[u])
    <3>1. CASE Typ(cur) \in Mirrored
      <4>1. SetStatus(t, "complete") /\ "complete" \in StatusColumn(TypeOf[t])
        BY <3>1 DEF CommitPublication, Typ, Mirrored, StatusColumn
      <4>. QED BY <1>1, <4>1, SetStatusOK, RowFacts
    <3>2. CASE Typ(cur) \notin Mirrored
      BY <3>2, RowFacts DEF CommitPublication, TargetRowsOK
    <3>. QED BY <3>1, <3>2
  <2>2. publications' \in [Target -> Nat]
    BY <1>1, RowFacts DEF CommitPublication, TargetRowsOK
  <2>3. activeKey' \in [Target -> Job \cup {None}]
    BY <1>2, RowFacts DEF ReleaseActiveKeys, TargetRowsOK
  <2>. QED BY <1>2, <2>1, <2>2, <2>3, RowFacts DEF TargetRowsOK
<1>6. /\ state'[cur] = "succeeded"
      /\ \A j \in Job \ {cur} : state'[j] = state[j]
      /\ \A j \in Job : state'[j] = IF j \in Ended THEN end[j] ELSE state[j]
      /\ \A j \in Job : lastEvent'[j] = IF j \in Ended THEN end[j] ELSE lastEvent[j]
  BY <1>1, <1>2, RowFacts DEF JobRowsOK
<1>7. Ended \in SUBSET Existing /\ end \in [Ended -> EndStates] /\ ReleaseActiveKeys(Ended)
  BY <1>1, <1>2 DEF EndStates
<1>8. Data'
  <2> HIDE DEF Ended, end
  <2>. QED BY <1>2, <1>3, <1>4, <1>5, <1>6, <1>7, EndedData DEF IInv
<1>. QED BY <1>1, <1>2, <1>6, <1>8, EndingMove

(* Publication commits, refuses, or ends the job unpublished.              *)
LEMMA PublishStep ==
  ASSUME IInv, Publish
  PROVE  IInv' /\ CancelKept
<1>1. /\ pc = "publish" /\ pc \in JobPoints \ {"claimed"} /\ pc \in PastStart
      /\ UNCHANGED <<process, inflight, busy>> /\ busy' \in 0 .. MaxBusy
  BY DEF Publish, At, WorkerFrame, PastStart, JobPoints, IInv, Control, ProcessOK
<1>2. CASE CancelledOut
  BY <1>1, <1>2, CancelledOutMove
<1>3. CASE InterruptedOut
  BY <1>1, <1>3, InterruptedOutMove
<1>4. CASE Stopping /\ UNCHANGED durable /\ GoTo("finish")
  BY <1>1, <1>4, LeavingMove
<1>5. ASSUME NEW how \in {"failRetryable", "failFinal"}, Fails(how)
      PROVE  IInv' /\ CancelKept
  <2>1. Onward(how)
    BY <1>1, <1>5, OnwardBy DEF JobPoints, Fails
  <2>. QED BY <1>1, <1>5, <2>1, QuietMove DEF Fails
<1>6. CASE state[cur] = "running" /\ CommitPublication /\ GoTo("finish")
  BY <1>1, <1>6, CommitPublicationMove
<1>. QED BY <1>2, <1>3, <1>4, <1>5, <1>6
         DEF Publish, PublishGeneration, PublishAnalysis, CommitOrRefuse

(* A failure is recorded only for a job that is still running.             *)
LEMMA FinishFailedStep ==
  ASSUME IInv, FinishFailed
  PROVE  IInv' /\ CancelKept
<1>1. /\ pc \in JobPoints \ {"claimed"} /\ UNCHANGED <<process, inflight, busy>>
  BY DEF FinishFailed, WorkerFrame, JobPoints
<1>2. CASE CancelledOut
  BY <1>1, <1>2, CancelledOutMove
<1>3. CASE /\ state[cur] = "running" /\ EndAttempt(cur, "failed")
           /\ retryable' = [retryable EXCEPT ![cur] = (pc = "failRetryable")]
           /\ UNCHANGED <<created, target, attempt, resuming, producer, keptVars>>
           /\ GoTo("finish")
  <2>1. retryable' \in [Job -> BOOLEAN]
    BY <1>3, RowFacts DEF JobRowsOK
  <2>2. /\ Data' /\ state'[cur] = "failed"
        /\ \A i \in Job \ {cur} : state'[i] = state[i]
    BY <1>1, <1>3, <2>1, CurrentJob, EndAttemptData DEF IInv, Unsuccessful
  <2>. QED BY <1>1, <1>3, <2>2, EndingMove
<1>. QED BY <1>2, <1>3 DEF FinishFailed

(* The loop gives up its job only when it has ended or a stop has captured *)
(* it.                                                                     *)
LEMMA FinishStep ==
  ASSUME IInv, Finish
  PROVE  IInv' /\ CancelKept
<1>1. /\ pc = "finish" /\ pc' = "top" /\ cur' = None /\ active' = None
      /\ UNCHANGED <<durable, process, inflight, busy>>
  BY DEF Finish, At, WorkerFrame
<1>2. Data' /\ UNCHANGED <<created, target, state>>
  BY <1>1, DataUnchanged DEF IInv, durable, jobVars, endVars
<1>3. Control /\ Existing' = Existing /\ service \in {"serving", "sealed", "stopping"}
  BY <1>1, <1>2, WorkerPhases DEF IInv, Existing
<1>4. ProcessOK'
  BY <1>1, <1>3 DEF Control, ProcessOK, process, IdlePoints
<1>5. WorkerOnlyInService' /\ WorkerOwnsItsJob' /\ ActiveIsCurrent' /\ DeadOnlyWhenBusy'
      /\ GracefulStop' /\ StopCaptured'
  BY <1>1, <1>3 DEF WorkerOnlyInService, WorkerOwnsItsJob, ActiveIsCurrent, DeadOnlyWhenBusy,
                    GracefulStop, StopCaptured, process, JobPoints, PastStart
<1>6. OrphansAreJobless'
  BY <1>1, <1>2, <1>3 DEF Control, OrphansAreJobless, process, JobsOf
<1>7. RunningPlaced'
  BY <1>1, <1>2, <1>3 DEF Control, RunningPlaced, process, JobPoints, Stopping
<1>. QED BY <1>2, <1>4, <1>5, <1>6, <1>7 DEF IInv, Control, CancelKept

(* Every step of the worker keeps the invariant and every cancellation.    *)
LEMMA WorkerStepStep ==
  ASSUME IInv, WorkerStep
  PROVE  IInv' /\ CancelKept
<1>1. CASE StartBoundary
  BY <1>1, BoundaryStep DEF StartBoundary, JobPoints
<1>2. CASE CheckpointBoundary
  BY <1>2, BoundaryStep DEF CheckpointBoundary, JobPoints
<1>3. CASE PublicationBoundary
  BY <1>3, BoundaryStep DEF PublicationBoundary, JobPoints
<1>4. CASE LoadProgress
  BY <1>4, UpdateProgressStep DEF LoadProgress, PastStart, JobPoints
<1>5. CASE PublishingProgress
  BY <1>5, UpdateProgressStep DEF PublishingProgress, PastStart, JobPoints
<1>. QED BY <1>1, <1>2, <1>3, <1>4, <1>5, LoopTopStep, SettlePendingCancellationStep,
            ClaimNextStep, NoteActiveStep, ReadInputStep, WorkStep, SaveCheckpointStep,
            PublishStep, FinishFailedStep, FinishStep
         DEF WorkerStep

(* A refused transaction costs the worker its step, its attempt or, where  *)
(* nothing catches the exception, its thread.                              *)
LEMMA WorkerBusyStep ==
  ASSUME IInv, WorkerBusy
  PROVE  IInv' /\ CancelKept
<1>1. /\ UNCHANGED <<durable, process, inflight>>
      /\ busy' \in 0 .. MaxBusy /\ busy' # 0
  <2>1. busy \in 0 .. MaxBusy /\ MaxBusy \in Nat
    BY ConstantsAssumption DEF IInv, Control, ProcessOK
  <2>. QED BY <2>1 DEF WorkerBusy
<1>2. Data' /\ UNCHANGED <<created, target, state>> /\ Existing' = Existing
  BY <1>1, DataUnchanged DEF IInv, durable, jobVars, endVars, Existing
<1>3. CASE pc \in JobPoints \ {"claimed"} /\ GoTo("failRetryable")
  <2>1. Onward("failRetryable")
    BY <1>3, OnwardBy DEF JobPoints, PastStart
  <2>. QED BY <1>1, <1>3, <2>1, QuietMove
<1>4. CASE pc \in {"settle", "claim"} /\ GoTo("top")
  <2>1. Control /\ service \in {"serving", "sealed", "stopping"}
        /\ \A j \in Existing : state[j] # "running"
    BY <1>4, WorkerPhases, NobodyRuns DEF IInv
  <2>2. ProcessOK'
    BY <1>1, <1>4, <2>1 DEF Control, ProcessOK, process, GoTo, IdlePoints
  <2>3. WorkerOnlyInService' /\ WorkerOwnsItsJob' /\ ActiveIsCurrent' /\ DeadOnlyWhenBusy'
        /\ GracefulStop' /\ StopCaptured' /\ RunningPlaced'
    BY <1>1, <1>2, <1>4, <2>1
       DEF WorkerOnlyInService, WorkerOwnsItsJob, ActiveIsCurrent, DeadOnlyWhenBusy,
           GracefulStop, StopCaptured, RunningPlaced, process, GoTo, JobPoints, PastStart
  <2>4. OrphansAreJobless'
    BY <1>1, <1>2, <2>1 DEF Control, OrphansAreJobless, process, JobsOf
  <2>. QED BY <1>2, <2>2, <2>3, <2>4 DEF IInv, Control, CancelKept
<1>5. CASE Outside /\ pc' = "dead" /\ cur' = None /\ active' = None
  <2>1. Control /\ service \in {"serving", "sealed", "stopping"}
    BY <1>5, WorkerPhases DEF IInv, Outside
  <2>2. ProcessOK'
    BY <1>1, <1>5, <2>1 DEF Control, ProcessOK, process, IdlePoints
  <2>3. WorkerOnlyInService' /\ WorkerOwnsItsJob' /\ ActiveIsCurrent' /\ DeadOnlyWhenBusy'
        /\ GracefulStop' /\ StopCaptured' /\ RunningPlaced'
    BY <1>1, <1>2, <1>5, <2>1
       DEF WorkerOnlyInService, WorkerOwnsItsJob, ActiveIsCurrent, DeadOnlyWhenBusy,
           GracefulStop, StopCaptured, RunningPlaced, process, JobPoints, PastStart
  <2>4. OrphansAreJobless'
    BY <1>1, <1>2, <2>1 DEF Control, OrphansAreJobless, process, JobsOf
  <2>. QED BY <1>2, <2>2, <2>3, <2>4 DEF IInv, Control, CancelKept
<1>. QED BY <1>3, <1>4, <1>5 DEF WorkerBusy

-----------------------------------------------------------------------------
(* The service process.                                                    *)

(* A step of the process that writes nothing and leaves the worker where   *)
(* it is, or takes it away.                                                *)
LEMMA ProcessMove ==
  ASSUME IInv, UNCHANGED <<durable, busy>>, Control'
  PROVE  IInv' /\ CancelKept
BY DataUnchanged DEF IInv, CancelKept, durable, endVars

(* A start changes no row.                                                 *)
LEMMA StartStep ==
  ASSUME IInv, Start
  PROVE  IInv' /\ CancelKept
<1>1. /\ Control /\ service \in {"down", "closed"} /\ pc = "off" /\ service' = "reconciling"
      /\ UNCHANGED <<durable, worker, orphans, captured, inflight, busy>>
  BY DEF IInv, Control, WorkerOnlyInService, Start
<1>2. starts' \in 0 .. MaxStarts
  <2>1. starts \in 0 .. MaxStarts /\ MaxStarts \in Nat
    BY ConstantsAssumption DEF IInv, Control, ProcessOK
  <2>. QED BY <2>1 DEF Start
<1>3. version' \in Version
  <2>1. version \in 1 .. MaxVersion /\ MaxVersion \in Nat
    BY ConstantsAssumption DEF IInv, Control, ProcessOK, Version
  <2>. QED BY <2>1 DEF Start, Version
<1>4. ProcessOK'
  BY <1>1, <1>2, <1>3 DEF Control, ProcessOK, worker
<1>5. Control'
  BY <1>1, <1>4
     DEF Control, WorkerOnlyInService, WorkerOwnsItsJob, ActiveIsCurrent, OrphansAreJobless,
         StopCaptured, Stopping, RunningPlaced, DeadOnlyWhenBusy, GracefulStop, worker,
         JobPoints, PastStart
<1>. QED BY <1>1, <1>5, ProcessMove

(* What startup reconciliation does to the rows.                           *)
LEMMA ReconcileData ==
  ASSUME IInv, ReconcileInterrupted
  PROVE  /\ Data'
         /\ \A j \in Existing : /\ state'[j] # "running"
                                /\ state[j] \in {"cancel_requested", "cancelled"} =>
                                     state'[j] = "cancelled"
<1> DEFINE end == [j \in Abandoned |-> IF state[j] = "running" THEN "interrupted"
                                       ELSE "cancelled"]
<1>1. PICK last \in [Row -> Abandoned \cup {None}] :
        /\ \A r \in Row : LET mine == {j \in Abandoned : RowOf(target[j]) = r}
                          IN  last[r] \in (IF mine = {} THEN {None} ELSE mine)
        /\ EndAttempts(end, last)
  BY DEF ReconcileInterrupted
<1>2. Abandoned \in SUBSET Existing /\ end \in [Abandoned -> Unsuccessful]
  BY DEF Abandoned, Unsuccessful
<1>3. \A r \in Row : last[r] # None => RowOf(target[last[r]]) = r
  BY <1>1
<1>4. /\ UNCHANGED <<created, target, attempt, resuming, producer, keptVars>>
      /\ retryable' \in [Job -> BOOLEAN]
  BY RowFacts DEF ReconcileInterrupted, restVars, jobVars, JobRowsOK
<1>5. /\ Data'
      /\ \A j \in Job : state'[j] = IF j \in Abandoned THEN end[j] ELSE state[j]
  <2>1. EndAttempts(end, last)
    BY <1>1
  <2> HIDE DEF end
  <2>. QED BY <1>2, <1>3, <1>4, <2>1, EndAttemptsData DEF IInv
<1>. QED BY <1>5, RowFacts DEF Abandoned

(* After reconciliation no job is running and the orphans are known.       *)
LEMMA ReconcileInterruptedStep ==
  ASSUME IInv, ReconcileInterrupted
  PROVE  IInv' /\ CancelKept
<1>1. /\ Control /\ pc = "off" /\ service' = "recovering"
      /\ UNCHANGED <<created, target, version, captured, starts, worker, inflight, busy>>
      /\ orphans' = {t \in Target : Jobless(t)}
  BY DEF IInv, Control, WorkerOnlyInService, ReconcileInterrupted, restVars, jobVars
<1>2. ProcessOK'
  BY <1>1 DEF Control, ProcessOK, worker
<1>3. \A j \in Existing' : state'[j] # "running"
  BY <1>1, ReconcileData DEF Existing
<1>4. OrphansAreJobless'
  BY <1>1 DEF OrphansAreJobless, Jobless, JobsOf, Existing
<1>5. Control'
  BY <1>1, <1>2, <1>3, <1>4
     DEF Control, WorkerOnlyInService, WorkerOwnsItsJob, ActiveIsCurrent, StopCaptured,
         Stopping, RunningPlaced, DeadOnlyWhenBusy, GracefulStop, worker, JobPoints, PastStart
<1>. QED BY <1>5, ReconcileData DEF IInv, CancelKept

(* Start-up gives an orphaned extraction its only job.                     *)
LEMMA RecoverOrphanStep ==
  ASSUME IInv, NEW t \in Target, RecoverOrphan(t)
  PROVE  IInv' /\ CancelKept
<1>1. /\ Control /\ service = "recovering" /\ pc = "off" /\ JobsOf(t) = {} /\ InsertJob(t)
      /\ orphans' = orphans \ {t}
      /\ UNCHANGED <<service, version, captured, starts, worker, inflight, busy,
                     targetState, replay>>
  BY DEF IInv, Control, WorkerOnlyInService, OrphansAreJobless, RecoverOrphan
<1>2. Data'
  BY <1>1, RowFacts, InsertJobData DEF IInv, Control, ProcessOK, TargetRowsOK
<1>3. /\ created \in 0 .. MaxJobs /\ created' = created + 1 /\ created' \in 1 .. MaxJobs
      /\ MaxJobs \in Nat
  BY <1>1, RowFacts, ConstantsAssumption DEF InsertJob, Job, JobRowsOK
<1>4. /\ Existing' = Existing \cup {created'} /\ created' \notin Existing
      /\ created' \in Job
  BY <1>3 DEF Existing, Job
<1>5. /\ state' = [state EXCEPT ![created'] = "queued"]
      /\ target' = [target EXCEPT ![created'] = t]
  BY <1>1, <1>3 DEF InsertJob
<1>6. /\ state'[created'] = "queued" /\ target'[created'] = t
      /\ \A j \in Existing : state'[j] = state[j] /\ target'[j] = target[j]
  BY <1>4, <1>5, RowFacts DEF JobRowsOK
<1>7. ProcessOK'
  BY <1>1 DEF Control, ProcessOK, worker
<1>8. OrphansAreJobless'
  <2>1. ASSUME NEW u \in orphans' PROVE JobsOf(u)' = {}
    BY <1>1, <1>4, <1>6, <2>1 DEF Control, OrphansAreJobless, JobsOf
  <2>. QED BY <1>1, <2>1 DEF Control, OrphansAreJobless
<1>9. RunningPlaced'
  BY <1>1, <1>4, <1>6 DEF Control, RunningPlaced, JobPoints, Stopping
<1>10. Control'
  BY <1>1, <1>7, <1>8, <1>9
     DEF Control, WorkerOnlyInService, WorkerOwnsItsJob, ActiveIsCurrent, StopCaptured,
         Stopping, DeadOnlyWhenBusy, GracefulStop, worker, JobPoints, PastStart
<1>. QED BY <1>2, <1>6, <1>10 DEF IInv, CancelKept

(* The worker thread starts when nothing is running and no orphan is left. *)
LEMMA ServeStep ==
  ASSUME IInv, Serve
  PROVE  IInv' /\ CancelKept
<1>1. /\ Control /\ service = "recovering" /\ pc = "off" /\ orphans = {}
      /\ service' = "serving" /\ pc' = "top"
      /\ UNCHANGED <<durable, cur, active, version, orphans, captured, starts, inflight, busy>>
  BY DEF IInv, Control, WorkerOnlyInService, Serve
<1>2. ProcessOK'
  BY <1>1 DEF Control, ProcessOK, IdlePoints
<1>3. UNCHANGED <<created, state>> /\ Existing' = Existing
  BY <1>1 DEF durable, endVars, Existing
<1>4. Control'
  BY <1>1, <1>2, <1>3
     DEF Control, WorkerOnlyInService, WorkerOwnsItsJob, ActiveIsCurrent, OrphansAreJobless,
         StopCaptured, Stopping, RunningPlaced, DeadOnlyWhenBusy, GracefulStop,
         JobPoints, PastStart
<1>. QED BY <1>1, <1>4, ProcessMove

(* Sealing the runtimes changes no row.                                    *)
LEMMA BeginRuntimeShutdownStep ==
  ASSUME IInv, BeginRuntimeShutdown
  PROVE  IInv' /\ CancelKept
<1>1. /\ Control /\ service = "serving" /\ service' = "sealed"
      /\ UNCHANGED <<durable, worker, version, orphans, captured, starts, inflight, busy>>
  BY DEF IInv, BeginRuntimeShutdown, Serving
<1>2. ProcessOK'
  BY <1>1 DEF Control, ProcessOK, worker
<1>3. UNCHANGED <<created, state>> /\ Existing' = Existing
  BY <1>1 DEF durable, endVars, Existing
<1>4. Control'
  BY <1>1, <1>2, <1>3
     DEF Control, WorkerOnlyInService, WorkerOwnsItsJob, ActiveIsCurrent, OrphansAreJobless,
         StopCaptured, Stopping, RunningPlaced, DeadOnlyWhenBusy, GracefulStop, worker
<1>. QED BY <1>1, <1>4, ProcessMove

(* The stop reads the note of the active job: a worker past its first      *)
(* boundary has written it, one before it will meet the flag.              *)
LEMMA StopWorkerStep ==
  ASSUME IInv, StopWorker
  PROVE  IInv' /\ CancelKept
<1>1. /\ Control /\ service = "sealed" /\ service' = "stopping" /\ captured' = active
      /\ UNCHANGED <<durable, worker, version, orphans, starts, inflight, busy>>
  BY DEF IInv, StopWorker
<1>2. ProcessOK'
  BY <1>1 DEF Control, ProcessOK, worker
<1>3. UNCHANGED <<created, state>> /\ Existing' = Existing
  BY <1>1 DEF durable, endVars, Existing
<1>4. StopCaptured'
  BY <1>1 DEF Control, ActiveIsCurrent, StopCaptured, worker, PastStart, JobPoints
<1>5. RunningPlaced'
  BY <1>1, <1>3 DEF Control, RunningPlaced, Stopping, worker
<1>6. Control'
  BY <1>1, <1>2, <1>3, <1>4, <1>5
     DEF Control, WorkerOnlyInService, WorkerOwnsItsJob, ActiveIsCurrent, OrphansAreJobless,
         DeadOnlyWhenBusy, GracefulStop, worker
<1>. QED BY <1>1, <1>6, ProcessMove

(* After the join only the captured job can still be running, and it is    *)
(* interrupted; a worker that died may leave another one to the next start. *)
LEMMA JoinWorkerStep ==
  ASSUME IInv, JoinWorker
  PROVE  IInv' /\ CancelKept
<1>1. /\ Control /\ service = "stopping" /\ pc \in {"exited", "dead"}
      /\ service' = "closed" /\ captured' = None
      /\ pc' = "off" /\ cur' = None /\ active' = None
      /\ UNCHANGED <<restVars, created, target, version, orphans, starts, inflight, busy>>
  BY DEF IInv, JoinWorker, Stopping, Off, restVars, jobVars
<1>2. /\ Data' /\ CancelKept /\ Existing' = Existing
      /\ captured # None => /\ state'[captured] # "running"
                            /\ \A j \in Job \ {captured} : state'[j] = state[j]
      /\ captured = None => state' = state
  <2>1. CASE captured = None
    <3>1. UNCHANGED durable /\ state' = state
      BY <1>1, <2>1 DEF JoinWorker, durable, restVars, endVars
    <3>. QED BY <2>1, <3>1, <1>1, DataUnchanged DEF IInv, CancelKept, Existing
  <2>2. CASE captured # None
    <3>1. CASE captured \in Existing
      <4>1. Interrupt(captured) /\ UNCHANGED restVars
        BY <2>2 DEF JoinWorker
      <4>2. /\ Data' /\ state'[captured] \notin {"running", "cancel_requested"}
            /\ state[captured] \in {"cancel_requested", "cancelled"} =>
                 state'[captured] = "cancelled"
            /\ \A i \in Job \ {captured} : state'[i] = state[i]
        BY <3>1, <4>1, InterruptData DEF IInv
      <4>. QED BY <2>2, <4>2, <1>1, RowFacts DEF CancelKept, Existing
    <3>2. CASE captured \notin Existing
      <4>1. captured \in Job /\ state[captured] = "none"
        BY <1>1, <2>2, <3>2, RowFacts DEF Control, ProcessOK, RowsComplete
      <4>2. UNCHANGED durable /\ state' = state
        BY <1>1, <2>2, <4>1 DEF JoinWorker, Interrupt, durable, restVars, endVars
      <4>. QED BY <2>2, <4>1, <4>2, <1>1, DataUnchanged DEF IInv, CancelKept, Existing
    <3>. QED BY <3>1, <3>2
  <2>. QED BY <2>1, <2>2
<1>3. ProcessOK'
  BY <1>1 DEF Control, ProcessOK, IdlePoints
<1>4. GracefulStop'
  <2>1. ASSUME NEW j \in Existing, state[j] = "running", busy = 0 PROVE captured = j
    BY <1>1, <2>1 DEF Control, RunningPlaced, DeadOnlyWhenBusy, JobPoints
  <2>2. ASSUME NEW j \in Existing, busy = 0 PROVE state'[j] # "running"
    <3>1. j \in Job /\ j # None /\ captured \in Job \cup {None}
      BY <1>1, ConstantsAssumption DEF Existing, Job, None, IInv, Data, JobRowsOK, Control, ProcessOK
    <3>2. CASE state[j] = "running"
      BY <2>1, <2>2, <3>1, <3>2, <1>2
    <3>3. CASE state[j] # "running"
      BY <3>1, <3>3, <1>2
    <3>. QED BY <3>2, <3>3
  <2>. QED BY <1>1, <1>2, <2>2 DEF GracefulStop
<1>5. OrphansAreJobless'
  BY <1>1 DEF Control, OrphansAreJobless
<1>6. Control'
  BY <1>1, <1>3, <1>4, <1>5
     DEF Control, WorkerOnlyInService, WorkerOwnsItsJob, ActiveIsCurrent,
         StopCaptured, Stopping, RunningPlaced, DeadOnlyWhenBusy, JobPoints, PastStart
<1>. QED BY <1>2, <1>6 DEF IInv

(* A crash takes the worker away and leaves its job to the next start.     *)
LEMMA CrashStep ==
  ASSUME IInv, Crash
  PROVE  IInv' /\ CancelKept
<1>1. /\ Control /\ service' = "down" /\ pc' = "off" /\ cur' = None /\ active' = None
      /\ inflight' = {} /\ orphans' = {} /\ captured' = None
      /\ UNCHANGED <<durable, version, starts, busy>>
  BY DEF IInv, Crash, Off
<1>2. ProcessOK'
  BY <1>1 DEF Control, ProcessOK, IdlePoints
<1>3. Control'
  BY <1>1, <1>2
     DEF Control, WorkerOnlyInService, WorkerOwnsItsJob, ActiveIsCurrent, OrphansAreJobless,
         StopCaptured, Stopping, RunningPlaced, DeadOnlyWhenBusy, GracefulStop,
         JobPoints, PastStart
<1>. QED BY <1>1, <1>3, ProcessMove

-----------------------------------------------------------------------------
(* The invariant.                                                          *)

(* The empty database satisfies the invariant.                             *)
LEMMA InitIInv == ASSUME Init PROVE IInv
<1>1. Existing = {} /\ \A t \in Target : JobsOf(t) = {}
  BY DEF Init, Existing, JobsOf
<1>2. JobRowsOK
  BY ConstantsAssumption DEF Init, JobRowsOK, EndStates
<1>3. AttemptRowsOK
  BY DEF Init, AttemptRowsOK
<1>4. TargetRowsOK
  <2>1. \A t \in Target : "absent" \in StatusColumn(TypeOf[t]) /\ RowOf(t) \in Row
    BY DEF StatusColumn, Row
  <2>. QED BY <2>1 DEF Init, TargetRowsOK, RowStates
<1>5. RowsComplete
  BY <1>1 DEF Init, RowsComplete
<1>6. ActiveKeyNamesActiveJob /\ EventLogAgrees /\ OneJobPerExtraction
  BY <1>1 DEF Init, ActiveKeyNamesActiveJob, EventLogAgrees, OneJobPerExtraction
<1>7. ProcessOK
  BY ConstantsAssumption DEF Init, ProcessOK, IdlePoints, Version
<1>8. Control
  BY <1>1, <1>7
     DEF Init, Control, WorkerOnlyInService, WorkerOwnsItsJob, ActiveIsCurrent,
         OrphansAreJobless, StopCaptured, Stopping, RunningPlaced, DeadOnlyWhenBusy,
         GracefulStop, JobPoints, PastStart
<1>. QED BY <1>2, <1>3, <1>4, <1>5, <1>6, <1>8 DEF IInv, Data

(* A step that changes nothing.                                            *)
LEMMA StutterStep ==
  ASSUME IInv, UNCHANGED vars
  PROVE  IInv' /\ CancelKept
<1>1. /\ UNCHANGED <<durable, busy>> /\ UNCHANGED <<worker, process, inflight>>
      /\ UNCHANGED <<created, target, state>>
  BY DEF vars, durable, jobVars, endVars
<1>2. Control'
  BY <1>1 DEF IInv, Control, ProcessOK, WorkerOnlyInService, WorkerOwnsItsJob, ActiveIsCurrent,
              OrphansAreJobless, StopCaptured, Stopping, RunningPlaced, DeadOnlyWhenBusy,
              GracefulStop, worker, process, Existing, JobsOf
<1>. QED BY <1>1, <1>2, ProcessMove

(* Every step keeps the invariant and every cancellation.                  *)
LEMMA NextStep ==
  ASSUME IInv, [Next]_vars
  PROVE  IInv' /\ CancelKept
<1>1. CASE Recovery
  BY <1>1, StartStep, ReconcileInterruptedStep, ServeStep, StopWorkerStep, JoinWorkerStep,
     RecoverOrphanStep DEF Recovery
<1>. QED BY <1>1, RequestStep, WorkerStepStep, WorkerBusyStep, BeginRuntimeShutdownStep,
            CrashStep, StutterStep DEF Next

(* The inductive invariant holds in every reachable state.                 *)
THEOREM Invariance == Spec => []IInv
<1>1. Init => IInv
  BY InitIInv
<1>2. IInv /\ [Next]_vars => IInv'
  BY NextStep
<1>. QED BY <1>1, <1>2, PTL DEF Spec

(* Every row and every process variable keeps its type: in particular no   *)
(* status row ever takes a value its own column does not have.             *)
THEOREM TypeCorrect == Spec => []TypeOK
<1>1. IInv => TypeOK
  BY DEF IInv, Data, Control, TypeOK
<1>. QED BY <1>1, Invariance, PTL

(* The guard of _acquire_active_key and _active_conflict is exact: the     *)
(* active_job row of a target names its active job and nothing else.       *)
THEOREM ActiveKeyExact == Spec => []ActiveKeyNamesActiveJob
<1>1. IInv => ActiveKeyNamesActiveJob
  BY DEF IInv, Data
<1>. QED BY <1>1, Invariance, PTL

(* No interleaving of creations, retries, resumes and recoveries makes two *)
(* jobs of one target active.                                              *)
THEOREM NoTwins == Spec => []OneActivePerTarget
<1>1. IInv => OneActivePerTarget
  BY DEF IInv, Data, ActiveKeyNamesActiveJob, OneActivePerTarget
<1>. QED BY <1>1, Invariance, PTL

(* Both together: creation, retry, resume and recovery cannot make two     *)
(* active jobs of a target, nor lose or keep a key for a wrong one.        *)
THEOREM TargetExclusion == Spec => []TargetsAreExclusive
<1>1. OneActivePerTarget /\ ActiveKeyNamesActiveJob => TargetsAreExclusive
  BY DEF TargetsAreExclusive
<1>. QED BY <1>1, NoTwins, ActiveKeyExact, PTL

(* The newest event of a job carries its state: a client that follows the  *)
(* log is never left with an outdated state.                               *)
THEOREM EventLogFaithful == Spec => []EventLogAgrees
<1>1. IInv => EventLogAgrees
  BY DEF IInv, Data
<1>. QED BY <1>1, Invariance, PTL

(* Requests, replays and start-up recovery together create at most one job *)
(* for an extraction.                                                      *)
THEOREM ExtractionJobUnique == Spec => []OneJobPerExtraction
<1>1. IInv => OneJobPerExtraction
  BY DEF IInv, Data
<1>. QED BY <1>1, Invariance, PTL

(* Nobody ends the job a pipeline is working on but the pipeline.          *)
THEOREM WorkerKeepsItsJob == Spec => []WorkerOwnsItsJob
<1>1. IInv => WorkerOwnsItsJob
  BY DEF IInv, Control
<1>. QED BY <1>1, Invariance, PTL

(* A running job has a live worker, except where the next start, the end   *)
(* of a stop or the death of the thread accounts for it.                   *)
THEOREM NoForgottenJob == Spec => []RunningJobHasWorker
<1>1. IInv => RunningJobHasWorker
  BY DEF IInv, Control, RunningPlaced, RunningJobHasWorker
<1>. QED BY <1>1, Invariance, PTL

(* Worker and job agree about each other, across crashes and stops.        *)
THEOREM WorkerJobAgreement == Spec => []WorkerAndJobAgree
<1>1. RunningJobHasWorker /\ WorkerOwnsItsJob => WorkerAndJobAgree
  BY DEF WorkerAndJobAgree
<1>. QED BY <1>1, NoForgottenJob, WorkerKeepsItsJob, PTL

(* A graceful stop, wherever it met the worker, leaves no job running.     *)
THEOREM StopIsClean == Spec => []GracefulStop
<1>1. IInv => GracefulStop
  BY DEF IInv, Control
<1>. QED BY <1>1, Invariance, PTL

(* A committed cancellation is never overruled by a publication, a         *)
(* failure, an interruption or a new attempt.                              *)
THEOREM CancellationWins == Spec => CancelWins
<1>1. IInv /\ [Next]_vars => CancelKept
  BY NextStep
<1>2. CancelKept => (\A j \in Existing : state[j] \in {"cancel_requested", "cancelled"} =>
                       state'[j] \in {state[j], "cancelled"})
  BY DEF CancelKept
<1>. QED BY <1>1, <1>2, Invariance, PTL DEF Spec, CancelWins

-----------------------------------------------------------------------------
(* JobQueue implements JobLifecycle: each action of the queue is one step  *)
(* of the life cycle of one job, the recovery of all of them, or leaves    *)
(* the jobs as they were.                                                  *)

(* A step of the queue, seen from the life cycle.                          *)
LifecycleStep == [Lifecycle!Next]_(Lifecycle!lifecycle)

(* The steps that the actions are mapped to.                               *)

(* Steps that keep target, state and attempt of every job.                 *)
LEMMA StillStep == ASSUME UNCHANGED <<target, state, attempt>> PROVE LifecycleStep
BY DEF LifecycleStep, Lifecycle!lifecycle

(* A step of one job that is still in the job's life.                      *)
LEMMA MoveStep ==
  ASSUME NEW j \in Job, NEW s, state' = [state EXCEPT ![j] = s],
         UNCHANGED <<target, attempt>>,
         \/ state[j] \in {"queued", "running"} /\ s = "cancel_requested"
         \/ state[j] = "cancel_requested" /\ s = "cancelled"
         \/ state[j] = "running" /\ s \in {"succeeded", "failed", "interrupted"}
         \/ /\ state[j] = "queued" /\ s = "running"
            /\ \A i \in Job : state[i] # "running" /\ (state[i] = "queued" => j <= i)
  PROVE  LifecycleStep
<1>1. Lifecycle!Move(j, s)
  BY DEF Lifecycle!Move
<1>2. Lifecycle!Cancel(j) \/ Lifecycle!Settle(j) \/ Lifecycle!Finish(j) \/ Lifecycle!Claim(j)
  BY <1>1 DEF Lifecycle!Cancel, Lifecycle!Settle, Lifecycle!Finish, Lifecycle!Claim
<1>. QED BY <1>2 DEF LifecycleStep, Lifecycle!Next

(* A job is created for a target without an active job.                    *)
LEMMA CreateStep ==
  ASSUME IInv, NEW t \in Target, InsertJob(t)
  PROVE  LifecycleStep
<1> DEFINE j == created + 1
<1>1. created \in 0 .. MaxJobs /\ j \in Job /\ MaxJobs \in Nat
  BY RowFacts, ConstantsAssumption DEF InsertJob, JobRowsOK
<1>2. j \notin Existing /\ Existing \subseteq Job /\ None \notin Job
  BY <1>1 DEF Existing, Job, None
<1>3. activeKey[t] = None
  BY <1>2 DEF InsertJob, AcquireActiveKey, IInv, Data, ActiveKeyNamesActiveJob, Holds, Active,
              ActiveStates, JobsOf
<1>4. \A i \in Job \ {j} : target[i] = t => state[i] \notin ActiveStates
  BY <1>2, <1>3, RowFacts DEF IInv, Data, ActiveKeyNamesActiveJob, RowsComplete, Active, ActiveStates
<1>5. state[j] = "none"
  BY <1>1, <1>2, RowFacts DEF RowsComplete
<1>6. Lifecycle!Create(j, t)
  BY <1>4, <1>5 DEF InsertJob, Lifecycle!Create, Lifecycle!Free, Lifecycle!Unsettled, ActiveStates
<1>. QED BY <1>1, <1>6 DEF LifecycleStep, Lifecycle!Next

(* Another attempt of a job whose target is free.                          *)
LEMMA RequeueStep ==
  ASSUME IInv, NEW j \in Existing, NEW r \in BOOLEAN, QueueNewAttempt(j, r),
         state[j] = "interrupted" \/ (state[j] = "failed" /\ attempt[j] < MaxJobAttempts)
  PROVE  LifecycleStep
<1>1. j \in Job /\ Existing \subseteq Job
  BY RowFacts
<1>2. \A i \in Job \ {j} : target[i] = target[j] => state[i] \notin ActiveStates
  BY <1>1, RowFacts DEF QueueNewAttempt, OtherActive, JobsOf, Holds, RowsComplete, ActiveStates
<1>3. Lifecycle!Requeue(j)
  BY <1>2 DEF QueueNewAttempt, NextAttempt, MaxJobAttempts, Lifecycle!Requeue, Lifecycle!Free,
              Lifecycle!Unsettled, ActiveStates
<1>. QED BY <1>1, <1>3 DEF LifecycleStep, Lifecycle!Next

(* The end of one attempt is a move of its job.                            *)
LEMMA EndAttemptStep ==
  ASSUME IInv, NEW j \in Existing, NEW o \in Unsuccessful, EndAttempt(j, o),
         UNCHANGED <<target, attempt>>,
         \/ state[j] = "cancel_requested" /\ o = "cancelled"
         \/ state[j] = "running" /\ o \in {"failed", "interrupted"}
  PROVE  LifecycleStep
<1>1. j \in Job
  BY RowFacts
<1>2. state' = [state EXCEPT ![j] = o]
  <2>1. state' = [i \in Job |-> IF i \in {j} THEN o ELSE state[i]]
    BY DEF EndAttempt, EndAttempts
  <2>. QED BY <1>1, <2>1, RowFacts DEF JobRowsOK
<1>. QED BY <1>1, <1>2, MoveStep

(* A pipeline that meets a cancellation settles it.                        *)
LEMMA CancelledOutLifecycle ==
  ASSUME IInv, pc \in JobPoints, CancelledOut
  PROVE  LifecycleStep
BY CurrentJob, EndAttemptStep DEF CancelledOut, restVars, jobVars, Unsuccessful

(* An interruption settles a cancelled job and interrupts a running one.   *)
LEMMA InterruptLifecycle ==
  ASSUME IInv, NEW j \in Existing, Interrupt(j), UNCHANGED restVars
  PROVE  LifecycleStep
<1>1. UNCHANGED <<target, attempt>>
  BY DEF restVars, jobVars
<1>2. CASE state[j] = "cancel_requested" /\ EndAttempt(j, "cancelled")
  BY <1>1, <1>2, EndAttemptStep DEF Unsuccessful
<1>3. CASE state[j] = "running" /\ EndAttempt(j, "interrupted")
  BY <1>1, <1>3, EndAttemptStep DEF Unsuccessful
<1>4. CASE UNCHANGED endVars
  BY <1>1, <1>4, StillStep DEF endVars
<1>. QED BY <1>2, <1>3, <1>4 DEF Interrupt

(* A pipeline that meets the stop flag settles or interrupts its job.      *)
LEMMA InterruptedOutLifecycle ==
  ASSUME IInv, pc \in JobPoints, InterruptedOut
  PROVE  LifecycleStep
BY CurrentJob, InterruptLifecycle DEF InterruptedOut

(* Nothing durable changes.                                                *)
LEMMA QuietStep == ASSUME UNCHANGED durable PROVE LifecycleStep
BY StillStep DEF durable, jobVars, endVars

-----------------------------------------------------------------------------
(* The actions.                                                            *)

(* The cancellation of a queued or running job.                            *)
LEMMA CancelLifecycle ==
  ASSUME IInv, NEW j \in Existing, Cancel(j)
  PROVE  LifecycleStep
BY RowFacts, MoveStep DEF Cancel, jobVars

(* A request creates, cancels or queues one job, or none.                  *)
LEMMA RequestLifecycle ==
  ASSUME IInv, Request
  PROVE  LifecycleStep
<1>1. ASSUME NEW t \in Target, ImportSource(t) \/ ReadStorySnapshot(t) \/ RequestFails(t)
                                \/ SupersedeInput(t)
      PROVE  LifecycleStep
  <2>1. UNCHANGED <<target, state, attempt>>
    BY <1>1 DEF ImportSource, ReadStorySnapshot, RequestFails, SupersedeInput, durable,
                jobVars, endVars
  <2>. QED BY <2>1, StillStep
<1>2. ASSUME NEW t \in Target, NEW k \in Key,
             CreateExtractionJob(t, k) \/ CreateStoryJob(t, k) \/ CreateWholeBookRun(t, k)
             \/ CreateCastingRun(t, k) \/ CreateAuditionJob(t, k)
      PROVE  LifecycleStep
  <2>1. InsertJob(t) \/ UNCHANGED <<jobVars, state>>
    BY <1>2 DEF CreateExtractionJob, CreateStoryJob, CreateWholeBookRun, CreateCastingRun,
                CreateAuditionJob, durable, endVars
  <2>. QED BY <2>1, CreateStep, StillStep DEF jobVars
<1>3. ASSUME NEW j \in Existing, Retry(j) \/ Resume(j)
      PROVE  LifecycleStep
  BY <1>3, RequeueStep DEF Retry, Resume
<1>. QED BY <1>1, <1>2, <1>3, CancelLifecycle DEF Request

(* A claim takes the oldest queued job, and only when nothing runs.        *)
LEMMA ClaimLifecycle ==
  ASSUME IInv, ClaimNext
  PROVE  LifecycleStep
<1>1. ASSUME NEW j \in Existing, Oldest(j, "queued"),
             state' = [state EXCEPT ![j] = "running"], UNCHANGED restVars
      PROVE  LifecycleStep
  <2>1. \A i \in Existing : state[i] # "running"
    BY NobodyRuns DEF ClaimNext, At
  <2>2. \A i \in Job : state[i] # "running" /\ (state[i] = "queued" => j <= i)
    BY <1>1, <2>1, RowFacts DEF RowsComplete, Oldest
  <2>3. j \in Job /\ state[j] = "queued" /\ UNCHANGED <<target, attempt>>
    BY <1>1, RowFacts DEF Oldest, restVars, jobVars
  <2>. QED BY <1>1, <2>2, <2>3, MoveStep
<1>. QED BY <1>1, QuietStep DEF ClaimNext

(* Boundaries and progress updates pass or end the worker's job.           *)
LEMMA BoundaryLifecycle ==
  ASSUME IInv, NEW here \in JobPoints, NEW next, Boundary(here, next) \/ UpdateProgress(here, next)
  PROVE  LifecycleStep
<1>1. pc \in JobPoints
  BY DEF Boundary, UpdateProgress, At
<1>2. CASE UNCHANGED <<restVars, state>>
  BY <1>2, StillStep DEF restVars, jobVars
<1>. QED BY <1>1, <1>2, CancelledOutLifecycle, InterruptedOutLifecycle, QuietStep
         DEF Boundary, UpdateProgress

(* Publication makes a running job succeed.                                *)
LEMMA PublishLifecycle ==
  ASSUME IInv, Publish
  PROVE  LifecycleStep
<1>1. pc \in JobPoints
  BY DEF Publish, At, JobPoints
<1>2. CASE state[cur] = "running" /\ CommitPublication
  <2>1. state' = [state EXCEPT ![cur] = "succeeded"] /\ UNCHANGED <<target, attempt>>
    BY <1>2 DEF CommitPublication, Succeed
  <2>. QED BY <1>1, <1>2, <2>1, CurrentJob, MoveStep
<1>. QED BY <1>1, <1>2, CancelledOutLifecycle, InterruptedOutLifecycle, QuietStep
         DEF Publish, PublishGeneration, PublishAnalysis, CommitOrRefuse, Fails

(* A recorded failure ends a running job.                                  *)
LEMMA FinishFailedLifecycle ==
  ASSUME IInv, FinishFailed
  PROVE  LifecycleStep
<1>1. pc \in JobPoints
  BY DEF FinishFailed, JobPoints
<1>2. CASE /\ state[cur] = "running" /\ EndAttempt(cur, "failed")
           /\ UNCHANGED <<created, target, attempt, resuming, producer, keptVars>>
  BY <1>1, <1>2, CurrentJob, EndAttemptStep DEF Unsuccessful
<1>. QED BY <1>1, <1>2, CancelledOutLifecycle DEF FinishFailed

(* Every step of the worker is a step of one job, or of none.              *)
LEMMA WorkerLifecycle ==
  ASSUME IInv, WorkerStep
  PROVE  LifecycleStep
<1>1. CASE LoopTop \/ NoteActive \/ Finish
  BY <1>1, QuietStep DEF LoopTop, NoteActive, Finish
<1>2. CASE SettlePendingCancellation
  <2>1. ASSUME NEW j \in Existing, Oldest(j, "cancel_requested"), EndAttempt(j, "cancelled"),
               UNCHANGED restVars
        PROVE  LifecycleStep
    BY <2>1, EndAttemptStep DEF Oldest, restVars, jobVars, Unsuccessful
  <2>. QED BY <1>2, <2>1, QuietStep DEF SettlePendingCancellation
<1>3. CASE StartBoundary \/ LoadProgress \/ CheckpointBoundary \/ PublishingProgress
           \/ PublicationBoundary
  BY <1>3, BoundaryLifecycle
     DEF StartBoundary, LoadProgress, CheckpointBoundary, PublishingProgress,
         PublicationBoundary, JobPoints
<1>4. CASE ReadInput
  <2>1. CASE UNCHANGED <<restVars, state>>
    BY <2>1, StillStep DEF restVars, jobVars
  <2>. QED BY <1>4, <2>1, QuietStep DEF ReadInput, Fails
<1>5. CASE Work
  <2>1. pc \in JobPoints
    BY <1>5 DEF Work, At, JobPoints
  <2>. QED BY <1>5, <2>1, CancelledOutLifecycle, InterruptedOutLifecycle, QuietStep
           DEF Work, Fails
<1>6. CASE SaveCheckpoint
  <2>1. pc \in JobPoints
    BY <1>6 DEF SaveCheckpoint, At, JobPoints
  <2>2. CASE UNCHANGED <<jobVars, endVars>>
    BY <2>2, StillStep DEF jobVars, endVars
  <2>. QED BY <1>6, <2>1, <2>2, CancelledOutLifecycle DEF SaveCheckpoint
<1>. QED BY <1>1, <1>2, <1>3, <1>4, <1>5, <1>6, ClaimLifecycle, PublishLifecycle,
            FinishFailedLifecycle DEF WorkerStep

(* Reconciliation is the recovery of every job at once.                    *)
LEMMA ReconcileLifecycle ==
  ASSUME IInv, ReconcileInterrupted
  PROVE  LifecycleStep
<1>1. state' = [j \in Job |-> IF j \in Abandoned
                              THEN IF state[j] = "running" THEN "interrupted" ELSE "cancelled"
                              ELSE state[j]]
  BY DEF ReconcileInterrupted, EndAttempts
<1>2. \A j \in Job : j \in Abandoned <=> state[j] \in {"running", "cancel_requested"}
  BY RowFacts DEF Abandoned, RowsComplete
<1>3. state' = [j \in Job |-> CASE state[j] = "running"          -> "interrupted"
                               [] state[j] = "cancel_requested" -> "cancelled"
                               [] OTHER                         -> state[j]]
  BY <1>1, <1>2
<1>4. Lifecycle!Recover
  BY <1>3 DEF Lifecycle!Recover, ReconcileInterrupted, restVars, jobVars
<1>. QED BY <1>4 DEF LifecycleStep, Lifecycle!Next

(* A stop interrupts or settles at most the job it captured.               *)
LEMMA JoinLifecycle ==
  ASSUME IInv, JoinWorker
  PROVE  LifecycleStep
<1>1. UNCHANGED restVars /\ UNCHANGED <<target, attempt>>
  BY DEF JoinWorker, restVars, jobVars
<1>2. CASE UNCHANGED endVars
  BY <1>1, <1>2, StillStep DEF endVars
<1>3. CASE captured # None /\ Interrupt(captured)
  <2>1. CASE captured \in Existing
    BY <1>1, <1>3, <2>1, InterruptLifecycle
  <2>2. CASE captured \notin Existing
    <3>1. captured \in Job /\ state[captured] = "none"
      BY <1>3, <2>2, RowFacts DEF IInv, Control, ProcessOK, RowsComplete
    <3>. QED BY <1>2, <1>3, <3>1 DEF Interrupt
  <2>. QED BY <2>1, <2>2
<1>. QED BY <1>2, <1>3 DEF JoinWorker

(* Every step of the queue is a step of the life cycle.                    *)
LEMMA NextLifecycle ==
  ASSUME IInv, [Next]_vars
  PROVE  LifecycleStep
<1>1. CASE UNCHANGED vars
  BY <1>1, QuietStep DEF vars
<1>2. CASE WorkerBusy \/ BeginRuntimeShutdown \/ Crash
  BY <1>2, QuietStep DEF WorkerBusy, BeginRuntimeShutdown, Crash
<1>3. CASE Recovery
  <2>1. CASE Start \/ Serve \/ StopWorker
    BY <2>1, QuietStep DEF Start, Serve, StopWorker
  <2>. QED BY <1>3, <2>1, ReconcileLifecycle, JoinLifecycle, CreateStep
           DEF Recovery, RecoverOrphan
<1>. QED BY <1>1, <1>2, <1>3, RequestLifecycle, WorkerLifecycle DEF Next

(* The queue keeps the promises of JobLifecycle for any targets, keys and  *)
(* bounds: one job runs at a time, in order of creation, a target has one  *)
(* unsettled job, and a job only moves along its state machine.            *)
THEOREM Refinement == Spec => ImplementsLifecycle
<1>1. Init => Lifecycle!Init
  BY DEF Init, Lifecycle!Init
<1>2. IInv /\ [Next]_vars => LifecycleStep
  BY NextLifecycle
<1>. QED BY <1>1, <1>2, Invariance, PTL
         DEF Spec, ImplementsLifecycle, Lifecycle!Spec, LifecycleStep

-----------------------------------------------------------------------------
(* The eight ways the rows change.                                         *)

RowsKept == UNCHANGED <<created, target, state, attempt, outcome, execution,
                        targetState, publications>>

(* A new job, and its status row where the queue writes it.                *)
JobAppears ==
  \E t \in Target :
    /\ InsertJob(t)
    /\ TypeOf[t] \in {"extract_document", "analyze_casting"} => JobsOf(t) = {}
    /\ IF TypeOf[t] \in {"analyze_casting", "generate_audition"}
       THEN SetStatus(t, "pending") ELSE UNCHANGED targetState

(* Attempts of active jobs end; every row of one of them is written.       *)
AttemptsEnd ==
  \E E \in SUBSET Existing :
    \E end \in [E -> Unsuccessful], last \in [Row -> E \cup {None}] :
      /\ \A j \in E : Active(j) /\ last[RowOf(target[j])] # None
      /\ \A r \in Row : last[r] # None => RowOf(target[last[r]]) = r
      /\ EndAttempts(end, last)
      /\ UNCHANGED <<created, target, attempt, publications>>

AttemptAgain ==
  \E j \in Existing :
    LET a == attempt[j] + 1 IN
    /\ state[j] \in {"failed", "interrupted"} /\ a \in Attempt
    /\ state' = [state EXCEPT ![j] = "queued"]
    /\ attempt' = [attempt EXCEPT ![j] = a]
    /\ outcome' = [outcome EXCEPT ![j] = [@ EXCEPT ![a] = "open"]]
    /\ UNCHANGED <<created, target, execution, targetState, publications>>

CancelRequested ==
  \E j \in Existing :
    /\ state[j] \in {"queued", "running"}
    /\ state' = [state EXCEPT ![j] = "cancel_requested"]
    /\ UNCHANGED <<created, target, attempt, outcome, execution, targetState, publications>>

JobClaimed ==
  \E j \in Existing :
    /\ state[j] = "queued"
    /\ state' = [state EXCEPT ![j] = "running"]
    /\ IF /\ Typ(j) \in Mirrored
          /\ Status(target[j]) \notin
               (IF Typ(j) = "extract_document" THEN {"complete"} ELSE {"invalidated"})
       THEN SetStatus(target[j], "running") ELSE UNCHANGED targetState
    /\ UNCHANGED <<created, target, attempt, outcome, execution, publications>>

ResultPublished ==
  cur \in Existing /\ state[cur] = "running" /\ CommitPublication

(* A row is written that no job is ending on: an import, a superseded      *)
(* session, or the execution row of the attempt that is going on.          *)
RowAlone ==
  /\ UNCHANGED <<created, target, state, attempt, outcome, publications>>
  /\ \/ /\ UNCHANGED execution
        /\ \E t \in Target :
             \/ /\ TypeOf[t] = "extract_document" /\ Status(t) = "absent"
                /\ SetStatus(t, "pending")
             \/ TypeOf[t] = "generate_audition" /\ SetStatus(t, "invalidated")
     \/ /\ UNCHANGED targetState /\ cur \in Existing /\ Active(cur)
        /\ execution' = [execution EXCEPT ![cur] = OpenExecution(cur)]

RowStep == \/ RowsKept \/ JobAppears \/ AttemptsEnd \/ AttemptAgain \/ CancelRequested
           \/ JobClaimed \/ ResultPublished \/ RowAlone

-----------------------------------------------------------------------------
(* Every action changes the rows in one of these ways.                     *)

LEMMA UnchangedKeepsRows == UNCHANGED durable => RowsKept
BY DEF durable, jobVars, endVars, keptVars, RowsKept

(* One attempt of an active job ends.                                      *)
LEMMA EndAttemptRow ==
  ASSUME IInv, NEW j \in Existing, Active(j), NEW o \in Unsuccessful, EndAttempt(j, o),
         UNCHANGED <<created, target, attempt, publications>>
  PROVE  RowStep
<1> DEFINE E == {j}
           end == [i \in E |-> o]
           last == [r \in Row |-> IF r = RowOf(target[j]) THEN j ELSE None]
<1>1. None \notin Existing /\ target[j] \in Target
  BY RowFacts, ConstantsAssumption DEF Existing, Job, None, RowsComplete
<1>2. E \in SUBSET Existing /\ end \in [E -> Unsuccessful] /\ last \in [Row -> E \cup {None}]
  OBVIOUS
<1>3. \A i \in E : Active(i) /\ last[RowOf(target[i])] # None
  BY <1>1 DEF Row
<1>4. \A r \in Row : last[r] # None => RowOf(target[last[r]]) = r
  BY <1>1
<1>5. EndAttempts(end, last)
  BY DEF EndAttempt
<1> HIDE DEF E, end, last
<1>. QED BY <1>2, <1>3, <1>4, <1>5 DEF RowStep, AttemptsEnd

(* The ways out of a pipeline, and the interruption by a stop.             *)
LEMMA InterruptRow ==
  ASSUME IInv, NEW j \in Existing, Interrupt(j), UNCHANGED restVars
  PROVE  RowStep
<1>1. UNCHANGED <<created, target, attempt, publications>>
  BY DEF restVars, jobVars, keptVars
<1>2. CASE state[j] \notin {"cancel_requested", "running"} /\ UNCHANGED endVars
  BY <1>1, <1>2 DEF endVars, RowStep, RowsKept
<1>. QED BY <1>1, <1>2, EndAttemptRow DEF Interrupt, Active, Unsuccessful

LEMMA OutRow ==
  ASSUME IInv, pc \in JobPoints, CancelledOut \/ InterruptedOut
  PROVE  RowStep
<1>1. CASE CancelledOut
  BY <1>1, CurrentJob, EndAttemptRow
     DEF CancelledOut, restVars, jobVars, keptVars, Unsuccessful
<1>. QED BY <1>1, CurrentJob, InterruptRow DEF InterruptedOut

(* Requests.                                                               *)
LEMMA CreateRow ==
  ASSUME IInv, NEW t \in Target, NEW k \in Key,
         \/ CreateExtractionJob(t, k) \/ CreateStoryJob(t, k) \/ CreateWholeBookRun(t, k)
         \/ CreateCastingRun(t, k) \/ CreateAuditionJob(t, k)
  PROVE  RowStep
<1>1. ASSUME UNCHANGED <<created, jobVars, endVars, checkpoint, publications, stale>>
      PROVE  RowStep
  BY <1>1 DEF jobVars, endVars, RowStep, RowsKept
<1>2. CASE UNCHANGED durable
  BY <1>2, UnchangedKeepsRows DEF RowStep
<1>3. ASSUME TypeOf[t] \notin {"analyze_casting", "generate_audition"}, InsertJob(t),
             TypeOf[t] = "extract_document" => JobsOf(t) = {}, UNCHANGED targetState
      PROVE  RowStep
  BY <1>3 DEF RowStep, JobAppears
<1>4. ASSUME TypeOf[t] \in {"analyze_casting", "generate_audition"}, InsertJob(t),
             JobsOf(t) = {}, SetStatus(t, "pending")
      PROVE  RowStep
  BY <1>4 DEF RowStep, JobAppears
<1>5. CASE CreateExtractionJob(t, k)
  BY <1>1, <1>2, <1>3, <1>5 DEF CreateExtractionJob
<1>6. CASE CreateStoryJob(t, k)
  BY <1>2, <1>3, <1>6 DEF CreateStoryJob
<1>7. CASE CreateWholeBookRun(t, k)
  BY <1>3, <1>7 DEF CreateWholeBookRun
<1>8. CASE CreateCastingRun(t, k)
  BY <1>1, <1>4, <1>8 DEF CreateCastingRun
<1>9. CASE CreateAuditionJob(t, k)
  BY <1>4, <1>9 DEF CreateAuditionJob
<1>. QED BY <1>5, <1>6, <1>7, <1>8, <1>9

LEMMA RequestRow == ASSUME IInv, Request PROVE RowStep
<1>1. ASSUME NEW t \in Target, ImportSource(t) PROVE RowStep
  <2>1. CASE UNCHANGED targetState
    BY <1>1, <2>1 DEF ImportSource, RowStep, RowsKept, jobVars, keptVars
  <2>. QED BY <1>1, <2>1 DEF ImportSource, RowStep, RowAlone, jobVars, keptVars
<1>2. ASSUME NEW t \in Target, SupersedeInput(t) PROVE RowStep
  <2>1. CASE UNCHANGED targetState
    BY <1>2, <2>1 DEF SupersedeInput, RowStep, RowsKept, jobVars
  <2>. QED BY <1>2, <2>1 DEF SupersedeInput, RowStep, RowAlone, jobVars
<1>3. ASSUME NEW t \in Target, ReadStorySnapshot(t) \/ RequestFails(t) PROVE RowStep
  BY <1>3, UnchangedKeepsRows DEF ReadStorySnapshot, RequestFails, RowStep
<1>4. ASSUME NEW j \in Existing, Cancel(j) PROVE RowStep
  BY <1>4 DEF Cancel, RowStep, CancelRequested, jobVars, keptVars
<1>5. ASSUME NEW j \in Existing, NEW r, QueueNewAttempt(j, r),
             state[j] \in {"failed", "interrupted"}
      PROVE  RowStep
  BY <1>5 DEF QueueNewAttempt, NextAttempt, RowStep, AttemptAgain, keptVars
<1>6. ASSUME NEW j \in Existing, Retry(j) \/ Resume(j) PROVE RowStep
  BY <1>5, <1>6 DEF Retry, Resume
<1>. QED BY <1>1, <1>2, <1>3, <1>4, <1>6, CreateRow DEF Request

(* The worker.                                                             *)
LEMMA WorkerRow == ASSUME IInv, WorkerStep PROVE RowStep
<1>1. CASE LoopTop \/ NoteActive \/ Finish
  BY <1>1, UnchangedKeepsRows DEF LoopTop, NoteActive, Finish, RowStep
<1>2. CASE SettlePendingCancellation
  <2>1. ASSUME NEW j \in Existing, Oldest(j, "cancel_requested"), EndAttempt(j, "cancelled"),
               UNCHANGED restVars
        PROVE  RowStep
    BY <2>1, EndAttemptRow DEF Oldest, Active, restVars, jobVars, keptVars, Unsuccessful
  <2>. QED BY <1>2, <2>1, UnchangedKeepsRows DEF SettlePendingCancellation, RowStep
<1>3. CASE ClaimNext
  <2>1. ASSUME NEW j \in Existing, Oldest(j, "queued"),
               state' = [state EXCEPT ![j] = "running"],
               IF /\ Typ(j) \in Mirrored
                  /\ Status(target[j]) \notin
                       (IF Typ(j) = "extract_document" THEN {"complete"} ELSE {"invalidated"})
               THEN SetStatus(target[j], "running") ELSE UNCHANGED targetState,
               UNCHANGED <<restVars, cancelling, outcome, execution, activeKey, active>>
        PROVE  RowStep
    BY <2>1 DEF Oldest, RowStep, JobClaimed, restVars, jobVars, keptVars
  <2>. QED BY <1>3, <2>1, UnchangedKeepsRows DEF ClaimNext, RowStep
<1>4. ASSUME NEW here \in JobPoints, NEW next, Boundary(here, next) PROVE RowStep
  BY <1>4, OutRow, UnchangedKeepsRows DEF Boundary, At, RowStep
<1>5. ASSUME NEW here \in JobPoints, NEW next, UpdateProgress(here, next) PROVE RowStep
  <2>1. CASE CancelledOut
    BY <1>5, <2>1, OutRow DEF UpdateProgress, At
  <2>. QED BY <1>5, <2>1 DEF UpdateProgress, RowStep, RowsKept, restVars, jobVars, keptVars
<1>6. CASE StartBoundary \/ LoadProgress \/ CheckpointBoundary \/ PublishingProgress
           \/ PublicationBoundary
  BY <1>4, <1>5, <1>6
     DEF StartBoundary, LoadProgress, CheckpointBoundary, PublishingProgress,
         PublicationBoundary, JobPoints
<1>7. CASE ReadInput
  <2>1. cur \in Existing /\ Active(cur)
    BY <1>7, CurrentJob DEF ReadInput, At, JobPoints
  <2>2. CASE UNCHANGED durable
    BY <2>2, UnchangedKeepsRows DEF RowStep
  <2>. QED BY <1>7, <2>1, <2>2
           DEF ReadInput, Fails, RowStep, RowAlone, restVars, jobVars, keptVars
<1>8. CASE Work
  <2>1. pc \in JobPoints
    BY <1>8 DEF Work, At, JobPoints
  <2>. QED BY <1>8, <2>1, OutRow, UnchangedKeepsRows DEF Work, Fails, RowStep
<1>9. CASE SaveCheckpoint
  <2>1. CASE CancelledOut
    BY <1>9, <2>1, OutRow DEF SaveCheckpoint, At, JobPoints
  <2>. QED BY <1>9, <2>1 DEF SaveCheckpoint, RowStep, RowsKept, jobVars, endVars
<1>10. CASE Publish
  <2>1. pc \in JobPoints
    BY <1>10 DEF Publish, At, JobPoints
  <2>2. CASE UNCHANGED durable
    BY <2>2, UnchangedKeepsRows DEF RowStep
  <2>3. CASE CancelledOut \/ InterruptedOut
    BY <2>1, <2>3, OutRow
  <2>4. CASE state[cur] = "running" /\ CommitPublication
    BY <2>1, <2>4, CurrentJob DEF RowStep, ResultPublished
  <2>. QED BY <1>10, <2>2, <2>3, <2>4
           DEF Publish, PublishGeneration, PublishAnalysis, CommitOrRefuse, Fails
<1>11. CASE FinishFailed
  <2>1. pc \in JobPoints
    BY <1>11 DEF FinishFailed, JobPoints
  <2>2. CASE CancelledOut
    BY <2>1, <2>2, OutRow
  <2>3. CASE /\ EndAttempt(cur, "failed")
             /\ UNCHANGED <<created, target, attempt, resuming, producer, keptVars>>
    BY <2>1, <2>3, CurrentJob, EndAttemptRow DEF Unsuccessful, keptVars
  <2>. QED BY <1>11, <2>2, <2>3 DEF FinishFailed
<1>. QED BY <1>1, <1>2, <1>3, <1>6, <1>7, <1>8, <1>9, <1>10, <1>11 DEF WorkerStep

(* The process.                                                            *)
LEMMA ReconcileRow == ASSUME IInv, ReconcileInterrupted PROVE RowStep
<1> DEFINE end == [j \in Abandoned |-> IF state[j] = "running" THEN "interrupted"
                                       ELSE "cancelled"]
<1>1. PICK last \in [Row -> Abandoned \cup {None}] :
        /\ \A r \in Row : LET mine == {j \in Abandoned : RowOf(target[j]) = r}
                          IN  last[r] \in (IF mine = {} THEN {None} ELSE mine)
        /\ EndAttempts(end, last)
  BY DEF ReconcileInterrupted
<1>2. Abandoned \in SUBSET Existing /\ end \in [Abandoned -> Unsuccessful]
  BY DEF Abandoned, Unsuccessful
<1>3. None \notin Existing /\ \A j \in Existing : RowOf(target[j]) \in Row
  BY RowFacts, ConstantsAssumption DEF Existing, Job, None, RowsComplete, Row
<1>4. ASSUME NEW j \in Abandoned PROVE Active(j) /\ last[RowOf(target[j])] # None
  <2>1. last[RowOf(target[j])] \in {i \in Abandoned : RowOf(target[i]) = RowOf(target[j])}
    BY <1>1, <1>2, <1>3, <1>4
  <2>. QED BY <1>2, <1>3, <2>1 DEF Abandoned, Active
<1>5. \A r \in Row : last[r] # None => RowOf(target[last[r]]) = r
  BY <1>1
<1>6. EndAttempts(end, last)
  BY <1>1
<1>7. UNCHANGED <<created, target, attempt, publications>>
  BY DEF ReconcileInterrupted, restVars, jobVars, keptVars
<1> HIDE DEF end
<1>. QED BY <1>2, <1>4, <1>5, <1>6, <1>7 DEF RowStep, AttemptsEnd

LEMMA RowSteps == ASSUME IInv, [Next]_vars PROVE RowStep
<1>1. CASE UNCHANGED durable
  BY <1>1, UnchangedKeepsRows DEF RowStep
<1>2. CASE JoinWorker
  <2>1. CASE captured = None
    BY <1>2, <2>1
       DEF JoinWorker, RowStep, RowsKept, restVars, endVars, jobVars, keptVars
  <2>2. CASE captured \in Existing
    BY <1>2, <2>1, <2>2, InterruptRow DEF JoinWorker
  <2>3. CASE captured \in Job \ Existing
    <3>1. state[captured] = "none"
      BY <2>3, RowFacts DEF RowsComplete
    <3>. QED BY <1>2, <2>1, <3>1
             DEF JoinWorker, Interrupt, RowStep, RowsKept, restVars, endVars, jobVars, keptVars
  <2>. QED BY <2>1, <2>2, <2>3 DEF IInv, Control, ProcessOK
<1>3. ASSUME NEW t \in Target, RecoverOrphan(t) PROVE RowStep
  <2>1. TypeOf[t] = "extract_document" /\ JobsOf(t) = {}
    BY <1>3 DEF RecoverOrphan, IInv, Control, OrphansAreJobless
  <2>. QED BY <1>3, <2>1 DEF RecoverOrphan, RowStep, JobAppears
<1>4. CASE Start \/ Serve \/ StopWorker \/ BeginRuntimeShutdown \/ Crash \/ WorkerBusy
           \/ UNCHANGED vars
  BY <1>1, <1>4
     DEF Start, Serve, StopWorker, BeginRuntimeShutdown, Crash, WorkerBusy, vars
<1>. QED BY <1>2, <1>3, <1>4, ReconcileRow, RequestRow, WorkerRow DEF Next, Recovery

-----------------------------------------------------------------------------
(* The history of attempts.                                                *)

(* AttemptHistory for one job.                                             *)
JobHistory(j) ==
  \A a \in Attempt :
    /\ a < attempt[j] => outcome[j][a] \in {"failed", "interrupted"}
    /\ a = attempt[j] => outcome[j][a] = IF Active(j) THEN "open" ELSE state[j]
    /\ a > attempt[j] => outcome[j][a] = "none"
    /\ Typ(j) \in Executed /\ outcome[j][a] \notin {"none", "open"}
         => execution[j][a] = outcome[j][a]

(* A row that no job has yet is empty.                                     *)
HistoryInv ==
  /\ \A j \in Existing : JobHistory(j)
  /\ \A j \in Job \ Existing : \A a \in Attempt : outcome[j][a] = "none"

LEMMA HistoryIsInvariant == HistoryInv => AttemptHistory
BY DEF HistoryInv, JobHistory, AttemptHistory

(* The history of a job none of whose rows changed, except that its        *)
(* running attempt may be another kind of active.                          *)
LEMMA HistoryKept ==
  ASSUME NEW j, JobHistory(j), UNCHANGED <<target[j], attempt[j], outcome[j], execution[j]>>,
         Active(j) = Active(j)', ~Active(j) => UNCHANGED state[j]
  PROVE  JobHistory(j)'
BY DEF JobHistory, Typ

(* A new job has one open attempt.                                         *)
LEMMA InsertHistory ==
  ASSUME IInv, HistoryInv, JobAppears
  PROVE  HistoryInv'
<1> PICK n : n = created + 1
  OBVIOUS
<1> PICK t \in Target : InsertJob(t)
  BY DEF JobAppears
<1>1. /\ n \in Job /\ n \notin Existing /\ Existing' = Existing \cup {n} /\ Existing \subseteq Job
      /\ 1 \in Attempt /\ \A a \in Attempt : a \in Nat /\ a >= 1
  <2>1. created \in Nat /\ created' = n /\ n \in Job
    BY RowFacts, ConstantsAssumption DEF InsertJob, JobRowsOK
  <2>. QED BY <2>1, RowFacts, ConstantsAssumption DEF Existing, Attempt
<1>2. /\ target' = [target EXCEPT ![n] = t] /\ state' = [state EXCEPT ![n] = "queued"]
      /\ attempt' = [attempt EXCEPT ![n] = 1] /\ UNCHANGED execution
      /\ outcome' = [outcome EXCEPT ![n] = [@ EXCEPT ![1] = "open"]]
  BY DEF InsertJob
<1>3. ASSUME NEW j \in Existing PROVE JobHistory(j)'
  <2>1. j # n /\ JobHistory(j)
    BY <1>1, <1>3 DEF HistoryInv
  <2>2. UNCHANGED <<target[j], attempt[j], outcome[j], execution[j], state[j]>>
    BY <1>1, <1>2, <1>3, <2>1, RowFacts DEF JobRowsOK, AttemptRowsOK
  <2>. QED BY <2>1, <2>2, HistoryKept DEF Active
<1>4. JobHistory(n)'
  <2>1. /\ state'[n] = "queued" /\ attempt'[n] = 1
        /\ \A a \in Attempt : outcome'[n][a] = IF a = 1 THEN "open" ELSE "none"
    BY <1>1, <1>2, RowFacts DEF JobRowsOK, AttemptRowsOK, HistoryInv
  <2>. QED BY <1>1, <2>1 DEF JobHistory, Active
<1>5. \A j \in Job \ Existing' : \A a \in Attempt : outcome'[j][a] = "none"
  BY <1>1, <1>2, RowFacts DEF HistoryInv, AttemptRowsOK
<1>. QED BY <1>1, <1>3, <1>4, <1>5 DEF HistoryInv

(* An attempt that ends is closed the way its job ended, in both rows.     *)
LEMMA ClosedHistory ==
  ASSUME IInv, NEW j \in Existing, JobHistory(j), Active(j), NEW o \in EndStates,
         UNCHANGED <<target[j], attempt[j]>>, state'[j] = o,
         outcome'[j] = [outcome[j] EXCEPT ![attempt[j]] = o],
         execution'[j] = ExecutionEnded(j, o)
  PROVE  JobHistory(j)'
<1>1. /\ attempt[j] \in Attempt /\ Attempt \subseteq Nat /\ j \in Job
      /\ outcome[j] \in [Attempt -> EndStates \cup {"none", "open"}]
      /\ execution[j] \in [Attempt -> EndStates \cup {"none"}]
  BY RowFacts DEF RowsComplete, AttemptRowsOK, Attempt
<1>2. ~Active(j)' /\ Typ(j)' = Typ(j)
  BY DEF Active, EndStates, Typ
<1>3. \A a \in Attempt : outcome'[j][a] = IF a = attempt[j] THEN o ELSE outcome[j][a]
  BY <1>1
<1>4. Typ(j) \in Executed =>
        \A a \in Attempt : execution'[j][a] = IF a = attempt[j] THEN o ELSE execution[j][a]
  BY <1>1 DEF ExecutionEnded
<1>. QED BY <1>1, <1>2, <1>3, <1>4 DEF JobHistory

LEMMA EndHistory ==
  ASSUME IInv, HistoryInv, AttemptsEnd
  PROVE  HistoryInv'
<1> PICK E \in SUBSET Existing : \E end \in [E -> Unsuccessful], last \in [Row -> E \cup {None}] :
           /\ \A j \in E : Active(j)
           /\ EndAttempts(end, last)
           /\ UNCHANGED <<created, target, attempt>>
  BY DEF AttemptsEnd
<1> PICK end \in [E -> Unsuccessful] : \E last \in [Row -> E \cup {None}] :
           /\ \A j \in E : Active(j)
           /\ EndAttempts(end, last)
           /\ UNCHANGED <<created, target, attempt>>
  OBVIOUS
<1>1. /\ Existing' = Existing /\ Existing \subseteq Job
      /\ UNCHANGED <<target, attempt>> /\ \A j \in E : Active(j)
  BY RowFacts DEF Existing
<1>2. \A j \in Job :
        /\ state'[j] = IF j \in E THEN end[j] ELSE state[j]
        /\ outcome'[j] = IF j \in E THEN [outcome[j] EXCEPT ![attempt[j]] = end[j]]
                                    ELSE outcome[j]
        /\ execution'[j] = IF j \in E THEN ExecutionEnded(j, end[j]) ELSE execution[j]
  BY DEF EndAttempts
<1>3. ASSUME NEW j \in Existing PROVE JobHistory(j)'
  <2>1. CASE j \in E
    <3>1. end[j] \in EndStates
      BY <2>1 DEF Unsuccessful, EndStates
    <3>. QED BY <1>1, <1>2, <1>3, <2>1, <3>1, ClosedHistory DEF HistoryInv
  <2>2. CASE j \notin E
    BY <1>1, <1>2, <1>3, <2>2, HistoryKept DEF HistoryInv, Active
  <2>. QED BY <2>1, <2>2
<1>4. \A j \in Job \ Existing : outcome'[j] = outcome[j]
  BY <1>2
<1>. QED BY <1>1, <1>3, <1>4 DEF HistoryInv

LEMMA PublishHistory ==
  ASSUME IInv, HistoryInv, ResultPublished
  PROVE  HistoryInv'
<1>1. /\ Existing' = Existing /\ Existing \subseteq Job /\ cur \in Existing /\ Active(cur)
      /\ UNCHANGED <<target, attempt>>
      /\ state' = [state EXCEPT ![cur] = "succeeded"]
      /\ outcome' = [outcome EXCEPT ![cur] = [@ EXCEPT ![attempt[cur]] = "succeeded"]]
      /\ execution' = [execution EXCEPT ![cur] = ExecutionEnded(cur, "succeeded")]
  BY RowFacts DEF ResultPublished, CommitPublication, Succeed, Existing, Active
<1>2. \A j \in Job :
        /\ state'[j] = IF j = cur THEN "succeeded" ELSE state[j]
        /\ outcome'[j] = IF j = cur THEN [outcome[j] EXCEPT ![attempt[j]] = "succeeded"]
                                    ELSE outcome[j]
        /\ execution'[j] = IF j = cur THEN ExecutionEnded(j, "succeeded") ELSE execution[j]
  BY <1>1, RowFacts DEF JobRowsOK, AttemptRowsOK
<1>3. ASSUME NEW j \in Existing PROVE JobHistory(j)'
  <2>1. CASE j = cur
    BY <1>1, <1>2, <2>1, ClosedHistory DEF HistoryInv, EndStates
  <2>2. CASE j # cur
    BY <1>1, <1>2, <1>3, <2>2, HistoryKept DEF HistoryInv, Active
  <2>. QED BY <2>1, <2>2
<1>. QED BY <1>1, <1>2, <1>3 DEF HistoryInv

(* Only a failed or interrupted attempt is followed by another one.        *)
LEMMA AgainHistory ==
  ASSUME IInv, HistoryInv, AttemptAgain
  PROVE  HistoryInv'
<1> PICK j \in Existing :
           /\ state[j] \in {"failed", "interrupted"} /\ attempt[j] + 1 \in Attempt
           /\ state' = [state EXCEPT ![j] = "queued"]
           /\ attempt' = [attempt EXCEPT ![j] = attempt[j] + 1]
           /\ outcome' = [outcome EXCEPT ![j] = [@ EXCEPT ![attempt[j] + 1] = "open"]]
           /\ UNCHANGED <<created, target, execution>>
  BY DEF AttemptAgain
<1>1. /\ Existing' = Existing /\ Existing \subseteq Job /\ j \in Job
      /\ attempt[j] \in Attempt /\ Attempt \subseteq Nat
  BY RowFacts DEF Existing, RowsComplete, Attempt
<1>2. ASSUME NEW i \in Existing, i # j PROVE JobHistory(i)'
  <2>1. UNCHANGED <<target[i], attempt[i], outcome[i], execution[i], state[i]>>
    BY <1>1, <1>2, RowFacts DEF JobRowsOK, AttemptRowsOK
  <2>. QED BY <1>2, <2>1, HistoryKept DEF HistoryInv, Active
<1>3. JobHistory(j)'
  <2>1. /\ state'[j] = "queued" /\ attempt'[j] = attempt[j] + 1
        /\ \A a \in Attempt : outcome'[j][a] = IF a = attempt[j] + 1 THEN "open" ELSE outcome[j][a]
    BY <1>1, RowFacts DEF JobRowsOK, AttemptRowsOK
  <2>2. JobHistory(j) /\ Active(j)' /\ ~Active(j) /\ Typ(j)' = Typ(j)
    BY <2>1 DEF HistoryInv, Active, Typ
  <2>. QED BY <1>1, <2>1, <2>2 DEF JobHistory
<1>4. \A i \in Job \ Existing : outcome'[i] = outcome[i]
  BY <1>1, RowFacts DEF AttemptRowsOK
<1>. QED BY <1>1, <1>2, <1>3, <1>4 DEF HistoryInv

(* A claim or a requested cancellation leaves the attempt open.            *)
LEMMA ActiveHistory ==
  ASSUME IInv, HistoryInv, CancelRequested \/ JobClaimed
  PROVE  HistoryInv'
<1> PICK j \in Existing : \E s \in {"running", "cancel_requested"} :
           /\ Active(j) /\ state' = [state EXCEPT ![j] = s]
           /\ UNCHANGED <<created, target, attempt, outcome, execution>>
  BY DEF CancelRequested, JobClaimed, Active
<1>1. Existing' = Existing /\ Existing \subseteq Job
  BY RowFacts DEF Existing
<1>2. ASSUME NEW i \in Existing PROVE JobHistory(i)'
  <2>1. Active(i)' = Active(i) /\ (~Active(i) => UNCHANGED state[i])
    BY <1>1, RowFacts DEF JobRowsOK, Active
  <2>. QED BY <1>2, <2>1, HistoryKept DEF HistoryInv
<1>. QED BY <1>1, <1>2 DEF HistoryInv

(* The execution row of an open attempt is not part of the history yet.    *)
LEMMA AloneHistory ==
  ASSUME IInv, HistoryInv, RowAlone
  PROVE  HistoryInv'
<1>1. Existing' = Existing /\ Existing \subseteq Job
  BY RowFacts DEF RowAlone, Existing
<1>2. CASE UNCHANGED execution
  <2>1. \A j \in Existing : JobHistory(j)'
    BY <1>2, HistoryKept DEF RowAlone, HistoryInv, Active
  <2>. QED BY <1>1, <2>1 DEF RowAlone, HistoryInv
<1>3. ASSUME NEW c \in Existing, Active(c),
             execution' = [execution EXCEPT ![c] = OpenExecution(c)]
      PROVE  HistoryInv'
  <2>1. ASSUME NEW j \in Existing, j # c PROVE JobHistory(j)'
    <3>1. execution'[j] = execution[j]
      BY <1>1, <1>3, <2>1, RowFacts DEF AttemptRowsOK
    <3>. QED BY <2>1, <3>1, HistoryKept DEF RowAlone, HistoryInv, Active
  <2>2. JobHistory(c)'
    <3>1. /\ c \in Job /\ attempt[c] \in Attempt
          /\ execution[c] \in [Attempt -> EndStates \cup {"none"}]
          /\ execution'[c] = OpenExecution(c)
      BY <1>1, <1>3, RowFacts DEF AttemptRowsOK, RowsComplete
    <3>2. \A a \in Attempt : a # attempt[c] => execution'[c][a] = execution[c][a]
      BY <3>1 DEF OpenExecution
    <3>3. UNCHANGED <<target[c], attempt[c], outcome[c], state[c]>> /\ JobHistory(c)
      BY <1>3 DEF RowAlone, HistoryInv
    <3>. QED BY <1>3, <3>2, <3>3 DEF JobHistory, Active, Typ
  <2>. QED BY <1>1, <2>1, <2>2 DEF RowAlone, HistoryInv
<1>. QED BY <1>2, <1>3 DEF RowAlone

(* Every step keeps the history.                                           *)
LEMMA HistoryStep ==
  ASSUME IInv, HistoryInv, [Next]_vars
  PROVE  HistoryInv'
<1>1. CASE RowsKept
  <2>1. Existing' = Existing /\ Existing \subseteq Job
    BY <1>1, RowFacts DEF RowsKept, Existing
  <2>2. \A j \in Existing : JobHistory(j)'
    BY <1>1, HistoryKept DEF RowsKept, HistoryInv, Active
  <2>. QED BY <1>1, <2>1, <2>2 DEF RowsKept, HistoryInv
<1>. QED BY <1>1, RowSteps, InsertHistory, EndHistory, PublishHistory, AgainHistory,
            ActiveHistory, AloneHistory DEF RowStep

-----------------------------------------------------------------------------
(* The status rows.                                                        *)

(* A row of an extraction or a run is shared with no other target.         *)
LEMMA OwnRow ==
  ASSUME NEW t \in Target, NEW u \in Target, RowOf(t) = RowOf(u),
         TypeOf[t] # "generate_audition" \/ TypeOf[u] # "generate_audition"
  PROVE  t = u
BY RowAssumption DEF RowOf

LEMMA StatusWritten ==
  ASSUME IInv, NEW t \in Target, NEW s, SetStatus(t, s), NEW u \in Target
  PROVE  Status(u)' = IF RowOf(u) = RowOf(t) THEN s ELSE Status(u)
BY RowFacts DEF SetStatus, Status, TargetRowsOK, Row

(* StatusRowAgrees for the state of a job and the value of its row.        *)
Agree(s, status) ==
  /\ s = "running" => status = "running"
  /\ s = "succeeded" <=> status = "complete"
  /\ s \notin {"queued", "running", "cancel_requested"} => status # "running"
  /\ status \in {"failed", "interrupted", "cancelled"} =>
       s \in {"queued", "cancel_requested", "failed", "interrupted", "cancelled"}

WithStatus == {"extract_document", "analyze_casting"}

(* A run has one job, as an extraction has, and a row nobody works on yet  *)
(* has not been worked on.                                                 *)
StatusInv ==
  /\ \A j \in Existing : Typ(j) \in WithStatus => Agree(state[j], Status(target[j]))
  /\ \A i, j \in Existing : target[i] = target[j] /\ Typ(i) = "analyze_casting" => i = j
  /\ \A t \in Target : TypeOf[t] = "extract_document" /\ JobsOf(t) = {}
                         => Status(t) \in {"absent", "pending"}

LEMMA StatusIsInvariant == StatusInv => StatusRowAgrees
BY DEF StatusInv, Agree, WithStatus, StatusRowAgrees, Active

LEMMA OneJobPerRow ==
  ASSUME IInv, StatusInv, NEW i \in Existing, NEW j \in Existing,
         RowOf(target[i]) = RowOf(target[j]), Typ(i) \in WithStatus \/ Typ(j) \in WithStatus
  PROVE  i = j
<1>1. target[i] \in Target /\ target[j] \in Target
  BY RowFacts DEF RowsComplete
<1>2. target[i] = target[j]
  BY <1>1, OwnRow DEF Typ, WithStatus
<1>. QED BY <1>2 DEF StatusInv, WithStatus, Typ, IInv, Data, OneJobPerExtraction

(* When no job appears, only the agreement has to be looked at, and the    *)
(* rows of jobless extractions.                                            *)
LEMMA SameJobsStatus ==
  ASSUME StatusInv, UNCHANGED <<created, target>>,
         \A j \in Existing : Typ(j) \in WithStatus => Agree(state'[j], Status(target[j])'),
         \A t \in Target : TypeOf[t] = "extract_document" /\ JobsOf(t) = {} =>
           Status(t)' \in {"pending", Status(t)}
  PROVE  StatusInv'
<1>1. Existing' = Existing /\ \A t \in Target : JobsOf(t)' = JobsOf(t)
  BY DEF Existing, JobsOf
<1>2. \A j \in Existing' : Typ(j)' \in WithStatus => Agree(state[j], Status(target[j]))'
  BY <1>1 DEF Typ, Agree, Status
<1>3. \A i, j \in Existing' : target'[i] = target'[j] /\ Typ(i)' = "analyze_casting" => i = j
  BY <1>1 DEF StatusInv, Typ
<1>4. \A t \in Target : TypeOf[t] = "extract_document" /\ JobsOf(t)' = {}
                         => Status(t)' \in {"absent", "pending"}
  BY <1>1 DEF StatusInv
<1>. QED BY <1>2, <1>3, <1>4 DEF StatusInv

LEMMA AppearStatus ==
  ASSUME IInv, StatusInv, JobAppears
  PROVE  StatusInv'
<1> PICK n : n = created + 1
  OBVIOUS
<1> PICK t \in Target :
       /\ InsertJob(t)
       /\ TypeOf[t] \in WithStatus => JobsOf(t) = {}
       /\ IF TypeOf[t] \in {"analyze_casting", "generate_audition"}
          THEN SetStatus(t, "pending") ELSE UNCHANGED targetState
  BY DEF JobAppears, WithStatus
<1>1. /\ n \in Job /\ n \notin Existing /\ Existing' = Existing \cup {n} /\ Existing \subseteq Job
      /\ target' = [target EXCEPT ![n] = t] /\ state' = [state EXCEPT ![n] = "queued"]
  <2>1. created \in Nat /\ created' = n /\ n \in Job
    BY RowFacts, ConstantsAssumption DEF InsertJob, JobRowsOK
  <2>. QED BY <2>1, RowFacts, ConstantsAssumption DEF Existing, InsertJob
<1>2. \A j \in Existing : target'[j] = target[j] /\ state'[j] = state[j] /\ target[j] \in Target
  BY <1>1, RowFacts DEF JobRowsOK, RowsComplete
<1>3. target'[n] = t /\ state'[n] = "queued"
  BY <1>1, RowFacts DEF JobRowsOK
<1>4. \A u \in Target :
        Status(u)' = IF RowOf(u) = RowOf(t) /\ TypeOf[t] \in {"analyze_casting", "generate_audition"}
                     THEN "pending" ELSE Status(u)
  BY StatusWritten DEF Status
<1>5. ASSUME NEW j \in Existing, Typ(j) \in WithStatus
      PROVE  Agree(state'[j], targetState'[RowOf(target'[j])])
  <2>1. RowOf(target[j]) # RowOf(t)
    <3>1. ASSUME RowOf(target[j]) = RowOf(t) PROVE FALSE
      <4>1. target[j] = t
        BY <1>2, <1>5, <3>1, OwnRow DEF Typ, WithStatus
      <4>. QED BY <1>5, <4>1 DEF Typ, JobsOf
    <3>. QED BY <3>1
  <2>2. Status(target[j])' = Status(target[j])
    BY <1>2, <1>4, <2>1
  <2>. QED BY <1>2, <1>5, <2>2 DEF StatusInv, Status
<1>6. ASSUME TypeOf[t] \in WithStatus PROVE Agree("queued", targetState'[RowOf(t)])
  BY <1>4, <1>6 DEF Agree, WithStatus, StatusInv, Status
<1>7. \A j \in Existing' : Typ(j)' \in WithStatus => Agree(state'[j], targetState'[RowOf(target'[j])])
  BY <1>1, <1>2, <1>3, <1>5, <1>6 DEF Typ
<1>8. \A i, j \in Existing' : target'[i] = target'[j] /\ Typ(i)' = "analyze_casting" => i = j
  BY <1>1, <1>2, <1>3 DEF StatusInv, Typ, JobsOf, WithStatus
<1>9. ASSUME NEW u \in Target, TypeOf[u] = "extract_document", JobsOf(u)' = {}
      PROVE  Status(u)' \in {"absent", "pending"}
  <2>1. JobsOf(u) = {}
    BY <1>1, <1>2, <1>9 DEF JobsOf
  <2>. QED BY <1>4, <1>9, <2>1 DEF StatusInv
<1>. QED BY <1>7, <1>8, <1>9 DEF StatusInv, Status

LEMMA EndStatus ==
  ASSUME IInv, StatusInv, AttemptsEnd
  PROVE  StatusInv'
<1> PICK E \in SUBSET Existing :
      \E end \in [E -> Unsuccessful], last \in [Row -> E \cup {None}] :
        /\ \A j \in E : Active(j) /\ last[RowOf(target[j])] # None
        /\ \A r \in Row : last[r] # None => RowOf(target[last[r]]) = r
        /\ EndAttempts(end, last)
        /\ UNCHANGED <<created, target>>
  BY DEF AttemptsEnd
<1> PICK end \in [E -> Unsuccessful], last \in [Row -> E \cup {None}] :
        /\ \A j \in E : Active(j) /\ last[RowOf(target[j])] # None
        /\ \A r \in Row : last[r] # None => RowOf(target[last[r]]) = r
        /\ EndAttempts(end, last)
        /\ UNCHANGED <<created, target>>
  OBVIOUS
<1>1. /\ \A j \in Existing : state'[j] = IF j \in E THEN end[j] ELSE state[j]
      /\ \A r \in Row : targetState'[r] = IF last[r] = None THEN targetState[r]
                                          ELSE Mirror(last[r], end[last[r]], targetState[r])
  BY RowFacts DEF EndAttempts
<1>2. \A j \in Existing : target[j] \in Target /\ RowOf(target[j]) \in Row
  BY RowFacts DEF RowsComplete, Row
<1>3. ASSUME NEW j \in Existing, Typ(j) \in WithStatus
      PROVE  Agree(state'[j], Status(target[j])')
  <2> DEFINE r == RowOf(target[j])
  <2>1. r \in Row /\ Agree(state[j], targetState[r]) /\ Status(target[j])' = targetState'[r]
    BY <1>2, <1>3 DEF StatusInv, Status
  <2>2. CASE last[r] = None
    BY <1>1, <2>1, <2>2
  <2>3. CASE last[r] # None
    <3>1. last[r] \in E /\ last[r] \in Existing /\ RowOf(target[last[r]]) = RowOf(target[j])
      BY <2>1, <2>3
    <3>2. last[r] = j
      BY <1>3, <3>1, OneJobPerRow
    <3>3. /\ state'[j] = end[j] /\ end[j] \in Unsuccessful /\ Active(j)
          /\ targetState'[r] = Mirror(j, end[j], targetState[r])
      BY <1>1, <2>1, <2>3, <3>1, <3>2
    <3>4. CASE Typ(j) = "extract_document"
      BY <2>1, <3>3, <3>4 DEF Agree, Mirror, Unsuccessful, Active
    <3>5. CASE Typ(j) = "analyze_casting"
      BY <2>1, <3>3, <3>5 DEF Agree, Mirror, Unsuccessful
    <3>. QED BY <1>3, <3>4, <3>5 DEF WithStatus
  <2>. QED BY <2>2, <2>3
<1>4. ASSUME NEW t \in Target, TypeOf[t] = "extract_document", JobsOf(t) = {}
      PROVE  Status(t)' = Status(t)
  <2>1. RowOf(t) \in Row
    BY DEF Row
  <2>2. last[RowOf(t)] = None
    <3>1. ASSUME last[RowOf(t)] # None PROVE FALSE
      <4>1. last[RowOf(t)] \in Existing /\ RowOf(target[last[RowOf(t)]]) = RowOf(t)
        BY <2>1, <3>1
      <4>2. target[last[RowOf(t)]] = t
        BY <1>2, <1>4, <4>1, OwnRow
      <4>. QED BY <1>4, <4>1, <4>2 DEF JobsOf
    <3>. QED BY <3>1
  <2>. QED BY <1>1, <2>1, <2>2 DEF Status
<1>. QED BY <1>3, <1>4, SameJobsStatus

(* A job changes its state, with or without its row.                       *)
LEMMA MoveStatus ==
  ASSUME IInv, StatusInv, UNCHANGED <<created, target>>, NEW c \in Existing, NEW s,
         state' = [state EXCEPT ![c] = s],
         UNCHANGED targetState \/ \E v : SetStatus(target[c], v),
         Typ(c) \in WithStatus => Agree(s, Status(target[c])')
  PROVE  StatusInv'
<1>1. \A j \in Existing : state'[j] = IF j = c THEN s ELSE state[j]
  BY RowFacts DEF JobRowsOK
<1>2. \A j \in Existing : target[j] \in Target
  BY RowFacts DEF RowsComplete
<1>3. ASSUME NEW u \in Target, RowOf(u) # RowOf(target[c]) PROVE Status(u)' = Status(u)
  BY <1>2, <1>3, StatusWritten DEF Status
<1>4. ASSUME NEW j \in Existing, Typ(j) \in WithStatus
      PROVE  Agree(state'[j], Status(target[j])')
  <2>1. CASE j = c
    BY <1>1, <1>4, <2>1
  <2>2. CASE j # c
    <3>1. RowOf(target[j]) # RowOf(target[c])
      BY <1>4, <2>2, OneJobPerRow
    <3>. QED BY <1>1, <1>2, <1>3, <1>4, <2>2, <3>1 DEF StatusInv
  <2>. QED BY <2>1, <2>2
<1>5. ASSUME NEW t \in Target, TypeOf[t] = "extract_document", JobsOf(t) = {}
      PROVE  Status(t)' = Status(t)
  <2>1. RowOf(t) # RowOf(target[c])
    BY <1>2, <1>5, OwnRow DEF JobsOf
  <2>. QED BY <1>3, <2>1
<1>. QED BY <1>4, <1>5, SameJobsStatus

LEMMA StatusStep ==
  ASSUME IInv, StatusInv, [Next]_vars
  PROVE  StatusInv'
<1>1. \A j \in Existing : target[j] \in Target
  BY RowFacts DEF RowsComplete
<1>2. CASE RowsKept
  BY <1>2, SameJobsStatus DEF RowsKept, StatusInv, Status
<1>3. CASE AttemptAgain
  <2>1. PICK c \in Existing : /\ state[c] \in {"failed", "interrupted"}
                              /\ state' = [state EXCEPT ![c] = "queued"]
                              /\ UNCHANGED <<created, target, targetState>>
    BY <1>3 DEF AttemptAgain
  <2>2. Typ(c) \in WithStatus => Agree("queued", Status(target[c])')
    BY <2>1 DEF StatusInv, Agree, Status
  <2>. QED BY <2>1, <2>2, MoveStatus
<1>4. CASE CancelRequested
  <2>1. PICK c \in Existing : /\ state[c] \in {"queued", "running"}
                              /\ state' = [state EXCEPT ![c] = "cancel_requested"]
                              /\ UNCHANGED <<created, target, targetState>>
    BY <1>4 DEF CancelRequested
  <2>2. Typ(c) \in WithStatus => Agree("cancel_requested", Status(target[c])')
    BY <2>1 DEF StatusInv, Agree, Status
  <2>. QED BY <2>1, <2>2, MoveStatus
<1>5. CASE JobClaimed
  <2>1. PICK c \in Existing :
          /\ state[c] = "queued"
          /\ state' = [state EXCEPT ![c] = "running"]
          /\ IF /\ Typ(c) \in Mirrored
                /\ Status(target[c]) \notin
                     (IF Typ(c) = "extract_document" THEN {"complete"} ELSE {"invalidated"})
             THEN SetStatus(target[c], "running") ELSE UNCHANGED targetState
          /\ UNCHANGED <<created, target>>
    BY <1>5 DEF JobClaimed
  <2>2. ASSUME Typ(c) \in WithStatus PROVE Agree("running", Status(target[c])')
    <3>1. Agree(state[c], Status(target[c])) /\ Status(target[c]) \in StatusColumn(Typ(c))
      BY <1>1, <2>2, RowFacts DEF StatusInv, TargetRowsOK, Status, Typ
    <3>2. SetStatus(target[c], "running")
      BY <2>1, <2>2, <3>1 DEF Agree, WithStatus, Mirrored, StatusColumn
    <3>3. Status(target[c])' = "running"
      BY <1>1, <2>1, <3>2, StatusWritten DEF Status
    <3>. QED BY <3>3 DEF Agree
  <2>3. UNCHANGED targetState \/ \E v : SetStatus(target[c], v)
    BY <2>1
  <2>. QED BY <2>1, <2>2, <2>3, MoveStatus
<1>6. CASE ResultPublished
  <2>1. /\ cur \in Existing /\ state' = [state EXCEPT ![cur] = "succeeded"]
        /\ IF Typ(cur) \in Mirrored THEN SetStatus(target[cur], "complete")
                                    ELSE UNCHANGED targetState
        /\ UNCHANGED <<created, target>>
    BY <1>6 DEF ResultPublished, CommitPublication, Succeed
  <2> PICK c \in Existing : c = cur
    BY <2>1
  <2>2. ASSUME Typ(c) \in WithStatus PROVE Agree("succeeded", Status(target[c])')
    <3>1. SetStatus(target[c], "complete")
      BY <2>1, <2>2 DEF WithStatus, Mirrored
    <3>2. Status(target[c])' = "complete"
      BY <1>1, <2>1, <3>1, StatusWritten DEF Status
    <3>. QED BY <3>2 DEF Agree
  <2>3. UNCHANGED targetState \/ \E v : SetStatus(target[c], v)
    BY <2>1
  <2>. QED BY <2>1, <2>2, <2>3, MoveStatus
<1>7. CASE RowAlone
  <2>1. CASE UNCHANGED targetState
    BY <1>7, <2>1, SameJobsStatus DEF RowAlone, StatusInv, Status
  <2>2. ASSUME NEW t \in Target, NEW s, SetStatus(t, s),
               \/ TypeOf[t] = "extract_document" /\ Status(t) = "absent" /\ s = "pending"
               \/ TypeOf[t] = "generate_audition"
        PROVE  StatusInv'
    <3>1. \A u \in Target : Status(u)' = IF RowOf(u) = RowOf(t) THEN s ELSE Status(u)
      BY <2>2, StatusWritten
    <3>2. ASSUME NEW j \in Existing, Typ(j) \in WithStatus
          PROVE  Agree(state'[j], Status(target[j])')
      <4>1. Agree(state[j], Status(target[j])) /\ state'[j] = state[j]
            /\ Status(target[j])' = targetState'[RowOf(target[j])]
        BY <1>7, <3>2 DEF RowAlone, StatusInv, Status
      <4>2. CASE RowOf(target[j]) = RowOf(t)
        <5>1. target[j] = t /\ TypeOf[t] = "extract_document"
          BY <1>1, <2>2, <3>2, <4>2, OwnRow DEF WithStatus, Typ
        <5>. QED BY <1>7, <2>2, <3>1, <4>1, <5>1 DEF Agree, RowAlone
      <4>3. CASE RowOf(target[j]) # RowOf(t)
        BY <1>1, <1>7, <3>1, <4>1, <4>3 DEF RowAlone
      <4>. QED BY <4>2, <4>3
    <3>3. ASSUME NEW u \in Target, TypeOf[u] = "extract_document", JobsOf(u) = {}
          PROVE  Status(u)' \in {"pending", Status(u)}
      BY <2>2, <3>1, <3>3, OwnRow
    <3>. QED BY <1>7, <3>2, <3>3, SameJobsStatus DEF RowAlone
  <2>. QED BY <1>7, <2>1, <2>2 DEF RowAlone
<1>. QED BY <1>2, <1>3, <1>4, <1>5, <1>6, <1>7, RowSteps, AppearStatus, EndStatus DEF RowStep

-----------------------------------------------------------------------------
(* Rows that say work is going on.                                         *)

(* What such a row says, and a job that is still to change it.             *)
SaysBusy(t, s) == \/ s = "running"
                  \/ s = "pending" /\ TypeOf[t] # "extract_document"
Worked(t) == \E j \in Existing : RowOf(target[j]) = RowOf(t) /\ Active(j)

LEMMA BusyIsWorked ==
  NoRowStuck <=> \A t \in Target : SaysBusy(t, Status(t)) => Worked(t)
BY DEF NoRowStuck, SaysBusy, Worked

(* An active job still works on its row in the next state.                 *)
LEMMA StillWorked ==
  ASSUME NEW t, NEW j \in Existing, RowOf(target[j]) = RowOf(t), Existing \subseteq Existing',
         UNCHANGED target[j], Active(j)'
  PROVE  Worked(t)'
BY DEF Worked

(* An attempt that ends without a success leaves a row nobody waits for.   *)
LEMMA EndIsNotBusy ==
  ASSUME IInv, NEW j \in Existing, NEW o \in Unsuccessful, NEW t \in Target,
         RowOf(target[j]) = RowOf(t)
  PROVE  ~SaysBusy(t, Mirror(j, o, Status(t)))
<1>1. Typ(j) = TypeOf[t] /\ Status(t) \in StatusColumn(TypeOf[t]) /\ TypeOf[t] \in JobType
  BY RowFacts, RowAssumption DEF RowsComplete, Typ, TargetRowsOK, Status
<1>2. CASE TypeOf[t] = "extract_document"
  BY <1>1, <1>2 DEF Mirror, Unsuccessful, SaysBusy
<1>3. CASE TypeOf[t] = "analyze_casting"
  BY <1>1, <1>3 DEF Mirror, Unsuccessful, SaysBusy
<1>4. CASE TypeOf[t] = "generate_audition"
  BY <1>1, <1>4 DEF Mirror, Unsuccessful, SaysBusy
<1>5. CASE TypeOf[t] \in {"analyze_story", "analyze_whole_book"}
  BY <1>1, <1>5 DEF Mirror, StatusColumn, SaysBusy
<1>. QED BY <1>1, <1>2, <1>3, <1>4, <1>5 DEF JobType

LEMMA EndStuck ==
  ASSUME IInv, NoRowStuck, AttemptsEnd
  PROVE  NoRowStuck'
<1> PICK E \in SUBSET Existing :
      \E end \in [E -> Unsuccessful], last \in [Row -> E \cup {None}] :
        /\ \A j \in E : Active(j) /\ last[RowOf(target[j])] # None
        /\ \A r \in Row : last[r] # None => RowOf(target[last[r]]) = r
        /\ EndAttempts(end, last)
        /\ UNCHANGED <<created, target>>
  BY DEF AttemptsEnd
<1> PICK end \in [E -> Unsuccessful], last \in [Row -> E \cup {None}] :
        /\ \A j \in E : Active(j) /\ last[RowOf(target[j])] # None
        /\ \A r \in Row : last[r] # None => RowOf(target[last[r]]) = r
        /\ EndAttempts(end, last)
        /\ UNCHANGED <<created, target>>
  OBVIOUS
<1>1. /\ \A j \in Existing : state'[j] = IF j \in E THEN end[j] ELSE state[j]
      /\ \A r \in Row : targetState'[r] = IF last[r] = None THEN targetState[r]
                                          ELSE Mirror(last[r], end[last[r]], targetState[r])
      /\ Existing' = Existing
  BY RowFacts DEF EndAttempts, Existing
<1>2. ASSUME NEW t \in Target, SaysBusy(t, Status(t)') PROVE Worked(t)'
  <2> DEFINE r == RowOf(t)
  <2>1. r \in Row /\ Status(t)' = targetState'[r] /\ Status(t) = targetState[r]
    BY DEF Row, Status
  <2>2. CASE last[r] = None
    <3>1. Status(t)' = Status(t)
      BY <1>1, <2>1, <2>2
    <3>2. PICK j \in Existing : RowOf(target[j]) = RowOf(t) /\ Active(j)
      BY <1>2, <3>1, BusyIsWorked DEF Worked
    <3>3. j \notin E
      BY <2>2, <3>2
    <3>4. Active(j)' /\ UNCHANGED target[j]
      BY <1>1, <3>2, <3>3 DEF Active
    <3>. QED BY <1>1, <3>2, <3>4, StillWorked
  <2>3. CASE last[r] # None
    <3>1. last[r] \in Existing /\ end[last[r]] \in Unsuccessful /\ RowOf(target[last[r]]) = r
      BY <2>1, <2>3
    <3>2. Status(t)' = Mirror(last[r], end[last[r]], Status(t))
      BY <1>1, <2>1, <2>3
    <3>. QED BY <1>2, <3>1, <3>2, EndIsNotBusy
  <2>. QED BY <2>2, <2>3
<1>3. \A t \in Target : (SaysBusy(t, Status(t)) => Worked(t))'
  BY <1>2 DEF SaysBusy
<1>. QED BY <1>3 DEF NoRowStuck, SaysBusy, Worked

(* Every step keeps every busy row worked on.                              *)
LEMMA StuckStep ==
  ASSUME IInv, NoRowStuck, [Next]_vars
  PROVE  NoRowStuck'
<1>1. \A j \in Existing : target[j] \in Target
  BY RowFacts DEF RowsComplete
<1>2. ASSUME Existing \subseteq Existing', UNCHANGED targetState,
             \A j \in Existing : UNCHANGED target[j] /\ (Active(j) => Active(j)')
      PROVE  NoRowStuck'
  <2>1. ASSUME NEW t \in Target, SaysBusy(t, Status(t)) PROVE Worked(t)'
    <3>1. PICK j \in Existing : RowOf(target[j]) = RowOf(t) /\ Active(j)
      BY <2>1, BusyIsWorked DEF Worked
    <3>. QED BY <1>2, <3>1, StillWorked
  <2>2. \A t \in Target : Status(t)' = Status(t)
    BY <1>2 DEF Status
  <2>. QED BY <2>1, <2>2 DEF NoRowStuck, SaysBusy, Worked
<1>3. ASSUME NEW c, NEW s, NEW u \in Target, SetStatus(u, s), Existing \subseteq Existing',
             \A j \in Existing : UNCHANGED target[j] /\ (j # c /\ Active(j) => Active(j)'),
             \/ c \in Existing' /\ target'[c] = u /\ Active(c)'
             \/ /\ \A t \in Target : RowOf(t) = RowOf(u) => ~SaysBusy(t, s)
                /\ c \in Existing => RowOf(target[c]) = RowOf(u)
      PROVE  NoRowStuck'
  <2>1. \A t \in Target : Status(t)' = IF RowOf(t) = RowOf(u) THEN s ELSE Status(t)
    BY <1>3, StatusWritten
  <2>2. ASSUME NEW t \in Target, SaysBusy(t, Status(t)') PROVE Worked(t)'
    <3>1. CASE RowOf(t) = RowOf(u)
      BY <1>3, <2>1, <2>2, <3>1 DEF Worked
    <3>2. CASE RowOf(t) # RowOf(u)
      <4>1. PICK j \in Existing : RowOf(target[j]) = RowOf(t) /\ Active(j)
        BY <2>1, <2>2, <3>2, BusyIsWorked DEF Worked
      <4>2. CASE j = c
        BY <1>3, <3>2, <4>1, <4>2 DEF Worked
      <4>3. CASE j # c
        BY <1>3, <4>1, <4>3, StillWorked
      <4>. QED BY <4>2, <4>3
    <3>. QED BY <3>1, <3>2
  <2>. QED BY <2>2 DEF NoRowStuck, SaysBusy, Worked
<1>4. CASE RowsKept
  BY <1>2, <1>4 DEF RowsKept, Existing, Active
<1>5. CASE JobAppears
  <2> PICK n : n = created + 1
    OBVIOUS
  <2> PICK t \in Target :
         /\ InsertJob(t)
         /\ IF TypeOf[t] \in {"analyze_casting", "generate_audition"}
            THEN SetStatus(t, "pending") ELSE UNCHANGED targetState
    BY <1>5 DEF JobAppears
  <2>1. /\ n \in Job /\ n \notin Existing /\ Existing' = Existing \cup {n} /\ Existing \subseteq Job
        /\ target' = [target EXCEPT ![n] = t] /\ state' = [state EXCEPT ![n] = "queued"]
    <3>1. created \in Nat /\ created' = n /\ n \in Job
      BY RowFacts, ConstantsAssumption DEF InsertJob, JobRowsOK
    <3>. QED BY <3>1, RowFacts, ConstantsAssumption DEF Existing, InsertJob
  <2>2. /\ \A j \in Existing : UNCHANGED target[j] /\ UNCHANGED state[j]
        /\ target'[n] = t /\ state'[n] = "queued"
    BY <2>1, RowFacts DEF JobRowsOK
  <2>. QED BY <1>2, <1>3, <2>1, <2>2 DEF Active
<1>6. CASE AttemptAgain \/ CancelRequested
  <2>1. PICK c \in Existing : \E s \in {"queued", "cancel_requested"} :
          state' = [state EXCEPT ![c] = s] /\ UNCHANGED <<created, target, targetState>>
    BY <1>6 DEF AttemptAgain, CancelRequested
  <2>. QED BY <1>2, <2>1, RowFacts DEF Existing, Active, JobRowsOK
<1>7. CASE JobClaimed
  <2>1. PICK c \in Existing :
          /\ state' = [state EXCEPT ![c] = "running"]
          /\ SetStatus(target[c], "running") \/ UNCHANGED targetState
          /\ UNCHANGED <<created, target>>
    BY <1>7 DEF JobClaimed
  <2>2. /\ Existing' = Existing /\ Active(c)'
        /\ \A j \in Existing : Active(j) => Active(j)'
    BY <2>1, RowFacts DEF Existing, Active, JobRowsOK
  <2>. QED BY <1>1, <1>2, <1>3, <2>1, <2>2
<1>8. CASE ResultPublished
  <2>1. /\ cur \in Existing /\ state' = [state EXCEPT ![cur] = "succeeded"]
        /\ IF Typ(cur) \in Mirrored THEN SetStatus(target[cur], "complete")
                                    ELSE UNCHANGED targetState
        /\ UNCHANGED <<created, target>>
    BY <1>8 DEF ResultPublished, CommitPublication, Succeed
  <2> PICK c \in Existing : c = cur
    BY <2>1
  <2>2. Existing' = Existing /\ \A j \in Existing \ {c} : Active(j) => Active(j)'
    BY <2>1, RowFacts DEF Existing, Active, JobRowsOK
  <2>3. CASE Typ(c) \in Mirrored
    BY <1>1, <1>3, <2>1, <2>2, <2>3 DEF SaysBusy
  <2>4. CASE Typ(c) \notin Mirrored
    <3>1. ASSUME NEW t \in Target, SaysBusy(t, Status(t)) PROVE RowOf(t) # RowOf(target[c])
      <4>1. TypeOf[t] \in JobType /\ Status(t) \in StatusColumn(TypeOf[t]) /\ TypeOf[t] \in Mirrored
        BY <3>1, RowFacts DEF SaysBusy, TargetRowsOK, Status, StatusColumn, JobType, Mirrored
      <4>. QED BY <1>1, <2>4, <4>1, RowAssumption DEF Typ
    <3>2. ASSUME NEW t \in Target, SaysBusy(t, Status(t)) PROVE Worked(t)'
      <4>1. PICK j \in Existing : RowOf(target[j]) = RowOf(t) /\ Active(j)
        BY <3>2, BusyIsWorked DEF Worked
      <4>2. j # c
        BY <3>1, <3>2, <4>1
      <4>. QED BY <2>1, <2>2, <4>1, <4>2, StillWorked
    <3>3. \A t \in Target : Status(t)' = Status(t)
      BY <2>1, <2>4 DEF Status
    <3>. QED BY <3>2, <3>3 DEF NoRowStuck, SaysBusy, Worked
  <2>. QED BY <2>3, <2>4
<1>9. CASE RowAlone
  <2>1. Existing' = Existing /\ \A j \in Existing : UNCHANGED target[j] /\ (Active(j) => Active(j)')
    BY <1>9 DEF RowAlone, Existing, Active
  <2>2. CASE UNCHANGED targetState
    BY <1>2, <2>1, <2>2
  <2>3. ASSUME NEW t \in Target, NEW s, SetStatus(t, s),
               \/ TypeOf[t] = "extract_document" /\ s = "pending"
               \/ s = "invalidated"
        PROVE  NoRowStuck'
    <3>1. \A u \in Target : RowOf(u) = RowOf(t) => ~SaysBusy(u, s)
      BY <2>3, RowAssumption DEF SaysBusy
    <3>2. None \notin Existing
      BY RowFacts DEF Existing, None, JobRowsOK
    <3>. QED BY <1>3, <2>1, <2>3, <3>1, <3>2
  <2>. QED BY <1>9, <2>2, <2>3 DEF RowAlone
<1>. QED BY <1>4, <1>5, <1>6, <1>7, <1>8, <1>9, RowSteps, EndStuck DEF RowStep

-----------------------------------------------------------------------------
(* Publications.                                                           *)

Succeeded(t) == {j \in JobsOf(t) : state[j] = "succeeded"}

LEMMA SameSuccesses ==
  ASSUME NEW t \in Target, Existing \subseteq Existing',
         \A j \in Existing : UNCHANGED target[j] /\ (state'[j] = "succeeded" <=> state[j] = "succeeded"),
         \A j \in Existing' \ Existing : state'[j] # "succeeded"
  PROVE  Succeeded(t)' = Succeeded(t)
BY DEF Succeeded, JobsOf

LEMMA PublicationStep ==
  ASSUME IInv, PublishedOncePerSuccess, [Next]_vars
  PROVE  PublishedOncePerSuccess'
<1>1. \A t \in Target : IsFiniteSet(Succeeded(t)) /\ publications[t] = Cardinality(Succeeded(t))
  <2>1. IsFiniteSet(Existing)
    BY FS_Interval, RowFacts DEF Existing, JobRowsOK
  <2>. QED BY <2>1, FS_Subset DEF Succeeded, JobsOf, PublishedOncePerSuccess
<1>2. ASSUME UNCHANGED publications, Existing \subseteq Existing',
             \A j \in Existing :
               UNCHANGED target[j] /\ (state'[j] = "succeeded" <=> state[j] = "succeeded"),
             \A j \in Existing' \ Existing : state'[j] # "succeeded"
      PROVE  PublishedOncePerSuccess'
  <2>1. \A t \in Target : Succeeded(t)' = Succeeded(t)
    BY <1>2, SameSuccesses
  <2>. QED BY <1>1, <1>2, <2>1 DEF PublishedOncePerSuccess, Succeeded
<1>3. CASE RowsKept \/ RowAlone
  BY <1>2, <1>3 DEF RowsKept, RowAlone, Existing
<1>4. CASE JobAppears
  <2> PICK n : n = created + 1
    OBVIOUS
  <2> PICK t \in Target : InsertJob(t)
    BY <1>4 DEF JobAppears
  <2>1. /\ n \in Job /\ n \notin Existing /\ Existing' = Existing \cup {n} /\ Existing \subseteq Job
        /\ target' = [target EXCEPT ![n] = t] /\ state' = [state EXCEPT ![n] = "queued"]
    <3>1. created \in Nat /\ created' = n /\ n \in Job
      BY RowFacts, ConstantsAssumption DEF InsertJob, JobRowsOK
    <3>. QED BY <3>1, RowFacts, ConstantsAssumption DEF Existing, InsertJob
  <2>2. /\ \A j \in Existing : UNCHANGED target[j] /\ UNCHANGED state[j]
        /\ state'[n] = "queued"
    BY <2>1, RowFacts DEF JobRowsOK
  <2>. QED BY <1>2, <2>1, <2>2 DEF InsertJob
<1>5. CASE AttemptsEnd
  <2> PICK E \in SUBSET Existing :
        \E end \in [E -> Unsuccessful], last \in [Row -> E \cup {None}] :
          /\ \A j \in E : Active(j)
          /\ EndAttempts(end, last)
          /\ UNCHANGED <<created, target, publications>>
    BY <1>5 DEF AttemptsEnd
  <2>1. PICK end \in [E -> Unsuccessful], last \in [Row -> E \cup {None}] :
          /\ \A j \in E : Active(j)
          /\ EndAttempts(end, last)
          /\ UNCHANGED <<created, target, publications>>
    OBVIOUS
  <2>2. \A j \in Existing : state'[j] = IF j \in E THEN end[j] ELSE state[j]
    BY <2>1, RowFacts DEF EndAttempts
  <2>. QED BY <1>2, <2>1, <2>2 DEF Existing, Active, Unsuccessful
<1>6. CASE AttemptAgain \/ CancelRequested \/ JobClaimed
  <2>1. PICK c \in Existing : \E s \in {"queued", "running", "cancel_requested"} :
          /\ state[c] # "succeeded" /\ state' = [state EXCEPT ![c] = s]
          /\ UNCHANGED <<created, target, publications>>
    BY <1>6 DEF AttemptAgain, CancelRequested, JobClaimed
  <2>. QED BY <1>2, <2>1, RowFacts DEF Existing, JobRowsOK
<1>7. CASE ResultPublished
  <2>1. /\ cur \in Existing /\ state[cur] = "running"
        /\ state' = [state EXCEPT ![cur] = "succeeded"]
        /\ publications' = [publications EXCEPT ![target[cur]] = @ + 1]
        /\ UNCHANGED <<created, target>> /\ Existing' = Existing
    BY <1>7 DEF ResultPublished, CommitPublication, Succeed, Existing
  <2> PICK c \in Existing : c = cur
    BY <2>1
  <2>2. \A j \in Existing : state'[j] = IF j = c THEN "succeeded" ELSE state[j]
    BY <2>1, RowFacts DEF JobRowsOK
  <2>3. ASSUME NEW t \in Target PROVE publications'[t] = Cardinality(Succeeded(t)')
    <3>1. CASE t = target[c]
      <4>1. Succeeded(t)' = Succeeded(t) \cup {c} /\ c \notin Succeeded(t)
        BY <2>1, <2>2, <3>1 DEF Succeeded, JobsOf
      <4>2. Cardinality(Succeeded(t) \cup {c}) = Cardinality(Succeeded(t)) + 1
        BY <1>1, <4>1, FS_AddElement
      <4>. QED BY <1>1, <2>1, <3>1, <4>1, <4>2, RowFacts DEF TargetRowsOK
    <3>2. CASE t # target[c]
      <4>1. Succeeded(t)' = Succeeded(t)
        BY <2>1, <2>2, <3>2 DEF Succeeded, JobsOf
      <4>. QED BY <1>1, <2>1, <3>2, <4>1, RowFacts DEF TargetRowsOK
    <3>. QED BY <3>1, <3>2
  <2>. QED BY <2>3 DEF PublishedOncePerSuccess, Succeeded
<1>. QED BY <1>3, <1>4, <1>5, <1>6, <1>7, RowSteps DEF RowStep

-----------------------------------------------------------------------------
(* Checkpoints.                                                            *)

(* The points at which a result waits to be published.                     *)
Ready == {"checkpointed", "publishing", "prePublish", "publish"}

(* No attempt after the current one has a checkpoint.                      *)
CheckpointInv ==
  /\ \A j \in Job : \A a \in Attempt :
       (j \in Existing => a > attempt[j]) => checkpoint[j][a] = None
  /\ CheckpointProvenance

CheckpointOf(a) ==
  /\ cur \in Existing
  /\ checkpoint' = [checkpoint EXCEPT ![cur] = [@ EXCEPT ![a] = version]]
  /\ UNCHANGED <<created, attempt>>

(* A checkpoint is written by the worker alone, for its current attempt.   *)
LEMMA CheckpointWritten ==
  ASSUME IInv, [Next]_vars
  PROVE  UNCHANGED checkpoint \/ CheckpointOf(attempt[cur])
<1>1. CASE UNCHANGED durable
  BY <1>1 DEF durable, keptVars
<1>2. CASE Request
  BY <1>2
     DEF Request, ImportSource, ReadStorySnapshot, RequestFails, SupersedeInput,
         CreateExtractionJob, CreateStoryJob, CreateWholeBookRun, CreateCastingRun,
         CreateAuditionJob, InsertJob, Cancel, Retry, Resume, QueueNewAttempt, durable, keptVars
<1>3. ASSUME CancelledOut \/ InterruptedOut PROVE UNCHANGED checkpoint
  BY <1>3 DEF CancelledOut, InterruptedOut, restVars, keptVars
<1>4. CASE LoopTop \/ SettlePendingCancellation \/ ClaimNext \/ NoteActive \/ Finish
  BY <1>4 DEF LoopTop, SettlePendingCancellation, ClaimNext, NoteActive, Finish, durable,
              restVars, keptVars
<1>5. CASE StartBoundary \/ CheckpointBoundary \/ PublicationBoundary
  BY <1>3, <1>5 DEF StartBoundary, CheckpointBoundary, PublicationBoundary, Boundary, durable,
                    keptVars
<1>6. CASE LoadProgress \/ PublishingProgress \/ ReadInput \/ Work
  BY <1>3, <1>6 DEF LoadProgress, PublishingProgress, UpdateProgress, ReadInput, Work, Fails,
                    durable, restVars, keptVars
<1>7. CASE SaveCheckpoint
  <2>1. cur \in Existing
    BY <1>7, CurrentJob DEF SaveCheckpoint, At, JobPoints
  <2>. QED BY <1>3, <1>7, <2>1 DEF SaveCheckpoint, CheckpointOf, jobVars
<1>8. CASE Publish
  <2>1. cur \in Existing
    BY <1>8, CurrentJob DEF Publish, At, JobPoints
  <2>2. CASE CommitPublication
    BY <2>1, <2>2 DEF CommitPublication, CheckpointOf
  <2>. QED BY <1>1, <1>3, <1>8, <2>2
           DEF Publish, PublishGeneration, PublishAnalysis, CommitOrRefuse, Fails
<1>9. CASE FinishFailed
  BY <1>3, <1>9 DEF FinishFailed, keptVars
<1>10. CASE WorkerStep
  BY <1>4, <1>5, <1>6, <1>7, <1>8, <1>9, <1>10 DEF WorkerStep
<1>11. CASE ReconcileInterrupted \/ JoinWorker \/ \E t \in Target : RecoverOrphan(t)
  BY <1>11 DEF ReconcileInterrupted, JoinWorker, RecoverOrphan, InsertJob, restVars, keptVars
<1>12. CASE Start \/ Serve \/ StopWorker \/ BeginRuntimeShutdown \/ Crash \/ WorkerBusy
            \/ UNCHANGED vars
  BY <1>1, <1>12 DEF Start, Serve, StopWorker, BeginRuntimeShutdown, Crash, WorkerBusy, vars
<1>. QED BY <1>2, <1>10, <1>11, <1>12 DEF Next, Recovery

(* How a pipeline comes to have a result ready: it restored the one whose  *)
(* release it checked, saved its own, or works for a type without one.     *)
LEMMA ReadyFrom ==
  ASSUME IInv, [Next]_vars, pc' \in Ready
  PROVE  /\ pc \in JobPoints /\ UNCHANGED <<cur, version>>
         /\ \/ pc \in Ready
            \/ IsLatestCheckpoint(cur, version) /\ UNCHANGED checkpoint
            \/ Typ(cur) \notin Checkpointed
            \/ CheckpointOf(attempt[cur])
<1> DEFINE Goal == /\ pc \in JobPoints /\ UNCHANGED <<cur, version>>
                   /\ \/ pc \in Ready
                      \/ IsLatestCheckpoint(cur, version) /\ UNCHANGED checkpoint
                      \/ Typ(cur) \notin Checkpointed
                      \/ CheckpointOf(attempt[cur])
<1>1. Ready \subseteq JobPoints /\ "off" \notin Ready /\ "dead" \notin Ready
  BY DEF Ready, JobPoints
<1>2. CASE UNCHANGED <<worker, version>>
  BY <1>1, <1>2 DEF worker
<1>3. CASE Request
  BY <1>2, <1>3
     DEF Request, ImportSource, ReadStorySnapshot, RequestFails, SupersedeInput,
         CreateExtractionJob, CreateStoryJob, CreateWholeBookRun, CreateCastingRun,
         CreateAuditionJob, Cancel, Retry, Resume, QueueNewAttempt, process
<1>4. pc' # "finish" /\ ~(CancelledOut \/ InterruptedOut)
  BY DEF Ready, CancelledOut, InterruptedOut, GoTo
<1>5. ASSUME WorkerStep PROVE UNCHANGED version
  BY <1>5
     DEF WorkerStep, LoopTop, SettlePendingCancellation, ClaimNext, NoteActive, StartBoundary,
         LoadProgress, ReadInput, Work, SaveCheckpoint, CheckpointBoundary, PublishingProgress,
         PublicationBoundary, Boundary, UpdateProgress, Publish, FinishFailed, Finish,
         WorkerFrame, process
<1>6. CASE LoopTop \/ SettlePendingCancellation \/ ClaimNext \/ NoteActive \/ Finish
           \/ StartBoundary \/ LoadProgress
  BY <1>4, <1>6 DEF LoopTop, SettlePendingCancellation, ClaimNext, NoteActive, Finish,
                    StartBoundary, LoadProgress, Boundary, UpdateProgress, GoTo, Ready
<1>7. CASE CheckpointBoundary \/ PublishingProgress \/ PublicationBoundary \/ Publish
  <2>1. pc \in Ready
    BY <1>7 DEF CheckpointBoundary, PublishingProgress, PublicationBoundary, Boundary,
                UpdateProgress, Publish, At, Ready
  <2>2. UNCHANGED cur
    BY <1>4, <1>7 DEF CheckpointBoundary, PublishingProgress, PublicationBoundary, Boundary,
       UpdateProgress, Publish, PublishGeneration, PublishAnalysis, CommitOrRefuse, Fails, GoTo
  <2>. QED BY <1>1, <1>5, <1>7, <2>1, <2>2 DEF WorkerStep
<1>8. CASE ReadInput
  <2>1. pc = "input" /\ pc \in JobPoints
    BY <1>8 DEF ReadInput, At, JobPoints
  <2>2. ~InputRefused /\ Restored /\ UNCHANGED <<checkpoint, cur>>
    BY <1>8 DEF ReadInput, Fails, GoTo, Ready, restVars, keptVars
  <2>. QED BY <1>5, <1>8, <2>1, <2>2 DEF WorkerStep, InputRefused
<1>9. CASE Work
  <2>1. pc \in JobPoints /\ UNCHANGED cur /\ Typ(cur) \notin Checkpointed
    BY <1>4, <1>9 DEF Work, At, Fails, GoTo, Ready, JobPoints
  <2>. QED BY <1>5, <1>9, <2>1 DEF WorkerStep
<1>10. CASE SaveCheckpoint
  <2>1. pc \in JobPoints /\ UNCHANGED cur
    BY <1>4, <1>10 DEF SaveCheckpoint, At, GoTo, JobPoints
  <2>2. CheckpointOf(attempt[cur])
    BY <1>4, <1>10, <2>1, CurrentJob DEF SaveCheckpoint, CheckpointOf, jobVars
  <2>. QED BY <1>5, <1>10, <2>1, <2>2 DEF WorkerStep
<1>11. CASE FinishFailed
  BY <1>4, <1>11 DEF FinishFailed, GoTo
<1>12. CASE WorkerStep
  BY <1>6, <1>7, <1>8, <1>9, <1>10, <1>11, <1>12 DEF WorkerStep
<1>13. CASE WorkerBusy
  BY <1>13 DEF WorkerBusy, GoTo, Ready
<1>14. CASE JoinWorker \/ Crash \/ Serve
  BY <1>14 DEF JoinWorker, Crash, Serve, Off, Ready
<1>15. CASE Start
  <2>1. pc = "off" /\ UNCHANGED pc
    BY <1>15 DEF Start, IInv, Control, WorkerOnlyInService, worker
  <2>. QED BY <1>1, <2>1
<1>16. CASE ReconcileInterrupted \/ StopWorker \/ BeginRuntimeShutdown \/ UNCHANGED vars
            \/ \E t \in Target : RecoverOrphan(t)
  BY <1>2, <1>16 DEF ReconcileInterrupted, StopWorker, BeginRuntimeShutdown, RecoverOrphan,
                     vars, process
<1>. QED BY <1>3, <1>12, <1>13, <1>14, <1>15, <1>16 DEF Next, Recovery

(* Attempts only grow, and a job keeps its target.                         *)
LEMMA AttemptsGrow ==
  ASSUME IInv, [Next]_vars
  PROVE  /\ Existing \subseteq Existing'
         /\ \A j \in Existing : UNCHANGED target[j] /\ attempt'[j] >= attempt[j]
<1>1. \A j \in Existing : attempt[j] \in Nat /\ j \in Job
  BY RowFacts DEF RowsComplete, Attempt
<1>2. CASE JobAppears
  <2>1. PICK t \in Target : InsertJob(t)
    BY <1>2 DEF JobAppears
  <2>2. created \in Nat /\ created' = created + 1 /\ \A j \in Existing : j # created + 1
    BY <2>1, RowFacts, ConstantsAssumption DEF InsertJob, JobRowsOK, Existing
  <2>3. \A j \in Existing : UNCHANGED target[j] /\ UNCHANGED attempt[j]
    BY <1>1, <2>1, <2>2, RowFacts DEF InsertJob, JobRowsOK
  <2>. QED BY <1>1, <2>2, <2>3 DEF Existing
<1>3. CASE AttemptAgain
  BY <1>1, <1>3, RowFacts DEF AttemptAgain, JobRowsOK, Existing
<1>4. ASSUME UNCHANGED <<created, target, attempt>>
      PROVE  /\ Existing \subseteq Existing'
             /\ \A j \in Existing : UNCHANGED target[j] /\ attempt'[j] >= attempt[j]
  BY <1>1, <1>4 DEF Existing
<1>5. CASE RowsKept \/ AttemptsEnd \/ CancelRequested \/ JobClaimed \/ RowAlone
  BY <1>4, <1>5 DEF RowsKept, AttemptsEnd, CancelRequested, JobClaimed, RowAlone
<1>6. CASE ResultPublished
  BY <1>4, <1>6 DEF ResultPublished, CommitPublication
<1>. QED BY <1>2, <1>3, <1>5, <1>6, RowSteps DEF RowStep

LEMMA CheckpointStep ==
  ASSUME IInv, CheckpointInv, [Next]_vars
  PROVE  CheckpointInv'
<1>1. /\ \A j \in Existing : attempt[j] \in Attempt /\ j \in Job
      /\ Attempt \subseteq Nat /\ checkpoint \in [Job -> [Attempt -> Version \cup {None}]]
      /\ version \in Version /\ version # None
  BY RowFacts DEF RowsComplete, Attempt, AttemptRowsOK, IInv, Control, ProcessOK, Version, None
<1>2. ASSUME CheckpointOf(attempt[cur])
      PROVE  /\ \A j \in Job : \A a \in Attempt :
                  checkpoint'[j][a] = IF j = cur /\ a = attempt[cur] THEN version
                                      ELSE checkpoint[j][a]
             /\ Existing' = Existing /\ cur \in Existing
  BY <1>1, <1>2 DEF CheckpointOf, Existing
<1>3. ASSUME NEW j \in Job, NEW a \in Attempt, j \in Existing' => a > attempt'[j]
      PROVE  checkpoint'[j][a] = None
  <2>1. j \in Existing => a > attempt[j]
    <3>1. ASSUME j \in Existing PROVE a > attempt[j]
      <4>1. attempt'[j] >= attempt[j] /\ a > attempt'[j]
        BY <1>3, <3>1, AttemptsGrow
      <4>2. attempt'[j] \in Nat /\ attempt[j] \in Nat /\ a \in Nat
        BY <1>1, <3>1, ConstantsAssumption, NextStep DEF IInv, Data, JobRowsOK
      <4>. QED BY <4>1, <4>2
    <3>. QED BY <3>1
  <2>2. checkpoint[j][a] = None
    BY <2>1 DEF CheckpointInv
  <2>3. CASE CheckpointOf(attempt[cur])
    <3>1. ~(j = cur /\ a = attempt[cur])
      BY <1>1, <1>2, <2>1, <2>3
    <3>. QED BY <1>2, <2>2, <2>3, <3>1
  <2>. QED BY <2>2, <2>3, CheckpointWritten
<1>4. ASSUME pc' \in Ready, Typ(cur)' \in Checkpointed
      PROVE  IsLatestCheckpoint(cur, version)'
  <2>1. /\ pc \in JobPoints /\ UNCHANGED <<cur, version>>
        /\ \/ pc \in Ready
           \/ IsLatestCheckpoint(cur, version) /\ UNCHANGED checkpoint
           \/ Typ(cur) \notin Checkpointed
           \/ CheckpointOf(attempt[cur])
    BY <1>4, ReadyFrom
  <2>2. cur \in Existing /\ UNCHANGED target[cur]
    BY <2>1, CurrentJob, AttemptsGrow
  <2>3. Typ(cur) \in Checkpointed
    BY <1>4, <2>1, <2>2 DEF Typ
  <2>4. CASE CheckpointOf(attempt[cur])
    <3>1. checkpoint'[cur][attempt[cur]] = version
      BY <1>1, <1>2, <2>2, <2>4
    <3>2. \A b \in Attempt : b > attempt[cur] => checkpoint'[cur][b] = None
      BY <1>1, <1>2, <2>2, <2>4 DEF CheckpointInv
    <3>. QED BY <1>1, <2>1, <2>2, <3>1, <3>2 DEF IsLatestCheckpoint
  <2>5. CASE UNCHANGED checkpoint /\ ~CheckpointOf(attempt[cur])
    <3>1. IsLatestCheckpoint(cur, version)
      BY <2>1, <2>3, <2>5 DEF CheckpointInv, CheckpointProvenance, Ready
    <3>. QED BY <2>1, <2>5, <3>1 DEF IsLatestCheckpoint
  <2>. QED BY <2>4, <2>5, CheckpointWritten
<1>. QED BY <1>3, <1>4 DEF CheckpointInv, CheckpointProvenance, Ready

-----------------------------------------------------------------------------
(* Start-up recovery.                                                      *)

(* What recovery still has to do covers every import without a job.        *)
RecoveryCovers ==
  service = "recovering" => \A t \in Target : Jobless(t) => t \in orphans

NoImportLeft ==
  service # "serving" /\ service' = "serving" =>
    \A t \in Target : TypeOf[t] = "extract_document" /\ Status(t)' = "pending" =>
      \E j \in Existing' : target'[j] = t

(* The reconciliation writes the rows of extractions that have a job.      *)
LEMMA ReconcileCovers ==
  ASSUME IInv, ReconcileInterrupted
  PROVE  RecoveryCovers'
<1> PICK last \in [Row -> Abandoned \cup {None}] :
      /\ \A r \in Row : LET mine == {j \in Abandoned : RowOf(target[j]) = r}
                        IN  last[r] \in (IF mine = {} THEN {None} ELSE mine)
      /\ EndAttempts([j \in Abandoned |-> IF state[j] = "running" THEN "interrupted"
                                          ELSE "cancelled"], last)
  BY DEF ReconcileInterrupted
<1>1. UNCHANGED <<created, target>> /\ orphans' = {t \in Target : Jobless(t)}
  BY DEF ReconcileInterrupted, restVars, jobVars
<1>2. ASSUME NEW t \in Target, Jobless(t)' PROVE Jobless(t)
  <2>1. TypeOf[t] = "extract_document" /\ JobsOf(t) = {} /\ Status(t)' = "pending" /\ RowOf(t) \in Row
    BY <1>1, <1>2 DEF Jobless, JobsOf, Existing, Row
  <2>2. ASSUME NEW j \in Abandoned PROVE RowOf(target[j]) # RowOf(t)
    <3>1. j \in Existing /\ target[j] \in Target
      BY RowFacts DEF Abandoned, RowsComplete
    <3>. QED BY <2>1, <3>1, OwnRow DEF JobsOf
  <2>3. last[RowOf(t)] = None
    BY <2>1, <2>2
  <2>4. Status(t)' = Status(t)
    BY <2>1, <2>3 DEF EndAttempts, Status
  <2>. QED BY <2>1, <2>4 DEF Jobless
<1>. QED BY <1>1, <1>2 DEF RecoveryCovers

LEMMA RecoveryStep ==
  ASSUME IInv, RecoveryCovers, [Next]_vars
  PROVE  RecoveryCovers' /\ NoImportLeft
<1>1. CASE service' \notin {"recovering", "serving"}
  BY <1>1 DEF RecoveryCovers, NoImportLeft
<1>2. CASE service = "serving" /\ service' = "serving"
  BY <1>2 DEF RecoveryCovers, NoImportLeft
<1>3. CASE UNCHANGED <<durable, service, orphans>>
  BY <1>3 DEF durable, endVars, jobVars, RecoveryCovers, NoImportLeft, Jobless, Status, JobsOf,
              Existing
<1>4. CASE Request
  <2>1. Serving /\ UNCHANGED process
    BY <1>4
       DEF Request, ImportSource, ReadStorySnapshot, RequestFails, SupersedeInput,
           CreateExtractionJob, CreateStoryJob, CreateWholeBookRun, CreateCastingRun,
           CreateAuditionJob, Cancel, Retry, Resume, QueueNewAttempt
  <2>. QED BY <1>2, <2>1 DEF Serving, process
<1>5. CASE WorkerStep \/ WorkerBusy
  <2>1. pc # "off" /\ UNCHANGED process
    BY <1>5
       DEF WorkerStep, LoopTop, SettlePendingCancellation, ClaimNext, NoteActive, StartBoundary,
           LoadProgress, ReadInput, Work, SaveCheckpoint, CheckpointBoundary,
           PublishingProgress, PublicationBoundary, Boundary, UpdateProgress, Publish,
           FinishFailed, Finish, WorkerFrame, At, WorkerBusy, Outside, JobPoints
  <2>2. service # "recovering" /\ service' = service
    BY <2>1 DEF IInv, Control, WorkerOnlyInService, process
  <2>. QED BY <2>2 DEF RecoveryCovers, NoImportLeft
<1>6. CASE ReconcileInterrupted
  BY <1>6, ReconcileCovers DEF ReconcileInterrupted, NoImportLeft
<1>7. CASE Serve
  <2>1. \A t \in Target : TypeOf[t] = "extract_document" /\ Status(t)' = "pending" =>
          \E j \in Existing' : target'[j] = t
    BY <1>7 DEF Serve, durable, endVars, jobVars, RecoveryCovers, Jobless, Status, JobsOf, Existing
  <2>. QED BY <1>7, <2>1 DEF Serve, RecoveryCovers, NoImportLeft
<1>8. ASSUME NEW t \in Target, RecoverOrphan(t) PROVE RecoveryCovers' /\ NoImportLeft
  <2>1. PICK n : n = created + 1
    OBVIOUS
  <2>2. /\ n \in Job /\ n \notin Existing /\ Existing' = Existing \cup {n} /\ Existing \subseteq Job
        /\ target' = [target EXCEPT ![n] = t]
    <3>1. created \in Nat /\ created' = n /\ n \in Job
      BY <1>8, <2>1, RowFacts, ConstantsAssumption DEF RecoverOrphan, InsertJob, JobRowsOK
    <3>. QED BY <1>8, <2>1, <3>1, RowFacts, ConstantsAssumption
             DEF Existing, RecoverOrphan, InsertJob
  <2>3. target'[n] = t /\ \A j \in Existing : target'[j] = target[j]
    BY <2>2, RowFacts DEF JobRowsOK
  <2>4. ASSUME NEW u \in Target, Jobless(u)' PROVE u \in orphans'
    <3>1. u # t /\ Jobless(u)
      BY <1>8, <2>2, <2>3, <2>4 DEF Jobless, JobsOf, RecoverOrphan, Status
    <3>. QED BY <1>8, <3>1 DEF RecoveryCovers, RecoverOrphan
  <2>. QED BY <1>8, <2>4 DEF RecoverOrphan, RecoveryCovers, NoImportLeft
<1>9. CASE Start \/ StopWorker \/ JoinWorker \/ BeginRuntimeShutdown \/ Crash
  BY <1>1, <1>9 DEF Start, StopWorker, JoinWorker, BeginRuntimeShutdown, Crash
<1>10. CASE UNCHANGED vars
  BY <1>3, <1>10 DEF vars, process
<1>. QED BY <1>4, <1>5, <1>6, <1>7, <1>8, <1>9, <1>10 DEF Next, Recovery

-----------------------------------------------------------------------------
(* The theorems.                                                           *)

LEMMA InitRows ==
  ASSUME Init
  PROVE  HistoryInv /\ StatusInv /\ CheckpointInv /\ NoRowStuck /\ PublishedOncePerSuccess
<1>1. Existing = {}
  BY DEF Init, Existing
<1>2. \A t \in Target : Status(t) = "absent" /\ JobsOf(t) = {}
  BY <1>1 DEF Init, Status, Row, JobsOf
<1>3. HistoryInv
  BY <1>1 DEF Init, HistoryInv
<1>4. StatusInv
  BY <1>1, <1>2 DEF StatusInv
<1>5. CheckpointInv
  BY DEF Init, CheckpointInv, CheckpointProvenance
<1>6. NoRowStuck
  BY <1>2 DEF NoRowStuck
<1>7. PublishedOncePerSuccess
  <2>1. \A t \in Target : {j \in JobsOf(t) : state[j] = "succeeded"} = {}
    BY <1>2
  <2>. QED BY <2>1, FS_EmptySet DEF Init, PublishedOncePerSuccess
<1>. QED BY <1>3, <1>4, <1>5, <1>6, <1>7

(* Whatever requests, claims, publications, failures, stops, crashes and   *)
(* reconciliations interleave, the attempt rows of a job are a history in  *)
(* which only failed and interrupted attempts have a successor, the        *)
(* execution rows end the same way, and the status of an extraction or a   *)
(* casting run never contradicts its job.                                  *)
THEOREM RowsTellOneStory == Spec => []RowsMirrorJobs
<1>1. Init => HistoryInv /\ StatusInv
  BY InitRows
<1>2. IInv /\ HistoryInv /\ StatusInv /\ [Next]_vars => HistoryInv' /\ StatusInv'
  BY HistoryStep, StatusStep
<1>3. HistoryInv /\ StatusInv => RowsMirrorJobs
  BY HistoryIsInvariant, StatusIsInvariant DEF RowsMirrorJobs
<1>. QED BY <1>1, <1>2, <1>3, Invariance, PTL DEF Spec

(* No extraction, run or audition session is left saying that work is      *)
(* going on when no job would change it again: not by _finish_cancelled,   *)
(* not by a failure, not by the reconciliation of several jobs that share  *)
(* one session row.                                                        *)
THEOREM BusyRowsHaveJobs == Spec => []NoRowStuck
<1>1. Init => NoRowStuck
  BY InitRows
<1>2. IInv /\ NoRowStuck /\ [Next]_vars => NoRowStuck'
  BY StuckStep
<1>. QED BY <1>1, <1>2, Invariance, PTL DEF Spec

(* The publish transactions publish a result exactly as often as a job     *)
(* succeeds: no crash, retry, resume or cancellation publishes a result    *)
(* without its success, or twice for one.                                  *)
THEOREM PublicationsAreSuccesses == Spec => []PublishedOncePerSuccess
<1>1. Init => PublishedOncePerSuccess
  BY InitRows
<1>2. IInv /\ PublishedOncePerSuccess /\ [Next]_vars => PublishedOncePerSuccess'
  BY PublicationStep
<1>. QED BY <1>1, <1>2, Invariance, PTL DEF Spec

(* A result that is about to be published was computed by the release that *)
(* publishes it, however often the application was upgraded between the    *)
(* attempts of its job.                                                    *)
THEOREM OwnReleaseResults == Spec => []CheckpointProvenance
<1>1. Init => CheckpointInv
  BY InitRows
<1>2. IInv /\ CheckpointInv /\ [Next]_vars => CheckpointInv'
  BY CheckpointStep
<1>3. CheckpointInv => CheckpointProvenance
  BY DEF CheckpointInv
<1>. QED BY <1>1, <1>2, <1>3, Invariance, PTL DEF Spec

(* Whatever crash came between the transaction of an import and the one    *)
(* that creates its job, reconcile_orphaned_extractions has given every    *)
(* pending extraction a job before the service answers requests again.     *)
THEOREM NoImportForgotten == Spec => StartRecoversImports
<1>1. Init => RecoveryCovers
  BY DEF Init, RecoveryCovers
<1>2. IInv /\ RecoveryCovers /\ [Next]_vars => RecoveryCovers' /\ NoImportLeft
  BY RecoveryStep
<1>3. NoImportLeft => (service # "serving" /\ service' = "serving" =>
         \A t \in Target : TypeOf[t] = "extract_document" /\ Status(t)' = "pending" =>
           \E j \in Existing' : target'[j] = t)
  BY DEF NoImportLeft
<1>. QED BY <1>1, <1>2, <1>3, Invariance, PTL DEF Spec, StartRecoversImports
=============================================================================
