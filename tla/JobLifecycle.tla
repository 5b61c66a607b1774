---------------------------- MODULE JobLifecycle ----------------------------
(***************************************************************************)
(* What the job queue promises its clients, without its worker, processes, *)
(* transactions or bookkeeping: the state machine of a job, one running    *)
(* job at a time in order of creation, one active job for each target.     *)
(* JobQueue is shown to implement it.                                      *)
(***************************************************************************)
EXTENDS Naturals

CONSTANTS
  Target,   \* what jobs are created for
  Job,      \* jobs, numbered in order of creation
  None      \* the target of a job that does not exist yet

VARIABLES
  target,   \* what each job works on
  state,    \* "none" before the job exists
  attempt   \* number of its current attempt

lifecycle == <<target, state, attempt>>

Unsettled  == {"queued", "running", "cancel_requested"}
Free(t, j) == \A i \in Job \ {j} : target[i] = t => state[i] \notin Unsettled

Init ==
  /\ target = [j \in Job |-> None]
  /\ state = [j \in Job |-> "none"]
  /\ attempt = [j \in Job |-> 0]

Move(j, s) == /\ state' = [state EXCEPT ![j] = s]
              /\ UNCHANGED <<target, attempt>>

Create(j, t) ==
  /\ state[j] = "none" /\ Free(t, j)
  /\ target' = [target EXCEPT ![j] = t]
  /\ state' = [state EXCEPT ![j] = "queued"]
  /\ attempt' = [attempt EXCEPT ![j] = 1]

(* Another attempt, by retry after a failure or resume after an            *)
(* interruption.  Three attempts is the most a retry may reach.            *)
Requeue(j) ==
  /\ \/ state[j] = "interrupted"
     \/ state[j] = "failed" /\ attempt[j] < 3
  /\ Free(target[j], j)
  /\ state' = [state EXCEPT ![j] = "queued"]
  /\ attempt' = [attempt EXCEPT ![j] = @ + 1]
  /\ UNCHANGED target

Claim(j) ==
  /\ state[j] = "queued"
  /\ \A i \in Job : /\ state[i] # "running"
                    /\ state[i] = "queued" => j <= i
  /\ Move(j, "running")

Cancel(j) == state[j] \in {"queued", "running"} /\ Move(j, "cancel_requested")
Settle(j) == state[j] = "cancel_requested" /\ Move(j, "cancelled")
Finish(j) == /\ state[j] = "running"
             /\ \E s \in {"succeeded", "failed", "interrupted"} : Move(j, s)

(* A start ends everything its predecessor left unfinished.                *)
Recover ==
  /\ state' = [j \in Job |-> CASE state[j] = "running"          -> "interrupted"
                               [] state[j] = "cancel_requested" -> "cancelled"
                               [] OTHER                         -> state[j]]
  /\ UNCHANGED <<target, attempt>>

Next == \/ \E j \in Job : \/ Requeue(j) \/ Claim(j) \/ Cancel(j) \/ Settle(j) \/ Finish(j)
                          \/ \E t \in Target : Create(j, t)
        \/ Recover

Spec == Init /\ [][Next]_lifecycle
=============================================================================
