---------------------------- MODULE ParserProcess ----------------------------
(***************************************************************************)
(* One document extraction in its own process tree                         *)
(* (parser_process.py, ParserProcessRunner.run).                           *)
(*                                                                         *)
(* The tree is a launcher and the target it starts; both are put in a job  *)
(* object that kills what is left when its handle is closed.  The parent   *)
(* waits for the target's ownership message, sends it the start byte,      *)
(* reads its messages, and then waits for it to exit.  A cancellation or   *)
(* the deadline can fall between any two of these steps; either process    *)
(* can die at any time; and a termination can fail to be confirmed within  *)
(* its grace.  A document and its result are not modelled: the target      *)
(* sends one message, a result, an error or something malformed; the       *)
(* progress reports before it, which change nothing here, are left out.    *)
(***************************************************************************)
VARIABLES
  pstep,     \* where run() is: "idle" between two calls
  tree,      \* the processes of the tree that are alive
  child,     \* what the target has got to
  mail,      \* the message in the result pipe
  code,      \* the exit code of the target
  stop,      \* cancellation and deadline, as the parent sees them
  terminal,  \* the terminal message that was read
  evidence,  \* _last_evidence, dropped at the start of a call
  outcome    \* how the last call ended

parserVars == <<pstep, tree, child, mail, code, stop, terminal, evidence, outcome>>

NoEvidence == [reason |-> "none", confirmed |-> FALSE]

Messages == {"result", "error", "malformed"}

ParserInit ==
  /\ pstep = "idle" /\ tree = {} /\ child = "none" /\ mail = "none"
  /\ code = "none" /\ stop = {} /\ terminal = "none"
  /\ evidence = NoEvidence /\ outcome = "none"

----------------------------------------------------------------------------
(* How a call ends.                                                        *)

\* The call is over and the handle of the job object is closed.
Finish(out) ==
  /\ pstep' = "idle" /\ outcome' = out /\ terminal' = "none"
  /\ mail' = "none" /\ child' = "none" /\ stop' = {}

Record(reason, confirmed) ==
  evidence' = [reason |-> reason, confirmed |-> confirmed]

\* _terminate_and_record: the tree is killed and its exit confirmed, or the
\* caller is told that it could not be, whatever the call was ending for.
Terminate(reason, out) ==
  \/ /\ tree' = {} /\ Record(reason, TRUE)
     /\ code' = IF "target" \in tree THEN "nonzero" ELSE code
     /\ Finish(out)
  \/ /\ tree # {}
     /\ Record(reason, FALSE) /\ Finish("termination_failed")
     /\ UNCHANGED <<tree, code>>

\* Cancellation is looked at first, then the deadline.
StopReason == IF "cancel" \in stop THEN "cancel" ELSE "deadline"

Stopped ==
  /\ stop # {}
  /\ IF StopReason = "cancel" THEN Terminate("cancelled", "cancelled")
                              ELSE Terminate("deadline", "deadline")

----------------------------------------------------------------------------
(* The parent.                                                             *)

Begin ==
  /\ pstep = "idle"
  /\ pstep' = "handshake" /\ outcome' = "none"
  /\ tree' = {"launcher", "target"} /\ child' = "boot"
  /\ code' = "none" /\ evidence' = NoEvidence
  /\ UNCHANGED <<mail, stop, terminal>>

\* The process does not start, or cannot be put in the job object.  (A call
\* that is cancelled before this starts nothing and is not modelled; what
\* survives an earlier call is not followed beyond the next one.)
BeginFails ==
  /\ pstep = "idle"
  /\ \E started \in SUBSET {"launcher", "target"} :
       \/ /\ tree' = {} /\ Record("ownership_error", TRUE) /\ Finish("ownership")
       \/ /\ started # {} /\ tree' = started
          /\ Record("ownership_error", FALSE) /\ Finish("termination_failed")
  /\ UNCHANGED code

HandshakeStopped == pstep = "handshake" /\ Stopped

\* The target says who it is and is sent the start byte.
Handshake ==
  /\ pstep = "handshake"
  /\ child = "ready"
  /\ stop = {}
  /\ pstep' = "reading"
  /\ child' = IF "target" \in tree THEN "parsing" ELSE child
  /\ UNCHANGED <<tree, mail, code, stop, terminal, evidence, outcome>>

\* A target outside the job object, a launcher that is gone, or any other
\* failure of the handshake.
HandshakeFails ==
  /\ pstep = "handshake"
  /\ Terminate("ownership_error", "ownership")

ReadingStopped == pstep \in {"reading", "polled"} /\ Stopped

\* What the pipe yields: a message, or the end of it when the target is gone.
Readable == mail # "none" \/ "target" \notin tree

Read ==
  /\ pstep = "reading"
  /\ mail \in {"result", "error"}
  /\ IF stop # {}
     THEN Stopped
     ELSE /\ pstep' = "joining" /\ terminal' = mail /\ mail' = "none"
          /\ UNCHANGED <<tree, child, code, stop, evidence, outcome>>

ReadFails ==
  /\ pstep = "reading"
  /\ Readable /\ mail \in {"none", "malformed"}
  /\ Terminate("protocol_error", "protocol")

\* The pipe was empty for one poll; what follows no longer looks at it.
PollTimesOut ==
  /\ pstep = "reading"
  /\ ~Readable
  /\ pstep' = "polled"
  /\ UNCHANGED <<tree, child, mail, code, stop, terminal, evidence, outcome>>

LookAlive ==
  /\ pstep = "polled"
  /\ IF "launcher" \in tree
     THEN /\ pstep' = "reading"
          /\ UNCHANGED <<tree, child, mail, code, stop, terminal, evidence, outcome>>
     ELSE IF tree = {}
     THEN Record("process_error", TRUE) /\ Finish("failed") /\ UNCHANGED <<tree, code>>
     ELSE Terminate("process_error", "failed")

\* Asking for the cancellation state, or reporting progress, fails: the
\* tree is terminated if its launcher lives, and else only by the handle.
CallbackFails ==
  /\ pstep \in {"reading", "joining", "reaping"}
  /\ IF "launcher" \in tree
     THEN Terminate("protocol_error", "failed")
     ELSE tree' = {} /\ Finish("failed") /\ UNCHANGED <<code, evidence>>

JoinStopped ==
  /\ \/ pstep = "joining"
     \/ pstep = "reaping" /\ "cancel" \in stop
  /\ Stopped

\* The target has exited; cancellation, but not the deadline, is looked at
\* once more.
JoinTarget ==
  /\ pstep = "joining"
  /\ "target" \notin tree
  /\ pstep' = "reaping"
  /\ UNCHANGED <<tree, child, mail, code, stop, terminal, evidence, outcome>>

\* Mutant: the exit code of the target is not looked at.
ReapBlind ==
  /\ pstep = "reaping" /\ "cancel" \notin stop
  /\ tree' = {} /\ terminal = "result"
  /\ Record("succeeded", TRUE) /\ Finish("result")
  /\ UNCHANGED code

\* The launcher is waited for, then killed; only a tree that is gone lets
\* the exit code and the validation of the result decide.
Reap ==
  /\ pstep = "reaping" /\ "cancel" \notin stop
  /\ \/ /\ tree' = {}
        /\ \/ code # "zero" /\ Record("process_error", TRUE) /\ Finish("failed")
           \/ /\ code = "zero" /\ terminal = "result"
              /\ \/ Record("protocol_error", TRUE) /\ Finish("protocol")
                 \/ Record("succeeded", TRUE) /\ Finish("result")
           \/ /\ code = "zero" /\ terminal = "error"
              /\ Record("parser_error", TRUE) /\ Finish("parser_error")
     \/ /\ tree # {}
        /\ \/ tree' = {} /\ Record("process_error", TRUE)
           \/ tree' = tree /\ Record("process_error", FALSE)
        /\ Finish("termination_failed")
  /\ UNCHANGED code

----------------------------------------------------------------------------
(* The child, and what happens to the call from outside.                   *)

Boot ==
  /\ child = "boot" /\ "target" \in tree
  /\ child' \in {"ready", "unassigned"}
  /\ UNCHANGED <<pstep, tree, mail, code, stop, terminal, evidence, outcome>>

Send(msg) ==
  /\ child = "parsing" /\ "target" \in tree
  /\ mail' = msg /\ child' = "sent"
  /\ UNCHANGED <<pstep, tree, code, stop, terminal, evidence, outcome>>

\* The target returns, or dies with whatever it sent still in the pipe.
ExitTarget ==
  /\ "target" \in tree /\ pstep # "idle"
  /\ tree' = tree \ {"target"}
  /\ code' \in (IF child = "sent" THEN {"zero", "nonzero"} ELSE {"nonzero"})
  /\ UNCHANGED <<pstep, child, mail, stop, terminal, evidence, outcome>>

ExitLauncher ==
  /\ "launcher" \in tree /\ pstep # "idle"
  /\ tree' = tree \ {"launcher"}
  /\ UNCHANGED <<pstep, child, mail, code, stop, terminal, evidence, outcome>>

\* The handle of the job object is closed: the system ends what survived.
SurvivorsEnd ==
  /\ pstep = "idle" /\ tree # {}
  /\ tree' = {}
  /\ UNCHANGED <<pstep, child, mail, code, stop, terminal, evidence, outcome>>

StopCall(why) ==
  /\ pstep # "idle" /\ why \notin stop
  /\ stop' = stop \cup {why}
  /\ UNCHANGED <<pstep, tree, child, mail, code, terminal, evidence, outcome>>

\* The steps of run() after its start.
RunStep ==
  \/ HandshakeStopped \/ Handshake \/ HandshakeFails
  \/ ReadingStopped \/ Read \/ ReadFails \/ PollTimesOut \/ LookAlive
  \/ CallbackFails \/ JoinStopped \/ JoinTarget \/ Reap

ParserEnv ==
  \/ Boot \/ ExitTarget \/ ExitLauncher \/ SurvivorsEnd
  \/ \E msg \in Messages : Send(msg)
  \/ \E why \in {"cancel", "deadline"} : StopCall(why)

----------------------------------------------------------------------------
\* A call of run() that ended in any other way than by saying that the
\* termination failed has left no process alive (parser_process.py:894).
NoParserOrphan ==
  pstep = "idle" /\ tree # {} => outcome = "termination_failed" /\ ~evidence.confirmed

\* A result is returned exactly when the recorded evidence says that this
\* target succeeded, its exit code was zero and its whole tree was seen to
\* be gone (parser_process.py:1017).
ResultIsVouched ==
  pstep = "idle" /\ outcome # "none" =>
    /\ (outcome = "result") <=> (evidence.reason = "succeeded")
    /\ outcome = "result" => evidence.confirmed /\ code = "zero" /\ tree = {}
=============================================================================
