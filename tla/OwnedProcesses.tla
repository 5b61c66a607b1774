--------------------------- MODULE OwnedProcesses ---------------------------
(***************************************************************************)
(* The worker thread, the processes it owns, and the end of the service    *)
(* (jobs.py, JobWorker; app.py, lifespan).                                 *)
(*                                                                         *)
(* One thread runs one job at a time, an extraction in a parser process    *)
(* (ParserProcess) or a generation with a managed speech worker            *)
(* (SpeechRuntime).  The lifespan seals the runtimes, stops the worker     *)
(* thread, which can take longer than it waits, stops the runtimes, and    *)
(* repeats what did not complete.  The service can end at any time and is  *)
(* started again.                                                          *)
(***************************************************************************)
EXTENDS ParserProcess, SpeechRuntime

VARIABLES
  life,      \* how far the lifespan is
  quiesced   \* worker_quiesced

ownedVars == <<parserVars, speechVars, life, quiesced>>

ThreadIdle == pstep = "idle" /\ gen = "none"

Init == ParserInit /\ SpeechInit /\ life = "up" /\ quiesced = FALSE

----------------------------------------------------------------------------
(* The worker thread.                                                      *)

\* Until worker.stop() is called, the thread takes another job.
TakesJobs == ThreadIdle /\ life \in {"up", "sealed"}

Extract ==
  /\ TakesJobs
  /\ Begin \/ BeginFails
  /\ UNCHANGED <<speechVars, life, quiesced>>

Generate ==
  /\ TakesJobs
  /\ Request
  /\ UNCHANGED <<parserVars, life, quiesced>>

\* The lifespan waits for the thread except while it stops the runtimes.
ThreadRuns == life \notin {"closed", "error"}

ExtractionStep ==
  /\ ThreadRuns
  /\ RunStep
  /\ UNCHANGED <<speechVars, life, quiesced>>

SpeechStep ==
  /\ ThreadRuns
  /\ GenerationStep
  /\ UNCHANGED <<parserVars, life, quiesced>>

----------------------------------------------------------------------------
(* The lifespan.                                                           *)

Seal ==
  /\ life = "up"
  /\ SealRuntimes
  /\ life' = "sealed" /\ UNCHANGED <<quiesced, parserVars>>

\* worker.stop(): a running extraction sees it as a cancellation.
StopWorker ==
  /\ life = "sealed"
  /\ life' = "draining"
  /\ stop' = IF pstep = "idle" THEN stop ELSE stop \cup {"cancel"}
  /\ UNCHANGED <<quiesced, speechVars, pstep, tree, child, mail, code, terminal,
                 evidence, outcome>>

\* The thread has ended, or has not within the time the stop waits.
StopRuntimes ==
  /\ life = "draining"
  /\ quiesced' \in (IF ThreadIdle THEN {TRUE} ELSE {FALSE})
  /\ BeginStop
  /\ life' = "stopping" /\ UNCHANGED parserVars

RuntimesStopped == pending = {} /\ stopped = None

\* Mutant: a thread that ended meanwhile is as good as one that had ended.
CloseEarly ==
  /\ RuntimesStopped /\ ~incomplete
  /\ life \in {"stopping", "again"} /\ ThreadIdle
  /\ life' = "closed" /\ UNCHANGED <<quiesced, parserVars, speechVars>>

Close ==
  /\ RuntimesStopped /\ ~incomplete
  /\ \/ life = "stopping" /\ quiesced
     \/ life = "again"
  /\ life' = "closed" /\ UNCHANGED <<quiesced, parserVars, speechVars>>

\* A thread that was still running is waited for once more; then, or when
\* the first shutdown failed, the runtimes are stopped again.
StopAgain ==
  /\ life = "stopping" /\ RuntimesStopped
  /\ ~quiesced \/ incomplete
  /\ ThreadIdle
  /\ quiesced' = TRUE
  /\ BeginStop
  /\ life' = "again" /\ UNCHANGED parserVars

\* The thread still runs, or a runtime could not be accounted for again.
CloseFails ==
  /\ RuntimesStopped
  /\ \/ life = "stopping" /\ ~ThreadIdle
     \/ life = "again" /\ incomplete
  /\ life' = "error" /\ UNCHANGED <<quiesced, parserVars, speechVars>>

LifespanStep ==
  \/ Seal \/ StopWorker \/ StopRuntimes \/ Close \/ StopAgain \/ CloseFails
  \/ ShutdownStep /\ UNCHANGED <<parserVars, life, quiesced>>

\* The service ends, by itself or not, with every handle it holds, and is
\* started again.
Restart ==
  /\ RestartRuntimes
  /\ pstep' = "idle" /\ tree' = {} /\ child' = "none" /\ mail' = "none" /\ code' = "none"
  /\ stop' = {} /\ terminal' = "none" /\ evidence' = NoEvidence /\ outcome' = "none"
  /\ life' = "up" /\ quiesced' = FALSE

Environment ==
  \/ ParserEnv /\ UNCHANGED <<speechVars, life, quiesced>>
  \/ SpeechEnv /\ UNCHANGED <<parserVars, life, quiesced>>

Next ==
  \/ Extract \/ Generate \/ ExtractionStep \/ SpeechStep
  \/ LifespanStep \/ Environment \/ Restart

Spec == Init /\ [][Next]_ownedVars

----------------------------------------------------------------------------
\* No process of the service is out of its hands: a parser that outlives its
\* call was reported (parser_process.py:964), a speech worker that may be
\* alive is cached or in quarantine (audition_repository.py:8435), and when
\* the lifespan has ended without an error nothing runs, every runtime it
\* owned has an exit record and no row says that it lives (app.py:440).
NoOrphan ==
  /\ NoParserOrphan /\ NoSpeechOrphan
  /\ life = "closed" =>
       /\ ThreadIdle
       /\ quarantine = {} /\ owned \subseteq records
       /\ \A i \in Inst : proc[i] \notin Alive /\ row[i] \notin LiveRow
=============================================================================
