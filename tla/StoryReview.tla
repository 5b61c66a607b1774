---------------------------- MODULE StoryReview ----------------------------
(* What a project's story evidence is, and who may say that it is           *)
(* approved: the extractions of its documents and their Import Reviews      *)
(* (projects.py), the analysis runs of the approved story, the review gates *)
(* of a run and the human corrections that send gates back                  *)
(* (story_intelligence.py).                                                 *)
(*                                                                          *)
(* Every action is one BEGIN IMMEDIATE transaction; the jobs that carry     *)
(* an extraction or a run are JobQueue's.  A row is identified by its index *)
(* and a text by the extraction it came from.  Rows are only appended, so   *)
(* a gate keeps the revision of its latest row: what the code compares by   *)
(* fingerprint and identifier changes exactly when that revision does.      *)
(* "rejected" stands for both refusals, rejected and changes_requested,     *)
(* which the code never tells apart.                                        *)
EXTENDS Integers, Sequences, FiniteSets

CONSTANTS
  Upstream,       \* the gates a whole-book approval rests on
  Dialogue,       \* the one of them that a speaker correction sends back
  MaxExtractions, \* bound: extractions of all documents of the project
  MaxRuns,        \* bound: analysis runs
  MaxChanges      \* bound: everything that takes an approval away

ASSUME StoryAssumption ==
  /\ Dialogue \in Upstream /\ "whole" \notin Upstream
  /\ {MaxExtractions, MaxRuns, MaxChanges} \subseteq Nat

VARIABLES
  extractions, \* [source, status, review, baseline] in order of creation
  story,       \* the extraction of project.story_id, 0 before an approval
  runs,        \* [input, pinned, published, own, gates] of each analysis run
  changes      \* how many times evidence was changed or refused (bound)

storyVars == <<extractions, story, runs>>

Gate     == Upstream \cup {"whole"}
Decision == {"approved", "rejected"}

StoryInit == extractions = <<>> /\ story = 0 /\ runs = <<>>

\* A step that may take an authority away is counted.
Disturb == changes < MaxChanges /\ changes' = changes + 1

----------------------------------------------------------------------------
(* Documents and their Import Reviews.                                      *)

Sources      == {extractions[e].source : e \in DOMAIN extractions}
Of(s)        == {e \in DOMAIN extractions : extractions[e].source = s}
LatestOf(s)  == CHOOSE e \in Of(s) : \A f \in Of(s) : f <= e
LatestSource == CHOOSE s \in Sources : \A t \in Sources : t <= s
IsLatest(e)  == extractions[e].source = LatestSource /\ e = LatestOf(LatestSource)

Pending(s) == [source |-> s, status |-> "pending", review |-> "none", baseline |-> 0]

\* create_pending_import: other bytes than the latest document's.
ImportDocument ==
  /\ Len(extractions) < MaxExtractions
  /\ IF extractions = <<>> THEN UNCHANGED changes ELSE Disturb
  /\ extractions' = Append(extractions, Pending(Cardinality(Sources) + 1))
  /\ UNCHANGED <<story, runs>>

\* create_reextraction of any of the documents; a pending one is returned.
Reextract(s) ==
  /\ Len(extractions) < MaxExtractions
  /\ extractions[LatestOf(s)].status # "pending"
  /\ Disturb
  /\ extractions' = Append(extractions, Pending(s))
  /\ UNCHANGED <<story, runs>>

\* publish_extraction: the text, its story and a pending review, together.
FinishExtraction(e) ==
  /\ extractions[e].status = "pending"
  /\ extractions' = [extractions EXCEPT ![e].status = "complete", ![e].review = "pending"]
  /\ UNCHANGED <<story, runs, changes>>

FailExtraction(e) ==
  /\ extractions[e].status = "pending"
  /\ Disturb
  /\ extractions' = [extractions EXCEPT ![e].status = "failed"]
  /\ UNCHANGED <<story, runs>>

\* A retried job takes up its own extraction, whatever came after it.
RetryExtraction(e) ==
  /\ extractions[e].status = "failed"
  /\ extractions' = [extractions EXCEPT ![e].status = "pending"]
  /\ UNCHANGED <<story, runs, changes>>

\* decide_import_review: once for each extraction, and only for the latest.
DecideImport(e, d) ==
  /\ extractions[e].review = "pending" /\ IsLatest(e)
  /\ IF d = "approved" THEN UNCHANGED changes ELSE Disturb
  /\ extractions' = [extractions EXCEPT ![e].review = d]
  /\ story' = IF d = "approved" THEN e ELSE story
  /\ UNCHANGED runs

\* current_approved_input: the story is of the latest extraction of the
\* latest document, and the latest review of that extraction approves it.
InputCurrent == story # 0 /\ IsLatest(story) /\ extractions[story].review = "approved"

----------------------------------------------------------------------------
(* Analysis runs, their gates and corrections.                              *)

\* _assert_run_approval_current, the correction set aside.
RunCurrent(r) == InputCurrent /\ runs[r].input = story

\* effective_correction_set_fingerprint of a run: its own corrections and
\* the baseline ones of its text.  What it inherits never changes.
CorrectionsOf(r) == <<runs[r].own, extractions[runs[r].input].baseline>>

\* create_whole_book_run pins the corrections recorded so far.
CreateRun ==
  /\ Len(runs) < MaxRuns /\ InputCurrent
  /\ runs' = Append(runs, [input |-> story, pinned |-> extractions[story].baseline,
                           published |-> FALSE, own |-> 0, gates |-> <<>>])
  /\ UNCHANGED <<extractions, story, changes>>

FirstRow(g) == [state |-> "pending", revision |-> 1, eligible |-> g # "whole"]

\* publish_result: refused when the approval, or a baseline correction that
\* applies to the run's text, changed since the run was created.
PublishRun(r) ==
  /\ ~runs[r].published /\ RunCurrent(r)
  /\ runs[r].pinned = extractions[runs[r].input].baseline
  /\ runs' = [runs EXCEPT ![r].published = TRUE, ![r].gates = [g \in Gate |-> FirstRow(g)]]
  /\ UNCHANGED <<extractions, story, changes>>

GateState(r, g) == runs[r].gates[g].state
UpstreamApproved(r) == \A g \in Upstream : GateState(r, g) = "approved"

\* _gate_eligible
GateEligible(r, g) == runs[r].gates[g].eligible \/ (g = "whole" /\ UpstreamApproved(r))

NextRow(row, st, el) == [state |-> st, revision |-> row.revision + 1, eligible |-> el]

\* The new row of a decision keeps the eligibility it was decided with.
Decided(r, g, d) == NextRow(runs[r].gates[g], d, GateEligible(r, g))

\* Refusing an upstream gate takes an approval of the whole book back.
WholeAfter(r, g, d) ==
  IF g # "whole" /\ d # "approved" /\ GateState(r, "whole") = "approved"
  THEN NextRow(runs[r].gates["whole"], "invalidated", FALSE)
  ELSE runs[r].gates["whole"]

\* decide_review on the latest row of the gate.
DecideGate(r, g, d) ==
  /\ runs[r].published /\ RunCurrent(r)
  /\ d = "approved" => GateEligible(r, g)
  /\ IF d = "approved" /\ GateState(r, g) # "approved" THEN UNCHANGED changes ELSE Disturb
  /\ runs' = [runs EXCEPT ![r].gates =
       [[@ EXCEPT !["whole"] = WholeAfter(r, g, d)] EXCEPT ![g] = Decided(r, g, d)]]
  /\ UNCHANGED <<extractions, story>>

\* The gate rows that a correction appends.
SentBack(gates, gs) ==
  [g \in Gate |-> IF g \notin gs THEN gates[g] ELSE
     NextRow(gates[g], IF gates[g].state = "approved" THEN "invalidated" ELSE "pending",
             g # "whole")]

\* _CORRECTION_GATES and the gates whose evidence the corrected entity is
\* found in: every category sends the whole book back, and there is one, or
\* one kind of entity, for each set of the others.
Category == {gs \cup {"whole"} : gs \in SUBSET Upstream}

\* append_correction: asks nothing of the run's approval.
Correct(r, gs) ==
  /\ runs[r].published
  /\ Disturb
  /\ runs' = [runs EXCEPT ![r].own = @ + 1, ![r].gates = SentBack(@, gs)]
  /\ UNCHANGED <<extractions, story>>

\* correct_speaker, of the baseline analysis: sends back the gates of every
\* published run of the text in which the line is found.
CorrectSpeaker(found) ==
  /\ story # 0
  /\ \A r \in found : runs[r].published /\ runs[r].input = story
  /\ Disturb
  /\ extractions' = [extractions EXCEPT ![story].baseline = @ + 1]
  /\ runs' = [r \in DOMAIN runs |->
       IF r \in found THEN [runs[r] EXCEPT !.gates = SentBack(@, {Dialogue, "whole"})]
       ELSE runs[r]]
  /\ UNCHANGED story

StoryNext ==
  \/ ImportDocument \/ CreateRun
  \/ \E s \in Sources : Reextract(s)
  \/ \E e \in DOMAIN extractions :
       \/ FinishExtraction(e) \/ FailExtraction(e) \/ RetryExtraction(e)
       \/ \E d \in Decision : DecideImport(e, d)
  \/ \E r \in DOMAIN runs :
       \/ PublishRun(r)
       \/ \E g \in Gate, d \in Decision : DecideGate(r, g, d)
       \/ \E gs \in Category : Correct(r, gs)
  \/ \E found \in SUBSET DOMAIN runs : CorrectSpeaker(found)

----------------------------------------------------------------------------
\* docs/agents/approval-gates.md:53: the service requires all three current
\* approvals before Whole-Book Analysis Review can be approved.  Checked
\* against the code: a refused whole book keeps the eligibility it was
\* refused with, an upstream gate is refused after it, and the whole book is
\* approved over that refusal.
WholeBookRestsOnUpstream ==
  \A r \in DOMAIN runs : runs[r].published =>
    (GateState(r, "whole") = "approved" => UpstreamApproved(r))

StorySpec == StoryInit /\ changes = 0 /\ [][StoryNext]_<<storyVars, changes>>
============================================================================
