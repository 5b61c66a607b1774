--------------------------- MODULE CastingReview ---------------------------
(* The casting of an approved analysis (casting_repository.py): casting     *)
(* runs pinned to the review decisions they were created from, the human    *)
(* corrections that assign voices and publish a new cast snapshot, the      *)
(* three review gates of a snapshot, and what happens to approvals when the *)
(* voice catalog or the rights of a selected voice change.                  *)
(*                                                                          *)
(* The catalog is read once by each start of the service; its fingerprint   *)
(* is the whole function.  A snapshot is identified by its revision; there  *)
(* is one gate review for each gate of it.  An assignment is identified by  *)
(* the snapshot that first held it.  Warnings are taken as acknowledged,    *)
(* restricted rights as acknowledged; conflicts between roles are warnings. *)
EXTENDS StoryReview

CONSTANTS
  Role,       \* the roles of the cast
  Narrators,  \* the narrators among them
  Custom,     \* the roles a human may add to a published cast
  Voice,      \* the voices of the catalog
  NoVoice,
  Leaf,       \* the versions the catalog holds of a voice
  MaxCasts,   \* bound: casting runs
  MaxCorrections \* bound: corrections and custom roles of a run

ASSUME CastingAssumption ==
  /\ Narrators \subseteq Role /\ Custom \subseteq Role \ Narrators
  /\ NoVoice \notin Voice /\ {MaxCasts, MaxCorrections} \subseteq Nat

VARIABLES
  catalog,   \* the catalog of the running service
  expired,   \* voices whose rights are no longer in force
  casts      \* [analysis, gates, corrections, catalog, published, snapshot,
             \*  roles, assigned, frozen, decisions] of each casting run

castVars == <<catalog, expired, casts>>

CastGate == {"narrators", "characters", "complete"}
RolesOf(k, g) ==
  IF g = "complete" THEN casts[k].roles
  ELSE IF g = "narrators" THEN casts[k].roles \cap Narrators
  ELSE casts[k].roles \ Narrators

AssignmentState == {"none", "selected", "locked", "cleared", "uncast"}
Unassigned == [state |-> "none", voice |-> NoVoice, since |-> 0,
               latched |-> FALSE, unfit |-> FALSE]

CastingInit ==
  catalog \in [Voice -> Leaf] /\ expired = {} /\ casts = <<>>

----------------------------------------------------------------------------
(* The evidence a run rests on.                                             *)

GateRevisions(a) == [g \in Gate |-> runs[a].gates[g].revision]

\* Mutant: the gates alone tell that the analysis is as it was.
GatesAreEvidence(a, pinnedGates, pinnedCorrections) ==
  /\ runs[a].published /\ RunCurrent(a)
  /\ \A g \in Gate : GateState(a, g) = "approved"
  /\ GateRevisions(a) = pinnedGates

\* _phase_2_evidence: the run's text is still approved, nothing was corrected,
\* and the pinned decisions are the latest of their gates and approve.
Phase2Evidence(a, pinnedGates, pinnedCorrections) ==
  /\ runs[a].published /\ RunCurrent(a)
  /\ CorrectionsOf(a) = pinnedCorrections
  /\ \A g \in Gate : GateState(a, g) = "approved"
  /\ GateRevisions(a) = pinnedGates

\* assert_evidence
EvidenceHolds(k) == Phase2Evidence(casts[k].analysis, casts[k].gates, casts[k].corrections)

\* _assert_current_catalog_write_evidence
CatalogPinned(k) == catalog = casts[k].catalog

\* create_run returns the run there is for the same evidence and catalog.
NewCast(a) ==
  [analysis |-> a, gates |-> GateRevisions(a), corrections |-> CorrectionsOf(a),
   catalog |-> catalog, published |-> FALSE, snapshot |-> 0, roles |-> {},
   assigned |-> [r \in Role |-> Unassigned], frozen |-> {}, decisions |-> <<>>]
CreateCast(a) ==
  /\ Len(casts) < MaxCasts /\ runs[a].published
  /\ Phase2Evidence(a, GateRevisions(a), CorrectionsOf(a))
  /\ \A k \in DOMAIN casts :
       <<casts[k].analysis, casts[k].gates, casts[k].corrections, casts[k].catalog>>
         # <<a, GateRevisions(a), CorrectionsOf(a), catalog>>
  /\ casts' = Append(casts, NewCast(a))
  /\ UNCHANGED <<catalog, expired>>

----------------------------------------------------------------------------
(* Selected voices, and what takes their evidence away.                     *)

Chosen(row) == row.state \in {"selected", "locked"}

\* _assignment_drift_evidence compares the selected voice alone.
Drifted(k, v) == catalog[v] # casts[k].catalog[v] \/ v \in expired

\* snapshot_assignment_evidence_is_current
LeavesCurrent(k) ==
  \A r \in casts[k].roles :
    Chosen(casts[k].assigned[r]) => ~Drifted(k, casts[k].assigned[r].voice)

\* Mutant: what drifts now, whatever was recorded before.
RoleBlockedNow(k, r, assigned) ==
  LET row == assigned[r] IN
  \/ row.state \in {"none", "cleared"}
  \/ row.state = "uncast" /\ r \notin Custom
  \/ Chosen(row) /\ (row.unfit \/ Drifted(k, row.voice))

\* The blockers of one role in _review_blockers.
RoleBlocked(k, r, assigned) ==
  LET row == assigned[r] IN
  \/ row.state \in {"none", "cleared"}
  \/ row.state = "uncast" /\ r \notin Custom
  \/ Chosen(row) /\ (row.latched \/ row.unfit \/ Drifted(k, row.voice))

\* A decision counts for the snapshot it was made on.
Approves(k, decision) ==
  decision.state = "approved" /\ decision.snapshot = casts[k].snapshot
CastApproved(k, g) == Approves(k, casts[k].decisions[g])

\* Roles whose selection drifted and carries no invalidation yet.
ToLatch(k, assigned) ==
  {r \in casts[k].roles : Chosen(assigned[r]) /\ ~assigned[r].latched
                            /\ Drifted(k, assigned[r].voice)}
Latched(k, assigned) ==
  [r \in Role |-> [assigned[r] EXCEPT !.latched = @ \/ r \in ToLatch(k, assigned)]]

\* _sync_external_assignment_invalidations: the approvals of the snapshot at
\* hand that rest on a newly invalidated assignment are superseded.
Superseded(k) ==
  [g \in CastGate |->
    IF /\ RolesOf(k, g) \cap ToLatch(k, casts[k].assigned) # {}
       /\ CastApproved(k, g)
    THEN [casts[k].decisions[g] EXCEPT !.state = "invalidated", !.revision = @ + 1]
    ELSE casts[k].decisions[g]]

\* What a transaction that finds drift writes.
RecordDrift(k) ==
  /\ casts[k].published /\ ToLatch(k, casts[k].assigned) # {}
  /\ casts' = [casts EXCEPT
       ![k].assigned = Latched(k, @),
       ![k].decisions = Superseded(k)]
  /\ UNCHANGED <<catalog, expired>>

\* A read of a run's assignments or reviews records drift, and so does the
\* project's summary, which takes the newest run and does not ask whether its
\* evidence still holds.
LatchDrift(k) == EvidenceHolds(k) /\ RecordDrift(k)
SummaryLatchesDrift(k) == k = Len(casts) /\ RecordDrift(k)

\* A repeated request is answered with the recorded row before any evidence is
\* looked at, and records drift.
ReplayCorrection(k) == casts[k].snapshot > 1 /\ RecordDrift(k)
ReplayDecision(k) ==
  /\ casts[k].published /\ \E g \in CastGate : casts[k].decisions[g].revision > 0
  /\ RecordDrift(k)

----------------------------------------------------------------------------
(* Snapshots and corrections.                                               *)

\* _publish_cast_snapshot: a review of each gate, eligible when nothing but
\* the gates before it stands in the way.
Eligible(k, roles, assigned) ==
  {g \in CastGate : \A r \in roles :
     (g = "complete" \/ (g = "narrators") = (r \in Narrators))
       => ~RoleBlocked(k, r, assigned)}

NoDecision == [state |-> "pending", snapshot |-> 0, revision |-> 0, seen |-> <<>>]

\* Machine proposals assign nothing: the first snapshot has roles without a
\* voice, and a review of each gate without a decision.
FirstSnapshot(k) ==
  [casts[k] EXCEPT
    !.published = TRUE, !.snapshot = 1, !.roles = Role \ Custom,
    !.frozen = Eligible(k, Role \ Custom, casts[k].assigned),
    !.decisions = [g \in CastGate |-> NoDecision]]

\* publish_result; roles that are there already are left alone.
PublishCast(k) ==
  /\ ~casts[k].published /\ EvidenceHolds(k)
  /\ casts' = [casts EXCEPT ![k] = FirstSnapshot(k)]
  /\ UNCHANGED <<catalog, expired>>

\* Every correction publishes a snapshot and then records drift.
Republish(k, roles, assigned) ==
  casts' = [casts EXCEPT
    ![k].snapshot = @ + 1, ![k].roles = roles,
    ![k].assigned = Latched(k, assigned),
    ![k].frozen = Eligible(k, roles, assigned)]

MayCorrect(k) ==
  /\ casts[k].published /\ EvidenceHolds(k) /\ CatalogPinned(k)
  /\ casts[k].snapshot <= MaxCorrections

Assign(k, r, state, voice) ==
  [casts[k].assigned EXCEPT ![r] =
     [state |-> state, voice |-> voice, since |-> casts[k].snapshot + 1,
      latched |-> FALSE, unfit |-> IF voice = @.voice THEN @.unfit ELSE FALSE]]

\* select_voice; a rejected candidate is taken back by selecting it.
Select(k, r, v) ==
  /\ v \notin expired
  /\ Republish(k, casts[k].roles,
       [Assign(k, r, "selected", v) EXCEPT ![r].unfit = FALSE])

\* lock_assignment and unlock_assignment: a new row for the same voice.
Lock(k, r) ==
  LET row == casts[k].assigned[r] IN
  /\ Chosen(row)
  /\ Republish(k, casts[k].roles, Assign(k, r, "locked", row.voice))
Unlock(k, r) ==
  LET row == casts[k].assigned[r] IN
  /\ row.state = "locked"
  /\ Republish(k, casts[k].roles, Assign(k, r, "selected", row.voice))

\* clear_assignment and mark_intentionally_uncast.
Withdraw(k, r, state) ==
  /\ state = "cleared" => casts[k].assigned[r].state # "none"
  /\ Republish(k, casts[k].roles, Assign(k, r, state, NoVoice))

\* reject_candidate, or change_casting_requirement, which assesses the
\* candidates again: the selected voice is or is not fit for the role.
Reassess(k, r, unfit) ==
  /\ Chosen(casts[k].assigned[r])
  /\ Republish(k, casts[k].roles, [casts[k].assigned EXCEPT ![r].unfit = unfit])

\* Every other correction (a label, a rationale, an acknowledgement, an approved
\* reuse) leaves the assignments as they are.
Annotate(k) == Republish(k, casts[k].roles, casts[k].assigned)

\* append_correction
CorrectCast(k, r) ==
  /\ MayCorrect(k) /\ r \in casts[k].roles
  /\ IF casts[k].assigned[r].state = "none" \/ casts[k].assigned[r].latched
     THEN UNCHANGED changes ELSE Disturb
  /\ \/ \E v \in Voice : Select(k, r, v)
     \/ Lock(k, r) \/ Unlock(k, r)
     \/ \E state \in {"cleared", "uncast"} : Withdraw(k, r, state)
     \/ \E unfit \in BOOLEAN : Reassess(k, r, unfit)
     \/ Annotate(k)
  /\ UNCHANGED <<catalog, expired>>

\* create_custom_role: the role and proposals for it, which assign nothing.
PublishRole(k, r) == Republish(k, casts[k].roles \cup {r}, casts[k].assigned)

AddRole(k, r) ==
  /\ MayCorrect(k) /\ r \in Custom \ casts[k].roles
  /\ Disturb
  /\ PublishRole(k, r)
  /\ UNCHANGED <<catalog, expired>>

----------------------------------------------------------------------------
(* Gate decisions.                                                          *)

\* What a reviewer of a gate has before them.
Shown(k, g) ==
  [corrections |-> CorrectionsOf(casts[k].analysis),
   voices |-> [r \in RolesOf(k, g) |->
     LET row == casts[k].assigned[r] IN
     IF Chosen(row) THEN <<row.voice, catalog[row.voice]>> ELSE <<row.state>>]]

\* _review_blockers, with the gates before the complete cast.
Blocked(k, g, assigned, decisions) ==
  \/ \E r \in RolesOf(k, g) : RoleBlocked(k, r, assigned)
  \/ g = "complete" /\ \E h \in CastGate \ {"complete"} : ~Approves(k, decisions[h])

\* Whether the gate takes the answer, and the row that supersedes its latest.
MayAnswer(k, g, d, assigned, decisions) ==
  d = "approved" => ~Blocked(k, g, assigned, decisions)
Answered(k, g, d, decisions) ==
  [decisions EXCEPT ![g] =
    [state |-> d, snapshot |-> casts[k].snapshot, revision |-> @.revision + 1,
     seen |-> Shown(k, g)]]

\* decide_review: drift is recorded first, in the same transaction.
DecideCast(k, g, d) ==
  LET assigned  == Latched(k, casts[k].assigned)
      decisions == Superseded(k)
  IN
  /\ casts[k].published /\ EvidenceHolds(k) /\ CatalogPinned(k)
  /\ MayAnswer(k, g, d, assigned, decisions)
  /\ IF d = "approved" /\ ~CastApproved(k, g) THEN UNCHANGED changes ELSE Disturb
  /\ casts' = [casts EXCEPT
       ![k].assigned = assigned,
       ![k].decisions = Answered(k, g, d, decisions)]
  /\ UNCHANGED <<catalog, expired>>

\* validated_phase3a_gate_decisions, with the assignment evidence its callers
\* check beside it: what an audition may start from.
CastAuthority(k) ==
  /\ casts[k].published /\ EvidenceHolds(k) /\ CatalogPinned(k) /\ LeavesCurrent(k)
  /\ \A g \in CastGate : g \in casts[k].frozen /\ CastApproved(k, g)

----------------------------------------------------------------------------
(* Outside events.                                                          *)

\* The service starts again with another catalog.
ReplaceCatalog(c) ==
  /\ c # catalog /\ Disturb
  /\ catalog' = c
  /\ UNCHANGED <<expired, casts>>

\* rights_record_is_current turns false as time passes.
ExpireRights(v) ==
  /\ v \notin expired /\ Disturb
  /\ expired' = expired \cup {v}
  /\ UNCHANGED <<catalog, casts>>

CastingNext ==
  \/ \E a \in DOMAIN runs : CreateCast(a) /\ UNCHANGED changes
  \/ \E k \in DOMAIN casts :
       \/ PublishCast(k) /\ UNCHANGED changes
       \/ /\ \/ LatchDrift(k) \/ SummaryLatchesDrift(k)
             \/ ReplayCorrection(k) \/ ReplayDecision(k)
          /\ UNCHANGED changes
       \/ \E r \in Role : CorrectCast(k, r) \/ AddRole(k, r)
       \/ \E g \in CastGate, d \in Decision : DecideCast(k, g, d)
  \/ \E c \in [Voice -> Leaf] : ReplaceCatalog(c)
  \/ \E v \in Voice : ExpireRights(v)

============================================================================
