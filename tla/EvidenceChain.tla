--------------------------- MODULE EvidenceChain ---------------------------
(* The approvals of a project as one chain: Import Review, the gates of the *)
(* analysis of the imported text, and the gates of the casting of that      *)
(* analysis.  Nothing tells a later link that an earlier one changed: every *)
(* read validates the pinned evidence again, and only an invalidation that  *)
(* a read happens to record survives an undone change.                      *)
EXTENDS CastingReview

chainVars == <<storyVars, castVars, changes>>

ChainInit == StoryInit /\ CastingInit /\ changes = 0

ChainNext ==
  \/ StoryNext /\ UNCHANGED castVars
  \/ CastingNext /\ UNCHANGED storyVars

ChainSpec == ChainInit /\ [][ChainNext]_chainVars

----------------------------------------------------------------------------
\* While a casting can start auditions (validated_phase3a_gate_decisions), each
\* of its three approvals was given to exactly what a reviewer would be shown
\* now: the same corrections of the analysis, the same voices for the roles of
\* the gate, and the same catalog versions of these voices.
NothingApprovedHasChanged ==
  \A k \in DOMAIN casts : CastAuthority(k) =>
    \A g \in CastGate : casts[k].decisions[g].seen = Shown(k, g)

\* The voice of a role is recorded as invalid, or is a candidate that a human
\* rejected.
Refused(k, r) ==
  LET row == casts[k].assigned[r] IN Chosen(row) /\ (row.latched \/ row.unfit)

\* A refusal outlives what caused it (casting_repository.py,
\* _sync_external_assignment_invalidations): no casting may start auditions with
\* a refused voice, and nothing lifts a refusal but a human correction, of that
\* very role when the refusal was recorded as an invalidation.  It publishes a
\* snapshot on which no gate is approved.  No read, replay or decision, no catalog
\* that comes back and no correction of another role does.
RefusalStands ==
  /\ [](\A k \in DOMAIN casts : CastAuthority(k) => \A r \in casts[k].roles : ~Refused(k, r))
  /\ [][\A k \in DOMAIN casts : \A r \in casts[k].roles : Refused(k, r) =>
          \/ Refused(k, r)'
          \/ /\ casts'[k].snapshot > casts[k].snapshot
             /\ casts[k].assigned[r].latched => casts'[k].assigned[r].since = casts'[k].snapshot
             /\ \A g \in CastGate : ~CastApproved(k, g)']_chainVars

\* What the documents say of it (docs/agents/approval-gates.md:106-109): "a human
\* must explicitly reselect eligible evidence".  In the code a lock does as well:
\* it makes a new row for the same voice (README, section 15).  (So does an unlock,
\* which the rows do not tell from a selection.)
ReselectionIsExplicit ==
  [][\A k \in DOMAIN casts : \A r \in casts[k].roles : Refused(k, r) =>
       Refused(k, r)' \/ casts'[k].assigned[r].state # "locked"]_chainVars
============================================================================
