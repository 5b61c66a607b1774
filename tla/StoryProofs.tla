---------------------------- MODULE StoryProofs ----------------------------
(* Proofs about the story: EvidenceChain, for any gates, roles, voices,     *)
(* catalogs and bounds, and StoryCorrections, for any chapters, scenes,     *)
(* characters, mentions, lines, names and bounds.                           *)
(*                                                                          *)
(* EvidenceChain speaks of castings that may start auditions, which depends *)
(* on every variable.  The inductive invariant                              *)
(* speaks of the rows of a casting alone: an approval that counts for the   *)
(* snapshot at hand was given to the corrections and catalog the run is     *)
(* pinned to and to the voices the roles have now, none of them recorded as *)
(* invalid.  So a step of the story preserves it because it touches no      *)
(* casting, a correction because no approval counts for the snapshot it     *)
(* publishes, and a decision because it is made on the pinned evidence.     *)
(* The authority of a casting then asks that the pinned evidence is the     *)
(* current one.                                                             *)
(*                                                                          *)
(* The properties of StoryCorrections compare what two views show.  Its     *)
(* inductive invariant says what every recorded correction is like: a legal *)
(* request in what its run showed before it, about an entity of its         *)
(* category, speaking of rows of its run, of names, and of what an earlier  *)
(* correction added.  The rest is about the operators: which steps of a     *)
(* replay, of a chain of merges or of the projection read what differs      *)
(* between the two views.                                                   *)
EXTENDS EvidenceChain, StoryCorrections, TLAPS, FiniteSetTheorems, WellFoundedInduction

----------------------------------------------------------------------------
(* EvidenceChain.                                                           *)

\* A casting run is written c below: casts[k] in one of the states of a step.
GateRoles(c, g) ==
  IF g = "complete" THEN c.roles
  ELSE IF g = "narrators" THEN c.roles \cap Narrators
  ELSE c.roles \ Narrators

\* What a reviewer of the gate is shown while the pinned evidence holds.
Pinned(c, g) ==
  [corrections |-> c.corrections,
   voices |-> [r \in GateRoles(c, g) |->
     LET row == c.assigned[r] IN
     IF Chosen(row) THEN <<row.voice, c.catalog[row.voice]>> ELSE <<row.state>>]]

AssignmentRow == [state : AssignmentState, voice : Voice \cup {NoVoice}, since : Nat,
                  latched : BOOLEAN, unfit : BOOLEAN]

CastShape(c) ==
  c = [analysis |-> c.analysis, gates |-> c.gates, corrections |-> c.corrections,
       catalog |-> c.catalog, published |-> c.published, snapshot |-> c.snapshot,
       roles |-> c.roles, assigned |-> c.assigned, frozen |-> c.frozen,
       decisions |-> c.decisions]

CastTyped(c) ==
  /\ CastShape(c)
  /\ c.published \in BOOLEAN /\ c.snapshot \in Nat
  /\ c.roles \subseteq Role /\ c.assigned \in [Role -> AssignmentRow]

\* A decision was made on a snapshot that exists.
DecisionTyped(c, d) ==
  /\ d = [state |-> d.state, snapshot |-> d.snapshot, revision |-> d.revision,
          seen |-> d.seen]
  /\ d.snapshot \in Nat /\ d.snapshot <= c.snapshot

\* No role of the gate has a voice that is recorded as invalid.
Clean(c, g) ==
  \A r \in GateRoles(c, g) : Chosen(c.assigned[r]) =>
    ~c.assigned[r].latched /\ ~c.assigned[r].unfit

\* An approval that counts was given to what the gate shows.
ApprovalSound(c, g) ==
  c.decisions[g].state = "approved" /\ c.decisions[g].snapshot = c.snapshot
    => c.decisions[g].seen = Pinned(c, g) /\ Clean(c, g)

DecisionsSound(c) ==
  /\ c.decisions = [g \in CastGate |-> c.decisions[g]]
  /\ \A g \in CastGate : DecisionTyped(c, c.decisions[g]) /\ ApprovalSound(c, g)

CastSound(c) == CastTyped(c) /\ (c.published => DecisionsSound(c))

CastsInv ==
  /\ casts \in Seq({casts[k] : k \in DOMAIN casts})
  /\ \A k \in DOMAIN casts : CastSound(casts[k])

----------------------------------------------------------------------------
\* A function on 1 .. n is a sequence.
LEMMA MapIsSeq ==
  ASSUME NEW n \in Nat, NEW S, NEW s \in [1..n -> S]
  PROVE  s \in Seq(S)
  OBVIOUS

\* A function on 1 .. n is a sequence over its own values.
LEMMA FunctionIsSeq ==
  ASSUME NEW n \in Nat, NEW s, DOMAIN s = 1..n, s = [i \in 1..n |-> s[i]]
  PROVE  s \in Seq({s[i] : i \in DOMAIN s})
<1> DEFINE S == {s[i] : i \in DOMAIN s}
<1>1. s \in [1..n -> S]
  OBVIOUS
<1> HIDE DEF S
<1>2. s \in Seq(S)
  BY <1>1
<1> QED
  BY <1>2 DEF S

\* The castings, seen as a function on their numbers.
LEMMA SeqIsFunction ==
  ASSUME CastsInv
  PROVE  /\ Len(casts) \in Nat /\ DOMAIN casts = 1..Len(casts)
         /\ casts = [i \in 1..Len(casts) |-> casts[i]]
  BY DEF CastsInv

\* A step that writes one casting and leaves it sound preserves the invariant.
LEMMA OneCast ==
  ASSUME CastsInv, NEW k \in DOMAIN casts, NEW row,
         casts' = [casts EXCEPT ![k] = row], CastSound(row)
  PROVE  CastsInv'
<1> DEFINE n == Len(casts)
<1>1. n \in Nat /\ DOMAIN casts' = 1..n /\ casts' = [i \in 1..n |-> casts'[i]]
  BY SeqIsFunction
<1>2. casts' \in Seq({casts'[j] : j \in DOMAIN casts'})
  <2> DEFINE S == {casts'[j] : j \in DOMAIN casts'}
  <2>1. casts' \in [1..n -> S]
    BY <1>1
  <2> HIDE DEF S, n
  <2>2. casts' \in Seq(S)
    BY <1>1, <2>1, MapIsSeq
  <2> QED
    BY <2>2 DEF S
<1>3. \A j \in DOMAIN casts' : CastSound(casts'[j])
  BY SeqIsFunction DEF CastsInv
<1> QED
  BY <1>2, <1>3 DEF CastsInv

\* A new casting has published nothing.
LEMMA CreateSound ==
  ASSUME CastsInv, NEW a, CreateCast(a)
  PROVE  CastsInv'
<1> DEFINE row == [analysis |-> a, gates |-> GateRevisions(a), corrections |-> CorrectionsOf(a),
        catalog |-> catalog, published |-> FALSE, snapshot |-> 0, roles |-> {},
        assigned |-> [r \in Role |-> Unassigned], frozen |-> {}, decisions |-> <<>>]
<1>1. casts' = Append(casts, row)
  BY DEF CreateCast, NewCast
<1>2. CastSound(row)
  BY DEF CastSound, CastTyped, CastShape, Unassigned, AssignmentRow, AssignmentState
<1> HIDE DEF row
<1> DEFINE n == Len(casts)
           S == {casts[k] : k \in DOMAIN casts}
<1> HIDE DEF S
<1>0. casts \in Seq(S \cup {row})
  BY DEF CastsInv, S
<1>3. /\ DOMAIN casts' = 1..(n + 1) /\ casts'[n + 1] = row
      /\ \A j \in 1..n : casts'[j] = casts[j]
      /\ casts' = [i \in 1..(n + 1) |-> casts'[i]]
  <2>1. Len(casts) \in Nat /\ Len(casts') = n + 1 /\ casts' \in Seq(S \cup {row})
    BY <1>0, <1>1
  <2>2. \A i \in 1..(n + 1) : casts'[i] = IF i = n + 1 THEN row ELSE casts[i]
    BY <1>0, <1>1
  <2> QED
    BY <2>1, <2>2
<1>4. casts' \in Seq({casts'[j] : j \in DOMAIN casts'})
  BY <1>3, SeqIsFunction, FunctionIsSeq
<1>5. \A j \in DOMAIN casts' : CastSound(casts'[j])
  BY <1>2, <1>3, SeqIsFunction DEF CastsInv
<1> QED
  BY <1>4, <1>5 DEF CastsInv

\* A casting is published with no decision of anyone.
LEMMA PublishSound ==
  ASSUME CastsInv, NEW k \in DOMAIN casts, PublishCast(k)
  PROVE  CastsInv'
<1> DEFINE c == casts[k]
<1> PICK q : q = [c EXCEPT !.published = TRUE, !.snapshot = 1, !.roles = Role \ Custom,
                           !.frozen = Eligible(k, Role \ Custom, c.assigned),
                           !.decisions = [g \in CastGate |-> NoDecision]]
  OBVIOUS
<1>1. casts' = [casts EXCEPT ![k] = q]
  BY DEF PublishCast, FirstSnapshot
<1>2. CastTyped(c)
  BY DEF CastsInv, CastSound
<1> HIDE DEF c
<1>3. /\ CastShape(q) /\ q.published = TRUE /\ q.snapshot = 1
      /\ q.roles = Role \ Custom /\ q.assigned = c.assigned
      /\ q.decisions = [g \in CastGate |-> NoDecision]
  BY <1>2 DEF CastTyped, CastShape
<1>4. CastTyped(q)
  BY <1>2, <1>3 DEF CastTyped
<1>5. DecisionsSound(q)
  BY <1>3 DEF DecisionsSound, DecisionTyped, ApprovalSound, NoDecision
<1> QED
  BY <1>1, <1>4, <1>5, OneCast DEF CastSound, c

\* Recording drift touches nothing but the mark.
LEMMA LatchedRows ==
  ASSUME NEW k, NEW a \in [Role -> AssignmentRow]
  PROVE  /\ Latched(k, a) \in [Role -> AssignmentRow]
         /\ \A r \in Role :
              /\ Latched(k, a)[r].state = a[r].state /\ Latched(k, a)[r].voice = a[r].voice
              /\ Latched(k, a)[r].unfit = a[r].unfit /\ Latched(k, a)[r].since = a[r].since
              /\ Latched(k, a)[r].latched <=> a[r].latched \/ r \in ToLatch(k, a)
<1>1. ASSUME NEW r \in Role
      PROVE  /\ Latched(k, a)[r] \in AssignmentRow
             /\ Latched(k, a)[r].state = a[r].state /\ Latched(k, a)[r].voice = a[r].voice
             /\ Latched(k, a)[r].unfit = a[r].unfit /\ Latched(k, a)[r].since = a[r].since
             /\ Latched(k, a)[r].latched <=> a[r].latched \/ r \in ToLatch(k, a)
  <2> PICK mark \in BOOLEAN : mark <=> a[r].latched \/ r \in ToLatch(k, a)
    OBVIOUS
  <2> PICK row : row = [a[r] EXCEPT !.latched = mark]
    OBVIOUS
  <2>1. a[r] \in AssignmentRow /\ a[r].latched \in BOOLEAN
    BY DEF AssignmentRow
  <2>2. mark = (a[r].latched \/ r \in ToLatch(k, a))
    BY <2>1
  <2>3. Latched(k, a)[r] = row
    BY <2>2 DEF Latched
  <2>4. /\ row \in AssignmentRow /\ row.state = a[r].state /\ row.voice = a[r].voice
        /\ row.unfit = a[r].unfit /\ row.since = a[r].since /\ row.latched = mark
    BY <2>1 DEF AssignmentRow
  <2> QED
    BY <2>3, <2>4
<1>2. Latched(k, a) = [r \in Role |-> Latched(k, a)[r]]
  BY DEF Latched
<1> QED
  BY <1>1, <1>2

\* A correction publishes a snapshot that nobody has approved.
LEMMA RepublishSound ==
  ASSUME CastsInv, NEW k \in DOMAIN casts, NEW rs, rs \subseteq Role,
         NEW a \in [Role -> AssignmentRow], casts[k].published, Republish(k, rs, a)
  PROVE  CastsInv'
<1> DEFINE c == casts[k]
<1> PICK q : q = [c EXCEPT !.snapshot = c.snapshot + 1, !.roles = rs,
                           !.assigned = Latched(k, a), !.frozen = Eligible(k, rs, a)]
  OBVIOUS
<1>1. casts' = [casts EXCEPT ![k] = q]
  BY DEF Republish
<1>2. CastTyped(c) /\ DecisionsSound(c)
  BY DEF CastsInv, CastSound
<1> HIDE DEF c
<1>3. /\ CastShape(q) /\ q.published = c.published /\ q.snapshot = c.snapshot + 1
      /\ q.roles = rs /\ q.assigned = Latched(k, a) /\ q.decisions = c.decisions
  BY <1>2 DEF CastTyped, CastShape
<1>4. CastTyped(q)
  <2>1. Latched(k, a) \in [Role -> AssignmentRow]
    BY LatchedRows
  <2> QED
    BY <1>2, <1>3, <2>1 DEF CastTyped
<1>5. ASSUME NEW g \in CastGate
      PROVE  DecisionTyped(q, q.decisions[g]) /\ ApprovalSound(q, g)
  <2>1. DecisionTyped(c, c.decisions[g]) /\ c.snapshot \in Nat
    BY <1>2 DEF CastTyped, DecisionsSound
  <2>2. q.decisions[g] = c.decisions[g] /\ q.snapshot = c.snapshot + 1
    BY <1>3
  <2>3. DecisionTyped(q, q.decisions[g]) /\ q.decisions[g].snapshot # q.snapshot
    BY <2>1, <2>2 DEF DecisionTyped
  <2> QED
    BY <2>3 DEF ApprovalSound
<1>6. DecisionsSound(q)
  BY <1>2, <1>3, <1>5 DEF DecisionsSound
<1> QED
  BY <1>1, <1>4, <1>6, OneCast DEF CastSound

\* A new choice of a human for a role is a row of an assignment.
LEMMA AssignTyped ==
  ASSUME NEW k, NEW r \in Role, NEW state \in AssignmentState,
         NEW voice \in Voice \cup {NoVoice}, CastTyped(casts[k])
  PROVE  Assign(k, r, state, voice) \in [Role -> AssignmentRow]
<1> DEFINE c == casts[k]
<1> PICK unfit : unfit = IF voice = c.assigned[r].voice THEN c.assigned[r].unfit ELSE FALSE
  OBVIOUS
<1> DEFINE row == [state |-> state, voice |-> voice, since |-> c.snapshot + 1,
                   latched |-> FALSE, unfit |-> unfit]
<1>1. c.assigned \in [Role -> AssignmentRow] /\ c.snapshot \in Nat
  BY DEF CastTyped
<1>2. c.assigned[r] \in AssignmentRow
  BY <1>1
<1>3. row \in AssignmentRow
  <2>1. c.assigned[r].unfit \in BOOLEAN
    BY <1>2 DEF AssignmentRow
  <2>2. unfit \in BOOLEAN
    BY <2>1, Zenon
  <2>3. c.snapshot + 1 \in Nat
    BY <1>1
  <2> HIDE DEF c
  <2> QED
    BY <2>2, <2>3 DEF AssignmentRow
<1>4. Assign(k, r, state, voice) = [c.assigned EXCEPT ![r] = row]
  BY DEF Assign
<1> HIDE DEF row, c
<1> QED
  BY <1>1, <1>3, <1>4

\* Recording that a voice is unfit keeps the shape of the rows.
LEMMA UnfitTyped ==
  ASSUME NEW a \in [Role -> AssignmentRow], NEW r \in Role, NEW unfit \in BOOLEAN
  PROVE  [a EXCEPT ![r].unfit = unfit] \in [Role -> AssignmentRow]
<1> PICK row : row = [a[r] EXCEPT !.unfit = unfit]
  OBVIOUS
<1>1. row \in AssignmentRow
  BY DEF AssignmentRow
<1>2. [a EXCEPT ![r].unfit = unfit] = [a EXCEPT ![r] = row]
  OBVIOUS
<1> QED
  BY <1>1, <1>2

\* Another voice for a role: the snapshot is republished with it.
LEMMA CorrectSound ==
  ASSUME CastsInv, NEW k \in DOMAIN casts, NEW r \in Role, CorrectCast(k, r)
  PROVE  CastsInv'
<1> DEFINE c == casts[k]
<1>1. CastTyped(c) /\ c.published
  BY DEF CastsInv, CastSound, CorrectCast, MayCorrect
<1>2. c.roles \subseteq Role /\ c.assigned \in [Role -> AssignmentRow]
  BY <1>1 DEF CastTyped
<1>3. c.assigned[r].voice \in Voice \cup {NoVoice}
  BY <1>2 DEF AssignmentRow
<1>4. CASE \E v \in Voice : Select(k, r, v)
  <2> PICK v \in Voice : Select(k, r, v)
    BY <1>4
  <2>1. Assign(k, r, "selected", v) \in [Role -> AssignmentRow]
    BY <1>1, AssignTyped DEF AssignmentState
  <2>2. [Assign(k, r, "selected", v) EXCEPT ![r].unfit = FALSE] \in [Role -> AssignmentRow]
    BY <2>1, UnfitTyped
  <2> QED
    BY <1>1, <1>2, <2>2, RepublishSound DEF Select
<1>5. CASE Lock(k, r)
  <2>1. Assign(k, r, "locked", c.assigned[r].voice) \in [Role -> AssignmentRow]
    BY <1>1, <1>3, AssignTyped DEF AssignmentState
  <2> QED
    BY <1>1, <1>2, <1>5, <2>1, RepublishSound DEF Lock
<1>6. CASE Unlock(k, r)
  <2>1. Assign(k, r, "selected", c.assigned[r].voice) \in [Role -> AssignmentRow]
    BY <1>1, <1>3, AssignTyped DEF AssignmentState
  <2> QED
    BY <1>1, <1>2, <1>6, <2>1, RepublishSound DEF Unlock
<1>7. CASE \E state \in {"cleared", "uncast"} : Withdraw(k, r, state)
  <2> PICK state \in {"cleared", "uncast"} : Withdraw(k, r, state)
    BY <1>7
  <2>1. Assign(k, r, state, NoVoice) \in [Role -> AssignmentRow]
    BY <1>1, AssignTyped DEF AssignmentState
  <2> QED
    BY <1>1, <1>2, <2>1, RepublishSound DEF Withdraw
<1>8. CASE \E unfit \in BOOLEAN : Reassess(k, r, unfit)
  <2> PICK unfit \in BOOLEAN : Reassess(k, r, unfit)
    BY <1>8
  <2>1. [c.assigned EXCEPT ![r].unfit = unfit] \in [Role -> AssignmentRow]
    BY <1>2, UnfitTyped
  <2> QED
    BY <1>1, <1>2, <2>1, RepublishSound DEF Reassess
<1>9. CASE Annotate(k)
  BY <1>1, <1>2, <1>9, RepublishSound DEF Annotate
<1> QED
  BY <1>4, <1>5, <1>6, <1>7, <1>8, <1>9 DEF CorrectCast

\* A custom role: the snapshot is republished with it.
LEMMA AddRoleSound ==
  ASSUME CastsInv, NEW k \in DOMAIN casts, NEW r \in Role, AddRole(k, r)
  PROVE  CastsInv'
<1>1. CastTyped(casts[k]) /\ casts[k].published
  BY DEF CastsInv, CastSound, AddRole, MayCorrect
<1>2. /\ casts[k].roles \cup {r} \subseteq Role
      /\ casts[k].assigned \in [Role -> AssignmentRow]
  BY <1>1 DEF CastTyped
<1> QED
  BY <1>1, <1>2, RepublishSound DEF AddRole, PublishRole

\* An approval that recorded drift leaves standing is as sound as it was: none
\* of the roles it covers was marked.
LEMMA SupersededSound ==
  ASSUME CastsInv, NEW k \in DOMAIN casts, casts[k].published, NEW g \in CastGate,
         NEW q, q.snapshot = casts[k].snapshot, q.roles = casts[k].roles,
         q.corrections = casts[k].corrections, q.catalog = casts[k].catalog,
         q.assigned = Latched(k, casts[k].assigned),
         q.decisions[g] = Superseded(k)[g]
  PROVE  DecisionTyped(q, q.decisions[g]) /\ ApprovalSound(q, g)
<1> DEFINE c == casts[k]  d == c.decisions[g]
           marked == RolesOf(k, g) \cap ToLatch(k, c.assigned)
<1>1. CastTyped(c) /\ DecisionTyped(c, d) /\ ApprovalSound(c, g)
  BY DEF CastsInv, CastSound, DecisionsSound
<1>2. /\ c.assigned \in [Role -> AssignmentRow] /\ c.snapshot \in Nat
      /\ GateRoles(c, g) \subseteq Role /\ GateRoles(q, g) = GateRoles(c, g)
      /\ RolesOf(k, g) = GateRoles(c, g)
  BY <1>1 DEF CastTyped, GateRoles, RolesOf
<1>3. q.decisions[g] = IF marked # {} /\ CastApproved(k, g)
                       THEN [d EXCEPT !.state = "invalidated", !.revision = @ + 1]
                       ELSE d
  BY DEF Superseded
<1>4. CASE marked # {} /\ CastApproved(k, g)
  <2> PICK e : e = [d EXCEPT !.state = "invalidated", !.revision = @ + 1]
    OBVIOUS
  <2>1. DecisionTyped(c, e) /\ e.state = "invalidated"
    <3> HIDE DEF d, c
    <3> QED
      BY <1>1 DEF DecisionTyped
  <2> QED
    BY <1>3, <1>4, <2>1 DEF DecisionTyped, ApprovalSound
<1>5. CASE ~(marked # {} /\ CastApproved(k, g))
  <2>1. q.decisions[g] = d
    BY <1>3, <1>5
  <2>2. DecisionTyped(q, q.decisions[g])
    BY <1>1, <2>1 DEF DecisionTyped
  <2>3. ASSUME d.state = "approved", d.snapshot = c.snapshot
        PROVE  d.seen = Pinned(q, g) /\ Clean(q, g)
    <3>1. marked = {} /\ d.seen = Pinned(c, g) /\ Clean(c, g)
      BY <1>1, <1>5, <2>3 DEF ApprovalSound, CastApproved, Approves
    <3>2. ASSUME NEW r \in GateRoles(c, g)
          PROVE  /\ q.assigned[r].state = c.assigned[r].state
                 /\ q.assigned[r].voice = c.assigned[r].voice
                 /\ q.assigned[r].unfit = c.assigned[r].unfit
                 /\ q.assigned[r].latched <=> c.assigned[r].latched
      BY <1>2, <3>1, LatchedRows
    <3>3. Pinned(q, g) = Pinned(c, g)
      BY <1>2, <3>2 DEF Pinned, Chosen
    <3>4. Clean(q, g)
      BY <1>2, <3>1, <3>2 DEF Clean, Chosen
    <3> QED
      BY <3>1, <3>3, <3>4
  <2> QED
    BY <2>1, <2>2, <2>3 DEF ApprovalSound
<1> QED
  BY <1>4, <1>5

\* Recording drift takes back what covers a drifted role and marks the rest.
LEMMA LatchSound ==
  ASSUME CastsInv, NEW k \in DOMAIN casts, RecordDrift(k)
  PROVE  CastsInv'
<1> DEFINE c == casts[k]
<1> PICK q : q = [c EXCEPT !.assigned = Latched(k, c.assigned), !.decisions = Superseded(k)]
  OBVIOUS
<1>1. casts' = [casts EXCEPT ![k] = q]
  BY DEF RecordDrift
<1>2. CastTyped(c) /\ c.published
  BY DEF CastsInv, CastSound, RecordDrift
<1>3. /\ CastShape(q) /\ q.published = c.published /\ q.snapshot = c.snapshot
      /\ q.roles = c.roles /\ q.corrections = c.corrections /\ q.catalog = c.catalog
      /\ q.assigned = Latched(k, c.assigned) /\ q.decisions = Superseded(k)
  <2> HIDE DEF c
  <2> QED
    BY <1>2 DEF CastTyped, CastShape
<1>4. CastTyped(q)
  <2>1. Latched(k, c.assigned) \in [Role -> AssignmentRow]
    BY <1>2, LatchedRows DEF CastTyped
  <2> HIDE DEF c
  <2> QED
    BY <1>2, <1>3, <2>1 DEF CastTyped
<1>5. \A g \in CastGate : DecisionTyped(q, q.decisions[g]) /\ ApprovalSound(q, g)
  BY <1>2, <1>3, SupersededSound
<1>6. DecisionsSound(q)
  <2>1. Superseded(k) = [g \in CastGate |-> Superseded(k)[g]]
    BY DEF Superseded
  <2>2. q.decisions = [g \in CastGate |-> q.decisions[g]]
    BY <1>3, <2>1, Zenon
  <2> QED
    BY <1>5, <2>2, Zenon DEF DecisionsSound
<1> QED
  BY <1>1, <1>4, <1>6, OneCast DEF CastSound

\* A decision is made on the evidence the run is pinned to, after recording
\* what drifted.
LEMMA DecideSound ==
  ASSUME CastsInv, NEW k \in DOMAIN casts, NEW g \in CastGate, NEW d \in Decision,
         DecideCast(k, g, d)
  PROVE  CastsInv'
<1> DEFINE c == casts[k]
<1> PICK row : row = [state |-> d, snapshot |-> c.snapshot,
                      revision |-> Superseded(k)[g].revision + 1, seen |-> Shown(k, g)]
  OBVIOUS
<1> PICK q : q = [c EXCEPT !.assigned = Latched(k, c.assigned),
                           !.decisions = [Superseded(k) EXCEPT ![g] = row]]
  OBVIOUS
<1>1. casts' = [casts EXCEPT ![k] = q]
  BY DEF DecideCast, Answered
<1>2. CastTyped(c) /\ c.published
  BY DEF CastsInv, CastSound, DecideCast
<1>3. /\ CastShape(q) /\ q.published = c.published /\ q.snapshot = c.snapshot
      /\ q.roles = c.roles /\ q.corrections = c.corrections /\ q.catalog = c.catalog
      /\ q.assigned = Latched(k, c.assigned)
      /\ q.decisions = [Superseded(k) EXCEPT ![g] = row]
  <2> HIDE DEF c
  <2> QED
    BY <1>2 DEF CastTyped, CastShape
<1>4. CastTyped(q)
  <2>1. Latched(k, c.assigned) \in [Role -> AssignmentRow]
    BY <1>2, LatchedRows DEF CastTyped
  <2> HIDE DEF c
  <2> QED
    BY <1>2, <1>3, <2>1 DEF CastTyped
<1>5. q.decisions = [h \in CastGate |-> IF h = g THEN row ELSE Superseded(k)[h]]
  <2>1. Superseded(k) = [h \in CastGate |-> Superseded(k)[h]]
    BY DEF Superseded
  <2> QED
    BY <1>3, <2>1
<1>6. ASSUME NEW h \in CastGate, h # g
      PROVE  DecisionTyped(q, q.decisions[h]) /\ ApprovalSound(q, h)
  <2>1. q.decisions[h] = Superseded(k)[h]
    BY <1>5, <1>6
  <2> QED
    BY <1>2, <1>3, <2>1, SupersededSound
<1>7. DecisionTyped(q, q.decisions[g]) /\ ApprovalSound(q, g)
  <2>1. q.decisions[g] = row
    BY <1>5
  <2>2. DecisionTyped(q, row)
    BY <1>2, <1>3 DEF CastTyped, DecisionTyped
  <2>3. /\ c.assigned \in [Role -> AssignmentRow]
        /\ GateRoles(c, g) \subseteq Role /\ GateRoles(q, g) = GateRoles(c, g)
        /\ RolesOf(k, g) = GateRoles(c, g)
    BY <1>2, <1>3 DEF CastTyped, GateRoles, RolesOf
  <2>4. ASSUME NEW r \in GateRoles(c, g)
        PROVE  /\ q.assigned[r].state = c.assigned[r].state
               /\ q.assigned[r].voice = c.assigned[r].voice
    BY <1>3, <2>3, LatchedRows
  <2>5. row.seen = Pinned(q, g)
    <3>1. CorrectionsOf(c.analysis) = c.corrections /\ catalog = c.catalog
      BY DEF DecideCast, EvidenceHolds, Phase2Evidence, CatalogPinned
    <3>2. Shown(k, g) = Pinned(c, g)
      BY <2>3, <3>1 DEF Shown, Pinned
    <3>3. Pinned(q, g) = Pinned(c, g)
      BY <1>3, <2>3, <2>4 DEF Pinned, Chosen
    <3> QED
      BY <3>2, <3>3
  <2>6. ASSUME d = "approved"
        PROVE  Clean(q, g)
    <3>1. \A r \in RolesOf(k, g) : ~RoleBlocked(k, r, q.assigned)
      BY <1>3, <2>6 DEF DecideCast, MayAnswer, Blocked
    <3> QED
      BY <2>3, <3>1 DEF Clean, RoleBlocked
  <2> QED
    BY <2>1, <2>2, <2>5, <2>6 DEF ApprovalSound
<1>8. DecisionsSound(q)
  BY <1>5, <1>6, <1>7 DEF DecisionsSound
<1> QED
  BY <1>1, <1>4, <1>8, OneCast DEF CastSound

----------------------------------------------------------------------------
\* In every reachable state, whatever the story and the castings went through,
\* an approval that counts was given to what its gate shows on the pinned
\* evidence, and covers no voice that is recorded as invalid.
THEOREM CastingsSound == ChainSpec => []CastsInv
<1>1. ChainInit => CastsInv
  BY DEF ChainInit, CastingInit, CastsInv
<1>2. CastsInv /\ [ChainNext]_chainVars => CastsInv'
  <2> SUFFICES ASSUME CastsInv, [ChainNext]_chainVars
               PROVE  CastsInv'
    OBVIOUS
  <2>1. ASSUME UNCHANGED casts
        PROVE  CastsInv'
    BY <2>1 DEF CastsInv
  <2>2. ASSUME NEW a, CreateCast(a)
        PROVE  CastsInv'
    BY <2>2, CreateSound
  <2>3. ASSUME NEW k \in DOMAIN casts,
               \/ PublishCast(k) \/ LatchDrift(k) \/ SummaryLatchesDrift(k)
               \/ ReplayCorrection(k) \/ ReplayDecision(k)
        PROVE  CastsInv'
    BY <2>3, PublishSound, LatchSound
    DEF LatchDrift, SummaryLatchesDrift, ReplayCorrection, ReplayDecision
  <2>4. ASSUME NEW k \in DOMAIN casts, NEW r \in Role, CorrectCast(k, r) \/ AddRole(k, r)
        PROVE  CastsInv'
    BY <2>4, CorrectSound, AddRoleSound
  <2>5. ASSUME NEW k \in DOMAIN casts, NEW g \in CastGate, NEW d \in Decision,
               DecideCast(k, g, d)
        PROVE  CastsInv'
    BY <2>5, DecideSound
  <2>6. ASSUME NEW c, ReplaceCatalog(c)
        PROVE  CastsInv'
    BY <2>1, <2>6 DEF ReplaceCatalog
  <2>7. ASSUME NEW v, ExpireRights(v)
        PROVE  CastsInv'
    BY <2>1, <2>7 DEF ExpireRights
  <2>8. CASE CastingNext
    BY <2>2, <2>3, <2>4, <2>5, <2>6, <2>7, <2>8 DEF CastingNext
  <2>9. CASE UNCHANGED castVars \/ UNCHANGED chainVars
    BY <2>1, <2>9 DEF castVars, chainVars
  <2> QED
    BY <2>8, <2>9 DEF ChainNext
<1> QED
  BY <1>1, <1>2, PTL DEF ChainSpec

\* While a casting can start auditions, what was approved is what a reviewer
\* would be shown now.
THEOREM ApprovedUnchanged == ChainSpec => []NothingApprovedHasChanged
<1>1. CastsInv => NothingApprovedHasChanged
  <2> SUFFICES ASSUME CastsInv, NEW k \in DOMAIN casts, CastAuthority(k), NEW g \in CastGate
               PROVE  casts[k].decisions[g].seen = Shown(k, g)
    BY DEF NothingApprovedHasChanged
  <2>1. casts[k].decisions[g].seen = Pinned(casts[k], g)
    BY DEF CastsInv, CastSound, DecisionsSound, ApprovalSound, CastAuthority, CastApproved,
           Approves
  <2>2. /\ CorrectionsOf(casts[k].analysis) = casts[k].corrections
        /\ catalog = casts[k].catalog
    BY DEF CastAuthority, EvidenceHolds, Phase2Evidence, CatalogPinned
  <2>3. RolesOf(k, g) = GateRoles(casts[k], g)
    BY DEF RolesOf, GateRoles
  <2>4. Shown(k, g) = Pinned(casts[k], g)
    BY <2>2, <2>3 DEF Shown, Pinned
  <2> QED
    BY <2>1, <2>4
<1> QED
  BY <1>1, CastingsSound, PTL

\* A step that keeps the choice, its mark and its fitness keeps the refusal.
LEMMA RefusedKept ==
  ASSUME NEW k, NEW r, Refused(k, r),
         casts'[k].assigned[r].state = casts[k].assigned[r].state,
         casts'[k].assigned[r].unfit = casts[k].assigned[r].unfit,
         casts[k].assigned[r].latched => casts'[k].assigned[r].latched
  PROVE  Refused(k, r)'
  BY DEF Refused, Chosen

\* A new snapshot keeps the rows it was given, but for new marks, and stands on
\* no approval.
LEMMA Republished ==
  ASSUME CastsInv, NEW k \in DOMAIN casts, casts[k].published, NEW rs,
         NEW a \in [Role -> AssignmentRow], Republish(k, rs, a)
  PROVE  /\ casts'[k].snapshot = casts[k].snapshot + 1 /\ casts[k].snapshot \in Nat
         /\ \A g \in CastGate : ~CastApproved(k, g)'
         /\ \A r \in Role :
              /\ casts'[k].assigned[r].state = a[r].state
              /\ casts'[k].assigned[r].unfit = a[r].unfit
              /\ casts'[k].assigned[r].since = a[r].since
              /\ a[r].latched => casts'[k].assigned[r].latched
<1> DEFINE c == casts[k]
<1> PICK q : q = [c EXCEPT !.snapshot = c.snapshot + 1, !.roles = rs,
                           !.assigned = Latched(k, a), !.frozen = Eligible(k, rs, a)]
  OBVIOUS
<1>1. casts' = [casts EXCEPT ![k] = q]
  BY DEF Republish
<1>2. CastTyped(c) /\ DecisionsSound(c)
  BY DEF CastsInv, CastSound
<1>3. casts'[k] = q
  BY <1>1
<1> HIDE DEF c
<1>4. /\ q.snapshot = c.snapshot + 1 /\ q.assigned = Latched(k, a)
      /\ q.decisions = c.decisions /\ c.snapshot \in Nat
  BY <1>2 DEF CastTyped, CastShape
<1>5. ASSUME NEW g \in CastGate
      PROVE  ~CastApproved(k, g)'
  <2>1. c.decisions[g].snapshot \in Nat /\ c.decisions[g].snapshot <= c.snapshot
    BY <1>2 DEF DecisionsSound, DecisionTyped
  <2>2. c.decisions[g].snapshot # q.snapshot
    BY <1>4, <2>1
  <2> QED
    BY <1>3, <1>4, <2>2 DEF CastApproved, Approves
<1>6. ASSUME NEW r \in Role
      PROVE  /\ casts'[k].assigned[r].state = a[r].state
             /\ casts'[k].assigned[r].unfit = a[r].unfit
             /\ casts'[k].assigned[r].since = a[r].since
             /\ a[r].latched => casts'[k].assigned[r].latched
  BY <1>3, <1>4, LatchedRows
<1> QED
  BY <1>3, <1>4, <1>5, <1>6 DEF c

\* How a step leaves a refused voice: the refusal stands, or the step is a
\* correction and nothing is approved after it.
Lifted(k, r) ==
  \/ Refused(k, r)'
  \/ /\ casts'[k].snapshot > casts[k].snapshot
     /\ casts[k].assigned[r].latched => casts'[k].assigned[r].since = casts'[k].snapshot
     /\ \A g \in CastGate : ~CastApproved(k, g)'

\* A correction that gives the role a new row lifts whatever it was refused for,
\* and one that keeps the row keeps the mark.
LEMMA RepublishLifts ==
  ASSUME CastsInv, NEW k \in DOMAIN casts, casts[k].published, NEW rs, NEW r \in Role,
         NEW a \in [Role -> AssignmentRow], Republish(k, rs, a), Refused(k, r),
         \/ a[r].since = casts[k].snapshot + 1
         \/ a[r].state = casts[k].assigned[r].state /\ a[r].latched = casts[k].assigned[r].latched
  PROVE  Lifted(k, r)
<1>1. /\ casts'[k].snapshot = casts[k].snapshot + 1 /\ casts[k].snapshot \in Nat
      /\ \A g \in CastGate : ~CastApproved(k, g)'
      /\ casts'[k].assigned[r].state = a[r].state
      /\ casts'[k].assigned[r].since = a[r].since
      /\ a[r].latched => casts'[k].assigned[r].latched
  BY Republished
<1>2. casts'[k].snapshot > casts[k].snapshot
  BY <1>1
<1>3. CASE a[r].since = casts[k].snapshot + 1
  BY <1>1, <1>2, <1>3 DEF Lifted
<1>4. CASE a[r].state = casts[k].assigned[r].state /\ a[r].latched = casts[k].assigned[r].latched
  <2>1. CASE casts[k].assigned[r].latched
    BY <1>1, <1>4, <2>1 DEF Lifted, Refused, Chosen
  <2>2. CASE ~casts[k].assigned[r].latched
    BY <1>1, <1>2, <2>2 DEF Lifted
  <2> QED
    BY <2>1, <2>2
<1> QED
  BY <1>3, <1>4

\* Recording drift keeps a refusal.
LEMMA LatchKeepsRefusals ==
  ASSUME CastsInv, NEW k \in DOMAIN casts, NEW r \in Role, Refused(k, r), RecordDrift(k)
  PROVE  Refused(k, r)'
<1> DEFINE c == casts[k]
<1> PICK q : q = [c EXCEPT !.assigned = Latched(k, c.assigned), !.decisions = Superseded(k)]
  OBVIOUS
<1>1. casts[k].assigned \in [Role -> AssignmentRow] /\ CastShape(casts[k])
  BY DEF CastsInv, CastSound, CastTyped
<1>2. casts' = [casts EXCEPT ![k] = q]
  BY DEF RecordDrift
<1>3. casts'[k].assigned = Latched(k, casts[k].assigned)
  <2>1. q.assigned = Latched(k, c.assigned)
    <3> HIDE DEF c
    <3> QED
      BY <1>1 DEF CastShape, c
  <2> QED
    BY <1>2, <2>1
<1>4. /\ casts'[k].assigned[r].state = casts[k].assigned[r].state
      /\ casts'[k].assigned[r].unfit = casts[k].assigned[r].unfit
      /\ casts[k].assigned[r].latched => casts'[k].assigned[r].latched
  BY <1>1, <1>3, LatchedRows
<1> QED
  BY <1>4, RefusedKept

\* So does a decision, which records drift first.
LEMMA DecisionKeepsRefusals ==
  ASSUME CastsInv, NEW k \in DOMAIN casts, NEW r \in Role, Refused(k, r),
         NEW g \in CastGate, NEW d \in Decision, DecideCast(k, g, d)
  PROVE  Refused(k, r)'
<1> DEFINE c == casts[k]
<1> PICK row : row = [state |-> d, snapshot |-> c.snapshot,
                      revision |-> Superseded(k)[g].revision + 1, seen |-> Shown(k, g)]
  OBVIOUS
<1> PICK q : q = [c EXCEPT !.assigned = Latched(k, c.assigned),
                           !.decisions = [Superseded(k) EXCEPT ![g] = row]]
  OBVIOUS
<1>1. casts[k].assigned \in [Role -> AssignmentRow] /\ CastShape(casts[k])
  BY DEF CastsInv, CastSound, CastTyped
<1>2. casts' = [casts EXCEPT ![k] = q]
  BY DEF DecideCast, Answered
<1>3. casts'[k].assigned = Latched(k, casts[k].assigned)
  <2>1. q.assigned = Latched(k, c.assigned)
    <3> HIDE DEF c
    <3> QED
      BY <1>1 DEF CastShape, c
  <2> QED
    BY <1>2, <2>1
<1>4. /\ casts'[k].assigned[r].state = casts[k].assigned[r].state
      /\ casts'[k].assigned[r].unfit = casts[k].assigned[r].unfit
      /\ casts[k].assigned[r].latched => casts'[k].assigned[r].latched
  BY <1>1, <1>3, LatchedRows
<1> QED
  BY <1>4, RefusedKept

\* The correction of a role gives it a new row or keeps the choice; the other
\* roles keep their rows.
LEMMA CorrectionLifts ==
  ASSUME CastsInv, NEW k \in DOMAIN casts, NEW r \in Role, NEW s \in Role,
         CorrectCast(k, s), Refused(k, r)
  PROVE  Lifted(k, r)
<1> DEFINE c == casts[k]
<1>1. CastTyped(c) /\ c.published
  BY DEF CastsInv, CastSound, CorrectCast, MayCorrect
<1>2. c.assigned \in [Role -> AssignmentRow]
  BY <1>1 DEF CastTyped
<1>3. ASSUME NEW state \in AssignmentState, NEW voice \in Voice \cup {NoVoice}, NEW b,
             b = Assign(k, s, state, voice)
                  \/ b = [Assign(k, s, state, voice) EXCEPT ![s].unfit = FALSE],
             Republish(k, c.roles, b)
      PROVE  Lifted(k, r)
  <2> DEFINE e == Assign(k, s, state, voice)
  <2>1. e \in [Role -> AssignmentRow]
    BY <1>1, AssignTyped
  <2>2. /\ e[s].since = c.snapshot + 1
        /\ r # s => e[r] = c.assigned[r]
    BY <1>2 DEF Assign
  <2> HIDE DEF e
  <2>3. e[s] \in AssignmentRow
    BY <2>1
  <2>4. [e EXCEPT ![s].unfit = FALSE] \in [Role -> AssignmentRow]
    BY <2>1, UnfitTyped
  <2>5. b \in [Role -> AssignmentRow]
    BY <1>3, <2>1, <2>4 DEF e
  <2>6. b[s].since = e[s].since /\ (r # s => b[r] = e[r])
    <3>1. CASE b = e
      BY <3>1
    <3>2. CASE b = [e EXCEPT ![s].unfit = FALSE]
      BY <2>1, <2>3, <3>2 DEF AssignmentRow
    <3> QED
      BY <1>3, <3>1, <3>2 DEF e
  <2>7. \/ b[r].since = c.snapshot + 1
        \/ b[r].state = c.assigned[r].state /\ b[r].latched = c.assigned[r].latched
    BY <2>2, <2>6
  <2> QED
    BY <1>1, <1>3, <2>5, <2>7, RepublishLifts
<1>4. s \in DOMAIN c.assigned /\ c.assigned[s].voice \in Voice \cup {NoVoice}
  BY <1>2 DEF AssignmentRow
<1>5. CASE \E v \in Voice : Select(k, s, v)
  BY <1>3, <1>5 DEF Select, AssignmentState
<1>6. CASE Lock(k, s)
  BY <1>3, <1>4, <1>6 DEF Lock, AssignmentState
<1>7. CASE Unlock(k, s)
  BY <1>3, <1>4, <1>7 DEF Unlock, AssignmentState
<1>8. CASE \E state \in {"cleared", "uncast"} : Withdraw(k, s, state)
  BY <1>3, <1>8 DEF Withdraw, AssignmentState
<1>9. CASE \E unfit \in BOOLEAN : Reassess(k, s, unfit)
  <2> PICK unfit \in BOOLEAN : Reassess(k, s, unfit)
    BY <1>9
  <2> DEFINE b == [c.assigned EXCEPT ![s].unfit = unfit]
  <2>1. b \in [Role -> AssignmentRow]
    BY <1>2, UnfitTyped
  <2>2. b[r].state = c.assigned[r].state /\ b[r].latched = c.assigned[r].latched
    <3>1. c.assigned[s] \in AssignmentRow
      BY <1>2
    <3> QED
      BY <1>2, <3>1 DEF AssignmentRow
  <2>3. Republish(k, c.roles, b)
    BY DEF Reassess
  <2> HIDE DEF b
  <2> QED
    BY <1>1, <2>1, <2>2, <2>3, RepublishLifts
<1>10. CASE Annotate(k)
  BY <1>1, <1>2, <1>10, RepublishLifts DEF Annotate
<1> QED
  BY <1>5, <1>6, <1>7, <1>8, <1>9, <1>10 DEF CorrectCast

\* A refused voice is the voice of no casting that may start auditions, and
\* only a correction lifts the refusal.
THEOREM RefusalsStand == ChainSpec => RefusalStands
<1> DEFINE Authority ==
      \A k \in DOMAIN casts : CastAuthority(k) => \A r \in casts[k].roles : ~Refused(k, r)
           Step ==
      \A k \in DOMAIN casts : \A r \in casts[k].roles : Refused(k, r) => Lifted(k, r)
<1>1. CastsInv => Authority
  <2> SUFFICES ASSUME CastsInv, NEW k \in DOMAIN casts, CastAuthority(k)
               PROVE  \A r \in casts[k].roles : ~Refused(k, r)
    OBVIOUS
  <2>1. "complete" \in CastGate /\ GateRoles(casts[k], "complete") = casts[k].roles
    BY DEF CastGate, GateRoles
  <2>2. Clean(casts[k], "complete")
    BY <2>1 DEF CastsInv, CastSound, DecisionsSound, ApprovalSound, CastAuthority,
                CastApproved, Approves
  <2> QED
    BY <2>1, <2>2 DEF Clean, Refused
<1>2. CastsInv /\ [ChainNext]_chainVars => [Step]_chainVars
  <2> SUFFICES ASSUME CastsInv, ChainNext,
                      NEW k \in DOMAIN casts, NEW r \in casts[k].roles, Refused(k, r)
               PROVE  Lifted(k, r)
    OBVIOUS
  <2>1. r \in Role
    BY DEF CastsInv, CastSound, CastTyped
  <2>2. ASSUME casts'[k] = casts[k]
        PROVE  Lifted(k, r)
    BY <2>2, RefusedKept DEF Lifted
  <2>3. ASSUME NEW a, CreateCast(a)
        PROVE  casts'[k] = casts[k]
    <3> DEFINE S == {casts[j] : j \in DOMAIN casts} \cup {NewCast(a)}
    <3> HIDE DEF S
    <3>1. casts \in Seq(S) /\ NewCast(a) \in S
      BY DEF CastsInv, S
    <3> QED
      BY <2>3, <3>1 DEF CreateCast
  <2>4. ASSUME NEW j \in DOMAIN casts, NEW row, casts' = [casts EXCEPT ![j] = row], j # k
        PROVE  casts'[k] = casts[k]
    BY <2>4
  <2>5. ASSUME NEW j \in DOMAIN casts, PublishCast(j)
        PROVE  Lifted(k, r)
    <3>1. CASE j # k
      BY <2>2, <2>4, <2>5, <3>1 DEF PublishCast
    <3>2. CASE j = k
      <4>1. CastShape(casts[k])
        BY DEF CastsInv, CastSound, CastTyped
      <4>2. casts'[k].assigned = casts[k].assigned
        <5> DEFINE c == casts[k]
        <5>1. casts'[k] = [c EXCEPT !.published = TRUE, !.snapshot = 1,
                !.roles = Role \ Custom, !.frozen = Eligible(k, Role \ Custom, c.assigned),
                !.decisions = [g \in CastGate |-> NoDecision]]
          BY <2>5, <3>2 DEF PublishCast, FirstSnapshot
        <5>2. CastShape(c)
          BY <4>1
        <5> HIDE DEF c
        <5>3. casts'[k].assigned = c.assigned
          BY <5>1, <5>2 DEF CastShape
        <5> QED
          BY <5>3 DEF c
      <4> QED
        BY <4>2, RefusedKept DEF Lifted
    <3> QED
      BY <3>1, <3>2
  <2>6. ASSUME NEW j \in DOMAIN casts,
               RecordDrift(j) \/ \E g \in CastGate, d \in Decision : DecideCast(j, g, d)
        PROVE  Lifted(k, r)
    <3>1. CASE j # k
      <4>1. casts'[k] = casts[k]
        <5>1. CASE RecordDrift(j)
          BY <3>1, <5>1 DEF RecordDrift
        <5>2. ASSUME NEW g \in CastGate, NEW d \in Decision, DecideCast(j, g, d)
              PROVE  casts'[k] = casts[k]
          BY <3>1, <5>2 DEF DecideCast
        <5> QED
          BY <2>6, <5>1, <5>2
      <4> QED
        BY <2>2, <4>1
    <3>2. CASE j = k
      BY <2>1, <2>6, <3>2, LatchKeepsRefusals, DecisionKeepsRefusals DEF Lifted
    <3> QED
      BY <3>1, <3>2
  <2>7. ASSUME NEW j \in DOMAIN casts, NEW rs, NEW a, Republish(j, rs, a), j # k
        PROVE  Lifted(k, r)
    BY <2>2, <2>4, <2>7 DEF Republish
  <2>8. ASSUME NEW j \in DOMAIN casts, NEW s \in Role, CorrectCast(j, s)
        PROVE  Lifted(k, r)
    <3>1. CASE j = k
      BY <2>1, <2>8, <3>1, CorrectionLifts
    <3>2. CASE j # k
      BY <2>7, <2>8, <3>2 DEF CorrectCast, Select, Lock, Unlock, Withdraw, Reassess, Annotate
    <3> QED
      BY <3>1, <3>2
  <2>9. ASSUME NEW j \in DOMAIN casts, NEW s \in Role, AddRole(j, s)
        PROVE  Lifted(k, r)
    <3>1. CASE j = k
      <4>1. /\ casts[k].published /\ casts[k].assigned \in [Role -> AssignmentRow]
            /\ Republish(k, casts[k].roles \cup {s}, casts[k].assigned)
        BY <2>9, <3>1 DEF AddRole, MayCorrect, PublishRole, CastsInv, CastSound, CastTyped
      <4> QED
        BY <2>1, <4>1, RepublishLifts
    <3>2. CASE j # k
      BY <2>7, <2>9, <3>2 DEF AddRole, PublishRole
    <3> QED
      BY <3>1, <3>2
  <2>10. CASE UNCHANGED casts
    BY <2>2, <2>10
  <2>11. CASE CastingNext
    BY <2>2, <2>3, <2>5, <2>6, <2>8, <2>9, <2>10, <2>11
    DEF CastingNext, LatchDrift, SummaryLatchesDrift, ReplayCorrection, ReplayDecision,
        ReplaceCatalog, ExpireRights
  <2> QED
    BY <2>10, <2>11 DEF ChainNext, castVars
<1>3. ChainSpec => []Authority /\ [][Step]_chainVars
  <2> HIDE DEF Authority, Step
  <2> QED
    BY <1>1, <1>2, CastingsSound, PTL DEF ChainSpec
<1> QED
  BY <1>3 DEF RefusalStands, Lifted

----------------------------------------------------------------------------
(* StoryCorrections.  Induction over a range of numbers: a property that    *)
(* holds of 0, and of a number when it holds of the one before, has no      *)
(* least number it does not hold of.                                        *)

Less == {p \in Nat \X Nat : p[1] < p[2]}

\* A non-empty set of numbers has a least one.
LEMMA Least ==
  ASSUME NEW S, S \subseteq Nat, S # {}
  PROVE  \E n \in S : \A m \in S : n <= m
<1>1. IsWellFoundedOn(Less, Nat)
  BY NatLessThanWellFounded DEF OpToRel, Less
<1>2. PICK n \in S : \A m \in S : <<m, n>> \notin Less
  BY <1>1, WFMin
<1>3. \A m \in S : n <= m
  <2>1. TAKE m \in S
  <2>2. ~(m < n)
    BY <1>2 DEF Less
  <2>. QED BY <2>2
<1>. QED BY <1>3

\* Induction, for a set of numbers instead of a predicate.
LEMMA Induction ==
  ASSUME NEW N \in Nat, NEW S, 0 \in S, \A n \in 1..N : n - 1 \in S => n \in S
  PROVE  0..N \subseteq S
<1> DEFINE Bad == {n \in 0..N : n \notin S}
<1>1. SUFFICES ASSUME Bad # {} PROVE FALSE
  OBVIOUS
<1>2. PICK n \in Bad : \A m \in Bad : n <= m
  <2>1. Bad \subseteq Nat
    OBVIOUS
  <2>. HIDE DEF Bad
  <2>. QED BY <1>1, <2>1, Least
<1>3. n \in 1..N /\ n - 1 \in 0..N
  OBVIOUS
<1>4. n - 1 \notin Bad
  <2>. HIDE DEF Bad
  <2>. QED BY <1>2, <1>3
<1>. QED BY <1>3, <1>4

\* The latest of some corrections is one of them that none comes after, or 0.
LEMMA LatestIn ==
  ASSUME NEW n \in Nat, NEW S \in SUBSET (1..n)
  PROVE  /\ Latest(S) \in S \cup {0}
         /\ S # {} => Latest(S) \in S
         /\ \A j \in S : j <= Latest(S)
<1>1. CASE S = {}
  BY <1>1 DEF Latest
<1>2. CASE S # {}
  <2> DEFINE T == {n - i : i \in S}
  <2>1. T \subseteq Nat /\ T # {}
    <3>1. \A i \in S : n - i \in Nat
      OBVIOUS
    <3>. QED BY <1>2, <3>1
  <2>2. PICK x \in T : \A y \in T : x <= y
    <3>. HIDE DEF T
    <3>. QED BY <2>1, Least
  <2>3. PICK i \in S : x = n - i
    OBVIOUS
  <2>4. \A j \in S : i >= j
    <3>1. TAKE j \in S
    <3>2. n - j \in T
      OBVIOUS
    <3>3. x <= n - j
      BY <2>2, <3>2
    <3>. QED BY <2>3, <3>3
  <2>5. Max(S) \in S /\ \A j \in S : Max(S) >= j
    BY <2>4 DEF Max
  <2>. QED BY <1>2, <2>5 DEF Latest
<1>. QED BY <1>1, <1>2

\* The latest of a set of which a number is the last.
LEMMA LatestIs ==
  ASSUME NEW n \in Nat, NEW S \in SUBSET (1..n), NEW i \in S, \A j \in S : j <= i
  PROVE  Latest(S) = i
<1>1. Latest(S) \in S /\ i <= Latest(S)
  BY LatestIn
<1>2. Latest(S) <= i
  BY <1>1
<1>3. \A j \in S : j \in Nat
  OBVIOUS
<1>4. Latest(S) \in Nat /\ i \in Nat
  BY <1>1, <1>3
<1> DEFINE m == Latest(S)
<1>5. m \in Nat /\ m <= i /\ i <= m
  BY <1>1, <1>2, <1>4
<1> HIDE DEF m
<1>6. m = i
  BY <1>4, <1>5
<1>. QED BY <1>6 DEF m

Numbered(v) == \E n \in Nat : DOMAIN v.rows \subseteq 1..n

\* The replay is the function it is defined to be.
LEMMA ReplayDef ==
  ASSUME NEW v, NEW k, Numbered(v)
  PROVE  Replay(v, k) =
           [n \in 0..Latest(StructureOperations(v, k)) |->
             IF n = 0 THEN Untouched
             ELSE IF n \in StructureOperations(v, k)
                  THEN Replayed(v.rows[n], k, Replay(v, k)[n - 1], n)
                  ELSE Replay(v, k)[n - 1]]
<1> DEFINE ops == StructureOperations(v, k)
           N == Latest(ops)
           Step(f, n) == IF n = 0 THEN Untouched
                         ELSE IF n \in ops THEN Replayed(v.rows[n], k, f[n - 1], n)
                         ELSE f[n - 1]
           Upto(f, m) == f = [n \in 0..m |-> Step(f, n)]
           Bad == {m \in 0..N : ~\E f : Upto(f, m)}
<1>1. N \in Nat
  <2>1. PICK l \in Nat : DOMAIN v.rows \subseteq 1..l
    BY DEF Numbered
  <2>2. ops \in SUBSET (1..l)
    BY <2>1 DEF StructureOperations, About
  <2>3. N \in ops \cup {0}
    BY <2>2, LatestIn
  <2>. QED BY <2>2, <2>3
<1>2. Bad = {}
  <2>1. SUFFICES ASSUME Bad # {} PROVE FALSE
    OBVIOUS
  <2>2. PICK m \in Bad : \A j \in Bad : m <= j
    <3>1. Bad \subseteq Nat
      BY <1>1
    <3>. HIDE DEF Bad
    <3>. QED BY <2>1, <3>1, Least
  <2>3. m \in Nat /\ m \in 0..N
    BY <1>1
  <2>4. CASE m = 0
    <3>1. Upto([n \in 0..0 |-> Untouched], 0)
      OBVIOUS
    <3>. QED BY <2>4, <3>1
  <2>5. CASE m # 0
    <3>1. m - 1 \in 0..N /\ m - 1 \notin Bad
      <4>. HIDE DEF Bad, N
      <4>. QED BY <1>1, <2>2, <2>3, <2>5
    <3>2. PICK f : Upto(f, m - 1)
      BY <3>1
    <3> DEFINE g == [n \in 0..m |-> IF n = m THEN Step(f, m) ELSE f[n]]
    <3>3. \A n \in 0..(m - 1) : g[n] = f[n]
      BY <2>3
    <3>4. ASSUME NEW n \in 0..m PROVE g[n] = Step(g, n)
      <4>1. CASE n = m
        <5>1. g[m - 1] = f[m - 1] /\ g[n] = Step(f, m)
          BY <2>3, <2>5, <3>3, <4>1
        <5>. QED BY <2>5, <4>1, <5>1
      <4>2. CASE n # m
        <5>1. n \in 0..(m - 1) /\ (n # 0 => n - 1 \in 0..(m - 1))
          BY <2>3, <4>2
        <5>2. f[n] = Step(f, n)
          BY <3>2, <5>1
        <5>3. g[n] = f[n] /\ (n # 0 => g[n - 1] = f[n - 1])
          BY <3>3, <5>1
        <5>. QED BY <5>2, <5>3
      <4>. QED BY <4>1, <4>2
    <3>5. Upto(g, m)
      <4>1. g = [n \in 0..m |-> g[n]]
        OBVIOUS
      <4>. HIDE DEF g, Step
      <4>. QED BY <3>4, <4>1
    <3>. QED BY <3>5
  <2>. QED BY <2>4, <2>5
<1>3. \E f : f = [n \in 0..N |-> Step(f, n)]
  BY <1>1, <1>2
<1>4. Replay(v, k) = CHOOSE f : f = [n \in 0..N |-> Step(f, n)]
  BY DEF Replay
<1>. QED BY <1>3, <1>4

OpsOf(v, k) == StructureOperations(v, k)

\* The operations on a piece are corrections of the view.
LEMMA OpsNumbered ==
  ASSUME NEW v, NEW k, Numbered(v)
  PROVE  /\ OpsOf(v, k) \subseteq Nat \ {0} /\ OpsOf(v, k) \subseteq DOMAIN v.rows
         /\ Latest(OpsOf(v, k)) \in Nat
         /\ Latest(OpsOf(v, k)) \in OpsOf(v, k) \cup {0}
         /\ \A i \in OpsOf(v, k) : i <= Latest(OpsOf(v, k))
<1>1. PICK n \in Nat : DOMAIN v.rows \subseteq 1..n
  BY DEF Numbered
<1>2. OpsOf(v, k) \in SUBSET (1..n) /\ OpsOf(v, k) \subseteq DOMAIN v.rows
  BY <1>1 DEF OpsOf, StructureOperations, About
<1>3. /\ Latest(OpsOf(v, k)) \in OpsOf(v, k) \cup {0}
      /\ \A i \in OpsOf(v, k) : i <= Latest(OpsOf(v, k))
  BY <1>2, LatestIn
<1>4. OpsOf(v, k) \subseteq Nat \ {0}
  BY <1>2
<1>. QED BY <1>2, <1>3, <1>4

\* The equation of the replay.
LEMMA ReplayStep ==
  ASSUME NEW v, NEW k, Numbered(v)
  PROVE  /\ Replay(v, k)[0] = Untouched
         /\ \A n \in 1..Latest(OpsOf(v, k)) :
              Replay(v, k)[n] = IF n \in OpsOf(v, k)
                                THEN Replayed(v.rows[n], k, Replay(v, k)[n - 1], n)
                                ELSE Replay(v, k)[n - 1]
<1> DEFINE N == Latest(OpsOf(v, k))
           F(n) == IF n = 0 THEN Untouched
                   ELSE IF n \in OpsOf(v, k)
                        THEN Replayed(v.rows[n], k, Replay(v, k)[n - 1], n)
                        ELSE Replay(v, k)[n - 1]
<1>1. N \in Nat
  BY OpsNumbered
<1>2. Replay(v, k) = [n \in 0..N |-> F(n)]
  BY ReplayDef DEF OpsOf
<1>3. \A n \in 0..N : Replay(v, k)[n] = F(n)
  <2>. HIDE DEF F, N
  <2>. QED BY <1>2
<1>4. 0 \in 0..N /\ \A n \in 1..N : n \in 0..N /\ n # 0
  BY <1>1
<1>. QED BY <1>3, <1>4

\* What replaying up to n leaves: every operation is on one side, and there
\* is an added piece from the moment something happens to it.
StateOK(st, ops, n) ==
  /\ st \in [source : BOOLEAN, root : Nat, added : BOOLEAN,
             onSource : SUBSET ops, onAdded : SUBSET ops]
  /\ \A i \in st.onSource \cup st.onAdded : i <= n
  /\ st.onSource \cap st.onAdded = {}
  /\ (st.root # 0) <=> (st.onAdded # {})
  /\ st.root \in ops \cup {0}
  /\ st.added => st.root # 0
  /\ st.onSource = {} => st.source

\* One step of the replay keeps what holds of it.
LEMMA ReplayedOK ==
  ASSUME NEW c, NEW k, NEW ops, ops \subseteq Nat \ {0}, NEW st, NEW n \in Nat \ {0},
         NEW i \in ops, i = n, StateOK(st, ops, n - 1)
  PROVE  StateOK(Replayed(c, k, st, i), ops, n)
<1>1. i \notin st.onSource \cup st.onAdded
  BY DEF StateOK
<1> DEFINE toAdded == \/ c.supersedes \in st.onAdded
                      \/ c.supersedes \notin st.onSource /\ st.root # 0 /\ c.target # Row(c.run, k)
           makesRoot == c.op = "add" /\ ~toAdded /\ st.source /\ st.root = 0
           stays(active) == IF c.op = "label" THEN active ELSE c.op # "remove"
<1>2. toAdded => st.root # 0
  BY DEF StateOK
<1> DEFINE new == Replayed(c, k, st, i)
<1>3. ASSUME toAdded \/ makesRoot
      PROVE  /\ new \in [source : BOOLEAN, root : Nat, added : BOOLEAN,
                         onSource : SUBSET ops, onAdded : SUBSET ops]
             /\ new.onSource = st.onSource /\ new.onAdded = st.onAdded \cup {i}
             /\ new.source = st.source /\ new.root \in {i, st.root} \ {0}
  <2>1. new = [source |-> st.source, root |-> IF makesRoot THEN i ELSE st.root,
               added |-> stays(st.added), onSource |-> st.onSource,
               onAdded |-> st.onAdded \cup {i}]
    BY <1>3 DEF Replayed
  <2>2. stays(st.added) \in BOOLEAN
    BY DEF StateOK
  <2>3. (IF makesRoot THEN i ELSE st.root) \in {i, st.root} \ {0}
    BY <1>2, <1>3
  <2>4. /\ st.source \in BOOLEAN /\ st.root \in Nat
        /\ st.onSource \in SUBSET ops /\ st.onAdded \cup {i} \in SUBSET ops
    BY DEF StateOK
  <2>. HIDE DEF new, toAdded, makesRoot, stays
  <2>. QED BY <2>1, <2>2, <2>3, <2>4
<1>4. ASSUME ~(toAdded \/ makesRoot)
      PROVE  /\ new \in [source : BOOLEAN, root : Nat, added : BOOLEAN,
                         onSource : SUBSET ops, onAdded : SUBSET ops]
             /\ new.onSource = st.onSource \cup {i} /\ new.onAdded = st.onAdded
             /\ new.added = st.added /\ new.root = st.root
  <2>1. new = [source |-> stays(st.source), root |-> st.root, added |-> st.added,
               onSource |-> st.onSource \cup {i}, onAdded |-> st.onAdded]
    BY <1>4 DEF Replayed
  <2>2. stays(st.source) \in BOOLEAN
    BY DEF StateOK
  <2>3. /\ st.added \in BOOLEAN /\ st.root \in Nat
        /\ st.onSource \cup {i} \in SUBSET ops /\ st.onAdded \in SUBSET ops
    BY DEF StateOK
  <2>. HIDE DEF new, toAdded, makesRoot, stays
  <2>. QED BY <2>1, <2>2, <2>3
<1>5. \A j \in st.onSource \cup st.onAdded \cup {i} : j <= n
  <2>1. \A j \in st.onSource \cup st.onAdded : j <= n - 1 /\ j \in Nat
    BY DEF StateOK
  <2>. QED BY <2>1
<1>. SUFFICES StateOK(new, ops, n)
  OBVIOUS
<1> HIDE DEF new, toAdded, makesRoot
<1>6. CASE toAdded \/ makesRoot
  <2>1. new \in [source : BOOLEAN, root : Nat, added : BOOLEAN,
                 onSource : SUBSET ops, onAdded : SUBSET ops]
    BY <1>3, <1>6
  <2>2. new.onSource \cup new.onAdded = st.onSource \cup st.onAdded \cup {i}
    BY <1>3, <1>6
  <2>3. \A j \in new.onSource \cup new.onAdded : j <= n
    BY <1>5, <2>2
  <2>4. new.onSource \cap new.onAdded = {}
    BY <1>1, <1>3, <1>6 DEF StateOK
  <2>5. (new.root # 0) <=> (new.onAdded # {})
    BY <1>3, <1>6 DEF StateOK
  <2>6. new.root \in ops \cup {0}
    BY <1>3, <1>6 DEF StateOK
  <2>7. new.added => new.root # 0
    BY <1>3, <1>6 DEF StateOK
  <2>8. new.onSource = {} => new.source
    BY <1>3, <1>6 DEF StateOK
  <2>. QED BY <2>1, <2>3, <2>4, <2>5, <2>6, <2>7, <2>8 DEF StateOK
<1>7. CASE ~(toAdded \/ makesRoot)
  <2>1. new \in [source : BOOLEAN, root : Nat, added : BOOLEAN,
                 onSource : SUBSET ops, onAdded : SUBSET ops]
    BY <1>4, <1>7
  <2>2. new.onSource \cup new.onAdded = st.onSource \cup st.onAdded \cup {i}
    BY <1>4, <1>7
  <2>3. \A j \in new.onSource \cup new.onAdded : j <= n
    BY <1>5, <2>2
  <2>4. new.onSource \cap new.onAdded = {}
    BY <1>1, <1>4, <1>7 DEF StateOK
  <2>5. (new.root # 0) <=> (new.onAdded # {})
    BY <1>4, <1>7 DEF StateOK
  <2>6. new.root \in ops \cup {0}
    BY <1>4, <1>7 DEF StateOK
  <2>7. new.added => new.root # 0
    BY <1>4, <1>7 DEF StateOK
  <2>8. new.onSource = {} => new.source
    BY <1>4, <1>7 DEF StateOK
  <2>. QED BY <2>1, <2>3, <2>4, <2>5, <2>6, <2>7, <2>8 DEF StateOK
<1>. QED BY <1>6, <1>7

\* So does the replay, as far as it goes.
LEMMA ReplayOK ==
  ASSUME NEW v, NEW k, Numbered(v)
  PROVE  \A n \in 0..Latest(OpsOf(v, k)) : StateOK(Replay(v, k)[n], OpsOf(v, k), n)
<1> DEFINE ops == OpsOf(v, k)
           N == Latest(ops)
           S == {n \in 0..N : StateOK(Replay(v, k)[n], ops, n)}
<1>1. N \in Nat /\ ops \subseteq Nat \ {0}
  BY OpsNumbered
<1>2. 0 \in S
  <2>1. Replay(v, k)[0] = Untouched
    BY ReplayStep
  <2>2. StateOK(Untouched, ops, 0)
    BY DEF StateOK, Untouched
  <2>. QED BY <1>1, <2>1, <2>2
<1>3. ASSUME NEW n \in 1..N, n - 1 \in S PROVE n \in S
  <2>1. StateOK(Replay(v, k)[n - 1], ops, n - 1)
    BY <1>3
  <2>2. n \in Nat \ {0} /\ n \in 0..N
    BY <1>1
  <2>3. CASE n \in ops
    <3>1. Replay(v, k)[n] = Replayed(v.rows[n], k, Replay(v, k)[n - 1], n)
      BY <2>3, ReplayStep
    <3>2. StateOK(Replayed(v.rows[n], k, Replay(v, k)[n - 1], n), ops, n)
      <4>. HIDE DEF ops
      <4>. QED BY <1>1, <2>1, <2>2, <2>3, ReplayedOK
    <3>. QED BY <2>2, <3>1, <3>2
  <2>4. CASE n \notin ops
    <3>1. Replay(v, k)[n] = Replay(v, k)[n - 1]
      BY <2>4, ReplayStep
    <3>2. \A st : StateOK(st, ops, n - 1) => StateOK(st, ops, n)
      BY <1>1, <2>2 DEF StateOK
    <3>. QED BY <2>1, <2>2, <3>1, <3>2
  <2>. QED BY <2>3, <2>4
<1>4. 0..N \subseteq S
  <2>. HIDE DEF S, N
  <2>. QED BY <1>1, <1>2, <1>3, Induction
<1>. QED BY <1>4

\* And what it leaves in the end.
LEMMA BoundaryStateOK ==
  ASSUME NEW v, NEW k, Numbered(v)
  PROVE  StateOK(BoundaryState(v, k), OpsOf(v, k), Latest(OpsOf(v, k)))
<1>1. Latest(OpsOf(v, k)) \in 0..Latest(OpsOf(v, k))
  BY OpsNumbered
<1>. QED BY <1>1, ReplayOK DEF BoundaryState, OpsOf

\* What two views replay to the same state.
LEMMA SameReplay ==
  ASSUME NEW u, NEW v, NEW k, Numbered(u), Numbered(v), NEW n \in Nat,
         n <= Latest(OpsOf(u, k)), n <= Latest(OpsOf(v, k)),
         \A j \in 1..n : /\ j \in OpsOf(u, k) <=> j \in OpsOf(v, k)
                         /\ j \in OpsOf(u, k) => u.rows[j] = v.rows[j]
  PROVE  Replay(u, k)[n] = Replay(v, k)[n]
<1> DEFINE S == {m \in 0..n : Replay(u, k)[m] = Replay(v, k)[m]}
<1>1. Latest(OpsOf(u, k)) \in Nat /\ Latest(OpsOf(v, k)) \in Nat
  BY OpsNumbered
<1>2. 0 \in S
  BY ReplayStep
<1>3. ASSUME NEW m \in 1..n, m - 1 \in S PROVE m \in S
  <2>1. m \in 1..Latest(OpsOf(u, k)) /\ m \in 1..Latest(OpsOf(v, k)) /\ m \in 0..n
    BY <1>1
  <2>2. Replay(u, k)[m - 1] = Replay(v, k)[m - 1]
    BY <1>3
  <2>3. CASE m \in OpsOf(u, k)
    <3>1. m \in OpsOf(v, k) /\ u.rows[m] = v.rows[m]
      BY <2>3
    <3>2. /\ Replay(u, k)[m] = Replayed(u.rows[m], k, Replay(u, k)[m - 1], m)
          /\ Replay(v, k)[m] = Replayed(v.rows[m], k, Replay(v, k)[m - 1], m)
      BY <2>1, <2>3, <3>1, ReplayStep
    <3>. QED BY <2>1, <2>2, <3>1, <3>2
  <2>4. CASE m \notin OpsOf(u, k)
    <3>1. m \notin OpsOf(v, k)
      BY <2>4
    <3>2. /\ Replay(u, k)[m] = Replay(u, k)[m - 1]
          /\ Replay(v, k)[m] = Replay(v, k)[m - 1]
      BY <2>1, <2>4, <3>1, ReplayStep
    <3>. QED BY <2>1, <2>2, <3>2
  <2>. QED BY <2>3, <2>4
<1>4. 0..n \subseteq S
  <2>. HIDE DEF S
  <2>. QED BY <1>2, <1>3, Induction
<1>. QED BY <1>4

\* The same operations leave the same.
LEMMA SameState ==
  ASSUME NEW u, NEW v, NEW k, Numbered(u), Numbered(v), OpsOf(u, k) = OpsOf(v, k),
         \A j \in OpsOf(u, k) : u.rows[j] = v.rows[j]
  PROVE  BoundaryState(u, k) = BoundaryState(v, k)
<1> DEFINE N == Latest(OpsOf(u, k))
<1>1. N \in Nat /\ N <= N
  BY OpsNumbered
<1>2. Replay(u, k)[N] = Replay(v, k)[N]
  BY <1>1, SameReplay
<1>. QED BY <1>2 DEF BoundaryState, OpsOf

\* One operation more, and it is the last.
LEMMA GrownState ==
  ASSUME NEW u, NEW v, NEW k, Numbered(u), Numbered(v), NEW i \in Nat \ {0},
         OpsOf(u, k) = OpsOf(v, k) \cup {i}, \A j \in OpsOf(v, k) : j < i,
         \A j \in OpsOf(v, k) : u.rows[j] = v.rows[j]
  PROVE  BoundaryState(u, k) = Replayed(u.rows[i], k, BoundaryState(v, k), i)
<1> DEFINE N == Latest(OpsOf(v, k))
           S == {m \in 0..(i - 1) : m >= N => Replay(u, k)[m] = BoundaryState(v, k)}
<1>1. /\ N \in Nat /\ N \in OpsOf(v, k) \cup {0} /\ N <= i - 1
      /\ \A j \in OpsOf(v, k) : j \in Nat /\ j <= N
  BY OpsNumbered
<1>2. Latest(OpsOf(u, k)) = i
  <2>1. PICK n \in Nat : DOMAIN u.rows \subseteq 1..n
    BY DEF Numbered
  <2>2. OpsOf(u, k) \in SUBSET (1..n) /\ i \in OpsOf(u, k)
    BY <2>1 DEF OpsOf, StructureOperations, About
  <2>3. \A j \in OpsOf(u, k) : j <= i
    BY <1>1
  <2>. QED BY <2>2, <2>3, LatestIs
<1>3. Replay(u, k)[N] = BoundaryState(v, k)
  <2>1. N <= Latest(OpsOf(u, k)) /\ N <= Latest(OpsOf(v, k))
    BY <1>1, <1>2
  <2>2. \A j \in 1..N : /\ j \in OpsOf(u, k) <=> j \in OpsOf(v, k)
                        /\ j \in OpsOf(u, k) => u.rows[j] = v.rows[j]
    <3>1. \A j \in 1..N : j # i
      BY <1>1
    <3>. HIDE DEF N
    <3>. QED BY <3>1
  <2>3. Replay(u, k)[N] = Replay(v, k)[N]
    <3>1. N \in Nat
      BY <1>1
    <3>. HIDE DEF N
    <3>. QED BY <2>1, <2>2, <3>1, SameReplay
  <2>. QED BY <2>3 DEF BoundaryState, OpsOf
<1>4. 0 \in S
  BY <1>1, <1>3
<1>5. ASSUME NEW m \in 1..(i - 1), m - 1 \in S PROVE m \in S
  <2>1. CASE m <= N
    <3>1. m >= N => m = N
      BY <1>1, <2>1
    <3>. QED BY <1>3, <3>1
  <2>2. CASE ~(m <= N)
    <3>1. m \notin OpsOf(u, k) /\ m \in 1..Latest(OpsOf(u, k)) /\ m - 1 >= N
      BY <1>1, <1>2, <2>2
    <3>2. Replay(u, k)[m] = Replay(u, k)[m - 1]
      BY <3>1, ReplayStep
    <3>. QED BY <1>5, <3>1, <3>2
  <2>. QED BY <2>1, <2>2
<1>6. 0..(i - 1) \subseteq S
  <2>1. i - 1 \in Nat
    OBVIOUS
  <2>. HIDE DEF S
  <2>. QED BY <1>4, <1>5, <2>1, Induction
<1>7. Replay(u, k)[i - 1] = BoundaryState(v, k)
  BY <1>1, <1>6
<1>8. Replay(u, k)[i] = Replayed(u.rows[i], k, Replay(u, k)[i - 1], i)
  <2>1. i \in 1..Latest(OpsOf(u, k)) /\ i \in OpsOf(u, k)
    BY <1>2
  <2>. QED BY <2>1, ReplayStep
<1>9. BoundaryState(u, k) = Replay(u, k)[i]
  BY <1>2 DEF BoundaryState, OpsOf
<1>. QED BY <1>7, <1>8, <1>9

-----------------------------------------------------------------------------
(* Corrections, and how a run of the text says them.                       *)

Word == Piece \cup Character \cup Mention \cup Line \cup Name \cup {"story", "nobody"}
Identifier == Nat \X Word \X Nat
IdOf(r) == {0, r} \X Word \X Nat

Correction ==
  [run : Nat \ {0}, category : Categories, key : Piece \cup Character \cup Mention \cup Line,
   target : Identifier,
   op : {"add", "remove", "move", "label", "name", "merge", "split", "mention", "speaker"},
   to : Identifier, mentions : SUBSET Identifier,
   revision : Nat, supersedes : Nat, at : Nat]

\* It speaks of rows of its run, or of names; only a scene is put under what
\* was added.
Plain(c) ==
  /\ c \in Correction
  /\ c.to \in IdOf(c.run) /\ (c.to[3] # 0 => c.category = "boundary" /\ c.key \in Scene)
  /\ c.mentions \subseteq {Row(c.run, m) : m \in Mention}
  /\ c.category = "split" => c.to[1] = 0

Taken(c) == {m \in Mention : Row(c.run, m) \in c.mentions}

Renamed(id, q, r) == IF id[1] = q THEN <<r, id[2], id[3]>> ELSE id

\* Renaming to another run can be undone, and neither says who is meant otherwise.
LEMMA RenamedId ==
  ASSUME NEW q \in Nat \ {0}, NEW r \in Nat \ {0}, NEW id \in IdOf(q)
  PROVE  /\ Renamed(id, q, r) \in IdOf(r)
         /\ Renamed(Renamed(id, q, r), r, q) = id
         /\ Local(r, Renamed(id, q, r)) = Local(q, id)
         /\ Renamed(id, q, r)[2] = id[2] /\ Renamed(id, q, r)[3] = id[3]
         /\ Renamed(id, q, r) = Nobody <=> id = Nobody
<1>1. PICK p \in {0, q}, k \in Word, i \in Nat : id = <<p, k, i>>
  BY DEF IdOf
<1>2. CASE p = q
  BY <1>1, <1>2 DEF IdOf, Renamed, Local, Nobody
<1>3. CASE p = 0
  BY <1>1, <1>3 DEF IdOf, Renamed, Local, Nobody
<1>. QED BY <1>1, <1>2, <1>3

\* A row becomes the row of the other run; a name stays.
LEMMA RenamedRow ==
  ASSUME NEW q \in Nat \ {0}, NEW r \in Nat \ {0}, NEW k \in Word
  PROVE  /\ Row(q, k) \in IdOf(q) /\ Renamed(Row(q, k), q, r) = Row(r, k)
         /\ Named(k) \in IdOf(q) /\ Renamed(Named(k), q, r) = Named(k)
  BY DEF IdOf, Renamed, Row, Named

\* The story and nobody belong to no run.
LEMMA FixedIds ==
  ASSUME NEW q \in Nat \ {0}, NEW r \in Nat \ {0}
  PROVE  /\ Story \in IdOf(q) /\ Renamed(Story, q, r) = Story
         /\ Nobody \in IdOf(q) /\ Renamed(Nobody, q, r) = Nobody
  BY DEF IdOf, Renamed, Story, Nobody, Word

\* What a patch says in another run.
LEMMA PatchFields ==
  ASSUME NEW c \in Correction, NEW r
  PROVE  /\ PatchFor(c, r).to = Remapped(c.to, c.run, r)
         /\ PatchFor(c, r).mentions = {Remapped(m, c.run, r) : m \in c.mentions}
  BY DEF PatchFor, Correction

\* What was added is no row: no run says it otherwise.
LEMMA PatchThird ==
  ASSUME NEW c \in Correction, NEW r
  PROVE  /\ PatchFor(c, r).to[3] = c.to[3]
         /\ c.to[3] # 0 => PatchFor(c, r).to = c.to
<1>1. PatchFor(c, r).to = Remapped(c.to, c.run, r)
  BY PatchFields
<1>. QED BY <1>1 DEF Remapped, Row

\* A patch says in two runs what renaming leads from one to the other.
LEMMA PatchRenamed ==
  ASSUME NEW c, Plain(c), c.to[3] = 0, NEW q \in Nat \ {0}, NEW r \in Nat \ {0}
  PROVE  /\ PatchFor(c, q).to \in IdOf(q)
         /\ PatchFor(c, r).to = Renamed(PatchFor(c, q).to, q, r)
         /\ PatchFor(c, q).to[3] = 0
         /\ c.category = "split" => PatchFor(c, q).to = c.to
<1>1. PICK p \in {0, c.run}, k \in Word, i \in Nat : c.to = <<p, k, i>>
  BY DEF Plain, IdOf
<1>2. c \in Correction /\ c.run \in Nat \ {0} /\ i = 0
  BY <1>1 DEF Plain, Correction
<1>3. /\ PatchFor(c, q).to = Remapped(c.to, c.run, q)
      /\ PatchFor(c, r).to = Remapped(c.to, c.run, r)
  BY <1>2, PatchFields
<1>4. c.category = "split" => p = 0
  BY <1>1 DEF Plain
<1>5. CASE p = c.run
  BY <1>1, <1>2, <1>3, <1>4, <1>5 DEF Remapped, Renamed, IdOf, Row
<1>6. CASE p = 0
  BY <1>1, <1>2, <1>3, <1>6 DEF Remapped, Renamed, IdOf, Row
<1>. QED BY <1>1, <1>5, <1>6

\* The mentions of a patch are those of the run it is read in.
LEMMA PatchMentions ==
  ASSUME NEW c, Plain(c), NEW r \in Nat \ {0}
  PROVE  PatchFor(c, r).mentions = {Row(r, m) : m \in Taken(c)}
<1>1. c \in Correction /\ c.mentions = {Row(c.run, m) : m \in Taken(c)}
  BY DEF Plain, Taken
<1>2. PatchFor(c, r).mentions = {Remapped(m, c.run, r) : m \in c.mentions}
  BY <1>1, PatchFields
<1>3. \A m : Remapped(Row(c.run, m), c.run, r) = Row(r, m)
  BY DEF Remapped, Row
<1>. QED BY <1>1, <1>2, <1>3

-----------------------------------------------------------------------------
(* Two runs that see the same corrections.                                 *)

ViewOK(v) ==
  /\ v.run \in Nat \ {0} /\ Numbered(v)
  /\ \A i \in DOMAIN v.rows : Plain(v.rows[i])

Twins(u, v) == ViewOK(u) /\ ViewOK(v) /\ u.rows = v.rows

Twin(u, v, id) == Renamed(id, u.run, v.run)

\* Two items that differ in how their runs name the parent.
TwinItems(u, v, a, b) ==
  /\ a.parent \in IdOf(u.run) /\ b.parent = Twin(u, v, a.parent)
  /\ a.label = b.label /\ a.last = b.last

\* Two collections of pieces that differ in how their runs name them.
TwinPieces(u, v, a, b) ==
  /\ DOMAIN a \subseteq {u.run} \X Piece \X Nat
  /\ DOMAIN b = {Twin(u, v, id) : id \in DOMAIN a}
  /\ \A id \in DOMAIN a : TwinItems(u, v, a[id], b[Twin(u, v, id)])

\* What depends on the corrections alone.
LEMMA TwinReads ==
  ASSUME NEW u, NEW v, Twins(u, v), NEW k
  PROVE  /\ \A cs : About(u, k, cs) = About(v, k, cs) /\ Applicable(u, k, cs) = Applicable(v, k, cs)
         /\ RegistryOp(u, k) = RegistryOp(v, k)
         /\ BoundaryState(u, k) = BoundaryState(v, k)
<1>1. \A cs : About(u, k, cs) = About(v, k, cs)
  BY DEF About, Twins
<1>2. \A is : LatestRevised(u, is) = LatestRevised(v, is)
  BY DEF LatestRevised, Twins
<1>3. BoundaryState(u, k) = BoundaryState(v, k)
  <2>1. OpsOf(u, k) = OpsOf(v, k)
    BY <1>1 DEF OpsOf, StructureOperations
  <2>2. Numbered(u) /\ Numbered(v) /\ u.rows = v.rows
    BY DEF Twins, ViewOK
  <2>. QED BY <2>1, <2>2, SameState
<1>. QED BY <1>1, <1>2, <1>3 DEF Applicable, RegistryOp

\* The last of some corrections is one of them, or 0.
LEMMA LatestRow ==
  ASSUME NEW v, Numbered(v), NEW S \in SUBSET DOMAIN v.rows
  PROVE  /\ Latest(S) \in S \cup {0} /\ LatestRevised(v, S) \in S \cup {0}
         /\ 0 \notin DOMAIN v.rows /\ DOMAIN v.rows \subseteq Nat
         /\ S # {} => Latest(S) \in S
<1>1. PICK n \in Nat : DOMAIN v.rows \subseteq 1..n
  BY DEF Numbered
<1>2. \A T \in SUBSET S : T \in SUBSET (1..n)
  BY <1>1
<1>3. \A T \in SUBSET S : Latest(T) \in T \cup {0} /\ (T # {} => Latest(T) \in T)
  BY <1>2, LatestIn
<1>4. LatestRevised(v, S) \in S \cup {0}
  BY <1>3 DEF LatestRevised
<1>. QED BY <1>1, <1>3, <1>4

\* Two items that say the same, and name the parent alike if it is a row.
LooseItems(u, v, a, b) ==
  /\ a.label = b.label /\ a.last = b.last
  /\ a.parent[3] = 0 <=> b.parent[3] = 0
  /\ a.parent[3] = 0 => a.parent \in IdOf(u.run) /\ b.parent = Twin(u, v, a.parent)

LoosePieces(u, v, a, b) ==
  /\ DOMAIN a \subseteq {u.run} \X Piece \X Nat
  /\ DOMAIN b = {Twin(u, v, id) : id \in DOMAIN a}
  /\ \A id \in DOMAIN a : LooseItems(u, v, a[id], b[Twin(u, v, id)])

\* What the same effects leave, in two runs.
LEMMA TwinItem ==
  ASSUME NEW u, NEW v, Twins(u, v), NEW k \in Piece, NEW effects \in SUBSET OpsOf(u, k)
  PROVE  /\ LooseItems(u, v, Item(u, k, effects), Item(v, k, effects))
         /\ k \in Chapter => Item(u, k, effects).parent[3] = 0
<1> DEFINE moves == {i \in effects : u.rows[i].category = "boundary"}
           labels == {i \in effects : u.rows[i].category = "label"}
           from(w) == IF moves # {} THEN PatchFor(w.rows[Latest(moves)], w.run).to
                      ELSE IF k \in Scene THEN Row(w.run, ParentOf[k]) ELSE Story
           Alike(a, b) == /\ a[3] = 0 <=> b[3] = 0
                          /\ a[3] = 0 => a \in IdOf(u.run) /\ b = Twin(u, v, a)
<1>1. /\ u.run \in Nat \ {0} /\ v.run \in Nat \ {0} /\ u.rows = v.rows
      /\ Numbered(u) /\ \A i \in DOMAIN u.rows : Plain(u.rows[i])
  BY DEF Twins, ViewOK
<1>2. /\ Item(u, k, effects) =
           [parent |-> from(u), label |-> Latest(labels), last |-> Latest(effects)]
      /\ Item(v, k, effects) =
           [parent |-> from(v), label |-> Latest(labels), last |-> Latest(effects)]
  BY <1>1 DEF Item
<1>3. Alike(from(u), from(v)) /\ (k \in Chapter => from(u)[3] = 0)
  <2>1. CASE moves # {}
    <3> DEFINE c == u.rows[Latest(moves)]
    <3>1. Latest(moves) \in moves /\ Latest(moves) \in DOMAIN u.rows
      <4>1. OpsOf(u, k) \subseteq DOMAIN u.rows
        BY <1>1, OpsNumbered
      <4>2. moves \in SUBSET DOMAIN u.rows
        BY <4>1
      <4>. HIDE DEF moves
      <4>. QED BY <1>1, <2>1, <4>2, LatestRow
    <3>2. c.key = k /\ Plain(c)
      <4>1. Latest(moves) \in OpsOf(u, k)
        BY <3>1
      <4>. HIDE DEF moves
      <4>. QED BY <1>1, <3>1, <4>1 DEF OpsOf, StructureOperations, About
    <3>3. from(u) = PatchFor(c, u.run).to /\ from(v) = PatchFor(c, v.run).to
      <4>. HIDE DEF moves
      <4>. QED BY <1>1, <2>1
    <3>. HIDE DEF c, moves, from
    <3>4. from(u)[3] = c.to[3] /\ from(v)[3] = c.to[3]
      BY <3>2, <3>3, PatchThird DEF Plain
    <3>5. c.to[3] = 0 => from(u) \in IdOf(u.run) /\ from(v) = Twin(u, v, from(u))
      BY <1>1, <3>2, <3>3, PatchRenamed DEF Twin
    <3>6. k \in Chapter => c.to[3] = 0
      BY <3>2, CorrectionsAssumption DEF Plain
    <3>. QED BY <3>4, <3>5, <3>6
  <2>2. CASE moves = {} /\ k \in Scene
    <3>1. ParentOf[k] \in Word /\ k \notin Chapter
      BY <2>2, CorrectionsAssumption DEF Word, Piece
    <3>2. from(u) = Row(u.run, ParentOf[k]) /\ from(v) = Row(v.run, ParentOf[k])
      BY <2>2
    <3>3. from(u)[3] = 0 /\ from(v)[3] = 0
      <4>1. \A r : Row(r, ParentOf[k])[3] = 0
        BY DEF Row
      <4>. HIDE DEF from
      <4>. QED BY <3>2, <4>1
    <3>4. from(u) \in IdOf(u.run) /\ from(v) = Twin(u, v, from(u))
      BY <1>1, <3>1, <3>2, RenamedRow DEF Twin
    <3>. HIDE DEF from
    <3>. QED BY <3>1, <3>3, <3>4
  <2>3. CASE moves = {} /\ k \notin Scene
    <3>1. from(u) = Story /\ from(v) = Story
      BY <2>3
    <3>2. Story[3] = 0 /\ Story \in IdOf(u.run) /\ Twin(u, v, Story) = Story
      BY <1>1, FixedIds DEF Twin, Story
    <3>. HIDE DEF from
    <3>. QED BY <3>1, <3>2
  <2>. QED BY <2>1, <2>2, <2>3
<1>. HIDE DEF moves, labels, from
<1>. QED BY <1>2, <1>3 DEF LooseItems

\* Two runs keep the same of a piece.
LEMMA TwinStanding ==
  ASSUME NEW u, NEW v, Twins(u, v), NEW k \in Piece
  PROVE  /\ Standing(u, k) \subseteq {u.run} \X {k} \X Nat
         /\ Standing(v, k) = {Twin(u, v, id) : id \in Standing(u, k)}
<1> DEFINE st == BoundaryState(u, k)
<1>1. /\ BoundaryState(v, k) = st /\ u.run \in Nat \ {0} /\ v.run \in Nat \ {0}
      /\ st.root \in Nat
  <2>1. Numbered(u)
    BY DEF Twins, ViewOK
  <2>. QED BY <2>1, TwinReads, BoundaryStateOK DEF Twins, ViewOK, StateOK
<1> DEFINE On(r) == (IF st.source THEN {Row(r, k)} ELSE {}) \cup
                    (IF st.added THEN {Added(r, k, st.root)} ELSE {})
<1>2. Standing(u, k) = On(u.run) /\ Standing(v, k) = On(v.run)
  BY <1>1 DEF Standing
<1>. HIDE DEF st
<1>3. On(u.run) \subseteq {u.run} \X {k} \X Nat
  BY <1>1 DEF Row, Added
<1>4. /\ Twin(u, v, Row(u.run, k)) = Row(v.run, k)
      /\ Twin(u, v, Added(u.run, k, st.root)) = Added(v.run, k, st.root)
  BY DEF Twin, Renamed, Row, Added
<1>5. On(v.run) = {Twin(u, v, id) : id \in On(u.run)}
  BY <1>4
<1>. QED BY <1>2, <1>3, <1>5

\* Renaming from one run to the other tells two identifiers apart, and back.
LEMMA TwinIds ==
  ASSUME NEW u, NEW v, Twins(u, v)
  PROVE  /\ \A id \in IdOf(u.run) :
              /\ Twin(u, v, id) \in IdOf(v.run) /\ Twin(v, u, Twin(u, v, id)) = id
              /\ Local(v.run, Twin(u, v, id)) = Local(u.run, id)
              /\ Twin(u, v, id)[2] = id[2] /\ Twin(u, v, id)[3] = id[3]
              /\ Twin(u, v, id) = Nobody <=> id = Nobody
         /\ \A id, jd \in IdOf(u.run) : Twin(u, v, id) = Twin(u, v, jd) => id = jd
         /\ \A k \in Word : Row(u.run, k) \in IdOf(u.run) /\ Twin(u, v, Row(u.run, k)) = Row(v.run, k)
         /\ Nobody \in IdOf(u.run) /\ Twin(u, v, Nobody) = Nobody
<1>1. u.run \in Nat \ {0} /\ v.run \in Nat \ {0}
  BY DEF Twins, ViewOK
<1>2. \A id \in IdOf(u.run) :
        /\ Twin(u, v, id) \in IdOf(v.run) /\ Twin(v, u, Twin(u, v, id)) = id
        /\ Local(v.run, Twin(u, v, id)) = Local(u.run, id)
        /\ Twin(u, v, id)[2] = id[2] /\ Twin(u, v, id)[3] = id[3]
        /\ Twin(u, v, id) = Nobody <=> id = Nobody
  BY <1>1, RenamedId DEF Twin
<1>3. \A k \in Word : Row(u.run, k) \in IdOf(u.run) /\ Twin(u, v, Row(u.run, k)) = Row(v.run, k)
  BY <1>1, RenamedRow DEF Twin
<1>4. Nobody \in IdOf(u.run) /\ Twin(u, v, Nobody) = Nobody
  BY <1>1, FixedIds DEF Twin
<1>5. \A id, jd \in IdOf(u.run) : Twin(u, v, id) = Twin(u, v, jd) => id = jd
  BY <1>2
<1>. QED BY <1>2, <1>3, <1>4, <1>5

\* The pieces of two runs.
LEMMA LooseSets ==
  ASSUME NEW u, NEW v, Twins(u, v), NEW ks \in SUBSET Piece
  PROVE  /\ LoosePieces(u, v, Pieces(u, ks), Pieces(v, ks))
         /\ \A id \in DOMAIN Pieces(u, ks) : id[2] \in ks
         /\ \A id \in DOMAIN Pieces(u, ks) : id[2] \in Chapter => Pieces(u, ks)[id].parent[3] = 0
<1> DEFINE D(w) == UNION {Standing(w, k) : k \in ks}
<1>1. /\ DOMAIN Pieces(u, ks) = D(u) /\ DOMAIN Pieces(v, ks) = D(v)
      /\ \A id \in D(u) : Pieces(u, ks)[id] = Projected(u, id)
      /\ \A id \in D(v) : Pieces(v, ks)[id] = Projected(v, id)
  BY DEF Pieces
<1>2. D(u) \subseteq {u.run} \X Piece \X Nat
  BY TwinStanding
<1>3. D(v) = {Twin(u, v, id) : id \in D(u)}
  <2>1. \A k \in ks : Standing(v, k) = {Twin(u, v, id) : id \in Standing(u, k)}
    BY TwinStanding
  <2>. QED BY <2>1
<1>4. ASSUME NEW id \in D(u)
      PROVE  /\ LooseItems(u, v, Projected(u, id), Projected(v, Twin(u, v, id)))
             /\ id[2] \in Chapter => Projected(u, id).parent[3] = 0
  <2> DEFINE k == id[2]
             st == BoundaryState(u, k)
             effects == IF id[3] = 0 THEN st.onSource ELSE st.onAdded
  <2>1. k \in Piece /\ id \in IdOf(u.run)
    BY <1>2 DEF IdOf, Word
  <2>2. Twin(u, v, id)[2] = k /\ Twin(u, v, id)[3] = id[3]
    BY <2>1, TwinIds
  <2>3. BoundaryState(v, k) = st
    BY TwinReads
  <2>4. effects \in SUBSET OpsOf(u, k)
    <3>1. Numbered(u)
      BY DEF Twins, ViewOK
    <3>2. st.onSource \subseteq OpsOf(u, k) /\ st.onAdded \subseteq OpsOf(u, k)
      BY <3>1, BoundaryStateOK DEF StateOK
    <3>. HIDE DEF st
    <3>. QED BY <3>2
  <2>5. Projected(u, id) = Item(u, k, effects) /\ Projected(v, Twin(u, v, id)) = Item(v, k, effects)
    BY <2>2, <2>3 DEF Projected
  <2>6. k = id[2]
    OBVIOUS
  <2>. HIDE DEF k, effects
  <2>. QED BY <2>1, <2>4, <2>5, <2>6, TwinItem
<1>5. \A id \in D(u) : id[2] \in ks
  <2>1. \A k \in ks : Standing(u, k) \subseteq {u.run} \X {k} \X Nat
    BY TwinStanding
  <2>. QED BY <2>1
<1>. HIDE DEF D
<1>. QED BY <1>1, <1>2, <1>3, <1>4, <1>5 DEF LoosePieces

\* The chapters are named alike.
LEMMA TwinChapters ==
  ASSUME NEW u, NEW v, Twins(u, v)
  PROVE  TwinPieces(u, v, Pieces(u, Chapter), Pieces(v, Chapter))
<1> DEFINE a == Pieces(u, Chapter)
           b == Pieces(v, Chapter)
<1>1. /\ LoosePieces(u, v, a, b)
      /\ \A id \in DOMAIN a : id[2] \in Chapter
      /\ \A id \in DOMAIN a : id[2] \in Chapter => a[id].parent[3] = 0
  BY LooseSets DEF Piece
<1>. HIDE DEF a, b
<1>2. \A id \in DOMAIN a : TwinItems(u, v, a[id], b[Twin(u, v, id)])
  BY <1>1 DEF LoosePieces, LooseItems, TwinItems
<1>3. TwinPieces(u, v, a, b)
  BY <1>1, <1>2 DEF LoosePieces, TwinPieces
<1>. QED BY <1>3 DEF a, b

\* The scenes under some chapters, said without Restrict.
LEMMA UnderIs ==
  ASSUME NEW a, NEW C
  PROVE  /\ DOMAIN Under(a, C) = {id \in DOMAIN a : a[id].parent \in C}
         /\ \A id \in DOMAIN Under(a, C) : Under(a, C)[id] = a[id]
  BY DEF Under, Restrict

\* The scenes under some chapters, in two runs.
LEMMA TwinUnder ==
  ASSUME NEW u, NEW v, Twins(u, v), NEW a, NEW b, TwinPieces(u, v, a, b),
         NEW C \in SUBSET IdOf(u.run)
  PROVE  TwinPieces(u, v, Under(a, C), Under(b, {Twin(u, v, id) : id \in C}))
<1> DEFINE E == {Twin(u, v, id) : id \in C}
           c == Under(a, C)
           d == Under(b, E)
<1>1. /\ DOMAIN c = {id \in DOMAIN a : a[id].parent \in C}
      /\ DOMAIN d = {id \in DOMAIN b : b[id].parent \in E}
      /\ \A id \in DOMAIN c : c[id] = a[id]
      /\ \A id \in DOMAIN d : d[id] = b[id]
  BY UnderIs
<1>2. /\ DOMAIN a \subseteq {u.run} \X Piece \X Nat
      /\ DOMAIN b = {Twin(u, v, id) : id \in DOMAIN a}
      /\ \A id \in DOMAIN a : TwinItems(u, v, a[id], b[Twin(u, v, id)])
  BY DEF TwinPieces
<1>3. ASSUME NEW id \in DOMAIN a
      PROVE  b[Twin(u, v, id)].parent \in E <=> a[id].parent \in C
  <2>1. a[id].parent \in IdOf(u.run) /\ b[Twin(u, v, id)].parent = Twin(u, v, a[id].parent)
    BY <1>2 DEF TwinItems
  <2>. QED BY <2>1, TwinIds
<1>. HIDE DEF c, d, E
<1>4. DOMAIN d = {Twin(u, v, id) : id \in DOMAIN c}
  BY <1>1, <1>2, <1>3
<1>5. DOMAIN c \subseteq {u.run} \X Piece \X Nat
  BY <1>1, <1>2
<1>6. \A id \in DOMAIN c : TwinItems(u, v, c[id], d[Twin(u, v, id)])
  <2>1. TAKE id \in DOMAIN c
  <2>2. id \in DOMAIN a /\ c[id] = a[id]
    BY <1>1
  <2>3. Twin(u, v, id) \in DOMAIN d
    BY <1>4
  <2>4. d[Twin(u, v, id)] = b[Twin(u, v, id)]
    BY <1>1, <2>3
  <2>. QED BY <1>2, <2>2, <2>4
<1>7. TwinPieces(u, v, c, d)
  BY <1>4, <1>5, <1>6 DEF TwinPieces
<1>. QED BY <1>7 DEF c, d, E

\* Chapters that are rows have the same scenes in two runs.
LEMMA LooseUnder ==
  ASSUME NEW u, NEW v, Twins(u, v), NEW a, NEW b, LoosePieces(u, v, a, b),
         NEW C \in SUBSET IdOf(u.run), \A id \in C : id[3] = 0
  PROVE  TwinPieces(u, v, Under(a, C), Under(b, {Twin(u, v, id) : id \in C}))
<1> DEFINE E == {Twin(u, v, id) : id \in C}
           c == Under(a, C)
           d == Under(b, E)
<1>1. /\ DOMAIN c = {id \in DOMAIN a : a[id].parent \in C}
      /\ DOMAIN d = {id \in DOMAIN b : b[id].parent \in E}
      /\ \A id \in DOMAIN c : c[id] = a[id]
      /\ \A id \in DOMAIN d : d[id] = b[id]
  BY UnderIs
<1>2. /\ DOMAIN a \subseteq {u.run} \X Piece \X Nat
      /\ DOMAIN b = {Twin(u, v, id) : id \in DOMAIN a}
      /\ \A id \in DOMAIN a : LooseItems(u, v, a[id], b[Twin(u, v, id)])
  BY DEF LoosePieces
<1>3. ASSUME NEW id \in DOMAIN a
      PROVE  b[Twin(u, v, id)].parent \in E <=> a[id].parent \in C
  <2> DEFINE p == a[id].parent
             q == b[Twin(u, v, id)].parent
  <2>1. (p[3] = 0 <=> q[3] = 0) /\ (p[3] = 0 => p \in IdOf(u.run) /\ q = Twin(u, v, p))
    BY <1>2 DEF LooseItems
  <2>2. \A x \in C : Twin(u, v, x)[3] = 0
    BY TwinIds
  <2>3. \A x, y \in IdOf(u.run) : Twin(u, v, x) = Twin(u, v, y) => x = y
    BY TwinIds
  <2>. HIDE DEF p, q
  <2>4. q \in E <=> p \in C
    BY <2>1, <2>2, <2>3
  <2>. QED BY <2>4 DEF p, q
<1>. HIDE DEF c, d, E
<1>4. DOMAIN d = {Twin(u, v, id) : id \in DOMAIN c}
  BY <1>1, <1>2, <1>3
<1>5. DOMAIN c \subseteq {u.run} \X Piece \X Nat
  BY <1>1, <1>2
<1>6. \A id \in DOMAIN c : TwinItems(u, v, c[id], d[Twin(u, v, id)])
  <2>1. TAKE id \in DOMAIN c
  <2>2. id \in DOMAIN a /\ c[id] = a[id] /\ a[id].parent \in C
    BY <1>1
  <2>3. d[Twin(u, v, id)] = b[Twin(u, v, id)]
    BY <1>1, <1>4
  <2>4. LooseItems(u, v, c[id], d[Twin(u, v, id)])
    BY <1>2, <2>2, <2>3
  <2>. QED BY <2>2, <2>4 DEF LooseItems, TwinItems
<1>7. TwinPieces(u, v, c, d)
  BY <1>4, <1>5, <1>6 DEF TwinPieces
<1>. QED BY <1>7 DEF c, d, E

\* The scenes of two runs under the chapters of the machine.
LEMMA TwinCarried ==
  ASSUME NEW u, NEW v, Twins(u, v)
  PROVE  TwinPieces(u, v, Carried(u), Carried(v))
<1> DEFINE C(w) == {id \in ActiveChapters(w) : id[3] = 0}
<1>1. LoosePieces(u, v, Pieces(u, Scene), Pieces(v, Scene))
  BY LooseSets DEF Piece
<1>2. TwinPieces(u, v, Pieces(u, Chapter), Pieces(v, Chapter))
  BY TwinChapters
<1>3. /\ ActiveChapters(u) \subseteq IdOf(u.run)
      /\ ActiveChapters(v) = {Twin(u, v, id) : id \in ActiveChapters(u)}
  BY <1>2 DEF TwinPieces, ActiveChapters, IdOf, Word
<1>4. C(v) = {Twin(u, v, id) : id \in C(u)}
  <2>1. \A id \in ActiveChapters(u) : Twin(u, v, id)[3] = id[3]
    BY <1>3, TwinIds
  <2>. QED BY <1>3, <2>1
<1>5. C(u) \in SUBSET IdOf(u.run) /\ \A id \in C(u) : id[3] = 0
  BY <1>3
<1>6. Carried(u) = Under(Pieces(u, Scene), C(u)) /\ Carried(v) = Under(Pieces(v, Scene), C(v))
  BY DEF Carried
<1>. HIDE DEF C
<1>7. TwinPieces(u, v, Under(Pieces(u, Scene), C(u)), Under(Pieces(v, Scene), {Twin(u, v, id) : id \in C(u)}))
  BY <1>1, <1>5, LooseUnder
<1>. QED BY <1>4, <1>6, <1>7

\* Both show the same mentions and lines, under the same chapters.
LEMMA TwinView ==
  ASSUME NEW u, NEW v, Twins(u, v), NEW a, NEW b, TwinPieces(u, v, a, b),
         NEW es \in SUBSET (Mention \cup Line)
  PROVE  InView(u, a, es) = InView(v, b, es)
<1>1. ASSUME NEW e \in es
      PROVE  /\ Row(u.run, SceneOf[e]) \in DOMAIN a <=> Row(v.run, SceneOf[e]) \in DOMAIN b
             /\ Row(u.run, SceneOf[e]) \in DOMAIN a =>
                  Local(u.run, a[Row(u.run, SceneOf[e])].parent)
                    = Local(v.run, b[Row(v.run, SceneOf[e])].parent)
  <2> DEFINE s == Row(u.run, SceneOf[e])
             z == Row(v.run, SceneOf[e])
  <2>1. SceneOf[e] \in Word
    BY CorrectionsAssumption DEF Word, Piece
  <2>2. s \in IdOf(u.run) /\ Twin(u, v, s) = z
    BY <2>1, TwinIds
  <2>3. /\ DOMAIN a \subseteq IdOf(u.run)
        /\ DOMAIN b = {Twin(u, v, id) : id \in DOMAIN a}
    BY DEF TwinPieces, IdOf, Word
  <2>. HIDE DEF s, z
  <2>4. s \in DOMAIN a <=> z \in DOMAIN b
    BY <2>2, <2>3, TwinIds
  <2>5. ASSUME s \in DOMAIN a PROVE Local(u.run, a[s].parent) = Local(v.run, b[z].parent)
    <3>1. TwinItems(u, v, a[s], b[z])
      BY <2>2, <2>5 DEF TwinPieces
    <3>. QED BY <3>1, TwinIds DEF TwinItems
  <2>. QED BY <2>4, <2>5 DEF s, z
<1>. QED BY <1>1 DEF InView

\* So the structure gate is about the same.
LEMMA TwinStructure ==
  ASSUME NEW u, NEW v, Twins(u, v), NEW a, NEW b, TwinPieces(u, v, a, b),
         NEW c, NEW d, TwinPieces(u, v, c, d)
  PROVE  StructureEvidence(u, a, c) = StructureEvidence(v, b, d)
<1>1. /\ DOMAIN a \subseteq IdOf(u.run) /\ DOMAIN b = {Twin(u, v, id) : id \in DOMAIN a}
      /\ DOMAIN c \subseteq IdOf(u.run) /\ DOMAIN d = {Twin(u, v, id) : id \in DOMAIN c}
      /\ \A id \in DOMAIN a : TwinItems(u, v, a[id], b[Twin(u, v, id)])
      /\ \A id \in DOMAIN c : TwinItems(u, v, c[id], d[Twin(u, v, id)])
  BY DEF TwinPieces, IdOf, Word
<1> DEFINE Below(w, z, id) == {Local(w.run, s) : s \in DOMAIN Under(z, {id})}
           Top(w, x, z, id) == <<Local(w.run, id), x[id].label, x[id].last, Below(w, z, id)>>
           Sub(w, z, id) == <<Local(w.run, id), z[id].label, z[id].last, Local(w.run, z[id].parent)>>
<1>2. ASSUME NEW id \in DOMAIN a PROVE Below(u, c, id) = Below(v, d, Twin(u, v, id))
  <2> DEFINE e == Under(c, {id})
             f == Under(d, {Twin(u, v, id)})
  <2>1. id \in IdOf(u.run) /\ {Twin(u, v, x) : x \in {id}} = {Twin(u, v, id)}
    BY <1>1
  <2>2. TwinPieces(u, v, e, f)
    <3>1. TwinPieces(u, v, Under(c, {id}), Under(d, {Twin(u, v, x) : x \in {id}}))
      BY <2>1, TwinUnder
    <3>. QED BY <2>1, <3>1
  <2>3. DOMAIN e \subseteq IdOf(u.run) /\ DOMAIN f = {Twin(u, v, x) : x \in DOMAIN e}
    BY <2>2 DEF TwinPieces, IdOf, Word
  <2>4. \A x \in DOMAIN e : Local(v.run, Twin(u, v, x)) = Local(u.run, x)
    BY <2>3, TwinIds
  <2>. HIDE DEF e, f
  <2>5. {Local(u.run, s) : s \in DOMAIN e} = {Local(v.run, s) : s \in DOMAIN f}
    BY <2>3, <2>4
  <2>. QED BY <2>5 DEF e, f
<1>3. ASSUME NEW id \in DOMAIN a PROVE Top(u, a, c, id) = Top(v, b, d, Twin(u, v, id))
  <2>1. TwinItems(u, v, a[id], b[Twin(u, v, id)]) /\ Local(v.run, Twin(u, v, id)) = Local(u.run, id)
    BY <1>1, TwinIds
  <2>. HIDE DEF Below
  <2>. QED BY <1>2, <2>1 DEF TwinItems
<1>4. ASSUME NEW id \in DOMAIN c PROVE Sub(u, c, id) = Sub(v, d, Twin(u, v, id))
  <2>1. TwinItems(u, v, c[id], d[Twin(u, v, id)]) /\ Local(v.run, Twin(u, v, id)) = Local(u.run, id)
    BY <1>1, TwinIds
  <2>. QED BY <2>1, TwinIds DEF TwinItems
<1>5. /\ StructureEvidence(u, a, c) = <<{Top(u, a, c, id) : id \in DOMAIN a}, {Sub(u, c, id) : id \in DOMAIN c}>>
      /\ StructureEvidence(v, b, d) = <<{Top(v, b, d, id) : id \in DOMAIN b}, {Sub(v, d, id) : id \in DOMAIN d}>>
  BY DEF StructureEvidence
<1>. HIDE DEF Top, Sub
<1>6. {Top(u, a, c, id) : id \in DOMAIN a} = {Top(v, b, d, id) : id \in DOMAIN b}
  BY <1>1, <1>3
<1>7. {Sub(u, c, id) : id \in DOMAIN c} = {Sub(v, d, id) : id \in DOMAIN d}
  BY <1>1, <1>4
<1>. QED BY <1>5, <1>6, <1>7

-----------------------------------------------------------------------------
(* Characters of the two runs.                                             *)

\* The characters can be counted.
LEMMA Characters == Cardinality(Character) \in Nat
  BY CorrectionsAssumption, FS_CardinalityType

\* The chain of merges is the function it is defined to be.
LEMMA ChainDef ==
  ASSUME NEW merges, NEW id
  PROVE  Chain(merges, id) =
           [n \in 0..Cardinality(Character) |->
              IF n = 0 THEN id ELSE Through(merges, Chain(merges, id)[n - 1])]
<1> DEFINE N == Cardinality(Character)
           Step(f, n) == IF n = 0 THEN id ELSE Through(merges, f[n - 1])
           Upto(f, m) == f = [n \in 0..m |-> Step(f, n)]
           Good == {m \in 0..N : \E f : Upto(f, m)}
<1>1. N \in Nat
  BY Characters
<1>2. 0 \in Good
  <2>1. Upto([n \in 0..0 |-> id], 0)
    OBVIOUS
  <2>2. 0 \in 0..N
    BY <1>1
  <2>. HIDE DEF Upto, N
  <2>. QED BY <2>1, <2>2
<1>3. ASSUME NEW m \in 1..N, m - 1 \in Good PROVE m \in Good
  <2>1. PICK f : Upto(f, m - 1)
    BY <1>3
  <2> DEFINE g == [n \in 0..m |-> IF n = m THEN Step(f, m) ELSE f[n]]
  <2>2. \A n \in 0..(m - 1) : g[n] = f[n]
    BY <1>1
  <2>3. ASSUME NEW n \in 0..m PROVE g[n] = Step(g, n)
    <3>1. CASE n = m
      <4>1. g[m - 1] = f[m - 1] /\ g[n] = Step(f, m)
        BY <1>1, <2>2, <3>1
      <4>. QED BY <1>1, <3>1, <4>1
    <3>2. CASE n # m
      <4>1. n \in 0..(m - 1) /\ (n # 0 => n - 1 \in 0..(m - 1))
        BY <1>1, <3>2
      <4>2. f[n] = Step(f, n)
        BY <2>1, <4>1
      <4>3. g[n] = f[n] /\ (n # 0 => g[n - 1] = f[n - 1])
        BY <2>2, <4>1
      <4>. QED BY <4>2, <4>3
    <3>. QED BY <3>1, <3>2
  <2>4. Upto(g, m)
    <3>1. g = [n \in 0..m |-> g[n]]
      OBVIOUS
    <3>. HIDE DEF g, Step
    <3>. QED BY <2>3, <3>1
  <2>5. m \in 0..N
    BY <1>1
  <2>. QED BY <2>4, <2>5
<1>4. 0..N \subseteq Good
  <2>. HIDE DEF Good, N
  <2>. QED BY <1>1, <1>2, <1>3, Induction
<1>5. \E f : f = [n \in 0..N |-> Step(f, n)]
  BY <1>1, <1>4
<1>6. Chain(merges, id) = CHOOSE f : f = [n \in 0..N |-> Step(f, n)]
  BY DEF Chain
<1>. QED BY <1>5, <1>6

\* The equation of the chain.
LEMMA ChainStep ==
  ASSUME NEW merges, NEW id
  PROVE  /\ Chain(merges, id)[0] = id
         /\ \A n \in 1..Cardinality(Character) :
              Chain(merges, id)[n] = Through(merges, Chain(merges, id)[n - 1])
<1> DEFINE N == Cardinality(Character)
           F(n) == IF n = 0 THEN id ELSE Through(merges, Chain(merges, id)[n - 1])
<1>1. N \in Nat
  BY Characters
<1>2. Chain(merges, id) = [n \in 0..N |-> F(n)]
  BY ChainDef
<1>3. \A n \in 0..N : Chain(merges, id)[n] = F(n)
  <2>. HIDE DEF F, N
  <2>. QED BY <1>2
<1>4. 0 \in 0..N /\ \A n \in 1..N : n \in 0..N /\ n # 0
  BY <1>1
<1>. QED BY <1>3, <1>4

\* Two maps of characters that differ in how their runs name them.
TwinMaps(u, v, a, b) ==
  /\ DOMAIN a \subseteq IdOf(u.run) /\ \A id \in DOMAIN a : a[id] \in IdOf(u.run)
  /\ DOMAIN b = {Twin(u, v, id) : id \in DOMAIN a}
  /\ \A id \in DOMAIN a : b[Twin(u, v, id)] = Twin(u, v, a[id])

\* One step along the replacements of two runs.
LEMMA TwinThrough ==
  ASSUME NEW u, NEW v, Twins(u, v), NEW a, NEW b, TwinMaps(u, v, a, b), NEW id \in IdOf(u.run)
  PROVE  /\ Through(a, id) \in IdOf(u.run)
         /\ Through(b, Twin(u, v, id)) = Twin(u, v, Through(a, id))
         /\ Twin(u, v, id) \in DOMAIN b <=> id \in DOMAIN a
<1>1. Twin(u, v, id) \in DOMAIN b <=> id \in DOMAIN a
  BY TwinIds DEF TwinMaps
<1>. QED BY <1>1 DEF TwinMaps, Through

\* The merges of two runs.
LEMMA TwinMerges ==
  ASSUME NEW u, NEW v, Twins(u, v)
  PROVE  TwinMaps(u, v, Merges(u), Merges(v))
<1> DEFINE op == [x \in Character |-> RegistryOp(u, x)]
           merged == {x \in Character : op[x] # 0 /\ u.rows[op[x]].category = "merge"}
           M(w) == [id \in {Row(w.run, x) : x \in merged} |-> PatchFor(u.rows[op[id[2]]], w.run).to]
<1>1. /\ u.run \in Nat \ {0} /\ v.run \in Nat \ {0} /\ u.rows = v.rows
      /\ Numbered(u) /\ \A i \in DOMAIN u.rows : Plain(u.rows[i])
  BY DEF Twins, ViewOK
<1>2. op = [x \in Character |-> RegistryOp(v, x)]
  <2>1. \A x \in Character : RegistryOp(u, x) = RegistryOp(v, x)
    BY TwinReads
  <2>. QED BY <2>1
<1>3. Merges(u) = M(u) /\ Merges(v) = M(v)
  BY <1>1, <1>2 DEF Merges
<1>4. ASSUME NEW x \in merged
      PROVE  /\ Row(u.run, x) \in IdOf(u.run) /\ Twin(u, v, Row(u.run, x)) = Row(v.run, x)
             /\ M(u)[Row(u.run, x)] \in IdOf(u.run)
             /\ M(v)[Row(v.run, x)] = Twin(u, v, M(u)[Row(u.run, x)])
  <2>1. Row(u.run, x) \in IdOf(u.run) /\ Twin(u, v, Row(u.run, x)) = Row(v.run, x)
    BY TwinIds DEF Word
  <2>2. op[x] \in DOMAIN u.rows
    <3>1. About(u, x, {"merge", "split"}) \in SUBSET DOMAIN u.rows
      BY DEF About
    <3>2. RegistryOp(u, x) \in DOMAIN u.rows \cup {0}
      BY <1>1, <3>1, LatestRow DEF RegistryOp
    <3>. QED BY <3>2
  <2>3. /\ M(u)[Row(u.run, x)] = PatchFor(u.rows[op[x]], u.run).to
        /\ M(v)[Row(v.run, x)] = PatchFor(u.rows[op[x]], v.run).to
    <3>1. \A r : Row(r, x)[2] = x
      BY DEF Row
    <3>. HIDE DEF merged, op
    <3>. QED BY <3>1
  <2>4. /\ PatchFor(u.rows[op[x]], u.run).to \in IdOf(u.run)
        /\ PatchFor(u.rows[op[x]], v.run).to
             = Renamed(PatchFor(u.rows[op[x]], u.run).to, u.run, v.run)
    <3>1. Plain(u.rows[op[x]]) /\ u.rows[op[x]].category = "merge"
      BY <1>1, <2>2
    <3>2. PICK c : c = u.rows[op[x]]
      OBVIOUS
    <3>3. Plain(c) /\ c.to[3] = 0
      BY <3>1, <3>2 DEF Plain
    <3>4. /\ PatchFor(c, u.run).to \in IdOf(u.run)
          /\ PatchFor(c, v.run).to = Renamed(PatchFor(c, u.run).to, u.run, v.run)
      BY <1>1, <3>3, PatchRenamed
    <3>. QED BY <3>2, <3>4
  <2>. QED BY <2>1, <2>3, <2>4 DEF Twin
<1>5. DOMAIN M(u) = {Row(u.run, x) : x \in merged} /\ DOMAIN M(v) = {Row(v.run, x) : x \in merged}
  OBVIOUS
<1>. HIDE DEF M, merged
<1>. QED BY <1>3, <1>4, <1>5 DEF TwinMaps

\* Where a chain of merges leads, in two runs.
LEMMA TwinFollowed ==
  ASSUME NEW u, NEW v, Twins(u, v), NEW a, NEW b, TwinMaps(u, v, a, b), NEW id \in IdOf(u.run)
  PROVE  /\ Followed(a, id) \in IdOf(u.run)
         /\ Followed(b, Twin(u, v, id)) = Twin(u, v, Followed(a, id))
<1> DEFINE N == Cardinality(Character)
           f == Chain(a, id)
           g == Chain(b, Twin(u, v, id))
           S == {n \in 0..N : f[n] \in IdOf(u.run) /\ g[n] = Twin(u, v, f[n])}
<1>1. N \in Nat
  BY Characters
<1>2. 0 \in S
  <2>1. f[0] = id /\ g[0] = Twin(u, v, id)
    BY ChainStep
  <2>2. 0 \in 0..N
    BY <1>1
  <2>. HIDE DEF f, g, N
  <2>. QED BY <2>1, <2>2
<1>3. ASSUME NEW n \in 1..N, n - 1 \in S PROVE n \in S
  <2>1. f[n - 1] \in IdOf(u.run) /\ g[n - 1] = Twin(u, v, f[n - 1])
    BY <1>3
  <2>2. f[n] = Through(a, f[n - 1]) /\ g[n] = Through(b, g[n - 1])
    BY ChainStep
  <2>3. n \in 0..N
    BY <1>1
  <2>. HIDE DEF f, g
  <2>4. f[n] \in IdOf(u.run) /\ g[n] = Twin(u, v, f[n])
    BY <2>1, <2>2, TwinThrough
  <2>. QED BY <2>3, <2>4
<1>4. 0..N \subseteq S
  <2>. HIDE DEF S, N
  <2>. QED BY <1>1, <1>2, <1>3, Induction
<1>5. N \in S
  BY <1>1, <1>4
<1>. QED BY <1>5 DEF Followed

\* The replacements of two runs.
LEMMA TwinReplacements ==
  ASSUME NEW u, NEW v, Twins(u, v)
  PROVE  TwinMaps(u, v, Replacements(u), Replacements(v))
<1> DEFINE a == Merges(u)
           b == Merges(v)
           End(m, id) == IF Followed(m, id) \in DOMAIN m THEN id ELSE Followed(m, id)
<1>1. TwinMaps(u, v, a, b)
  BY TwinMerges
<1>2. /\ Replacements(u) = [id \in DOMAIN a |-> End(a, id)]
      /\ Replacements(v) = [id \in DOMAIN b |-> End(b, id)]
  BY DEF Replacements
<1>3. ASSUME NEW id \in DOMAIN a
      PROVE  End(a, id) \in IdOf(u.run) /\ End(b, Twin(u, v, id)) = Twin(u, v, End(a, id))
  <2>1. id \in IdOf(u.run)
    BY <1>1 DEF TwinMaps
  <2>2. /\ Followed(a, id) \in IdOf(u.run)
        /\ Followed(b, Twin(u, v, id)) = Twin(u, v, Followed(a, id))
    BY <1>1, <2>1, TwinFollowed
  <2>3. Twin(u, v, Followed(a, id)) \in DOMAIN b <=> Followed(a, id) \in DOMAIN a
    BY <1>1, <2>2, TwinThrough
  <2>. QED BY <2>1, <2>2, <2>3
<1>4. DOMAIN a \subseteq IdOf(u.run) /\ DOMAIN b = {Twin(u, v, id) : id \in DOMAIN a}
  BY <1>1 DEF TwinMaps
<1>. HIDE DEF a, b, End
<1>5. /\ DOMAIN Replacements(u) = DOMAIN a /\ DOMAIN Replacements(v) = DOMAIN b
      /\ \A id \in DOMAIN a : Replacements(u)[id] = End(a, id)
      /\ \A id \in DOMAIN b : Replacements(v)[id] = End(b, id)
  BY <1>2
<1>. QED BY <1>3, <1>4, <1>5 DEF TwinMaps

-----------------------------------------------------------------------------
(* Mentions and lines of the two runs.                                     *)

\* The splits of two runs, and what they own.
LEMMA TwinSplits ==
  ASSUME NEW u, NEW v, Twins(u, v)
  PROVE  /\ Splits(u) = Splits(v) /\ Splits(u) \subseteq DOMAIN u.rows
         /\ \A i \in Splits(u) : u.rows[i].category = "split"
         /\ \A m \in Mention : SplitOwner(u, m) = SplitOwner(v, m)
         /\ \A m \in Mention : SplitOwner(u, m) \in Splits(u) \cup {0}
<1>1. /\ u.run \in Nat \ {0} /\ v.run \in Nat \ {0} /\ u.rows = v.rows
      /\ Numbered(u) /\ \A i \in DOMAIN u.rows : Plain(u.rows[i])
  BY DEF Twins, ViewOK
<1>2. Splits(u) = Splits(v)
  <2>1. \A x \in Character : RegistryOp(u, x) = RegistryOp(v, x)
    BY TwinReads
  <2>. QED BY <1>1, <2>1 DEF Splits
<1>3. Splits(u) \subseteq DOMAIN u.rows /\ \A i \in Splits(u) : u.rows[i].category = "split"
  <2>1. ASSUME NEW x \in Character PROVE RegistryOp(u, x) \in DOMAIN u.rows \cup {0}
    <3>1. About(u, x, {"merge", "split"}) \in SUBSET DOMAIN u.rows
      BY DEF About
    <3>. QED BY <1>1, <3>1, LatestRow DEF RegistryOp
  <2>. QED BY <2>1 DEF Splits
<1>4. ASSUME NEW m \in Mention
      PROVE  SplitOwner(u, m) = SplitOwner(v, m) /\ SplitOwner(u, m) \in Splits(u) \cup {0}
  <2> DEFINE Owning(w) == {i \in Splits(w) : Row(w.run, m) \in PatchFor(w.rows[i], w.run).mentions}
  <2>1. ASSUME NEW i \in Splits(u), NEW r \in Nat \ {0}
        PROVE  Row(r, m) \in PatchFor(u.rows[i], r).mentions <=> m \in Taken(u.rows[i])
    <3>1. PatchFor(u.rows[i], r).mentions = {Row(r, x) : x \in Taken(u.rows[i])}
      BY <1>1, <1>3, PatchMentions
    <3>2. \A x : Row(r, x) = Row(r, m) => x = m
      BY DEF Row
    <3>. QED BY <3>1, <3>2
  <2>2. Owning(u) = {i \in Splits(u) : m \in Taken(u.rows[i])}
    BY <1>1, <2>1
  <2>3. Owning(v) = {i \in Splits(u) : m \in Taken(u.rows[i])}
    BY <1>1, <1>2, <2>1
  <2>4. SplitOwner(u, m) = Latest(Owning(u)) /\ SplitOwner(v, m) = Latest(Owning(v))
    BY DEF SplitOwner
  <2>5. Owning(u) \in SUBSET DOMAIN u.rows /\ Owning(u) \subseteq Splits(u)
    BY <1>3
  <2>. HIDE DEF Owning
  <2>. QED BY <1>1, <2>2, <2>3, <2>4, <2>5, LatestRow
<1>. QED BY <1>2, <1>3, <1>4

\* Two claims that differ in how their runs name the characters.
TwinClaims(u, v, a, b) ==
  /\ a.who \in IdOf(u.run) /\ b.who = Twin(u, v, a.who)
  /\ a.candidates \subseteq IdOf(u.run)
  /\ b.candidates = {Twin(u, v, id) : id \in a.candidates}
  /\ a.by = b.by

\* Who is alone in one run is alone in the other.
LEMMA TwinAlone ==
  ASSUME NEW u, NEW v, Twins(u, v), NEW S \in SUBSET IdOf(u.run)
  PROVE  /\ Alone({Twin(u, v, id) : id \in S}) <=> Alone(S)
         /\ \A id \in S : S = {id} => {Twin(u, v, x) : x \in S} = {Twin(u, v, id)}
         /\ Alone(S) => /\ (CHOOSE id \in S : TRUE) \in S
                        /\ (CHOOSE id \in {Twin(u, v, x) : x \in S} : TRUE)
                             = Twin(u, v, CHOOSE id \in S : TRUE)
<1> DEFINE T == {Twin(u, v, id) : id \in S}
<1>1. \A id \in S : S = {id} => T = {Twin(u, v, id)}
  OBVIOUS
<1>2. ASSUME Alone(T) PROVE Alone(S)
  <2>1. PICK id \in S : T = {Twin(u, v, id)}
    BY <1>2 DEF Alone
  <2>2. \A x \in S : x = id
    BY <2>1, TwinIds
  <2>. QED BY <2>1, <2>2 DEF Alone
<1>3. ASSUME Alone(S)
      PROVE  /\ Alone(T) /\ (CHOOSE id \in S : TRUE) \in S
             /\ (CHOOSE id \in T : TRUE) = Twin(u, v, CHOOSE id \in S : TRUE)
  <2>1. PICK id \in S : S = {id}
    BY <1>3 DEF Alone
  <2>2. T = {Twin(u, v, id)}
    BY <1>1, <2>1
  <2>3. (CHOOSE x \in S : TRUE) \in S
    BY <2>1
  <2>4. (CHOOSE x \in S : TRUE) = id
    BY <2>1, <2>3
  <2>. HIDE DEF T
  <2>5. (CHOOSE x \in T : TRUE) \in T
    BY <2>2
  <2>6. (CHOOSE x \in T : TRUE) = Twin(u, v, id)
    BY <2>2, <2>5
  <2>7. Alone(T)
    BY <2>2 DEF Alone
  <2>. QED BY <2>3, <2>4, <2>6, <2>7
<1>. QED BY <1>1, <1>2, <1>3

\* The claims of two runs.
LEMMA TwinClaim ==
  ASSUME NEW u, NEW v, Twins(u, v), NEW e \in Mention \cup Line,
         NEW category \in {"mention", "speaker"}
  PROVE  TwinClaims(u, v, Claim(u, e, category), Claim(v, e, category))
<1> DEFINE direct == Applicable(u, e, {category})
           Machine(w) == {Row(w.run, x) : x \in CandidatesOf[e]}
           To(w) == PatchFor(u.rows[direct], w.run).to
<1>1. /\ u.run \in Nat \ {0} /\ v.run \in Nat \ {0} /\ u.rows = v.rows
      /\ Numbered(u) /\ \A i \in DOMAIN u.rows : Plain(u.rows[i])
  BY DEF Twins, ViewOK
<1>2. Applicable(v, e, {category}) = direct
  BY TwinReads
<1>3. Machine(u) \subseteq IdOf(u.run) /\ Machine(v) = {Twin(u, v, id) : id \in Machine(u)}
  <2>1. \A x \in CandidatesOf[e] :
          Row(u.run, x) \in IdOf(u.run) /\ Twin(u, v, Row(u.run, x)) = Row(v.run, x)
    <3>1. CandidatesOf[e] \subseteq Word
      BY CorrectionsAssumption DEF Word
    <3>. QED BY <3>1, TwinIds
  <2>. QED BY <2>1
<1>4. Nobody \in IdOf(u.run) /\ Twin(u, v, Nobody) = Nobody
  BY TwinIds
<1>5. CASE direct = 0
  <2> DEFINE Who(M) == IF Alone(M) THEN CHOOSE id \in M : TRUE ELSE Nobody
  <2>1. /\ Claim(u, e, category) =
             [who |-> Who(Machine(u)), candidates |-> Machine(u), by |-> 0]
        /\ Claim(v, e, category) =
             [who |-> Who(Machine(v)), candidates |-> Machine(v), by |-> 0]
    BY <1>2, <1>5 DEF Claim
  <2>2. Who(Machine(u)) \in IdOf(u.run) /\ Who(Machine(v)) = Twin(u, v, Who(Machine(u)))
    <3>. HIDE DEF Machine
    <3>1. /\ Alone(Machine(v)) <=> Alone(Machine(u))
          /\ Alone(Machine(u)) =>
               /\ (CHOOSE id \in Machine(u) : TRUE) \in Machine(u)
               /\ (CHOOSE id \in Machine(v) : TRUE) = Twin(u, v, CHOOSE id \in Machine(u) : TRUE)
      BY <1>3, TwinAlone
    <3>. QED BY <1>3, <1>4, <3>1
  <2>. HIDE DEF Machine, Who
  <2>. QED BY <1>3, <2>1, <2>2 DEF TwinClaims
<1>6. CASE direct # 0
  <2> DEFINE Left(w) == IF category = "speaker" THEN Machine(w)
                        ELSE IF To(w) = Nobody THEN {} ELSE {To(w)}
  <2>1. /\ Claim(u, e, category) = [who |-> To(u), by |-> direct, candidates |-> Left(u)]
        /\ Claim(v, e, category) = [who |-> To(v), by |-> direct, candidates |-> Left(v)]
    BY <1>1, <1>2, <1>6 DEF Claim
  <2>2. direct \in DOMAIN u.rows /\ u.rows[direct].category = category
    <3>1. About(u, e, {category}) \in SUBSET DOMAIN u.rows
      BY DEF About
    <3>2. direct \in About(u, e, {category})
      BY <1>1, <1>6, <3>1, LatestRow DEF Applicable
    <3>. HIDE DEF direct
    <3>. QED BY <3>2 DEF About
  <2>3. To(u) \in IdOf(u.run) /\ To(v) = Twin(u, v, To(u))
    <3>1. Plain(u.rows[direct]) /\ u.rows[direct].to[3] = 0
      <4>. HIDE DEF direct
      <4>. QED BY <1>1, <2>2 DEF Plain
    <3>. HIDE DEF direct
    <3>. QED BY <1>1, <3>1, PatchRenamed DEF Twin
  <2>4. To(v) = Nobody <=> To(u) = Nobody
    BY <2>3, TwinIds
  <2>. HIDE DEF Machine, To
  <2>5. Left(u) \subseteq IdOf(u.run) /\ Left(v) = {Twin(u, v, id) : id \in Left(u)}
    BY <1>3, <2>3, <2>4
  <2>. HIDE DEF Left
  <2>. QED BY <2>1, <2>3, <2>5 DEF TwinClaims
<1>. QED BY <1>5, <1>6

\* The same mention, of whom it is or may be in each run.
TwinMention(u, v, a, b) ==
  /\ a.who \in IdOf(u.run) /\ b.who = Twin(u, v, a.who)
  /\ a.maybe \subseteq IdOf(u.run)
  /\ b.maybe = {Twin(u, v, id) : id \in a.maybe}

\* Whom a mention is of, in two runs.
LEMMA TwinOfMention ==
  ASSUME NEW u, NEW v, Twins(u, v), NEW a, NEW b, TwinMaps(u, v, a, b), NEW m \in Mention
  PROVE  TwinMention(u, v, OfMention(u, a, m), OfMention(v, b, m))
<1> DEFINE c == Claim(u, m, "mention")
           d == Claim(v, m, "mention")
           split == SplitOwner(u, m)
           Left(w, z) == {Through(w, id) : id \in z.candidates}
           Known(id) == [who |-> id, maybe |-> {}]
           Result(to, w, z) ==
             IF split > z.by THEN Known(to)
             ELSE IF z.who # Nobody THEN Known(Through(w, z.who))
             ELSE IF ~Alone(z.candidates) /\ Alone(Left(w, z))
             THEN Known(CHOOSE id \in Left(w, z) : TRUE)
             ELSE [who |-> Nobody, maybe |-> Left(w, z)]
           To(w) == PatchFor(u.rows[split], w.run).to
<1>1. /\ u.run \in Nat \ {0} /\ v.run \in Nat \ {0} /\ u.rows = v.rows
      /\ Numbered(u) /\ \A i \in DOMAIN u.rows : Plain(u.rows[i])
  BY DEF Twins, ViewOK
<1>2. /\ SplitOwner(v, m) = split /\ split \in DOMAIN u.rows \cup {0}
      /\ split # 0 => u.rows[split].category = "split"
  BY TwinSplits
<1>3. OfMention(u, a, m) = Result(To(u), a, c) /\ OfMention(v, b, m) = Result(To(v), b, d)
  BY <1>1, <1>2 DEF OfMention
<1>4. TwinClaims(u, v, c, d)
  BY TwinClaim
<1>5. split > c.by => To(u) \in IdOf(u.run) /\ To(v) = Twin(u, v, To(u))
  <2>1. SUFFICES ASSUME split > c.by PROVE split \in DOMAIN u.rows /\ u.rows[split].category = "split"
    <3>1. split \in DOMAIN u.rows /\ u.rows[split].category = "split" => u.rows[split].to[3] = 0
      <4>. HIDE DEF split
      <4>. QED BY <1>1 DEF Plain
    <3>. HIDE DEF split
    <3>. QED BY <1>1, <3>1, PatchRenamed DEF Twin
  <2>2. c.by \in Nat
    <3>1. About(u, m, {"mention"}) \in SUBSET DOMAIN u.rows
      BY DEF About
    <3>2. Applicable(u, m, {"mention"}) \in Nat
      BY <1>1, <3>1, LatestRow DEF Applicable
    <3>3. c.by \in {0, Applicable(u, m, {"mention"})}
      BY DEF Claim
    <3>. QED BY <3>2, <3>3
  <2>3. split # 0
    BY <2>1, <2>2
  <2>. QED BY <1>2, <2>3
<1>. HIDE DEF c, d, split, To
<1>6. Left(a, c) \subseteq IdOf(u.run) /\ Left(b, d) = {Twin(u, v, id) : id \in Left(a, c)}
  <2>1. /\ c.candidates \subseteq IdOf(u.run)
        /\ d.candidates = {Twin(u, v, id) : id \in c.candidates}
    BY <1>4 DEF TwinClaims
  <2>2. \A id \in c.candidates : /\ Through(a, id) \in IdOf(u.run)
                                 /\ Through(b, Twin(u, v, id)) = Twin(u, v, Through(a, id))
    BY <2>1, TwinThrough
  <2>. QED BY <2>1, <2>2
<1>7. d.by = c.by /\ (Alone(d.candidates) <=> Alone(c.candidates))
  BY <1>4, TwinAlone DEF TwinClaims
<1>8. d.who = Nobody <=> c.who = Nobody
  BY <1>4, TwinIds DEF TwinClaims
<1> DEFINE x == Left(a, c)
           y == Left(b, d)
<1>9. /\ Alone(y) <=> Alone(x)
      /\ Alone(x) => /\ (CHOOSE id \in x : TRUE) \in x
                     /\ (CHOOSE id \in y : TRUE) = Twin(u, v, CHOOSE id \in x : TRUE)
  <2>. HIDE DEF Left
  <2>. QED BY <1>6, TwinAlone
<1>10. ASSUME NEW id \in IdOf(u.run) PROVE TwinMention(u, v, Known(id), Known(Twin(u, v, id)))
  BY <1>10 DEF TwinMention
<1>11. Nobody \in IdOf(u.run) /\ Twin(u, v, Nobody) = Nobody
  BY TwinIds
<1>. SUFFICES TwinMention(u, v, Result(To(u), a, c), Result(To(v), b, d))
  BY <1>3
<1>12. CASE split > c.by
  <2>. HIDE DEF Left, Known
  <2>. QED BY <1>5, <1>7, <1>10, <1>12
<1>13. CASE ~(split > c.by) /\ c.who # Nobody
  <2>1. /\ Through(a, c.who) \in IdOf(u.run)
        /\ Through(b, d.who) = Twin(u, v, Through(a, c.who))
    BY <1>4, TwinThrough DEF TwinClaims
  <2>. HIDE DEF Left, Known
  <2>. QED BY <1>7, <1>8, <1>10, <1>13, <2>1
<1>14. CASE ~(split > c.by) /\ c.who = Nobody /\ ~Alone(c.candidates) /\ Alone(x)
  <2>1. (CHOOSE id \in x : TRUE) \in IdOf(u.run)
    BY <1>6, <1>9, <1>14
  <2>2. /\ Result(To(u), a, c) = Known(CHOOSE id \in x : TRUE)
        /\ Result(To(v), b, d) = Known(CHOOSE id \in y : TRUE)
    <3>. HIDE DEF Left, Known
    <3>. QED BY <1>7, <1>8, <1>9, <1>14
  <2>. HIDE DEF Left, Known, x, y, Result
  <2>. QED BY <1>9, <1>10, <1>14, <2>1, <2>2
<1>15. CASE ~(split > c.by) /\ c.who = Nobody /\ ~(~Alone(c.candidates) /\ Alone(x))
  <2>1. /\ Result(To(u), a, c) = [who |-> Nobody, maybe |-> x]
        /\ Result(To(v), b, d) = [who |-> Nobody, maybe |-> y]
    <3>. HIDE DEF Left, Known
    <3>. QED BY <1>7, <1>8, <1>9, <1>15
  <2>. HIDE DEF Left, Known, Result
  <2>. QED BY <1>6, <1>11, <2>1 DEF TwinMention
<1>. QED BY <1>12, <1>13, <1>14, <1>15

\* Two indexes of the same mentions.
TwinIndexes(u, v, a, b) ==
  DOMAIN a = DOMAIN b /\ \A m \in DOMAIN a : TwinMention(u, v, a[m], b[m])

\* The mentions that two runs show.
LEMMA TwinIndex ==
  ASSUME NEW u, NEW v, Twins(u, v), NEW a, NEW b, TwinMaps(u, v, a, b),
         NEW shown, \A pair \in shown : pair[1] \in Mention
  PROVE  TwinIndexes(u, v, MentionIndex(u, a, shown), MentionIndex(v, b, shown))
<1> DEFINE D == {pair[1] : pair \in shown}
<1>1. /\ MentionIndex(u, a, shown) = [m \in D |-> OfMention(u, a, m)]
      /\ MentionIndex(v, b, shown) = [m \in D |-> OfMention(v, b, m)]
  BY DEF MentionIndex
<1>2. \A m \in D : m \in Mention
  OBVIOUS
<1>. HIDE DEF D
<1>. QED BY <1>1, <1>2, TwinOfMention DEF TwinIndexes

\* The mentions of a character, in two runs.
LEMMA TwinMentionsOf ==
  ASSUME NEW u, NEW v, Twins(u, v), NEW a, NEW b, TwinIndexes(u, v, a, b), NEW id \in IdOf(u.run)
  PROVE  MentionsOf(a, id) = MentionsOf(b, Twin(u, v, id))
<1>1. ASSUME NEW m \in DOMAIN a
      PROVE  /\ b[m].who = Twin(u, v, id) <=> a[m].who = id
             /\ Twin(u, v, id) \in b[m].maybe <=> id \in a[m].maybe
  <2>1. /\ a[m].who \in IdOf(u.run) /\ b[m].who = Twin(u, v, a[m].who)
        /\ a[m].maybe \subseteq IdOf(u.run)
        /\ b[m].maybe = {Twin(u, v, x) : x \in a[m].maybe}
    BY DEF TwinIndexes, TwinMention
  <2>2. \A x \in IdOf(u.run) : Twin(u, v, x) = Twin(u, v, id) => x = id
    BY TwinIds
  <2>. QED BY <2>1, <2>2
<1>2. DOMAIN a = DOMAIN b
  BY DEF TwinIndexes
<1>3. /\ {m \in DOMAIN a : a[m].who = id} = {m \in DOMAIN b : b[m].who = Twin(u, v, id)}
      /\ {m \in DOMAIN a : id \in a[m].maybe} = {m \in DOMAIN b : Twin(u, v, id) \in b[m].maybe}
  BY <1>1, <1>2
<1>. QED BY <1>3 DEF MentionsOf

\* Whose a line is, in two runs.
LEMMA TwinLine ==
  ASSUME NEW u, NEW v, Twins(u, v), NEW a, NEW b, TwinMaps(u, v, a, b), NEW l \in Line
  PROVE  OfLine(u, a, l) = OfLine(v, b, l)
<1> DEFINE c == Claim(u, l, "speaker")
           d == Claim(v, l, "speaker")
           Final(w, z, id) == Local(w.run, Through(z, id))
<1>1. TwinClaims(u, v, c, d)
  BY TwinClaim
<1>2. /\ OfLine(u, a, l) = <<Final(u, a, c.who), {Final(u, a, id) : id \in c.candidates}, c.by>>
      /\ OfLine(v, b, l) = <<Final(v, b, d.who), {Final(v, b, id) : id \in d.candidates}, d.by>>
  BY DEF OfLine
<1>3. ASSUME NEW id \in IdOf(u.run) PROVE Final(v, b, Twin(u, v, id)) = Final(u, a, id)
  <2>1. /\ Through(a, id) \in IdOf(u.run)
        /\ Through(b, Twin(u, v, id)) = Twin(u, v, Through(a, id))
    BY TwinThrough
  <2>. QED BY <2>1, TwinIds
<1>. HIDE DEF c, d, Final
<1>4. {Final(v, b, id) : id \in d.candidates} = {Final(u, a, id) : id \in c.candidates}
  BY <1>1, <1>3 DEF TwinClaims
<1>. QED BY <1>1, <1>2, <1>3, <1>4 DEF TwinClaims

\* The characters that splits made, in two runs.
LEMMA TwinSplitCharacters ==
  ASSUME NEW u, NEW v, Twins(u, v), NEW a, NEW b, TwinIndexes(u, v, a, b)
  PROVE  SplitCharacters(u, a) = SplitCharacters(v, b)
<1> DEFINE Made(w, z, i) == <<w.rows[i].to, MentionsOf(z, w.rows[i].to),
                              {Local(w.run, m) : m \in PatchFor(w.rows[i], w.run).mentions}>>
<1>1. /\ SplitCharacters(u, a) = {Made(u, a, i) : i \in Splits(u)}
      /\ SplitCharacters(v, b) = {Made(v, b, i) : i \in Splits(v)}
  BY DEF SplitCharacters
<1>2. ASSUME NEW i \in Splits(u) PROVE Made(u, a, i) = Made(v, b, i)
  <2>1. /\ u.run \in Nat \ {0} /\ v.run \in Nat \ {0} /\ u.rows = v.rows
        /\ Plain(u.rows[i]) /\ u.rows[i].category = "split"
    BY TwinSplits DEF Twins, ViewOK
  <2>2. u.rows[i].to \in IdOf(u.run) /\ Twin(u, v, u.rows[i].to) = u.rows[i].to
    <3>1. /\ PatchFor(u.rows[i], u.run).to \in IdOf(u.run)
          /\ PatchFor(u.rows[i], v.run).to = Renamed(PatchFor(u.rows[i], u.run).to, u.run, v.run)
          /\ PatchFor(u.rows[i], u.run).to = u.rows[i].to
          /\ PatchFor(u.rows[i], v.run).to = u.rows[i].to
      <4>1. u.rows[i].to[3] = 0
        BY <2>1 DEF Plain
      <4>. QED BY <2>1, <4>1, PatchRenamed
    <3>. QED BY <3>1 DEF Twin
  <2>3. MentionsOf(a, u.rows[i].to) = MentionsOf(b, u.rows[i].to)
    BY <2>2, TwinMentionsOf
  <2>4. \A w \in {u, v} : {Local(w.run, m) : m \in PatchFor(u.rows[i], w.run).mentions}
                            = {Named(m) : m \in Taken(u.rows[i])}
    <3>1. TAKE w \in {u, v}
    <3>2. PatchFor(u.rows[i], w.run).mentions = {Row(w.run, m) : m \in Taken(u.rows[i])}
      BY <2>1, PatchMentions
    <3>3. \A m : Local(w.run, Row(w.run, m)) = Named(m)
      BY DEF Local, Row, Named
    <3>. QED BY <3>2, <3>3
  <2>. QED BY <2>1, <2>3, <2>4
<1>3. Splits(u) = Splits(v)
  BY TwinSplits
<1>. HIDE DEF Made
<1>. QED BY <1>1, <1>2, <1>3

\* So the registry gate is about the same.
LEMMA TwinRegistry ==
  ASSUME NEW u, NEW v, Twins(u, v), NEW a, NEW b, TwinMaps(u, v, a, b),
         NEW y, NEW z, TwinPieces(u, v, y, z)
  PROVE  RegistryEvidence(u, a, y) = RegistryEvidence(v, b, z)
<1> DEFINE shown == InView(u, y, Mention)
           i == MentionIndex(u, a, shown)
           j == MentionIndex(v, b, shown)
           Changed(w, x) == LET op == Applicable(w, x, {"merge", "split"}) IN
                            IF op = 0 THEN Nobody ELSE Local(w.run, PatchFor(w.rows[op], w.run).to)
           One(w, k, x) == <<x, Applicable(w, x, {"identity"}), MentionsOf(k, Row(w.run, x)),
                             Changed(w, x)>>
<1>1. InView(v, z, Mention) = shown
  BY TwinView
<1>2. /\ RegistryEvidence(u, a, y) = <<{One(u, i, x) : x \in Character}, SplitCharacters(u, i), shown>>
      /\ RegistryEvidence(v, b, z) = <<{One(v, j, x) : x \in Character}, SplitCharacters(v, j), shown>>
  BY <1>1 DEF RegistryEvidence
<1>3. \A pair \in shown : pair[1] \in Mention
  BY DEF InView
<1>4. TwinIndexes(u, v, i, j)
  <2>. HIDE DEF shown
  <2>. QED BY <1>3, TwinIndex
<1>. HIDE DEF i, j, shown
<1>5. SplitCharacters(u, i) = SplitCharacters(v, j)
  BY <1>4, TwinSplitCharacters
<1>6. ASSUME NEW x \in Character PROVE One(u, i, x) = One(v, j, x)
  <2>1. MentionsOf(i, Row(u.run, x)) = MentionsOf(j, Row(v.run, x))
    <3>1. Row(u.run, x) \in IdOf(u.run) /\ Twin(u, v, Row(u.run, x)) = Row(v.run, x)
      BY TwinIds DEF Word
    <3>. QED BY <1>4, <3>1, TwinMentionsOf
  <2>2. Changed(u, x) = Changed(v, x)
    <3> DEFINE op == Applicable(u, x, {"merge", "split"})
    <3>1. /\ u.run \in Nat \ {0} /\ v.run \in Nat \ {0} /\ u.rows = v.rows
          /\ Numbered(u) /\ \A n \in DOMAIN u.rows : Plain(u.rows[n])
      BY DEF Twins, ViewOK
    <3>2. Applicable(v, x, {"merge", "split"}) = op
      BY TwinReads
    <3>3. /\ op \in DOMAIN u.rows \cup {0}
          /\ op # 0 => u.rows[op].category \in {"merge", "split"}
      <4>1. About(u, x, {"merge", "split"}) \in SUBSET DOMAIN u.rows
        BY DEF About
      <4>2. op \in About(u, x, {"merge", "split"}) \cup {0}
        BY <3>1, <4>1, LatestRow DEF Applicable
      <4>. HIDE DEF op
      <4>. QED BY <4>1, <4>2 DEF About
    <3>. HIDE DEF op
    <3>4. op # 0 => Local(v.run, PatchFor(u.rows[op], v.run).to)
                      = Local(u.run, PatchFor(u.rows[op], u.run).to)
      <4>1. SUFFICES ASSUME op # 0 PROVE op # 0 => Local(v.run, PatchFor(u.rows[op], v.run).to)
                      = Local(u.run, PatchFor(u.rows[op], u.run).to)
        OBVIOUS
      <4>2. /\ PatchFor(u.rows[op], u.run).to \in IdOf(u.run)
            /\ PatchFor(u.rows[op], v.run).to = Twin(u, v, PatchFor(u.rows[op], u.run).to)
        <5>1. Plain(u.rows[op]) /\ u.rows[op].to[3] = 0
          BY <3>1, <3>3, <4>1 DEF Plain
        <5>. QED BY <3>1, <5>1, PatchRenamed DEF Twin
      <4>. QED BY <4>2, TwinIds
    <3>. QED BY <3>1, <3>2, <3>4 DEF op
  <2>3. Applicable(u, x, {"identity"}) = Applicable(v, x, {"identity"})
    BY TwinReads
  <2>. HIDE DEF Changed
  <2>. QED BY <2>1, <2>2, <2>3
<1>. HIDE DEF One
<1>7. {One(u, i, x) : x \in Character} = {One(v, j, x) : x \in Character}
  BY <1>6
<1>. QED BY <1>2, <1>5, <1>7

\* What a run carries over depends on the corrections it sees, not on its name.
LEMMA TwinEvidence ==
  ASSUME NEW u, NEW v, Twins(u, v)
  PROVE  CarriedEvidence(u) = CarriedEvidence(v)
<1>1. TwinPieces(u, v, Pieces(u, Chapter), Pieces(v, Chapter))
  BY TwinChapters
<1>2. TwinPieces(u, v, Carried(u), Carried(v))
  BY TwinCarried
<1>3. TwinMaps(u, v, Replacements(u), Replacements(v))
  BY TwinReplacements
<1>4. StructureEvidence(u, Pieces(u, Chapter), Carried(u))
        = StructureEvidence(v, Pieces(v, Chapter), Carried(v))
  BY <1>1, <1>2, TwinStructure
<1>5. RegistryEvidence(u, Replacements(u), Carried(u)) = RegistryEvidence(v, Replacements(v), Carried(v))
  BY <1>2, <1>3, TwinRegistry
<1>6. DialogueEvidence(u, Replacements(u), Carried(u)) = DialogueEvidence(v, Replacements(v), Carried(v))
  <2>1. InView(u, Carried(u), Line) = InView(v, Carried(v), Line)
    BY <1>2, TwinView
  <2>2. \A shown \in InView(u, Carried(u), Line) : shown[1] \in Line
    BY DEF InView
  <2>3. \A l \in Line : OfLine(u, Replacements(u), l) = OfLine(v, Replacements(v), l)
    BY <1>3, TwinLine
  <2>. QED BY <2>1, <2>2, <2>3 DEF DialogueEvidence
<1>. QED BY <1>4, <1>5, <1>6 DEF CarriedEvidence, GateEvidence
-----------------------------------------------------------------------------
(* What every recorded correction is like.                                 *)

\* The row of the category that a correction is about.
KeyFits(c) ==
  /\ c.category \in {"boundary", "label"} => c.key \in Piece
  /\ c.category \in {"identity", "merge", "split"} => c.key \in Character
  /\ c.category = "mention" => c.key \in Mention
  /\ c.category = "speaker" => c.key \in Line

\* A line is given to a character of the run, or to a name.
Considered(c) ==
  c.category = "speaker" => c.to[1] = 0 \/ \E x \in Character : c.to = Row(c.run, x)

\* Correction i speaks of its run or of names, and of what was added before.
Sound(c, i) ==
  /\ c \in Correction /\ KeyFits(c) /\ Considered(c)
  /\ c.to \in IdOf(c.run) /\ c.to[3] < i
  /\ c.to[3] # 0 => c.category = "boundary" /\ c.key \in Scene
  /\ c.mentions \subseteq {Row(c.run, m) : m \in Mention}
  /\ c.category = "split" => c.to[1] = 0 /\ c.to[3] = 0

CorrectionsTypeOK ==
  /\ analyses \in Seq([text : Nat, created : Nat])
  /\ corrections \in Seq(Correction)
  /\ clock \in Nat
  /\ \A i \in DOMAIN corrections :
       corrections[i].run \in DOMAIN analyses /\ Sound(corrections[i], i)

\* What a run sees of the first n corrections.
ViewTyped(v, n) ==
  /\ n \in Nat /\ v.run \in Nat \ {0} /\ DOMAIN v.rows \subseteq 1..n
  /\ \A i \in DOMAIN v.rows : Sound(v.rows[i], i)

\* An element of a sequence.
LEMMA SeqElement ==
  ASSUME NEW S, NEW s \in Seq(S), NEW i \in DOMAIN s
  PROVE  s[i] \in S /\ i \in Nat \ {0} /\ i \in 1..Len(s)
  OBVIOUS

\* The runs and the instants.
LEMMA RunsTyped ==
  ASSUME CorrectionsTypeOK
  PROVE  /\ \A r \in DOMAIN analyses :
              r \in Nat \ {0} /\ analyses[r].text \in Nat /\ analyses[r].created \in Nat
         /\ Len(corrections) \in Nat /\ Len(analyses) \in Nat /\ clock \in Nat
         /\ Len(corrections) \in 0..Len(corrections)
<1>1. /\ analyses \in Seq([text : Nat, created : Nat])
      /\ corrections \in Seq(Correction) /\ clock \in Nat
  BY DEF CorrectionsTypeOK
<1>2. \A r \in DOMAIN analyses : analyses[r] \in [text : Nat, created : Nat] /\ r \in Nat \ {0}
  BY <1>1, SeqElement
<1>. QED BY <1>1, <1>2

\* A run of a smaller number is a run.
LEMMA EarlierRun ==
  ASSUME CorrectionsTypeOK, NEW r \in DOMAIN analyses, NEW q \in 1..(r - 1)
  PROVE  q \in DOMAIN analyses
<1>1. analyses \in Seq([text : Nat, created : Nat])
  BY DEF CorrectionsTypeOK
<1>. QED BY <1>1

\* What a view holds.
LEMMA InScopeIs ==
  ASSUME NEW r, NEW n
  PROVE  At(r, n).run = r /\ DOMAIN At(r, n).rows = InScope(r, n) /\ InScope(r, n) \subseteq 1..n
         /\ \A i \in InScope(r, n) : At(r, n).rows[i] = corrections[i]
  BY DEF At, InScope

\* Every view of the present rows is typed.
LEMMA ViewsTyped ==
  ASSUME CorrectionsTypeOK, NEW r \in DOMAIN analyses, NEW n \in 0..Len(corrections)
  PROVE  ViewTyped(At(r, n), n)
<1>1. r \in Nat \ {0} /\ n \in Nat
  BY DEF CorrectionsTypeOK
<1>2. \A i \in 1..n : Sound(corrections[i], i)
  BY DEF CorrectionsTypeOK
<1>. QED BY <1>1, <1>2, InScopeIs DEF ViewTyped

\* A typed view has finitely many rows.
LEMMA ViewNumbered ==
  ASSUME NEW v, NEW n, ViewTyped(v, n)
  PROVE  Numbered(v)
  BY DEF ViewTyped, Numbered

\* An identifier of a run is one.
LEMMA IdIsIdentifier ==
  ASSUME NEW r \in Nat, NEW id \in IdOf(r)
  PROVE  id \in Identifier
  BY DEF IdOf, Identifier

\* What a correction may be recorded about.
LEMMA TargetsTyped ==
  ASSUME NEW v, NEW n, ViewTyped(v, n), NEW k \in Piece, NEW target \in Targets(v, k)
  PROVE  target \in Identifier
<1>1. BoundaryState(v, k).root \in Nat
  BY ViewNumbered, BoundaryStateOK DEF StateOK
<1>2. v.run \in Nat /\ k \in Word
  BY DEF ViewTyped, Word
<1>. QED BY <1>1, <1>2 DEF Targets, Row, Added, Identifier

\* The correction that applies is one of the view, or none.
LEMMA ApplicableTyped ==
  ASSUME NEW v, NEW n, ViewTyped(v, n), NEW k, NEW cs
  PROVE  Applicable(v, k, cs) \in About(v, k, cs) \cup {0} /\ About(v, k, cs) \subseteq DOMAIN v.rows
         /\ About(v, k, cs) \subseteq 1..n
<1>1. Numbered(v) /\ About(v, k, cs) \in SUBSET DOMAIN v.rows
  BY ViewNumbered DEF About
<1>2. DOMAIN v.rows \subseteq 1..n
  BY DEF ViewTyped
<1>. QED BY <1>1, <1>2, LatestRow DEF Applicable

\* A chapter that may be named is one of the run, added no later than now.
LEMMA ChaptersTyped ==
  ASSUME NEW v, NEW n, ViewTyped(v, n), NEW id \in KnownChapters(v) \cup {Story}
  PROVE  id \in IdOf(v.run) /\ id[3] <= n
<1>1. v.run \in Nat \ {0} /\ n \in Nat
  BY DEF ViewTyped
<1>2. CASE id = Story
  BY <1>1, <1>2 DEF Story, IdOf, Word
<1>3. ASSUME NEW k \in Chapter, id = Row(v.run, k) \/ id = Added(v.run, k, LastBoundary(v, k))
      PROVE  id \in IdOf(v.run) /\ id[3] <= n
  <2>1. LastBoundary(v, k) \in Nat /\ LastBoundary(v, k) <= n
    BY <1>1, ApplicableTyped DEF LastBoundary
  <2>2. k \in Word
    BY DEF Word, Piece
  <2>. QED BY <1>1, <1>3, <2>1, <2>2 DEF Row, Added, IdOf
<1>4. id # Story => \E k \in Chapter : id = Row(v.run, k) \/ id = Added(v.run, k, LastBoundary(v, k))
  BY DEF KnownChapters
<1>. QED BY <1>2, <1>3, <1>4

\* Somebody who may be named is a character of the run, or a name.
LEMMA CharactersTyped ==
  ASSUME NEW v, NEW n, ViewTyped(v, n), NEW id \in KnownCharacters(v) \cup {Nobody}
  PROVE  /\ id \in IdOf(v.run) /\ id[3] = 0
         /\ id[1] = 0 \/ \E x \in Character : id = Row(v.run, x)
<1>1. v.run \in Nat \ {0}
  BY DEF ViewTyped
<1>2. CASE id = Nobody
  BY <1>2 DEF Nobody, IdOf, Word
<1>3. ASSUME NEW x \in Character, id = Row(v.run, x)
      PROVE  id \in IdOf(v.run) /\ id[3] = 0
  BY <1>3 DEF Row, IdOf, Word
<1>4. ASSUME NEW i \in DOMAIN v.rows, v.rows[i].category = "split", id = v.rows[i].to
      PROVE  id \in IdOf(v.run) /\ id[3] = 0 /\ id[1] = 0
  <2>1. Sound(v.rows[i], i)
    BY DEF ViewTyped
  <2>2. id \in IdOf(v.rows[i].run) /\ id[1] = 0 /\ id[3] = 0
    BY <1>4, <2>1 DEF Sound
  <2>. QED BY <2>2 DEF IdOf
<1>5. \/ id = Nobody \/ \E x \in Character : id = Row(v.run, x)
      \/ \E i \in DOMAIN v.rows : v.rows[i].category = "split" /\ id = v.rows[i].to
  BY DEF KnownCharacters
<1>6. Nobody[1] = 0 /\ Nobody[3] = 0
  BY DEF Nobody
<1>. QED BY <1>2, <1>3, <1>4, <1>5, <1>6
-----------------------------------------------------------------------------
(* What append_correction records.                                         *)

Entity == Piece \cup Character \cup Mention \cup Line
Operation == {"add", "remove", "move", "label", "name", "merge", "split", "mention", "speaker"}

Recorded(v, category, k, target, op, to, mentions, instant) ==
  [run |-> v.run, category |-> category, key |-> k, target |-> target,
   op |-> op, to |-> to, mentions |-> mentions,
   revision |-> NextRevision(v, category, k, target),
   supersedes |-> Current(v, category, k, target), at |-> instant]

\* The requests that a view lets pass, as far as a later argument needs it.
Legal(v, c) ==
  /\ c.category = "boundary" =>
       /\ c.target \in Targets(v, c.key)
       /\ c.supersedes = BranchCurrent(v, c.key, c.target)
  /\ c.category = "label" => c.op = "label"
  /\ c.category = "split" => OpOf(v, c.key) # "merge"

\* The last operation of a branch is a number.
LEMMA BranchTyped ==
  ASSUME NEW v, NEW n, ViewTyped(v, n), NEW k, NEW target
  PROVE  BranchCurrent(v, k, target) \in Nat
<1> DEFINE st == BoundaryState(v, k)
           S == IF target = Row(v.run, k) THEN st.onSource ELSE st.onAdded
<1>1. OpsOf(v, k) \subseteq DOMAIN v.rows /\ Numbered(v)
  BY ViewNumbered, OpsNumbered
<1>2. S \in SUBSET DOMAIN v.rows
  <2>1. st.onSource \subseteq OpsOf(v, k) /\ st.onAdded \subseteq OpsOf(v, k)
    BY <1>1, BoundaryStateOK DEF StateOK
  <2>. HIDE DEF st
  <2>. QED BY <1>1, <2>1
<1>3. BranchCurrent(v, k, target) = Latest(S)
  BY DEF BranchCurrent
<1>. HIDE DEF S
<1>4. Latest(S) \in Nat
  BY <1>1, <1>2, LatestRow
<1>. QED BY <1>3, <1>4

\* What a correction replaces, and its revision, are numbers.
LEMMA CurrentTyped ==
  ASSUME NEW v, NEW n, ViewTyped(v, n), NEW category, NEW k, NEW target
  PROVE  /\ Current(v, category, k, target) \in Nat
         /\ NextRevision(v, category, k, target) \in Nat
<1>1. /\ Numbered(v) /\ DOMAIN v.rows \subseteq Nat
      /\ \A i \in DOMAIN v.rows : v.rows[i].revision \in Nat
  BY ViewNumbered, LatestRow DEF ViewTyped, Sound, Correction
<1>2. EffectiveCorrection(v, k) \in DOMAIN v.rows \cup {0}
  <2>1. About(v, k, Categories) \in SUBSET DOMAIN v.rows
    BY DEF About
  <2>. QED BY <1>1, <2>1, LatestRow DEF EffectiveCorrection
<1>3. Current(v, category, k, target) \in Nat
  BY <1>1, <1>2, BranchTyped DEF Current
<1> DEFINE before == IF category \in {"boundary", "label"} THEN Applicable(v, k, {category})
                     ELSE Current(v, category, k, target)
<1>4. before \in DOMAIN v.rows \cup {0}
  BY <1>2, ApplicableTyped DEF Current
<1>5. NextRevision(v, category, k, target) = IF before = 0 THEN 1 ELSE v.rows[before].revision + 1
  BY DEF NextRevision
<1>. HIDE DEF before
<1>. QED BY <1>1, <1>3, <1>4, <1>5

\* Everything a step of append_correction leaves true.
Appended(r, c) ==
  /\ corrections' = Append(corrections, c) /\ UNCHANGED analyses
  /\ clock' \in Nat /\ c.run = r /\ clock' >= clock /\ c.at = clock'
  /\ Sound(c, Len(corrections) + 1) /\ Legal(Now(r), c)

\* A correction that is recorded as Record says is appended.
LEMMA RecordStep ==
  ASSUME CorrectionsTypeOK, NEW r \in DOMAIN analyses, NEW category \in Categories,
         NEW k \in Entity, NEW target \in Identifier, NEW op \in Operation,
         NEW to \in IdOf(r), NEW mentions \in SUBSET {Row(r, m) : m \in Mention},
         Record(Now(r), category, k, target, op, to, mentions)
  PROVE  LET c == Recorded(Now(r), category, k, target, op, to, mentions, clock') IN
         /\ corrections' = Append(corrections, c) /\ UNCHANGED analyses /\ clock' \in Nat
         /\ c \in Correction /\ c.run = r /\ c.category = category /\ c.key = k
         /\ c.target = target /\ c.op = op /\ c.to = to /\ c.mentions = mentions
         /\ c.supersedes = Current(Now(r), category, k, target)
         /\ clock' >= clock /\ c.at = clock'
<1> DEFINE v == Now(r)
           c == Recorded(v, category, k, target, op, to, mentions, clock')
<1>1. v.run = r /\ r \in Nat \ {0}
  BY InScopeIs DEF CorrectionsTypeOK, Now
<1>2. ViewTyped(v, Len(corrections))
  BY ViewsTyped DEF Now, CorrectionsTypeOK
<1>3. corrections' = Append(corrections, c) /\ UNCHANGED analyses
  BY DEF Record, Recorded
<1>4. clock' \in Nat
  <2>1. \A q \in DOMAIN analyses : analyses[q].created \in Nat
    BY RunsTyped
  <2>. QED BY <2>1 DEF Record, CorrectionsTypeOK
<1>5. Current(v, category, k, target) \in Nat /\ NextRevision(v, category, k, target) \in Nat
  BY <1>2, CurrentTyped
<1>6. to \in Identifier /\ mentions \in SUBSET Identifier
  <2>1. \A m \in Mention : Row(r, m) \in Identifier
    BY <1>1 DEF Row, Identifier, Word
  <2>. QED BY <1>1, <2>1, IdIsIdentifier
<1>7. c \in Correction
  <2>. HIDE DEF v
  <2>. QED BY <1>1, <1>4, <1>5, <1>6 DEF Recorded, Correction, Entity, Operation
<1>8. clock' >= clock
  BY DEF Record
<1>. QED BY <1>1, <1>3, <1>4, <1>7, <1>8 DEF Recorded

\* Each kind of correction, as the client of a run records it.
LEMMA BoundaryStep ==
  ASSUME CorrectionsTypeOK, NEW r \in DOMAIN analyses, NEW k \in Piece,
         NEW target \in Targets(Now(r), k), NEW op \in {"add", "remove", "move"},
         NEW to \in KnownChapters(Now(r)) \cup {Story}, Boundary(Now(r), k, target, op, to)
  PROVE  \E c : Appended(r, c)
<1> DEFINE v == Now(r)
           c == Recorded(v, "boundary", k, target, op, to, {}, clock')
<1>1. ViewTyped(v, Len(corrections)) /\ v.run = r
  BY ViewsTyped, InScopeIs DEF Now, CorrectionsTypeOK
<1>2. target \in Identifier /\ to \in IdOf(r) /\ to[3] <= Len(corrections)
  BY <1>1, TargetsTyped, ChaptersTyped
<1>3. Record(v, "boundary", k, target, op, to, {})
  BY DEF Boundary
<1>4. /\ corrections' = Append(corrections, c) /\ UNCHANGED analyses
      /\ clock' \in Nat /\ clock' >= clock /\ c.at = clock' /\ c \in Correction /\ c.run = r /\ c.category = "boundary" /\ c.key = k
      /\ c.target = target /\ c.op = op /\ c.to = to /\ c.mentions = {}
      /\ c.supersedes = Current(v, "boundary", k, target)
  BY <1>2, <1>3, RecordStep DEF Categories, Entity, Operation
<1>5. Legal(v, c)
  <2>1. c.supersedes = BranchCurrent(v, k, target)
    BY <1>4 DEF Current
  <2>. HIDE DEF c, v
  <2>. QED BY <1>1, <1>4, <2>1 DEF Legal, v
<1>6. Sound(c, Len(corrections) + 1)
  <2>1. Len(corrections) \in Nat /\ to[3] \in Nat
    BY <1>2 DEF CorrectionsTypeOK, IdOf
  <2>2. to[3] < Len(corrections) + 1
    BY <1>2, <2>1
  <2>3. k \notin Scene => to[3] = 0
    BY DEF Boundary, Parents, Story
  <2>. HIDE DEF c
  <2>. QED BY <1>2, <1>4, <2>2, <2>3 DEF Sound, KeyFits, Considered
<1>. HIDE DEF c
<1>. QED BY <1>4, <1>5, <1>6 DEF Appended, v

\* A label is a sound correction, legal where it is made.
LEMMA LabelStep ==
  ASSUME CorrectionsTypeOK, NEW r \in DOMAIN analyses, NEW k \in Piece,
         NEW target \in Targets(Now(r), k), Label(Now(r), k, target)
  PROVE  \E c : Appended(r, c)
<1> DEFINE v == Now(r)
           c == Recorded(v, "label", k, target, "label", Nobody, {}, clock')
<1>1. ViewTyped(v, Len(corrections)) /\ v.run = r
  BY ViewsTyped, InScopeIs DEF Now, CorrectionsTypeOK
<1>2. target \in Identifier /\ Nobody \in IdOf(r) /\ Nobody[3] = 0
  <2>1. Nobody \in IdOf(v.run) /\ Nobody[3] = 0
    BY <1>1, CharactersTyped
  <2>. QED BY <1>1, <2>1, TargetsTyped
<1>3. Record(v, "label", k, target, "label", Nobody, {})
  BY DEF Label
<1>4. /\ corrections' = Append(corrections, c) /\ UNCHANGED analyses
      /\ clock' \in Nat /\ clock' >= clock /\ c.at = clock' /\ c \in Correction /\ c.run = r /\ c.category = "label" /\ c.key = k
      /\ c.op = "label" /\ c.to = Nobody /\ c.mentions = {}
  BY <1>2, <1>3, RecordStep DEF Categories, Entity, Operation
<1>5. Legal(v, c)
  BY <1>4 DEF Legal
<1>6. Sound(c, Len(corrections) + 1)
  <2>1. Nobody[3] < Len(corrections) + 1
    BY <1>2 DEF CorrectionsTypeOK
  <2>. HIDE DEF c
  <2>. QED BY <1>2, <1>4, <2>1 DEF Sound, KeyFits, Considered
<1>. HIDE DEF c
<1>. QED BY <1>4, <1>5, <1>6 DEF Appended, v

\* The corrections of characters, mentions and lines: about a row.
RowRequest(r, category, k, op, to) ==
  /\ category \in Categories \ {"boundary", "label"} /\ op \in Operation
  /\ k \in Character \cup Mention \cup Line
  /\ category \in {"identity", "merge", "split"} => k \in Character
  /\ category = "mention" => k \in Mention
  /\ category = "speaker" => k \in Line
  /\ to \in IdOf(r) /\ to[3] = 0
  /\ category = "split" => to[1] = 0
  /\ category = "split" => OpOf(Now(r), k) # "merge"
  /\ category = "speaker" => to[1] = 0 \/ \E x \in Character : to = Row(r, x)

\* So is a correction of a character, a mention or a line.
LEMMA RowStep ==
  ASSUME CorrectionsTypeOK, NEW r \in DOMAIN analyses, NEW k, NEW category, NEW op, NEW to,
         RowRequest(r, category, k, op, to),
         NEW mentions, mentions \in SUBSET {Row(r, m) : m \in Mention},
         Record(Now(r), category, k, Row(r, k), op, to, mentions)
  PROVE  \E c : Appended(r, c)
<1> DEFINE v == Now(r)
           c == Recorded(v, category, k, Row(r, k), op, to, mentions, clock')
<1>1. r \in Nat \ {0} /\ Len(corrections) \in Nat
  BY RunsTyped
<1>2. /\ category \in Categories /\ k \in Entity /\ k \in Word /\ op \in Operation
      /\ to \in IdOf(r) /\ to[3] = 0
  BY DEF RowRequest, Word, Entity
<1>3. Row(r, k) \in Identifier
  BY <1>1, <1>2 DEF Row, Identifier
<1>4. /\ corrections' = Append(corrections, c) /\ UNCHANGED analyses
      /\ clock' \in Nat /\ clock' >= clock /\ c.at = clock' /\ c \in Correction /\ c.run = r /\ c.category = category /\ c.key = k
      /\ c.op = op /\ c.to = to /\ c.mentions = mentions
  BY <1>2, <1>3, RecordStep
<1>5. Legal(v, c)
  <2>. HIDE DEF c
  <2>. QED BY <1>4 DEF Legal, RowRequest
<1>6. Sound(c, Len(corrections) + 1)
  <2>1. to[3] < Len(corrections) + 1
    BY <1>1, <1>2
  <2>2. KeyFits(c)
    <3>. HIDE DEF c
    <3>. QED BY <1>4 DEF KeyFits, RowRequest
  <2>3. Considered(c)
    <3>. HIDE DEF c
    <3>. QED BY <1>4 DEF Considered, RowRequest
  <2>4. c.category = "split" => c.to[1] = 0 /\ c.to[3] = 0
    <3>. HIDE DEF c
    <3>. QED BY <1>4 DEF RowRequest
  <2>. HIDE DEF c
  <2>. QED BY <1>2, <1>4, <2>1, <2>2, <2>3, <2>4 DEF Sound
<1>. HIDE DEF c
<1>. QED BY <1>4, <1>5, <1>6 DEF Appended, v

\* Whatever is appended is sound and legal.
LEMMA AppendStep ==
  ASSUME CorrectionsTypeOK, NEW r \in DOMAIN analyses, AppendCorrection(Now(r))
  PROVE  \E c : Appended(r, c)
<1> DEFINE v == Now(r)
<1>1. ViewTyped(v, Len(corrections)) /\ v.run = r
  <2>1. Len(corrections) \in 0..Len(corrections)
    BY RunsTyped
  <2>2. ViewTyped(At(r, Len(corrections)), Len(corrections)) /\ At(r, Len(corrections)).run = r
    BY <2>1, ViewsTyped, InScopeIs
  <2>. QED BY <2>2 DEF Now
<1>2. Nobody \in IdOf(r) /\ Nobody[3] = 0
  BY <1>1, CharactersTyped
<1>3. /\ {"identity", "merge", "split", "mention", "speaker"} \subseteq Categories \ {"boundary", "label"}
      /\ {"name", "merge", "split", "mention", "speaker"} \subseteq Operation
  BY DEF Categories, Operation
<1>4. CASE \E k \in Piece : \E target \in Targets(v, k) : Label(v, k, target)
  BY <1>4, LabelStep
<1>5. CASE \E k \in Piece : \E target \in Targets(v, k) :
             \E op \in {"add", "remove", "move"}, to \in KnownChapters(v) \cup {Story} :
               Boundary(v, k, target, op, to)
  BY <1>5, BoundaryStep
<1>6. ASSUME NEW x \in Character, Identity(v, x) PROVE \E c : Appended(r, c)
  <2>1. Record(v, "identity", x, Row(r, x), "name", Nobody, {})
    BY <1>1, <1>6 DEF Identity
  <2>2. RowRequest(r, "identity", x, "name", Nobody)
    BY <1>2, <1>3 DEF RowRequest
  <2>. QED BY <2>1, <2>2, RowStep
<1>7. ASSUME NEW x \in Character, NEW to \in KnownCharacters(v), Merge(v, x, to)
      PROVE  \E c : Appended(r, c)
  <2>1. Record(v, "merge", x, Row(r, x), "merge", to, {})
    BY <1>1, <1>7 DEF Merge
  <2>2. to \in IdOf(r) /\ to[3] = 0
    BY <1>1, CharactersTyped
  <2>3. RowRequest(r, "merge", x, "merge", to)
    BY <1>3, <2>2 DEF RowRequest
  <2>. QED BY <2>1, <2>3, RowStep
<1>8. ASSUME NEW x \in Character, NEW n \in Name, NEW mentions \in SUBSET Mention,
             Split(v, x, n, mentions)
      PROVE  \E c : Appended(r, c)
  <2>1. Record(v, "split", x, Row(r, x), "split", Named(n), {Row(r, m) : m \in mentions})
    BY <1>1, <1>8 DEF Split
  <2>2. Named(n) \in IdOf(r) /\ Named(n)[3] = 0 /\ Named(n)[1] = 0
    BY DEF Named, IdOf, Word
  <2>3. OpOf(v, x) # "merge"
    BY <1>8 DEF Split
  <2>4. {Row(r, m) : m \in mentions} \in SUBSET {Row(r, m) : m \in Mention}
    OBVIOUS
  <2>5. RowRequest(r, "split", x, "split", Named(n))
    BY <1>3, <2>2, <2>3 DEF RowRequest
  <2>. QED BY <2>1, <2>4, <2>5, RowStep
<1>9. ASSUME NEW to \in KnownCharacters(v) \cup {Nobody}, NEW m \in Mention, ResolveMention(v, m, to)
      PROVE  \E c : Appended(r, c)
  <2>1. Record(v, "mention", m, Row(r, m), "mention", to, {})
    BY <1>1, <1>9 DEF ResolveMention
  <2>2. to \in IdOf(r) /\ to[3] = 0
    BY <1>1, CharactersTyped
  <2>3. RowRequest(r, "mention", m, "mention", to)
    BY <1>3, <2>2 DEF RowRequest
  <2>. QED BY <2>1, <2>3, RowStep
<1>10. ASSUME NEW to \in KnownCharacters(v) \cup {Nobody}, NEW l \in Line, AttributeLine(v, l, to)
       PROVE  \E c : Appended(r, c)
  <2>1. Record(v, "speaker", l, Row(r, l), "speaker", to, {})
    BY <1>1, <1>10 DEF AttributeLine
  <2>2. to \in IdOf(r) /\ to[3] = 0 /\ (to[1] = 0 \/ \E x \in Character : to = Row(r, x))
    BY <1>1, CharactersTyped
  <2>3. RowRequest(r, "speaker", l, "speaker", to)
    BY <1>3, <2>2 DEF RowRequest
  <2>. QED BY <2>1, <2>3, RowStep
<1>. HIDE DEF v
<1>. QED BY <1>4, <1>5, <1>6, <1>7, <1>8, <1>9, <1>10 DEF AppendCorrection, v

\* create_whole_book_run, and append_correction: neither changes what a run saw.
Grows(a, b) == \E e : b = Append(a, e)

\* What is appended to leaves the earlier elements.
LEMMA GrownKeeps ==
  ASSUME NEW S, NEW a \in Seq(S), NEW T, NEW b \in Seq(T), b = a \/ Grows(a, b)
  PROVE  /\ DOMAIN a \subseteq DOMAIN b /\ Len(a) <= Len(b)
         /\ \A i \in DOMAIN a : b[i] = a[i]
<1>1. CASE b = a
  BY <1>1
<1>2. CASE Grows(a, b)
  <2>1. PICK e : b = Append(a, e)
    BY <1>2 DEF Grows
  <2>2. Len(b) = Len(a) + 1 /\ \A i \in 1..Len(a) : b[i] = a[i]
    BY <2>1
  <2>. QED BY <2>2
<1>. QED BY <1>1, <1>2

\* What a run showed of the earlier rows stays what it was.
LEMMA ViewsKept ==
  ASSUME CorrectionsTypeOK, CorrectionsTypeOK',
         analyses' = analyses \/ Grows(analyses, analyses'),
         corrections' = corrections \/ Grows(corrections, corrections'),
         NEW q \in DOMAIN analyses, NEW n \in 0..Len(corrections)
  PROVE  At(q, n)' = At(q, n)
<1>1. /\ DOMAIN analyses \subseteq DOMAIN analyses'
      /\ \A r \in DOMAIN analyses : analyses'[r] = analyses[r]
  BY GrownKeeps DEF CorrectionsTypeOK
<1>2. /\ DOMAIN corrections \subseteq DOMAIN corrections'
      /\ \A i \in DOMAIN corrections : corrections'[i] = corrections[i]
  BY GrownKeeps DEF CorrectionsTypeOK
<1>3. \A i \in 1..n : i \in DOMAIN corrections /\ corrections[i].run \in DOMAIN analyses
  <2>1. corrections \in Seq(Correction)
    BY DEF CorrectionsTypeOK
  <2>2. 1..n \subseteq DOMAIN corrections
    BY <2>1
  <2>. QED BY <2>2 DEF CorrectionsTypeOK
<1>4. InScope(q, n)' = InScope(q, n)
  <2>1. \A i \in 1..n :
          /\ corrections'[i].run = corrections[i].run /\ corrections'[i].at = corrections[i].at
          /\ Compatible(corrections[i].run, q)' <=> Compatible(corrections[i].run, q)
    BY <1>1, <1>2, <1>3 DEF Compatible
  <2>. QED BY <1>1, <1>2, <1>3, <2>1 DEF InScope, Compatible
<1>5. \A i \in InScope(q, n) : corrections'[i] = corrections[i]
  BY <1>2, <1>3 DEF InScope
<1>. QED BY <1>4, <1>5 DEF At

\* Every correction was legal in what its run showed before it.
AllLegal ==
  \A i \in DOMAIN corrections, r \in DOMAIN analyses :
    corrections[i].run = r => Legal(At(r, i - 1), corrections[i])

\* The runs were created one after the other, and corrected later.
InOrder ==
  /\ \A r \in DOMAIN analyses : analyses[r].created <= clock
  /\ \A r \in DOMAIN analyses, q \in DOMAIN analyses :
       q < r => analyses[q].created < analyses[r].created
  /\ \A i \in DOMAIN corrections : analyses[corrections[i].run].created <= corrections[i].at

CorrectionsInv == CorrectionsTypeOK /\ AllLegal /\ InOrder

\* A correction that was legal stays one that was.
LEMMA LegalKept ==
  ASSUME CorrectionsInv, CorrectionsTypeOK',
         analyses' = analyses \/ Grows(analyses, analyses'),
         corrections' = corrections \/ Grows(corrections, corrections'),
         NEW i \in DOMAIN corrections, NEW r, corrections'[i].run = r
  PROVE  r \in DOMAIN analyses /\ Legal(At(r, i - 1)', corrections'[i])
<1>1. CorrectionsTypeOK /\ AllLegal
  BY DEF CorrectionsInv
<1>2. corrections'[i] = corrections[i]
  BY <1>1, GrownKeeps DEF CorrectionsTypeOK
<1>3. r \in DOMAIN analyses
  BY <1>1, <1>2 DEF CorrectionsTypeOK
<1>4. i - 1 \in 0..Len(corrections)
  <2>1. Len(corrections) \in Nat /\ i \in 1..Len(corrections)
    BY <1>1, RunsTyped, SeqElement DEF CorrectionsTypeOK
  <2>. QED BY <2>1
<1>5. At(r, i - 1)' = At(r, i - 1)
  BY <1>1, <1>3, <1>4, ViewsKept
<1>. QED BY <1>1, <1>2, <1>3, <1>5 DEF AllLegal

\* A new run is typed and takes no correction away.
LEMMA CreateRunTyped ==
  ASSUME CorrectionsTypeOK, NEW text \in 1..MaxTexts, CreateWholeBookRun(text)
  PROVE  /\ CorrectionsTypeOK' /\ corrections' = corrections
         /\ Grows(analyses, analyses')
<1>1. /\ analyses \in Seq([text : Nat, created : Nat]) /\ clock \in Nat /\ text \in Nat
  <2>1. MaxTexts \in Nat
    BY CorrectionsAssumption
  <2>. QED BY <2>1 DEF CorrectionsTypeOK
<1>2. /\ clock' = clock + 1 /\ corrections' = corrections
      /\ analyses' = Append(analyses, [text |-> text, created |-> clock'])
  BY DEF CreateWholeBookRun
<1>3. analyses' \in Seq([text : Nat, created : Nat]) /\ clock' \in Nat
  <2>1. [text |-> text, created |-> clock'] \in [text : Nat, created : Nat]
    BY <1>1, <1>2
  <2>. QED BY <1>1, <1>2, <2>1
<1>4. Grows(analyses, analyses')
  BY <1>2 DEF Grows
<1>5. DOMAIN analyses \subseteq DOMAIN analyses'
  BY <1>1, <1>3, <1>4, GrownKeeps
<1>. QED BY <1>2, <1>3, <1>4, <1>5 DEF CorrectionsTypeOK

\* A new correction is typed and takes no run away.
LEMMA AppendTyped ==
  ASSUME CorrectionsTypeOK, NEW r \in DOMAIN analyses, NEW c, Appended(r, c)
  PROVE  /\ CorrectionsTypeOK' /\ analyses' = analyses
         /\ corrections' = Append(corrections, c) /\ Grows(corrections, corrections')
<1>1. /\ corrections' = Append(corrections, c) /\ analyses' = analyses /\ clock' \in Nat
      /\ c.run = r /\ Sound(c, Len(corrections) + 1) /\ c \in Correction
  BY DEF Appended, Sound
<1>2. corrections' \in Seq(Correction)
  BY <1>1 DEF CorrectionsTypeOK
<1>3. /\ DOMAIN corrections' = 1..(Len(corrections) + 1)
      /\ corrections'[Len(corrections) + 1] = c
      /\ \A i \in DOMAIN corrections : corrections'[i] = corrections[i]
      /\ DOMAIN corrections = 1..Len(corrections) /\ Len(corrections) \in Nat
  <2>1. corrections \in Seq(Correction)
    BY DEF CorrectionsTypeOK
  <2>. QED BY <1>1, <2>1
<1>4. ASSUME NEW i \in DOMAIN corrections'
      PROVE  corrections'[i].run \in DOMAIN analyses /\ Sound(corrections'[i], i)
  <2>1. CASE i \in DOMAIN corrections
    BY <1>3, <2>1 DEF CorrectionsTypeOK
  <2>2. CASE i = Len(corrections) + 1
    BY <1>1, <1>3, <2>2
  <2>. QED BY <1>3, <2>1, <2>2
<1>. QED BY <1>1, <1>2, <1>4 DEF CorrectionsTypeOK, Grows

\* A new run is the youngest.
LEMMA CreateRunInOrder ==
  ASSUME CorrectionsTypeOK, InOrder, NEW text \in 1..MaxTexts, CreateWholeBookRun(text)
  PROVE  InOrder'
<1>1. /\ analyses \in Seq([text : Nat, created : Nat]) /\ clock \in Nat
      /\ clock' = clock + 1 /\ corrections' = corrections
      /\ analyses' = Append(analyses, [text |-> text, created |-> clock'])
  BY DEF CorrectionsTypeOK, CreateWholeBookRun
<1>2. /\ DOMAIN analyses' = 1..(Len(analyses) + 1) /\ DOMAIN analyses = 1..Len(analyses)
      /\ Len(analyses) \in Nat /\ analyses'[Len(analyses) + 1].created = clock + 1
      /\ \A r \in DOMAIN analyses : analyses'[r] = analyses[r] /\ analyses[r].created \in Nat
  <2> DEFINE new == [text |-> text, created |-> clock']
  <2>1. Len(analyses) \in Nat /\ DOMAIN analyses = 1..Len(analyses)
    BY <1>1
  <2>2. \A r \in DOMAIN analyses : analyses[r].created \in Nat
    BY RunsTyped
  <2>3. new.created = clock + 1
    BY <1>1
  <2>. HIDE DEF new
  <2>4. analyses' = Append(analyses, new)
    BY <1>1 DEF new
  <2>5. Len(Append(analyses, new)) = Len(analyses) + 1
    BY <1>1
  <2>6. /\ DOMAIN analyses' = 1..(Len(analyses) + 1) /\ analyses'[Len(analyses) + 1] = new
        /\ \A r \in DOMAIN analyses : analyses'[r] = analyses[r]
    BY <2>1, <2>4, <2>5
  <2>. QED BY <2>1, <2>2, <2>3, <2>6
<1>3. \A r \in DOMAIN analyses' : r \in DOMAIN analyses \/ r = Len(analyses) + 1
  BY <1>2
<1>4. \A r \in DOMAIN analyses' : analyses'[r].created <= clock'
  BY <1>1, <1>2, <1>3 DEF InOrder
<1>5. ASSUME NEW r \in DOMAIN analyses', NEW q \in DOMAIN analyses', q < r
      PROVE  analyses'[q].created < analyses'[r].created
  <2>1. q \in DOMAIN analyses
    BY <1>2, <1>5
  <2>2. CASE r \in DOMAIN analyses
    BY <1>2, <1>5, <2>1, <2>2 DEF InOrder
  <2>3. CASE r = Len(analyses) + 1
    BY <1>1, <1>2, <2>1, <2>3 DEF InOrder
  <2>. QED BY <1>3, <2>2, <2>3
<1>6. \A i \in DOMAIN corrections' : analyses'[corrections'[i].run].created <= corrections'[i].at
  BY <1>1, <1>2 DEF InOrder, CorrectionsTypeOK
<1>. QED BY <1>4, <1>5, <1>6 DEF InOrder

\* A new correction is of the present.
LEMMA AppendInOrder ==
  ASSUME CorrectionsTypeOK, InOrder, NEW r \in DOMAIN analyses, NEW c, Appended(r, c)
  PROVE  InOrder'
<1>1. /\ corrections' = Append(corrections, c) /\ analyses' = analyses
      /\ clock \in Nat /\ clock' \in Nat /\ clock' >= clock /\ c.run = r /\ c.at = clock'
  BY DEF Appended, CorrectionsTypeOK
<1>2. /\ DOMAIN corrections' = 1..(Len(corrections) + 1)
      /\ corrections'[Len(corrections) + 1] = c
      /\ \A i \in DOMAIN corrections : corrections'[i] = corrections[i]
      /\ DOMAIN corrections = 1..Len(corrections) /\ Len(corrections) \in Nat
  <2>1. corrections \in Seq(Correction)
    BY DEF CorrectionsTypeOK
  <2>. QED BY <1>1, <2>1
<1>3. \A q \in DOMAIN analyses : analyses[q].created \in Nat /\ analyses[q].created <= clock'
  BY <1>1, RunsTyped DEF InOrder
<1>4. ASSUME NEW i \in DOMAIN corrections'
      PROVE  analyses[corrections'[i].run].created <= corrections'[i].at
  <2>1. CASE i \in DOMAIN corrections
    BY <1>2, <2>1 DEF InOrder
  <2>2. CASE i = Len(corrections) + 1
    BY <1>1, <1>2, <1>3, <2>2
  <2>. QED BY <1>2, <2>1, <2>2
<1>. QED BY <1>1, <1>3, <1>4 DEF InOrder

\* Every step keeps the invariant.
LEMMA InvStep ==
  ASSUME CorrectionsInv, [CorrectionsNext]_correctionVars
  PROVE  CorrectionsInv'
<1>1. CorrectionsTypeOK /\ InOrder /\ corrections \in Seq(Correction) /\ Len(corrections) \in Nat
  BY RunsTyped DEF CorrectionsInv, CorrectionsTypeOK
<1>2. ASSUME NEW text \in 1..MaxTexts, CreateWholeBookRun(text) PROVE CorrectionsInv'
  <2>1. CorrectionsTypeOK' /\ corrections' = corrections /\ Grows(analyses, analyses')
    BY <1>1, <1>2, CreateRunTyped
  <2>2. ASSUME NEW i \in DOMAIN corrections, NEW r, corrections'[i].run = r
        PROVE  Legal(At(r, i - 1)', corrections'[i])
    BY <2>1, <2>2, LegalKept
  <2>3. AllLegal'
    BY <2>1, <2>2 DEF AllLegal
  <2>4. InOrder'
    BY <1>1, <1>2, CreateRunInOrder
  <2>. QED BY <2>1, <2>3, <2>4 DEF CorrectionsInv
<1>3. ASSUME NEW r \in DOMAIN analyses, AppendCorrection(Now(r)) PROVE CorrectionsInv'
  <2>1. PICK c : Appended(r, c)
    BY <1>1, <1>3, AppendStep
  <2>2. /\ CorrectionsTypeOK' /\ analyses' = analyses
        /\ corrections' = Append(corrections, c) /\ Grows(corrections, corrections')
    BY <1>1, <2>1, AppendTyped
  <2> DEFINE n == Len(corrections)
  <2>3. \A m \in 0..n : At(r, m)' = At(r, m)
    BY <1>1, <2>2, ViewsKept
  <2>4. Legal(At(r, n), c) /\ c.run = r
    BY <2>1 DEF Appended, Now
  <2>5. ASSUME NEW i \in DOMAIN corrections, NEW q, corrections'[i].run = q
        PROVE  Legal(At(q, i - 1)', corrections'[i])
    BY <2>2, <2>5, LegalKept
  <2>6. ASSUME NEW i, i = n + 1, NEW q, corrections'[i].run = q
        PROVE  Legal(At(q, i - 1)', corrections'[i])
    <3>1. corrections'[i] = c /\ q = r
      BY <1>1, <2>2, <2>4, <2>6
    <3>2. i - 1 = n /\ n \in 0..n
      BY <1>1, <2>6
    <3>3. At(r, i - 1)' = At(r, n)
      BY <2>3, <3>2
    <3>. QED BY <2>4, <3>1, <3>3
  <2>7. \A i \in DOMAIN corrections' : i \in DOMAIN corrections \/ i = n + 1
    BY <1>1, <2>2
  <2>8. AllLegal'
    BY <2>5, <2>6, <2>7 DEF AllLegal
  <2>9. InOrder'
    BY <1>1, <2>1, AppendInOrder
  <2>. QED BY <2>2, <2>8, <2>9 DEF CorrectionsInv
<1>4. CASE UNCHANGED correctionVars
  <2>1. CorrectionsTypeOK' /\ corrections' = corrections /\ analyses' = analyses
    BY <1>1, <1>4 DEF correctionVars, CorrectionsTypeOK
  <2>2. ASSUME NEW i \in DOMAIN corrections, NEW r, corrections'[i].run = r
        PROVE  Legal(At(r, i - 1)', corrections'[i])
    BY <2>1, <2>2, LegalKept
  <2>3. AllLegal'
    BY <2>1, <2>2 DEF AllLegal
  <2>4. InOrder'
    BY <1>1, <1>4 DEF correctionVars, InOrder
  <2>. QED BY <2>1, <2>3, <2>4 DEF CorrectionsInv
<1>. QED BY <1>2, <1>3, <1>4 DEF CorrectionsNext

\* The runs and the corrections stay of the types the code gives them, and
\* every correction of an entity, a place and a person it may name.
THEOREM CorrectionsTyped == CorrectionsSpec => []CorrectionsInv
<1>1. CorrectionsInit => CorrectionsInv
  <2>1. SUFFICES ASSUME CorrectionsInit PROVE CorrectionsInv
    OBVIOUS
  <2>2. analyses = <<>> /\ corrections = <<>> /\ clock = 0
    BY <2>1 DEF CorrectionsInit
  <2>. QED BY <2>2 DEF CorrectionsInv, CorrectionsTypeOK, AllLegal, InOrder
<1>2. CorrectionsInv /\ [CorrectionsNext]_correctionVars => CorrectionsInv'
  BY InvStep
<1>. QED BY <1>1, <1>2, PTL DEF CorrectionsSpec

-----------------------------------------------------------------------------
(* A correction of another run, made later, is in no view of an earlier one. *)
LEMMA Isolated ==
  ASSUME CorrectionsInv
  PROVE  RunsAreIsolated
<1>1. SUFFICES ASSUME corrections # <<>>, NEW r \in DOMAIN analyses,
                      r # corrections[Len(corrections)].run,
                      analyses[r].created < corrections[Len(corrections)].at
               PROVE  Differing(Evidence(At(r, Len(corrections) - 1)), Evidence(At(r, Len(corrections)))) = {}
  BY DEF RunsAreIsolated
<1> DEFINE i == Len(corrections)
<1>2. CorrectionsTypeOK /\ i \in Nat \ {0} /\ i \in DOMAIN corrections
  BY <1>1, RunsTyped DEF CorrectionsInv, CorrectionsTypeOK
<1>3. corrections[i].at \in Nat /\ analyses[r].created \in Nat
  BY <1>2, RunsTyped DEF CorrectionsTypeOK, Sound, Correction
<1>4. ~(corrections[i].at <= analyses[r].created)
  BY <1>1, <1>3
<1>5. InScope(r, i) = InScope(r, i - 1)
  <2>1. i \notin InScope(r, i)
    BY <1>1, <1>4 DEF InScope
  <2>. HIDE DEF i
  <2>2. \A j \in Nat : j \in 1..i <=> j \in 1..(i - 1) \/ j = i
    BY <1>2
  <2>3. InScope(r, i) \subseteq Nat /\ InScope(r, i - 1) \subseteq Nat
    BY DEF InScope
  <2>4. i - 1 < i
    BY <1>2
  <2>5. \A j \in Nat : j \in InScope(r, i) <=> j \in InScope(r, i - 1)
    BY <2>1, <2>2, <2>4, <1>2 DEF InScope
  <2>. QED BY <2>3, <2>5
<1>6. At(r, i) = At(r, i - 1)
  BY <1>5 DEF At
<1>. QED BY <1>6 DEF Differing

\* A correction changes nothing that an earlier run shows.
THEOREM EarlierRunsUnchanged == CorrectionsSpec => []RunsAreIsolated
<1>1. CorrectionsInv => RunsAreIsolated
  BY Isolated
<1>. QED BY <1>1, CorrectionsTyped, PTL

-----------------------------------------------------------------------------
(* What a run shows with one more correction of its own, and without it.   *)

Grown(u, v, c, i) ==
  /\ i \in Nat \ {0} /\ ViewTyped(u, i) /\ ViewTyped(v, i - 1)
  /\ u.run = v.run /\ c.run = v.run
  /\ DOMAIN u.rows = DOMAIN v.rows \cup {i} /\ u.rows[i] = c
  /\ \A j \in DOMAIN v.rows : u.rows[j] = v.rows[j]
  /\ Legal(v, c)

\* The last correction, in what its run showed without it and with it.
LEMMA LastGrown ==
  ASSUME CorrectionsInv, corrections # <<>>, NEW i, i = Len(corrections),
         NEW r, r = corrections[i].run
  PROVE  Grown(At(r, i), At(r, i - 1), corrections[i], i)
<1>1. CorrectionsTypeOK /\ AllLegal
  BY DEF CorrectionsInv
<1>2. i \in Nat \ {0} /\ i \in DOMAIN corrections /\ i \in 0..Len(corrections) /\ i - 1 \in 0..Len(corrections)
  BY <1>1 DEF CorrectionsTypeOK
<1>3. r \in DOMAIN analyses
  BY <1>1, <1>2 DEF CorrectionsTypeOK
<1>4. ViewTyped(At(r, i), i) /\ ViewTyped(At(r, i - 1), i - 1)
  BY <1>1, <1>2, <1>3, ViewsTyped
<1>5. InScope(r, i) = InScope(r, i - 1) \cup {i}
  <2>1. 1..i = 1..(i - 1) \cup {i}
    BY <1>2
  <2>. QED BY <2>1 DEF InScope
<1>6. Legal(At(r, i - 1), corrections[i])
  BY <1>1, <1>2, <1>3 DEF AllLegal
<1>7. /\ At(r, i).run = r /\ At(r, i - 1).run = r
      /\ DOMAIN At(r, i).rows = InScope(r, i) /\ DOMAIN At(r, i - 1).rows = InScope(r, i - 1)
      /\ \A j \in InScope(r, i) : At(r, i).rows[j] = corrections[j]
      /\ \A j \in InScope(r, i - 1) : At(r, i - 1).rows[j] = corrections[j]
  BY InScopeIs
<1>. QED BY <1>2, <1>4, <1>5, <1>6, <1>7 DEF Grown

\* The two views, and the correction that is between them.
LEMMA GrownTyped ==
  ASSUME NEW u, NEW v, NEW c, NEW i, Grown(u, v, c, i)
  PROVE  /\ Numbered(u) /\ Numbered(v) /\ i \in Nat \ {0} /\ i \notin DOMAIN v.rows
         /\ \A j \in DOMAIN v.rows : j \in Nat \ {0} /\ j < i
         /\ v.run \in Nat \ {0} /\ u.run = v.run /\ c.run = v.run
         /\ Sound(c, i) /\ c \in Correction /\ DOMAIN v.rows \subseteq DOMAIN u.rows
         /\ \A j \in DOMAIN v.rows : u.rows[j] = v.rows[j] /\ Sound(v.rows[j], j)
<1>1. Numbered(u) /\ Numbered(v)
  BY ViewNumbered DEF Grown
<1>2. i \in Nat \ {0} /\ DOMAIN v.rows \subseteq 1..(i - 1)
  BY DEF Grown, ViewTyped
<1>3. \A j \in DOMAIN v.rows : j \in Nat \ {0} /\ j < i
  BY <1>2
<1>4. Sound(c, i) /\ c \in Correction
  <2>1. i \in DOMAIN u.rows /\ u.rows[i] = c
    BY DEF Grown
  <2>2. \A j \in DOMAIN u.rows : Sound(u.rows[j], j)
    BY DEF Grown, ViewTyped
  <2>3. Sound(c, i)
    BY <2>1, <2>2
  <2>. QED BY <2>3 DEF Sound
<1>5. v.run \in Nat \ {0} /\ \A j \in DOMAIN v.rows : Sound(v.rows[j], j)
  BY DEF Grown, ViewTyped
<1>6. /\ u.run = v.run /\ c.run = v.run /\ DOMAIN v.rows \subseteq DOMAIN u.rows
      /\ \A j \in DOMAIN v.rows : u.rows[j] = v.rows[j]
  BY DEF Grown
<1>7. i \notin DOMAIN v.rows
  BY <1>2, <1>3
<1>. QED BY <1>1, <1>2, <1>3, <1>4, <1>5, <1>6, <1>7

\* What is not of the correction's row, or of another category, is read as before.
LEMMA GrownReads ==
  ASSUME NEW u, NEW v, NEW c, NEW i, Grown(u, v, c, i), NEW k, NEW cs
  PROVE  /\ c.key = k /\ c.category \in cs => About(u, k, cs) = About(v, k, cs) \cup {i}
         /\ c.key # k \/ c.category \notin cs =>
              /\ About(u, k, cs) = About(v, k, cs)
              /\ Applicable(u, k, cs) = Applicable(v, k, cs)
<1>1. About(u, k, cs) =
        About(v, k, cs) \cup (IF c.key = k /\ c.category \in cs THEN {i} ELSE {})
  BY GrownTyped DEF Grown, About
<1>2. About(v, k, cs) \subseteq DOMAIN v.rows
  BY DEF About
<1>3. LatestRevised(u, About(v, k, cs)) = LatestRevised(v, About(v, k, cs))
  <2> DEFINE S == About(v, k, cs)
  <2>. HIDE DEF S
  <2>1. \A j \in S : u.rows[j] = v.rows[j]
    BY <1>2, GrownTyped DEF S
  <2>2. LatestRevised(u, S) = LatestRevised(v, S)
    BY <2>1 DEF LatestRevised
  <2>. QED BY <2>2 DEF S
<1>. QED BY <1>1, <1>3 DEF Applicable

\* Effects that were there before leave what they left.
LEMMA GrownItem ==
  ASSUME NEW u, NEW v, NEW c, NEW i, Grown(u, v, c, i), NEW k, NEW effects \in SUBSET DOMAIN v.rows
  PROVE  Item(u, k, effects) = Item(v, k, effects)
<1>1. /\ u.run = v.run /\ Numbered(v)
      /\ \A j \in effects : u.rows[j] = v.rows[j]
  BY GrownTyped
<1> DEFINE Moves(w) == {j \in effects : w.rows[j].category = "boundary"}
           Labels(w) == {j \in effects : w.rows[j].category = "label"}
           Parent(w) == IF Moves(w) # {} THEN PatchFor(w.rows[Latest(Moves(w))], w.run).to
                        ELSE IF k \in Scene THEN Row(w.run, ParentOf[k]) ELSE Story
<1>2. \A w : Item(w, k, effects) = [parent |-> Parent(w), label |-> Latest(Labels(w)),
                                    last |-> Latest(effects)]
  BY DEF Item
<1>3. Moves(u) = Moves(v) /\ Labels(u) = Labels(v)
  BY <1>1
<1>4. Moves(v) # {} => Latest(Moves(v)) \in effects
  <2>1. Moves(v) \in SUBSET DOMAIN v.rows
    OBVIOUS
  <2>2. Moves(v) # {} => Latest(Moves(v)) \in Moves(v)
    <3>. HIDE DEF Moves
    <3>. QED BY <1>1, <2>1, LatestRow
  <2>. QED BY <2>2
<1>5. Parent(u) = Parent(v)
  <2>. HIDE DEF Moves
  <2>. QED BY <1>1, <1>3, <1>4
<1>. HIDE DEF Moves, Labels, Parent
<1>. QED BY <1>2, <1>3, <1>5

\* The effects on a piece are corrections of the view.
LEMMA EffectsNumbered ==
  ASSUME NEW v, Numbered(v), NEW k
  PROVE  /\ BoundaryState(v, k).onSource \in SUBSET DOMAIN v.rows
         /\ BoundaryState(v, k).onAdded \in SUBSET DOMAIN v.rows
         /\ BoundaryState(v, k).onSource \subseteq OpsOf(v, k)
         /\ BoundaryState(v, k).onAdded \subseteq OpsOf(v, k)
<1>1. OpsOf(v, k) \subseteq DOMAIN v.rows
  BY OpsNumbered
<1>2. /\ BoundaryState(v, k).onSource \subseteq OpsOf(v, k)
      /\ BoundaryState(v, k).onAdded \subseteq OpsOf(v, k)
  BY BoundaryStateOK DEF StateOK
<1>. QED BY <1>1, <1>2

\* A piece that the correction is not about stays as it was.
LEMMA GrownPiece ==
  ASSUME NEW u, NEW v, NEW c, NEW i, Grown(u, v, c, i), NEW k,
         c.key # k \/ c.category \notin {"boundary", "label"}
  PROVE  /\ BoundaryState(u, k) = BoundaryState(v, k)
         /\ Standing(u, k) = Standing(v, k)
         /\ \A id : id[2] = k => Projected(u, id) = Projected(v, id)
<1>1. OpsOf(u, k) = OpsOf(v, k)
  BY GrownReads DEF OpsOf, StructureOperations
<1>2. /\ Numbered(u) /\ Numbered(v) /\ u.run = v.run
      /\ \A j \in DOMAIN v.rows : u.rows[j] = v.rows[j]
  BY GrownTyped
<1>3. \A j \in OpsOf(u, k) : u.rows[j] = v.rows[j]
  BY <1>1, <1>2, OpsNumbered
<1>4. BoundaryState(u, k) = BoundaryState(v, k)
  BY <1>1, <1>2, <1>3, SameState
<1>5. Standing(u, k) = Standing(v, k)
  BY <1>2, <1>4 DEF Standing
<1>6. ASSUME NEW id, id[2] = k PROVE Projected(u, id) = Projected(v, id)
  <2> DEFINE effects == IF id[3] = 0 THEN BoundaryState(v, k).onSource ELSE BoundaryState(v, k).onAdded
  <2>1. Projected(u, id) = Item(u, k, effects) /\ Projected(v, id) = Item(v, k, effects)
    BY <1>4, <1>6 DEF Projected
  <2>2. effects \in SUBSET DOMAIN v.rows
    BY <1>2, EffectsNumbered
  <2>. HIDE DEF effects
  <2>. QED BY <2>1, <2>2, GrownItem
<1>. QED BY <1>4, <1>5, <1>6

\* What stands of a piece carries its key.
LEMMA StandingOf ==
  ASSUME NEW v, Numbered(v), NEW k, NEW id \in Standing(v, k)
  PROVE  id[1] = v.run /\ id[2] = k
  BY DEF Standing, Row, Added

\* Nor does anything of the structure change by a correction of another kind.
LEMMA GrownPieces ==
  ASSUME NEW u, NEW v, NEW c, NEW i, Grown(u, v, c, i), NEW ks,
         c.key \notin ks \/ c.category \notin {"boundary", "label"}
  PROVE  Pieces(u, ks) = Pieces(v, ks)
<1>1. \A k \in ks : c.key # k \/ c.category \notin {"boundary", "label"}
  OBVIOUS
<1>2. \A k \in ks : Standing(u, k) = Standing(v, k)
  BY <1>1, GrownPiece
<1>3. \A k \in ks : \A id \in Standing(v, k) : Projected(u, id) = Projected(v, id)
  <2>1. TAKE k \in ks
  <2>2. TAKE id \in Standing(v, k)
  <2>3. id[2] = k
    BY GrownTyped, StandingOf
  <2>. QED BY <1>1, <2>3, GrownPiece
<1>4. UNION {Standing(u, k) : k \in ks} = UNION {Standing(v, k) : k \in ks}
  BY <1>2
<1>5. \A id \in UNION {Standing(v, k) : k \in ks} : Projected(u, id) = Projected(v, id)
  BY <1>3
<1>. QED BY <1>4, <1>5 DEF Pieces

\* The structure stays, and with it where mentions and lines are shown.
LEMMA GrownStructure ==
  ASSUME NEW u, NEW v, NEW c, NEW i, Grown(u, v, c, i), c.category \notin {"boundary", "label"}
  PROVE  /\ Pieces(u, Chapter) = Pieces(v, Chapter) /\ Scenes(u) = Scenes(v)
         /\ StructureEvidence(u, Pieces(u, Chapter), Scenes(u))
              = StructureEvidence(v, Pieces(v, Chapter), Scenes(v))
         /\ \A es : InView(u, Scenes(u), es) = InView(v, Scenes(v), es)
<1>1. Pieces(u, Chapter) = Pieces(v, Chapter) /\ Pieces(u, Scene) = Pieces(v, Scene)
  BY GrownPieces
<1>2. Scenes(u) = Scenes(v)
  BY <1>1 DEF Scenes, ActiveChapters
<1>3. u.run = v.run
  BY GrownTyped
<1>4. \A es, scenes : InView(u, scenes, es) = InView(v, scenes, es)
  BY <1>3 DEF InView
<1>5. \A chapters, scenes : StructureEvidence(u, chapters, scenes) = StructureEvidence(v, chapters, scenes)
  BY <1>3 DEF StructureEvidence
<1>. QED BY <1>1, <1>2, <1>4, <1>5

-----------------------------------------------------------------------------
(* When the row of a scene is shown, and where.                            *)

StandsIn(v, k, p) ==
  \/ BoundaryState(v, k).source /\ p = Row(v.run, k)
  \/ BoundaryState(v, k).added /\ p = Added(v.run, k, BoundaryState(v, k).root)

ParentIn(v, s) == Projected(v, Row(v.run, s)).parent

\* A chapter is active when it stands as its row or beside it.
LEMMA ActiveIs ==
  ASSUME NEW v, NEW p
  PROVE  p \in ActiveChapters(v) <=> \E k \in Chapter : StandsIn(v, k, p)
<1>1. \A k : p \in Standing(v, k) <=> StandsIn(v, k, p)
  BY DEF Standing, StandsIn
<1>2. ActiveChapters(v) = UNION {Standing(v, k) : k \in Chapter}
  BY DEF ActiveChapters, Pieces
<1>. QED BY <1>1, <1>2

\* The row of a scene is shown when it stands and its parent does.
LEMMA SceneShown ==
  ASSUME NEW v, Numbered(v), NEW s \in Scene
  PROVE  /\ Row(v.run, s) \in DOMAIN Scenes(v) <=>
              BoundaryState(v, s).source /\ ParentIn(v, s) \in ActiveChapters(v)
         /\ Row(v.run, s) \in DOMAIN Scenes(v) => Scenes(v)[Row(v.run, s)].parent = ParentIn(v, s)
<1> DEFINE id == Row(v.run, s)
           a == Pieces(v, Scene)
<1>1. id \in DOMAIN a <=> BoundaryState(v, s).source
  <2>1. DOMAIN a = UNION {Standing(v, k) : k \in Scene}
    BY DEF Pieces
  <2>2. \A k \in Scene : id \in Standing(v, k) <=> k = s /\ BoundaryState(v, s).source
    <3>1. TAKE k \in Scene
    <3>2. BoundaryState(v, k).added => BoundaryState(v, k).root # 0
      BY BoundaryStateOK DEF StateOK
    <3>. QED BY <3>2 DEF Standing, Row, Added
  <2>. HIDE DEF a, id
  <2>. QED BY <2>1, <2>2
<1>2. id \in DOMAIN a => a[id].parent = ParentIn(v, s)
  BY DEF Pieces, ParentIn
<1>3. Scenes(v) = Under(a, ActiveChapters(v))
  BY DEF Scenes
<1>4. /\ DOMAIN Scenes(v) = {x \in DOMAIN a : a[x].parent \in ActiveChapters(v)}
      /\ \A x \in DOMAIN Scenes(v) : Scenes(v)[x] = a[x]
  <2>. HIDE DEF a
  <2> DEFINE act == ActiveChapters(v)
             sc == Scenes(v)
  <2>1. sc = Under(a, act)
    BY <1>3
  <2>2. DOMAIN Under(a, act) = {x \in DOMAIN a : a[x].parent \in act}
    BY UnderIs
  <2>3. \A x \in DOMAIN Under(a, act) : Under(a, act)[x] = a[x]
    BY UnderIs
  <2>. HIDE DEF act, sc
  <2>4. DOMAIN sc = {x \in DOMAIN a : a[x].parent \in act} /\ \A x \in DOMAIN sc : sc[x] = a[x]
    BY <2>1, <2>2, <2>3
  <2>. QED BY <2>4 DEF act, sc
<1>. SUFFICES /\ id \in DOMAIN Scenes(v) <=>
                   BoundaryState(v, s).source /\ ParentIn(v, s) \in ActiveChapters(v)
              /\ id \in DOMAIN Scenes(v) => Scenes(v)[id].parent = ParentIn(v, s)
  OBVIOUS
<1>. HIDE DEF a, id
<1>. QED BY <1>1, <1>2, <1>4

\* The parents that the rows of a view name were there before their rows.
LEMMA ParentEarlier ==
  ASSUME NEW v, NEW n, ViewTyped(v, n), NEW s \in Scene
  PROVE  ParentIn(v, s)[3] \in Nat /\ ParentIn(v, s)[3] <= n
<1> DEFINE effects == BoundaryState(v, s).onSource
           moves == {i \in effects : v.rows[i].category = "boundary"}
<1>1. Numbered(v) /\ n \in Nat /\ v.run \in Nat \ {0}
  BY ViewNumbered DEF ViewTyped
<1>2. effects \in SUBSET DOMAIN v.rows
  BY <1>1, EffectsNumbered
<1>3. ParentIn(v, s) = Item(v, s, effects).parent
  <2>1. Row(v.run, s)[2] = s /\ Row(v.run, s)[3] = 0
    BY DEF Row
  <2>. QED BY <2>1 DEF ParentIn, Projected
<1>4. Item(v, s, effects).parent = IF moves # {} THEN PatchFor(v.rows[Latest(moves)], v.run).to
                                   ELSE Row(v.run, ParentOf[s])
  BY DEF Item
<1>5. CASE moves = {}
  BY <1>1, <1>3, <1>4, <1>5 DEF Row
<1>6. CASE moves # {}
  <2> DEFINE c == v.rows[Latest(moves)]
  <2>1. Latest(moves) \in DOMAIN v.rows
    <3>1. moves \in SUBSET DOMAIN v.rows
      BY <1>2
    <3>. HIDE DEF moves
    <3>. QED BY <1>1, <1>6, <3>1, LatestRow
  <2>2. Sound(c, Latest(moves)) /\ Latest(moves) \in Nat /\ Latest(moves) <= n
    <3>. HIDE DEF moves
    <3>. QED BY <1>1, <2>1 DEF ViewTyped
  <2>3. c \in Correction /\ c.to \in IdOf(c.run) /\ c.to[3] \in Nat /\ c.to[3] < Latest(moves)
    <3>. HIDE DEF moves
    <3>1. c.to \in IdOf(c.run) /\ c \in Correction /\ c.to[3] < Latest(moves)
      BY <2>2 DEF Sound
    <3>. QED BY <3>1 DEF IdOf
  <2>4. PatchFor(c, v.run).to = Remapped(c.to, c.run, v.run)
    BY <2>3, PatchFields
  <2>5. Remapped(c.to, c.run, v.run)[3] = c.to[3]
    <3>. HIDE DEF c
    <3>. QED BY DEF Remapped, Row
  <2>6. ParentIn(v, s)[3] = c.to[3]
    <3>. HIDE DEF moves
    <3>. QED BY <1>3, <1>4, <1>6, <2>4, <2>5
  <2>. HIDE DEF c, moves
  <2>. QED BY <1>1, <2>2, <2>3, <2>6
<1>. QED BY <1>5, <1>6

SameScene(u, v, s) ==
  /\ Row(u.run, s) \in DOMAIN Scenes(u) <=> Row(v.run, s) \in DOMAIN Scenes(v)
  /\ Row(v.run, s) \in DOMAIN Scenes(v) =>
       Scenes(u)[Row(u.run, s)].parent = Scenes(v)[Row(v.run, s)].parent

\* Mentions and lines of scenes that are shown as before are shown as before.
LEMMA SameView ==
  ASSUME NEW u, NEW v, u.run = v.run, NEW es \in SUBSET (Mention \cup Line),
         \A e \in es : SameScene(u, v, SceneOf[e])
  PROVE  InView(u, Scenes(u), es) = InView(v, Scenes(v), es)
<1> DEFINE In(w) == {e \in es : Row(w.run, SceneOf[e]) \in DOMAIN Scenes(w)}
           Pair(w, e) == <<e, Local(w.run, Scenes(w)[Row(w.run, SceneOf[e])].parent)>>
<1>1. /\ InView(u, Scenes(u), es) = {Pair(u, e) : e \in In(u)}
      /\ InView(v, Scenes(v), es) = {Pair(v, e) : e \in In(v)}
  BY DEF InView
<1>2. In(u) = In(v) /\ \A e \in In(v) : Pair(u, e) = Pair(v, e)
  BY DEF SameScene
<1>. HIDE DEF In, Pair
<1>. QED BY <1>1, <1>2

\* What a scene's row shows depends on itself and on its parent.
LEMMA SceneSame ==
  ASSUME NEW u, NEW v, Numbered(u), Numbered(v), u.run = v.run, NEW s \in Scene,
         BoundaryState(u, s).source = BoundaryState(v, s).source,
         ParentIn(u, s) = ParentIn(v, s),
         BoundaryState(v, s).source =>
           (ParentIn(v, s) \in ActiveChapters(u) <=> ParentIn(v, s) \in ActiveChapters(v))
  PROVE  SameScene(u, v, s)
  BY SceneShown DEF SameScene

\* The operation that the correction adds to its own piece.
LEMMA GrownOwn ==
  ASSUME NEW u, NEW v, NEW c, NEW i, Grown(u, v, c, i), c.category \in {"boundary", "label"}
  PROVE  /\ BoundaryState(u, c.key) = Replayed(c, c.key, BoundaryState(v, c.key), i)
         /\ OpsOf(v, c.key) \subseteq Nat \ {0} /\ i \notin OpsOf(v, c.key)
         /\ StateOK(BoundaryState(v, c.key), OpsOf(v, c.key), Latest(OpsOf(v, c.key)))
<1>1. OpsOf(u, c.key) = OpsOf(v, c.key) \cup {i}
  BY GrownReads DEF OpsOf, StructureOperations
<1>2. /\ Numbered(u) /\ Numbered(v) /\ i \in Nat \ {0} /\ i \notin DOMAIN v.rows
      /\ \A j \in DOMAIN v.rows : u.rows[j] = v.rows[j] /\ j < i
  BY GrownTyped
<1>3. OpsOf(v, c.key) \subseteq DOMAIN v.rows /\ OpsOf(v, c.key) \subseteq Nat \ {0}
  BY <1>2, OpsNumbered
<1>4. u.rows[i] = c
  BY DEF Grown
<1>5. BoundaryState(u, c.key) = Replayed(u.rows[i], c.key, BoundaryState(v, c.key), i)
  BY <1>1, <1>2, <1>3, GrownState
<1>6. StateOK(BoundaryState(v, c.key), OpsOf(v, c.key), Latest(OpsOf(v, c.key)))
  BY <1>2, BoundaryStateOK
<1>. QED BY <1>2, <1>3, <1>4, <1>5, <1>6

\* A label is no reason to show a piece elsewhere, or not at all.
LEMMA LabelReplayed ==
  ASSUME NEW c, NEW k, NEW st, NEW i, c.op = "label", st.source \in BOOLEAN, st.added \in BOOLEAN
  PROVE  LET new == Replayed(c, k, st, i) IN
         /\ new.source = st.source /\ new.root = st.root /\ new.added = st.added
         /\ new.onSource \in {st.onSource, st.onSource \cup {i}}
  BY DEF Replayed

\* A label puts nothing elsewhere.
LEMMA LabelItem ==
  ASSUME NEW u, NEW v, NEW c, NEW i, Grown(u, v, c, i), c.category = "label",
         NEW k, NEW before \in SUBSET DOMAIN v.rows,
         NEW after, after = before \/ after = before \cup {i}
  PROVE  Item(u, k, after).parent = Item(v, k, before).parent
<1> DEFINE Moves(w, is) == {j \in is : w.rows[j].category = "boundary"}
           Parent(w, is) == IF Moves(w, is) # {} THEN PatchFor(w.rows[Latest(Moves(w, is))], w.run).to
                            ELSE IF k \in Scene THEN Row(w.run, ParentOf[k]) ELSE Story
<1>1. Item(u, k, after).parent = Parent(u, after) /\ Item(v, k, before).parent = Parent(v, before)
  BY DEF Item
<1>2. u.rows[i].category = "label" /\ u.run = v.run /\ Numbered(v)
      /\ \A j \in before : u.rows[j] = v.rows[j]
  BY GrownTyped DEF Grown
<1>3. Moves(u, after) = Moves(v, before)
  BY <1>2
<1>4. Moves(v, before) # {} => Latest(Moves(v, before)) \in before
  <2>1. Moves(v, before) \in SUBSET DOMAIN v.rows /\ Moves(v, before) \subseteq before
    OBVIOUS
  <2>. HIDE DEF Moves
  <2>. QED BY <1>2, <2>1, LatestRow
<1>5. Parent(u, after) = Parent(v, before)
  <2>. HIDE DEF Moves
  <2>. QED BY <1>2, <1>3, <1>4
<1>. HIDE DEF Parent
<1>. QED BY <1>1, <1>5

\* Every scene is shown where it was.
LEMMA LabelScenes ==
  ASSUME NEW u, NEW v, NEW c, NEW i, Grown(u, v, c, i), c.category = "label", NEW s \in Scene
  PROVE  SameScene(u, v, s)
<1>1. /\ Numbered(u) /\ Numbered(v) /\ u.run = v.run
  BY GrownTyped
<1>2. c.op = "label"
  BY DEF Grown, Legal
<1> DEFINE old(k) == BoundaryState(v, k)
           new(k) == BoundaryState(u, k)
<1>3. ASSUME NEW k
      PROVE  /\ new(k).source = old(k).source /\ new(k).root = old(k).root
             /\ new(k).added = old(k).added
             /\ new(k).onSource \in {old(k).onSource, old(k).onSource \cup {i}}
  <2>1. CASE k # c.key
    BY <2>1, GrownPiece
  <2>2. CASE k = c.key
    <3>1. new(k) = Replayed(c, k, old(k), i)
      BY <2>2, GrownOwn
    <3>2. old(k).source \in BOOLEAN /\ old(k).added \in BOOLEAN
      BY <1>1, BoundaryStateOK DEF StateOK
    <3>. HIDE DEF old, new
    <3>. QED BY <1>2, <3>1, <3>2, LabelReplayed
  <2>. QED BY <2>1, <2>2
<1>4. \A p : p \in ActiveChapters(u) <=> p \in ActiveChapters(v)
  <2>1. \A k, p : StandsIn(u, k, p) <=> StandsIn(v, k, p)
    BY <1>1, <1>3 DEF StandsIn
  <2>. QED BY <2>1, ActiveIs
<1>5. ParentIn(u, s) = ParentIn(v, s)
  <2>1. \A w : ParentIn(w, s) = Item(w, s, BoundaryState(w, s).onSource).parent
    BY DEF ParentIn, Projected, Row
  <2>2. old(s).onSource \in SUBSET DOMAIN v.rows
    BY <1>1, EffectsNumbered
  <2>3. new(s).onSource \in {old(s).onSource, old(s).onSource \cup {i}}
    BY <1>3
  <2>4. Item(u, s, new(s).onSource).parent = Item(v, s, old(s).onSource).parent
    <3> DEFINE before == old(s).onSource
               after == new(s).onSource
    <3>1. before \in SUBSET DOMAIN v.rows /\ (after = before \/ after = before \cup {i})
      BY <2>2, <2>3
    <3>. HIDE DEF before, after
    <3>2. Item(u, s, after).parent = Item(v, s, before).parent
      BY <3>1, LabelItem
    <3>. QED BY <3>2 DEF before, after
  <2>. QED BY <2>1, <2>4
<1>. QED BY <1>1, <1>3, <1>4, <1>5, SceneSame

\* What a boundary does to its own piece, on the side it is not about.
LEMMA BoundaryReplayed ==
  ASSUME NEW u, NEW v, NEW c, NEW i, Grown(u, v, c, i), c.category = "boundary"
  PROVE  LET k == c.key
             old == BoundaryState(v, k)
             new == BoundaryState(u, k) IN
         /\ c.target # Row(v.run, k) =>
              /\ new.source = old.source /\ new.onSource = old.onSource
              /\ new.root = old.root /\ old.root # 0 /\ c.target = Added(v.run, k, old.root)
         /\ c.supersedes = 0 /\ c.op = "add" =>
              /\ c.target = Row(v.run, k) /\ new.source = old.source
              /\ old.root = 0 => new.onSource = old.onSource /\ new.root = i /\ ~old.added
              /\ old.root # 0 => new.root = old.root /\ new.added = old.added
         /\ c.target = Row(v.run, k) =>
              \/ new.root = i /\ ~old.added
              \/ new.root = old.root /\ new.added = old.added
<1> DEFINE k == c.key
           old == BoundaryState(v, k)
           new == BoundaryState(u, k)
           ops == OpsOf(v, k)
           onTarget == IF c.target = Row(v.run, k) THEN old.onSource ELSE old.onAdded
<1>1. /\ new = Replayed(c, k, old, i) /\ ops \subseteq Nat \ {0}
      /\ StateOK(old, ops, Latest(ops))
  BY GrownOwn
<1>2. /\ c.run = v.run /\ c.target \in Targets(v, k)
      /\ c.supersedes = BranchCurrent(v, k, c.target)
  BY DEF Grown, Legal
<1>3. c.supersedes = Latest(onTarget)
  BY <1>2 DEF BranchCurrent
<1>4. onTarget \in SUBSET DOMAIN v.rows /\ Numbered(v)
  <2>1. Numbered(v)
    BY GrownTyped
  <2>2. old.onSource \in SUBSET DOMAIN v.rows /\ old.onAdded \in SUBSET DOMAIN v.rows
    BY <2>1, EffectsNumbered
  <2>. HIDE DEF old
  <2>. QED BY <2>1, <2>2
<1>5. /\ c.supersedes \in onTarget \cup {0}
      /\ onTarget # {} => c.supersedes \in onTarget
  <2>. HIDE DEF onTarget
  <2>1. Latest(onTarget) \in onTarget \cup {0} /\ (onTarget # {} => Latest(onTarget) \in onTarget)
    BY <1>4, LatestRow
  <2>. QED BY <1>3, <2>1
<1>6. /\ old.onSource \cap old.onAdded = {} /\ 0 \notin old.onSource /\ 0 \notin old.onAdded
      /\ (old.root # 0 <=> old.onAdded # {}) /\ (old.added => old.root # 0)
      /\ (old.onSource = {} => old.source) /\ old.source \in BOOLEAN
  BY <1>1 DEF StateOK
<1>7. c.target = Row(v.run, k) \/ (old.root # 0 /\ c.target = Added(v.run, k, old.root))
  BY <1>2 DEF Targets
<1> DEFINE toAdded == \/ c.supersedes \in old.onAdded
                      \/ c.supersedes \notin old.onSource /\ old.root # 0 /\ c.target # Row(c.run, k)
           makesRoot == c.op = "add" /\ ~toAdded /\ old.source /\ old.root = 0
<1>8. /\ toAdded \/ makesRoot => new.source = old.source /\ new.onSource = old.onSource
      /\ new.root = IF makesRoot THEN i ELSE old.root
      /\ ~toAdded /\ ~makesRoot => new.added = old.added
      /\ ~toAdded /\ ~makesRoot /\ c.op = "add" => new.source = TRUE
  <2>. HIDE DEF old, new
  <2>. QED BY <1>1 DEF Replayed
<1>. SUFFICES
         /\ c.target # Row(v.run, k) =>
              /\ new.source = old.source /\ new.onSource = old.onSource
              /\ new.root = old.root /\ old.root # 0 /\ c.target = Added(v.run, k, old.root)
         /\ c.supersedes = 0 /\ c.op = "add" =>
              /\ c.target = Row(v.run, k) /\ new.source = old.source
              /\ old.root = 0 => new.onSource = old.onSource /\ new.root = i /\ ~old.added
              /\ old.root # 0 => new.root = old.root /\ new.added = old.added
         /\ c.target = Row(v.run, k) =>
              \/ new.root = i /\ ~old.added
              \/ new.root = old.root /\ new.added = old.added
  OBVIOUS
<1>. HIDE DEF old, new
<1>9. c.target # Row(v.run, k) => toAdded /\ ~makesRoot
  BY <1>5, <1>6, <1>7
<1>10. c.target = Row(v.run, k) => ~toAdded
  BY <1>2, <1>5, <1>6
<1>11. c.supersedes = 0 /\ c.op = "add" =>
         /\ c.target = Row(v.run, k) /\ ~toAdded /\ old.source
         /\ makesRoot <=> old.root = 0
  <2>1. c.supersedes = 0 => c.target = Row(v.run, k) /\ old.onSource = {}
    BY <1>5, <1>6, <1>7
  <2>. QED BY <1>2, <1>6, <1>10, <2>1
<1>12. makesRoot => ~old.added
  BY <1>6
<1>. HIDE DEF toAdded, makesRoot
<1>. QED BY <1>7, <1>8, <1>9, <1>10, <1>11, <1>12

\* AffectedScenes, of two views.
Touched(u, v, c) ==
  IF c.supersedes = 0 /\ c.op = "add" THEN {}
  ELSE (IF c.target = Row(c.run, c.key)
        THEN {s \in Scene : c.key \in {s, ParentOf[s]}} ELSE {}) \cup
       {id[2] : id \in {d \in ScenesUnder(v, c.target) \cup ScenesUnder(u, c.target) :
                          c.key \in Chapter /\ d[3] = 0}}

\* MovesUnseen, of a view.
MovedIn(v, c) ==
  IF /\ c.category = "boundary" /\ c.op = "add" /\ c.supersedes = 0
     /\ BoundaryState(v, c.key).root # 0
  THEN {c.key} ELSE {}

\* A scene shown under the target is one the boundary touches.
LEMMA TouchedBelow ==
  ASSUME NEW u, NEW v, NEW w \in {u, v}, NEW c, NEW s \in Scene, ~(c.supersedes = 0 /\ c.op = "add"),
         c.key \in Chapter, Row(w.run, s) \in DOMAIN Scenes(w),
         Scenes(w)[Row(w.run, s)].parent = c.target
  PROVE  s \in Touched(u, v, c)
<1> DEFINE id == Row(w.run, s)
           sc == Scenes(w)
<1>1. id \in ScenesUnder(w, c.target)
  <2>1. DOMAIN Under(sc, {c.target}) = {x \in DOMAIN sc : sc[x].parent \in {c.target}}
    BY UnderIs
  <2>2. ScenesUnder(w, c.target) = DOMAIN Under(sc, {c.target})
    BY DEF ScenesUnder
  <2>3. id \in DOMAIN sc /\ sc[id].parent = c.target
    OBVIOUS
  <2>. HIDE DEF id, sc
  <2>. QED BY <2>1, <2>2, <2>3
<1>2. id[2] = s /\ id[3] = 0
  BY DEF Row
<1>. HIDE DEF id
<1>. QED BY <1>1, <1>2 DEF Touched

\* A scene that the boundary of a scene does not touch.
LEMMA SceneBoundary ==
  ASSUME NEW u, NEW v, NEW c, NEW i, Grown(u, v, c, i), c.category = "boundary",
         c.key \in Scene, NEW s \in Scene \ (Touched(u, v, c) \cup MovedIn(v, c))
  PROVE  SameScene(u, v, s)
<1>1. Numbered(u) /\ Numbered(v) /\ u.run = v.run /\ c.run = v.run
  BY GrownTyped
<1>2. \A p : p \in ActiveChapters(u) <=> p \in ActiveChapters(v)
  <2>1. \A k \in Chapter : BoundaryState(u, k) = BoundaryState(v, k)
    <3>1. \A k \in Chapter : c.key # k
      BY CorrectionsAssumption
    <3>. QED BY <3>1, GrownPiece
  <2>2. \A k \in Chapter : \A p : StandsIn(u, k, p) <=> StandsIn(v, k, p)
    BY <1>1, <2>1 DEF StandsIn
  <2>. QED BY <2>2, ActiveIs
<1>3. BoundaryState(u, s).source = BoundaryState(v, s).source /\ ParentIn(u, s) = ParentIn(v, s)
  <2>1. CASE s # c.key
    <3>1. Row(u.run, s)[2] = s
      BY DEF Row
    <3>2. Projected(u, Row(u.run, s)) = Projected(v, Row(u.run, s))
      BY <2>1, <3>1, GrownPiece
    <3>3. BoundaryState(u, s) = BoundaryState(v, s)
      BY <2>1, GrownPiece
    <3>. QED BY <1>1, <3>2, <3>3 DEF ParentIn
  <2>2. CASE s = c.key
    <3>1. \/ c.target # Row(v.run, c.key)
          \/ c.supersedes = 0 /\ c.op = "add" /\ BoundaryState(v, c.key).root = 0
      <4>1. c.target # Row(v.run, c.key) \/ (c.supersedes = 0 /\ c.op = "add")
        BY <1>1, <2>2 DEF Touched
      <4>2. ~(c.op = "add" /\ c.supersedes = 0 /\ BoundaryState(v, c.key).root # 0)
        BY <2>2 DEF MovedIn
      <4>. QED BY <4>1, <4>2
    <3>2. /\ BoundaryState(u, s).source = BoundaryState(v, s).source
          /\ BoundaryState(u, s).onSource = BoundaryState(v, s).onSource
      BY <2>2, <3>1, BoundaryReplayed
    <3>3. \A w : ParentIn(w, s) = Item(w, s, BoundaryState(w, s).onSource).parent
      BY DEF ParentIn, Projected, Row
    <3>4. BoundaryState(v, s).onSource \in SUBSET DOMAIN v.rows
      BY <1>1, EffectsNumbered
    <3>5. Item(u, s, BoundaryState(v, s).onSource) = Item(v, s, BoundaryState(v, s).onSource)
      BY <3>4, GrownItem
    <3>. QED BY <3>2, <3>3, <3>5
  <2>. QED BY <2>1, <2>2
<1>. QED BY <1>1, <1>2, <1>3, SceneSame

\* A scene that the boundary of a chapter does not touch.
LEMMA ChapterBoundary ==
  ASSUME NEW u, NEW v, NEW c, NEW i, Grown(u, v, c, i), c.category = "boundary",
         c.key \in Chapter, NEW s \in Scene \ Touched(u, v, c)
  PROVE  SameScene(u, v, s)
<1> DEFINE k == c.key
           old == BoundaryState(v, k)
           new == BoundaryState(u, k)
           p == ParentIn(v, s)
<1>1. /\ Numbered(u) /\ Numbered(v) /\ u.run = v.run /\ c.run = v.run /\ i \in Nat \ {0}
      /\ ViewTyped(v, i - 1)
  BY GrownTyped DEF Grown
<1>2. BoundaryState(u, s) = BoundaryState(v, s) /\ ParentIn(u, s) = p
  <2>1. s # c.key
    BY CorrectionsAssumption
  <2>2. Row(u.run, s)[2] = s
    BY DEF Row
  <2>3. Projected(u, Row(u.run, s)) = Projected(v, Row(u.run, s)) /\ BoundaryState(u, s) = BoundaryState(v, s)
    BY <2>1, <2>2, GrownPiece
  <2>. QED BY <1>1, <2>3 DEF ParentIn
<1>3. p[3] \in Nat /\ p[3] < i
  <2>1. p[3] \in Nat /\ p[3] <= i - 1
    BY <1>1, ParentEarlier
  <2>. HIDE DEF p
  <2>. QED BY <1>1, <2>1
<1>4. p # Added(v.run, k, i)
  <2>. HIDE DEF p
  <2>. QED BY <1>3 DEF Added
<1>5. ASSUME NEW w \in {u, v}, BoundaryState(v, s).source, p \in ActiveChapters(w),
             ~(c.supersedes = 0 /\ c.op = "add")
      PROVE  p # c.target
  <2>1. Row(w.run, s) \in DOMAIN Scenes(w) /\ Scenes(w)[Row(w.run, s)].parent = p
    BY <1>1, <1>2, <1>5, SceneShown
  <2>. HIDE DEF p
  <2>. QED BY <1>5, <2>1, TouchedBelow
<1>6. ASSUME NEW q \in Chapter, q # k PROVE StandsIn(u, q, p) <=> StandsIn(v, q, p)
  <2>1. BoundaryState(u, q) = BoundaryState(v, q)
    BY <1>6, GrownPiece
  <2>. QED BY <1>1, <2>1 DEF StandsIn
<1>7. \A w \in {u, v} : StandsIn(w, k, p) => p \in ActiveChapters(w)
  BY ActiveIs
<1>8. ASSUME BoundaryState(v, s).source PROVE StandsIn(u, k, p) <=> StandsIn(v, k, p)
  <2>1. /\ StandsIn(u, k, p) <=> (new.source /\ p = Row(v.run, k)) \/ (new.added /\ p = Added(v.run, k, new.root))
        /\ StandsIn(v, k, p) <=> (old.source /\ p = Row(v.run, k)) \/ (old.added /\ p = Added(v.run, k, old.root))
    BY <1>1 DEF StandsIn
  <2>2. CASE c.supersedes = 0 /\ c.op = "add"
    <3>1. /\ new.source = old.source
          /\ \/ new.root = i /\ ~old.added
             \/ new.root = old.root /\ new.added = old.added
      BY <2>2, BoundaryReplayed
    <3>. HIDE DEF p, old, new
    <3>. QED BY <1>4, <2>1, <3>1
  <2>3. CASE ~(c.supersedes = 0 /\ c.op = "add") /\ c.target # Row(v.run, k)
    <3>1. new.source = old.source /\ new.root = old.root /\ c.target = Added(v.run, k, old.root)
      BY <2>3, BoundaryReplayed
    <3>2. \A w \in {u, v} : StandsIn(w, k, p) => p # c.target
      BY <1>5, <1>7, <1>8, <2>3
    <3>. HIDE DEF p, old, new
    <3>. QED BY <2>1, <3>1, <3>2
  <2>4. CASE ~(c.supersedes = 0 /\ c.op = "add") /\ c.target = Row(v.run, k)
    <3>1. \/ new.root = i /\ ~old.added
          \/ new.root = old.root /\ new.added = old.added
      BY <2>4, BoundaryReplayed
    <3>2. \A w \in {u, v} : StandsIn(w, k, p) => p # c.target
      BY <1>5, <1>7, <1>8, <2>4
    <3>. HIDE DEF p, old, new
    <3>. QED BY <1>4, <2>1, <2>4, <3>1, <3>2
  <2>. QED BY <2>2, <2>3, <2>4
<1>9. BoundaryState(v, s).source => (p \in ActiveChapters(u) <=> p \in ActiveChapters(v))
  <2>. HIDE DEF p
  <2>. QED BY <1>6, <1>8, ActiveIs
<1>. QED BY <1>1, <1>2, <1>9, SceneSame

-----------------------------------------------------------------------------
(* Characters, mentions and lines with one correction more.                *)

MergedIn(v, x) == RegistryOp(v, x) # 0 /\ v.rows[RegistryOp(v, x)].category = "merge"

\* Who is merged, and into whom.
LEMMA MergesIs ==
  ASSUME NEW v
  PROVE  /\ DOMAIN Merges(v) = {Row(v.run, x) : x \in {y \in Character : MergedIn(v, y)}}
         /\ \A x \in Character : MergedIn(v, x) =>
              Merges(v)[Row(v.run, x)] = PatchFor(v.rows[RegistryOp(v, x)], v.run).to
<1> DEFINE op == [x \in Character |-> RegistryOp(v, x)]
           merged == {x \in Character : op[x] # 0 /\ v.rows[op[x]].category = "merge"}
<1>1. Merges(v) = [id \in {Row(v.run, x) : x \in merged} |-> PatchFor(v.rows[op[id[2]]], v.run).to]
  BY DEF Merges
<1>2. merged = {y \in Character : MergedIn(v, y)}
  BY DEF MergedIn
<1>3. \A x \in Character : Row(v.run, x)[2] = x /\ op[x] = RegistryOp(v, x)
  BY DEF Row
<1>. HIDE DEF op, merged
<1>. QED BY <1>1, <1>2, <1>3

\* The merge or split that counts is a correction of the view, or none.
LEMMA RegistryOpIn ==
  ASSUME NEW v, Numbered(v), NEW x
  PROVE  RegistryOp(v, x) \in About(v, x, {"merge", "split"}) \cup {0}
         /\ About(v, x, {"merge", "split"}) \subseteq DOMAIN v.rows /\ 0 \notin DOMAIN v.rows
<1>1. About(v, x, {"merge", "split"}) \in SUBSET DOMAIN v.rows
  BY DEF About
<1>. QED BY <1>1, LatestRow DEF RegistryOp

\* The characters that the correction is not about.
LEMMA GrownCharacter ==
  ASSUME NEW u, NEW v, NEW c, NEW i, Grown(u, v, c, i), NEW x,
         c.key # x \/ c.category \notin {"merge", "split"}
  PROVE  /\ RegistryOp(u, x) = RegistryOp(v, x) /\ (MergedIn(u, x) <=> MergedIn(v, x))
         /\ RegistryOp(v, x) # 0 => u.rows[RegistryOp(v, x)] = v.rows[RegistryOp(v, x)]
<1>1. RegistryOp(u, x) = RegistryOp(v, x)
  BY GrownReads DEF RegistryOp
<1>2. RegistryOp(v, x) # 0 => u.rows[RegistryOp(v, x)] = v.rows[RegistryOp(v, x)]
  BY GrownTyped, RegistryOpIn
<1>. QED BY <1>1, <1>2 DEF MergedIn

\* The character that it merges or splits.
LEMMA GrownOwnCharacter ==
  ASSUME NEW u, NEW v, NEW c, NEW i, Grown(u, v, c, i), c.category \in {"merge", "split"}
  PROVE  /\ MergedIn(u, c.key) <=> c.category = "merge"
         /\ c.category = "split" => ~MergedIn(v, c.key)
<1>1. Numbered(u) /\ Numbered(v) /\ i \in Nat \ {0} /\ \A j \in DOMAIN v.rows : j \in Nat \ {0} /\ j < i
  BY GrownTyped
<1>2. About(u, c.key, {"merge", "split"}) = About(v, c.key, {"merge", "split"}) \cup {i}
  BY GrownReads
<1>3. RegistryOp(u, c.key) = i
  <2> DEFINE S == About(u, c.key, {"merge", "split"})
  <2>1. PICK n \in Nat : DOMAIN u.rows \subseteq 1..n
    BY <1>1 DEF Numbered
  <2>2. S \in SUBSET (1..n) /\ i \in S
    BY <1>2, <2>1 DEF About
  <2>3. \A j \in S : j <= i
    BY <1>1, <1>2, RegistryOpIn
  <2>. HIDE DEF S
  <2>4. Latest(S) = i
    BY <2>2, <2>3, LatestIs
  <2>. QED BY <2>4 DEF RegistryOp, S
<1>4. MergedIn(u, c.key) <=> c.category = "merge"
  BY <1>1, <1>3 DEF MergedIn, Grown
<1>5. c.category = "split" => ~MergedIn(v, c.key)
  BY DEF MergedIn, Grown, Legal, OpOf
<1>. QED BY <1>4, <1>5

\* All of them, but for the one that a merge is about.
LEMMA GrownMerges ==
  ASSUME NEW u, NEW v, NEW c, NEW i, Grown(u, v, c, i)
  PROVE  /\ \A id \in DOMAIN Merges(v) :
              ~(c.category = "merge" /\ id = Row(v.run, c.key))
                => id \in DOMAIN Merges(u) /\ Merges(u)[id] = Merges(v)[id]
         /\ c.category # "merge" => DOMAIN Merges(u) = DOMAIN Merges(v)
         /\ DOMAIN Merges(u) \subseteq DOMAIN Merges(v) \cup {Row(v.run, c.key)}
         /\ Row(v.run, c.key) \in DOMAIN Merges(v) => OpOf(v, c.key) = "merge"
<1>1. /\ u.run = v.run
      /\ DOMAIN Merges(u) = {Row(v.run, x) : x \in {y \in Character : MergedIn(u, y)}}
      /\ DOMAIN Merges(v) = {Row(v.run, x) : x \in {y \in Character : MergedIn(v, y)}}
  <2>1. u.run = v.run
    BY GrownTyped
  <2>2. DOMAIN Merges(u) = {Row(u.run, x) : x \in {y \in Character : MergedIn(u, y)}}
    BY MergesIs
  <2>3. DOMAIN Merges(v) = {Row(v.run, x) : x \in {y \in Character : MergedIn(v, y)}}
    BY MergesIs
  <2>. QED BY <2>1, <2>2, <2>3
<1>2. ASSUME NEW x \in Character, MergedIn(v, x), ~(c.category = "merge" /\ x = c.key)
      PROVE  MergedIn(u, x) /\ Merges(u)[Row(v.run, x)] = Merges(v)[Row(v.run, x)]
  <2>1. c.key # x \/ c.category \notin {"merge", "split"}
    BY <1>2, GrownOwnCharacter
  <2>2. /\ MergedIn(u, x) /\ RegistryOp(u, x) = RegistryOp(v, x)
        /\ u.rows[RegistryOp(v, x)] = v.rows[RegistryOp(v, x)]
    BY <1>2, <2>1, GrownCharacter DEF MergedIn
  <2>3. Merges(u)[Row(u.run, x)] = PatchFor(u.rows[RegistryOp(u, x)], u.run).to
    BY <2>2, MergesIs
  <2>4. Merges(v)[Row(v.run, x)] = PatchFor(v.rows[RegistryOp(v, x)], v.run).to
    BY <1>2, MergesIs
  <2>. QED BY <1>1, <2>2, <2>3, <2>4
<1>3. ASSUME NEW x \in Character, MergedIn(u, x), ~MergedIn(v, x)
      PROVE  c.category = "merge" /\ x = c.key
  <2>1. ~(c.key # x \/ c.category \notin {"merge", "split"})
    BY <1>3, GrownCharacter
  <2>. QED BY <1>3, <2>1, GrownOwnCharacter
<1>4. \A x : Row(v.run, x)[2] = x
  BY DEF Row
<1>5. \A id \in DOMAIN Merges(v) :
        ~(c.category = "merge" /\ id = Row(v.run, c.key))
          => id \in DOMAIN Merges(u) /\ Merges(u)[id] = Merges(v)[id]
  <2>1. TAKE id \in DOMAIN Merges(v)
  <2>2. PICK x \in Character : id = Row(v.run, x) /\ MergedIn(v, x)
    BY <1>1
  <2>. QED BY <1>1, <1>2, <2>2
<1>6. c.category # "merge" => DOMAIN Merges(u) \subseteq DOMAIN Merges(v)
  BY <1>1, <1>3
<1>7. DOMAIN Merges(u) \subseteq DOMAIN Merges(v) \cup {Row(v.run, c.key)}
  BY <1>1, <1>3
<1>8. c.category # "merge" => DOMAIN Merges(v) \subseteq DOMAIN Merges(u)
  BY <1>5
<1>9. Row(v.run, c.key) \in DOMAIN Merges(v) => OpOf(v, c.key) = "merge"
  <2>1. Row(v.run, c.key) \in DOMAIN Merges(v) => MergedIn(v, c.key)
    BY <1>1, <1>4
  <2>. QED BY <2>1 DEF MergedIn, OpOf
<1>. QED BY <1>5, <1>6, <1>7, <1>8, <1>9

\* Who is replaced, and by whom.
LEMMA ReplacementsIs ==
  ASSUME NEW v
  PROVE  /\ DOMAIN Replacements(v) = DOMAIN Merges(v)
         /\ \A id \in DOMAIN Merges(v) :
              Replacements(v)[id] = IF Followed(Merges(v), id) \in DOMAIN Merges(v)
                                    THEN id ELSE Followed(Merges(v), id)
<1> DEFINE merges == Merges(v)
           end == [id \in DOMAIN merges |-> Followed(merges, id)]
<1>1. Replacements(v) = [id \in DOMAIN merges |-> IF end[id] \in DOMAIN merges THEN id ELSE end[id]]
  BY DEF Replacements
<1>2. \A id \in DOMAIN merges : end[id] = Followed(merges, id)
  OBVIOUS
<1>. HIDE DEF end
<1>. QED BY <1>1, <1>2

\* Without a merge, the replacements stay.
LEMMA GrownReplacements ==
  ASSUME NEW u, NEW v, NEW c, NEW i, Grown(u, v, c, i), c.category # "merge"
  PROVE  Replacements(u) = Replacements(v)
<1>1. Merges(u) = Merges(v)
  <2>1. /\ DOMAIN Merges(u) = DOMAIN Merges(v)
        /\ \A id \in DOMAIN Merges(v) : Merges(u)[id] = Merges(v)[id]
    BY GrownMerges
  <2>2. \A w : Merges(w) = [id \in DOMAIN Merges(w) |-> Merges(w)[id]]
    BY DEF Merges
  <2>. QED BY <2>1, <2>2
<1>. QED BY <1>1 DEF Replacements

\* A chain of merges comes by a character.
Passes(M, Y, X) == \E n \in 0..Cardinality(Character) : Chain(M, Y)[n] = X

\* Passing, of a view.
PassingIn(v, c) == {y \in Character : Passes(Merges(v), Row(v.run, y), Row(v.run, c.key))}

\* Where a chain does not come by, it leads where it led.
LEMMA ChainAvoids ==
  ASSUME NEW M, NEW N, NEW X, DOMAIN N \subseteq DOMAIN M \cup {X},
         \A id \in DOMAIN M \ {X} : id \in DOMAIN N /\ N[id] = M[id],
         NEW Y, ~Passes(M, Y, X)
  PROVE  Followed(N, Y) = Followed(M, Y) /\ Followed(M, Y) # X /\ Y # X
<1> DEFINE C == Cardinality(Character)
           f == Chain(M, Y)
           g == Chain(N, Y)
<1>1. C \in Nat
  BY Characters
<1>2. /\ f[0] = Y /\ g[0] = Y
      /\ \A n \in 1..C : f[n] = Through(M, f[n - 1]) /\ g[n] = Through(N, g[n - 1])
  BY ChainStep
<1>3. \A n \in 0..C : f[n] # X
  BY DEF Passes
<1>. HIDE DEF f, g, C
<1> DEFINE T == {n \in 0..C : g[n] = f[n]}
<1>4. 0 \in T
  BY <1>1, <1>2
<1>5. ASSUME NEW n \in 1..C, n - 1 \in T PROVE n \in T
  <2>1. g[n - 1] = f[n - 1] /\ n - 1 \in 0..C /\ n \in 0..C
    BY <1>1, <1>5
  <2>2. f[n - 1] # X
    BY <1>3, <2>1
  <2>3. Through(N, f[n - 1]) = Through(M, f[n - 1])
    BY <2>2 DEF Through
  <2>. QED BY <1>2, <2>1, <2>3
<1>6. 0..C \subseteq T
  <2>. HIDE DEF T
  <2>. QED BY <1>1, <1>4, <1>5, Induction
<1>7. C \in 0..C /\ 0 \in 0..C
  BY <1>1
<1>8. g[C] = f[C] /\ f[C] # X /\ Y # X
  BY <1>2, <1>3, <1>6, <1>7
<1>. QED BY <1>8 DEF Followed, f, g, C

\* A chain that comes by a character that is not merged ends there, and is
\* that of the character itself or of somebody who is merged.
LEMMA ChainEnds ==
  ASSUME NEW M, NEW X, X \notin DOMAIN M, NEW Y, Passes(M, Y, X)
  PROVE  Followed(M, Y) = X /\ (Y = X \/ Y \in DOMAIN M)
<1> DEFINE C == Cardinality(Character)
           f == Chain(M, Y)
<1>1. C \in Nat
  BY Characters
<1>2. /\ f[0] = Y /\ \A n \in 1..C : f[n] = Through(M, f[n - 1])
  BY ChainStep
<1>3. PICK n \in 0..C : f[n] = X
  BY DEF Passes
<1>. HIDE DEF f, C
<1> DEFINE S == {m \in 0..(C - n) : f[n + m] = X}
<1>4. 0 \in S
  BY <1>1, <1>3
<1>5. ASSUME NEW m \in 1..(C - n), m - 1 \in S PROVE m \in S
  <2>1. f[n + (m - 1)] = X /\ n + m \in 1..C /\ (n + m) - 1 = n + (m - 1)
    BY <1>1, <1>5
  <2>2. f[n + m] = Through(M, X)
    BY <1>2, <2>1
  <2>3. m \in 0..(C - n)
    BY <1>1
  <2>. QED BY <2>2, <2>3 DEF Through
<1>6. 0..(C - n) \subseteq S
  <2>1. C - n \in Nat
    BY <1>1
  <2>. HIDE DEF S
  <2>. QED BY <1>4, <1>5, <2>1, Induction
<1>7. C - n \in 0..(C - n) /\ n + (C - n) = C
  BY <1>1
<1>8. f[C] = X
  BY <1>6, <1>7
<1>9. ASSUME Y \notin DOMAIN M PROVE Y = X
  <2> DEFINE T == {m \in 0..C : f[m] = Y}
  <2>1. 0 \in T
    BY <1>1, <1>2
  <2>2. ASSUME NEW m \in 1..C, m - 1 \in T PROVE m \in T
    <3>1. f[m - 1] = Y /\ m \in 0..C
      BY <1>1, <2>2
    <3>. QED BY <1>2, <1>9, <3>1 DEF Through
  <2>3. 0..C \subseteq T
    <3>. HIDE DEF T
    <3>. QED BY <1>1, <2>1, <2>2, Induction
  <2>4. f[n] = Y
    BY <2>3
  <2>. QED BY <1>3, <2>4
<1>. QED BY <1>8, <1>9 DEF Followed, f, C

\* A merge moves only those whose chain comes by the character.
LEMMA MergeMoves ==
  ASSUME NEW u, NEW v, NEW c, NEW i, Grown(u, v, c, i), c.category = "merge",
         NEW Y, ~Passes(Merges(v), Y, Row(v.run, c.key))
  PROVE  Through(Replacements(u), Y) = Through(Replacements(v), Y)
<1> DEFINE M == Merges(v)
           N == Merges(u)
           X == Row(v.run, c.key)
           End(m) == IF Followed(m, Y) \in DOMAIN m THEN Y ELSE Followed(m, Y)
<1>1. /\ DOMAIN N \subseteq DOMAIN M \cup {X}
      /\ \A id \in DOMAIN M \ {X} : id \in DOMAIN N /\ N[id] = M[id]
  BY GrownMerges
<1>2. /\ Through(Replacements(v), Y) = IF Y \in DOMAIN M THEN End(M) ELSE Y
      /\ Through(Replacements(u), Y) = IF Y \in DOMAIN N THEN End(N) ELSE Y
  BY ReplacementsIs DEF Through
<1>3. Followed(N, Y) = Followed(M, Y) /\ Followed(M, Y) # X /\ Y # X
  <2>1. ~Passes(M, Y, X)
    OBVIOUS
  <2>. HIDE DEF M, N, X
  <2>. QED BY <1>1, <2>1, ChainAvoids
<1>4. \A Z : Z # X => (Z \in DOMAIN N <=> Z \in DOMAIN M)
  <2>. HIDE DEF M, N, X
  <2>. QED BY <1>1
<1>. HIDE DEF M, N, X
<1>. QED BY <1>2, <1>3, <1>4

\* Who comes by a character that is not merged has been replaced by it.
LEMMA PassingIsReplaced ==
  ASSUME NEW v, NEW X, X \notin DOMAIN Merges(v), NEW Y, Passes(Merges(v), Y, X)
  PROVE  Y = X \/ Through(Replacements(v), Y) = X
<1>1. Followed(Merges(v), Y) = X /\ (Y = X \/ Y \in DOMAIN Merges(v))
  BY ChainEnds
<1>. QED BY <1>1, ReplacementsIs DEF Through

\* The claims that the correction does not make.
LEMMA GrownClaim ==
  ASSUME NEW u, NEW v, NEW c, NEW i, Grown(u, v, c, i), NEW e, NEW category,
         c.key # e \/ c.category # category
  PROVE  Claim(u, e, category) = Claim(v, e, category)
<1>1. Applicable(u, e, {category}) = Applicable(v, e, {category})
  BY GrownReads
<1>2. Applicable(v, e, {category}) \in DOMAIN v.rows \cup {0} /\ u.run = v.run
  <2>1. ViewTyped(v, i - 1)
    BY DEF Grown
  <2>. QED BY <2>1, ApplicableTyped, GrownTyped
<1>3. Applicable(v, e, {category}) # 0 =>
        u.rows[Applicable(v, e, {category})] = v.rows[Applicable(v, e, {category})]
  BY <1>2, GrownTyped
<1>. QED BY <1>1, <1>2, <1>3 DEF Claim

\* The splits, if the correction neither merges nor splits.
LEMMA GrownSplits ==
  ASSUME NEW u, NEW v, NEW c, NEW i, Grown(u, v, c, i), c.category \notin {"merge", "split"}
  PROVE  /\ Splits(u) = Splits(v) /\ \A j \in Splits(v) : u.rows[j] = v.rows[j]
         /\ \A m : SplitOwner(u, m) = SplitOwner(v, m)
         /\ \A m : SplitOwner(v, m) \in Splits(v) \cup {0}
<1>1. \A x : /\ RegistryOp(u, x) = RegistryOp(v, x)
             /\ RegistryOp(v, x) # 0 => u.rows[RegistryOp(v, x)] = v.rows[RegistryOp(v, x)]
  BY GrownCharacter
<1>2. Splits(u) = Splits(v) /\ \A j \in Splits(v) : u.rows[j] = v.rows[j]
  BY <1>1 DEF Splits
<1>3. u.run = v.run /\ Numbered(v)
  BY GrownTyped
<1>4. \A m : SplitOwner(u, m) = SplitOwner(v, m)
  <2>1. TAKE m
  <2>2. \A j \in Splits(v) : PatchFor(u.rows[j], u.run).mentions = PatchFor(v.rows[j], v.run).mentions
    BY <1>2, <1>3
  <2>. QED BY <1>2, <1>3, <2>2 DEF SplitOwner
<1>5. Splits(v) \in SUBSET DOMAIN v.rows
  BY <1>3, RegistryOpIn DEF Splits
<1>6. ASSUME NEW m PROVE SplitOwner(v, m) \in Splits(v) \cup {0}
  <2> DEFINE S == {j \in Splits(v) : Row(v.run, m) \in PatchFor(v.rows[j], v.run).mentions}
  <2>1. S \in SUBSET DOMAIN v.rows /\ S \subseteq Splits(v)
    BY <1>5
  <2>2. SplitOwner(v, m) = Latest(S)
    BY DEF SplitOwner
  <2>. HIDE DEF S
  <2>3. Latest(S) \in S \cup {0}
    BY <1>3, <2>1, LatestRow
  <2>. QED BY <2>1, <2>2, <2>3
<1>. QED BY <1>2, <1>4, <1>6

\* Whom a mention is of.
LEMMA GrownMention ==
  ASSUME NEW u, NEW v, NEW c, NEW i, Grown(u, v, c, i),
         c.category \notin {"merge", "split", "mention"}, NEW a, NEW m
  PROVE  OfMention(u, a, m) = OfMention(v, a, m)
<1>1. Claim(u, m, "mention") = Claim(v, m, "mention")
  BY GrownClaim
<1>2. SplitOwner(u, m) = SplitOwner(v, m) /\ u.run = v.run
  BY GrownSplits, GrownTyped
<1>3. Claim(v, m, "mention").by \in Nat
  <2>1. Claim(v, m, "mention").by = Applicable(v, m, {"mention"})
    BY DEF Claim
  <2>2. Applicable(v, m, {"mention"}) \in DOMAIN v.rows \cup {0} /\ DOMAIN v.rows \subseteq Nat
    <3>1. ViewTyped(v, i - 1)
      BY DEF Grown
    <3>. QED BY <3>1, ApplicableTyped, GrownTyped
  <2>. QED BY <2>1, <2>2
<1>4. SplitOwner(v, m) > Claim(v, m, "mention").by =>
        PatchFor(u.rows[SplitOwner(v, m)], v.run).to = PatchFor(v.rows[SplitOwner(v, m)], v.run).to
  <2>1. SplitOwner(v, m) # 0 => u.rows[SplitOwner(v, m)] = v.rows[SplitOwner(v, m)]
    BY GrownSplits
  <2>2. SplitOwner(v, m) > Claim(v, m, "mention").by => SplitOwner(v, m) # 0
    BY <1>3
  <2>. QED BY <2>1, <2>2
<1> DEFINE claim == Claim(v, m, "mention")
           left == {Through(a, id) : id \in claim.candidates}
           split == SplitOwner(v, m)
           known(id) == [who |-> id, maybe |-> {}]
           rest == IF claim.who # Nobody THEN known(Through(a, claim.who))
                   ELSE IF ~Alone(claim.candidates) /\ Alone(left)
                   THEN known(CHOOSE id \in left : TRUE)
                   ELSE [who |-> Nobody, maybe |-> left]
<1>5. /\ OfMention(v, a, m) = IF split > claim.by THEN known(PatchFor(v.rows[split], v.run).to) ELSE rest
      /\ OfMention(u, a, m) = IF split > claim.by THEN known(PatchFor(u.rows[split], v.run).to) ELSE rest
  BY <1>1, <1>2 DEF OfMention
<1>. HIDE DEF rest
<1>. QED BY <1>4, <1>5

-----------------------------------------------------------------------------
(* What the gates are about, with one correction more.                     *)

\* The characters, when their mentions are shown as before.
LEMMA GrownRegistry ==
  ASSUME NEW u, NEW v, NEW c, NEW i, Grown(u, v, c, i),
         c.category \in {"boundary", "label", "speaker"},
         InView(u, Scenes(u), Mention) = InView(v, Scenes(v), Mention)
  PROVE  RegistryEvidence(u, Replacements(u), Scenes(u)) = RegistryEvidence(v, Replacements(v), Scenes(v))
<1> DEFINE R == Replacements(v)
           shown == InView(v, Scenes(v), Mention)
           index(w) == MentionIndex(w, R, shown)
           Op(w, x) == Applicable(w, x, {"merge", "split"})
           Change(w, x) == IF Op(w, x) = 0 THEN Nobody ELSE Local(w.run, PatchFor(w.rows[Op(w, x)], w.run).to)
           Listed(w, x) == <<x, Applicable(w, x, {"identity"}), MentionsOf(index(w), Row(w.run, x)), Change(w, x)>>
<1>1. Replacements(u) = R /\ u.run = v.run
  BY GrownReplacements, GrownTyped
<1>2. index(u) = index(v)
  <2>1. \A m : OfMention(u, R, m) = OfMention(v, R, m)
    BY GrownMention
  <2>. HIDE DEF R, shown
  <2>. QED BY <2>1 DEF MentionIndex
<1>3. SplitCharacters(u, index(u)) = SplitCharacters(v, index(v))
  <2> DEFINE ix == index(v)
  <2>1. Splits(u) = Splits(v) /\ \A j \in Splits(v) : u.rows[j] = v.rows[j]
    BY GrownSplits
  <2>2. index(u) = ix
    BY <1>2
  <2>. HIDE DEF ix, index
  <2>3. SplitCharacters(u, ix) = SplitCharacters(v, ix)
    BY <1>1, <2>1 DEF SplitCharacters
  <2>. QED BY <2>2, <2>3 DEF ix
<1>4. ASSUME NEW x \in Character PROVE Listed(u, x) = Listed(v, x)
  <2>1. Applicable(u, x, {"identity"}) = Applicable(v, x, {"identity"})
    BY GrownReads
  <2>2. Op(u, x) = Op(v, x)
    BY GrownReads
  <2>3. Op(v, x) \in DOMAIN v.rows \cup {0}
    <3>1. ViewTyped(v, i - 1)
      BY DEF Grown
    <3>. QED BY <3>1, ApplicableTyped
  <2>4. Op(v, x) # 0 => u.rows[Op(v, x)] = v.rows[Op(v, x)]
    <3>. HIDE DEF Op
    <3>. QED BY <2>3, GrownTyped
  <2>5. Change(u, x) = Change(v, x)
    <3>. HIDE DEF Op
    <3>. QED BY <1>1, <2>2, <2>4
  <2>. HIDE DEF Change, index
  <2>. QED BY <1>1, <1>2, <2>1, <2>5
<1>5. \A w : InView(w, Scenes(w), Mention) = shown /\ Replacements(w) = R =>
        RegistryEvidence(w, Replacements(w), Scenes(w))
          = <<{Listed(w, x) : x \in Character}, SplitCharacters(w, index(w)), shown>>
  <2>. HIDE DEF R, shown
  <2>. QED BY DEF RegistryEvidence
<1>6. InView(u, Scenes(u), Mention) = shown
  OBVIOUS
<1>7. {Listed(u, x) : x \in Character} = {Listed(v, x) : x \in Character}
  <2>. HIDE DEF Listed
  <2>. QED BY <1>4
<1>8. RegistryEvidence(u, Replacements(u), Scenes(u))
          = <<{Listed(u, x) : x \in Character}, SplitCharacters(u, index(u)), shown>>
  <2>. HIDE DEF Listed, index, shown
  <2>. QED BY <1>1, <1>5, <1>6
<1>9. RegistryEvidence(v, Replacements(v), Scenes(v))
          = <<{Listed(v, x) : x \in Character}, SplitCharacters(v, index(v)), shown>>
  <2>1. R = Replacements(v) /\ shown = InView(v, Scenes(v), Mention)
    OBVIOUS
  <2>. HIDE DEF Listed, index, shown, R
  <2>. QED BY <1>5, <2>1
<1>. HIDE DEF Listed, index, shown, R
<1>. QED BY <1>3, <1>7, <1>8, <1>9

\* The lines, when they and those they may be of are shown as before.
LEMMA GrownDialogue ==
  ASSUME NEW u, NEW v, NEW c, NEW i, Grown(u, v, c, i), c.category # "speaker",
         InView(u, Scenes(u), Line) = InView(v, Scenes(v), Line),
         \A l \in Line : \A id \in {Claim(v, l, "speaker").who} \cup Claim(v, l, "speaker").candidates :
           Through(Replacements(u), id) = Through(Replacements(v), id)
  PROVE  DialogueEvidence(u, Replacements(u), Scenes(u)) = DialogueEvidence(v, Replacements(v), Scenes(v))
<1> DEFINE shown == InView(v, Scenes(v), Line)
           A == Replacements(u)
           B == Replacements(v)
<1>1. u.run = v.run
  BY GrownTyped
<1>2. ASSUME NEW l \in Line PROVE OfLine(u, A, l) = OfLine(v, B, l)
  <2> DEFINE claim == Claim(v, l, "speaker")
             final(w, a, id) == Local(w.run, Through(a, id))
  <2>1. Claim(u, l, "speaker") = claim
    BY GrownClaim
  <2>2. \A id \in {claim.who} \cup claim.candidates : final(u, A, id) = final(v, B, id)
    <3>1. \A id \in {claim.who} \cup claim.candidates : Through(A, id) = Through(B, id)
      OBVIOUS
    <3>. HIDE DEF claim, A, B
    <3>. QED BY <1>1, <3>1
  <2>3. OfLine(u, A, l) = <<final(u, A, claim.who), {final(u, A, id) : id \in claim.candidates}, claim.by>>
    <3>. HIDE DEF A, B
    <3>. QED BY <2>1 DEF OfLine
  <2>4. OfLine(v, B, l) = <<final(v, B, claim.who), {final(v, B, id) : id \in claim.candidates}, claim.by>>
    <3>. HIDE DEF A, B
    <3>. QED BY DEF OfLine
  <2>. HIDE DEF final, claim, A, B
  <2>. QED BY <2>2, <2>3, <2>4
<1>3. \A pair \in shown : pair[1] \in Line
  BY DEF InView
<1>4. /\ DialogueEvidence(u, A, Scenes(u)) = {<<pair, OfLine(u, A, pair[1])>> : pair \in shown}
      /\ DialogueEvidence(v, B, Scenes(v)) = {<<pair, OfLine(v, B, pair[1])>> : pair \in shown}
  BY DEF DialogueEvidence
<1>. HIDE DEF shown, A, B
<1>5. DialogueEvidence(u, A, Scenes(u)) = DialogueEvidence(v, B, Scenes(v))
  BY <1>2, <1>3, <1>4
<1>. QED BY <1>5 DEF A, B

\* Whom a line is given to, or may be given to, is a name or a character, and
\* in the second case one that the machine had considered.
LEMMA LineNames ==
  ASSUME NEW v, NEW n, ViewTyped(v, n), NEW l \in Line,
         NEW id \in {Claim(v, l, "speaker").who} \cup Claim(v, l, "speaker").candidates
  PROVE  /\ id[1] = 0 \/ \E x \in Character : id = Row(v.run, x)
         /\ id \in Claim(v, l, "speaker").candidates => \E x \in CandidatesOf[l] : id = Row(v.run, x)
<1> DEFINE direct == Applicable(v, l, {"speaker"})
           machine == {Row(v.run, x) : x \in CandidatesOf[l]}
           to == PatchFor(v.rows[direct], v.run).to
<1>1. Nobody[1] = 0
  BY DEF Nobody
<1>2. /\ Claim(v, l, "speaker").candidates = machine
      /\ direct = 0 => Claim(v, l, "speaker").who
                         = IF Alone(machine) THEN CHOOSE d \in machine : TRUE ELSE Nobody
      /\ direct # 0 => Claim(v, l, "speaker").who = to
  BY DEF Claim
<1>3. /\ CandidatesOf[l] \subseteq Character
      /\ id \in machine => \E x \in CandidatesOf[l] : id = Row(v.run, x)
  BY CorrectionsAssumption
<1>4. CASE direct = 0 /\ id = Claim(v, l, "speaker").who
  <2>1. Alone(machine) => (CHOOSE d \in machine : TRUE) \in machine
    BY DEF Alone
  <2>2. id \in machine \/ id = Nobody
    <3>. HIDE DEF machine, direct
    <3>. QED BY <1>2, <1>4, <2>1
  <2>. HIDE DEF machine, direct
  <2>. QED BY <1>1, <1>2, <1>3, <2>2
<1>5. CASE direct # 0 /\ id = to
  <2> DEFINE c == v.rows[direct]
  <2>1. direct \in About(v, l, {"speaker"}) /\ direct \in DOMAIN v.rows
    BY <1>5, ApplicableTyped
  <2>2. Sound(c, direct) /\ c.key = l /\ c.category = "speaker" /\ v.run \in Nat \ {0}
    BY <2>1 DEF About, ViewTyped
  <2>3. c.to[1] = 0 \/ \E x \in Character : c.to = Row(c.run, x)
    <3>. HIDE DEF c
    <3>. QED BY <2>2 DEF Sound, Considered
  <2>4. id = Remapped(c.to, c.run, v.run) /\ c.run \in Nat \ {0}
    <3>1. c \in Correction /\ c.run \in Nat \ {0}
      <4>. HIDE DEF c
      <4>1. c \in Correction
        BY <2>2 DEF Sound
      <4>. QED BY <4>1 DEF Correction
    <3>2. id = PatchFor(c, v.run).to
      BY <1>5
    <3>. HIDE DEF c
    <3>. QED BY <3>1, <3>2, PatchFields
  <2>5. id[1] = 0 \/ \E x \in Character : id = Row(v.run, x)
    <3>. HIDE DEF c
    <3>. QED BY <2>3, <2>4 DEF Remapped, Row
  <2>. HIDE DEF c, machine, direct
  <2>. QED BY <1>2, <1>3, <2>5
<1>6. CASE id \in machine
  <2>. HIDE DEF machine
  <2>. QED BY <1>3, <1>6
<1>. HIDE DEF direct, machine, to
<1>. QED BY <1>2, <1>4, <1>5, <1>6

\* The characters that a correction of one of them is about.
Affected(v, c) ==
  {y \in Character :
     y = c.key \/ Through(Replacements(v), Row(v.run, y)) = Row(v.run, c.key)}

\* LinesUnseen, of a view.
UnseenLines(v, c) ==
  IF c.category # "merge" THEN {}
  ELSE {l \in Line : \E y \in PassingIn(v, c) :
          \/ y \notin CandidatesOf[l] /\ Claim(v, l, "speaker").who = Row(v.run, y)
          \/ y \in CandidatesOf[l] /\ OpOf(v, c.key) = "merge" /\ y \notin Affected(v, c)}

\* Whoever a line that is not sent back is or may be of is moved by no merge.
LEMMA LineStays ==
  ASSUME NEW u, NEW v, NEW c, NEW i, Grown(u, v, c, i), c.category = "merge",
         NEW l \in Line, CandidatesOf[l] \cap Affected(v, c) = {}, l \notin UnseenLines(v, c),
         NEW x \in Character,
         x \in CandidatesOf[l] \/ Claim(v, l, "speaker").who = Row(v.run, x)
  PROVE  ~Passes(Merges(v), Row(v.run, x), Row(v.run, c.key))
<1>1. SUFFICES ASSUME Passes(Merges(v), Row(v.run, x), Row(v.run, c.key)) PROVE FALSE
  OBVIOUS
<1>2. x \in PassingIn(v, c)
  BY <1>1 DEF PassingIn
<1>3. x \in CandidatesOf[l] /\ OpOf(v, c.key) # "merge" /\ x \notin Affected(v, c)
  BY <1>2 DEF UnseenLines
<1>4. Row(v.run, c.key) \notin DOMAIN Merges(v)
  BY <1>3, GrownMerges
<1>5. Row(v.run, x) = Row(v.run, c.key) \/ Through(Replacements(v), Row(v.run, x)) = Row(v.run, c.key)
  BY <1>1, <1>4, PassingIsReplaced
<1>6. Row(v.run, x) = Row(v.run, c.key) => x = c.key
  BY DEF Row
<1>. QED BY <1>3, <1>5, <1>6 DEF Affected

\* A line that names none of them stays whose it was.
LEMMA CharacterDialogue ==
  ASSUME NEW u, NEW v, NEW c, NEW i, Grown(u, v, c, i),
         c.category \in {"identity", "merge", "split"},
         \A l \in Line : CandidatesOf[l] \cap Affected(v, c) = {} /\ l \notin UnseenLines(v, c)
  PROVE  DialogueEvidence(u, Replacements(u), Scenes(u)) = DialogueEvidence(v, Replacements(v), Scenes(v))
<1>1. ASSUME NEW l \in Line,
             NEW id \in {Claim(v, l, "speaker").who} \cup Claim(v, l, "speaker").candidates
      PROVE  Through(Replacements(u), id) = Through(Replacements(v), id)
  <2>1. CASE c.category # "merge"
    BY <2>1, GrownReplacements
  <2>2. CASE c.category = "merge"
    <3>1. /\ id[1] = 0 \/ \E x \in Character : id = Row(v.run, x)
          /\ id \in Claim(v, l, "speaker").candidates => \E x \in CandidatesOf[l] : id = Row(v.run, x)
      <4>1. ViewTyped(v, i - 1)
        BY DEF Grown
      <4>. HIDE DEF Claim
      <4>. QED BY <4>1, LineNames
    <3>2. CASE id[1] = 0
      <4>1. ASSUME NEW w, w.run # 0 PROVE Through(Replacements(w), id) = id
        <5>1. DOMAIN Replacements(w) = {Row(w.run, x) : x \in {y \in Character : MergedIn(w, y)}}
          BY ReplacementsIs, MergesIs
        <5>2. id \notin DOMAIN Replacements(w)
          BY <3>2, <4>1, <5>1 DEF Row
        <5>. QED BY <5>2 DEF Through
      <4>2. u.run # 0 /\ v.run # 0
        BY GrownTyped
      <4>. QED BY <4>1, <4>2
    <3>3. ASSUME NEW x \in Character, id = Row(v.run, x)
          PROVE  Through(Replacements(u), id) = Through(Replacements(v), id)
      <4>1. x \in CandidatesOf[l] \/ Claim(v, l, "speaker").who = Row(v.run, x)
        <5>1. \A y : Row(v.run, y) = Row(v.run, x) => y = x
          BY DEF Row
        <5>. QED BY <1>1, <3>1, <3>3, <5>1
      <4>2. ~Passes(Merges(v), id, Row(v.run, c.key))
        BY <2>2, <3>3, <4>1, LineStays
      <4>. QED BY <2>2, <4>2, MergeMoves
    <3>. QED BY <3>1, <3>2, <3>3
  <2>. QED BY <2>1, <2>2
<1>2. InView(u, Scenes(u), Line) = InView(v, Scenes(v), Line) /\ c.category # "speaker"
  BY GrownStructure
<1>. QED BY <1>1, <1>2, GrownDialogue

\* The fields of the evidence.
LEMMA EvidenceIs ==
  ASSUME NEW w
  PROVE  /\ Evidence(w).structure = StructureEvidence(w, Pieces(w, Chapter), Scenes(w))
         /\ Evidence(w).registry = RegistryEvidence(w, Replacements(w), Scenes(w))
         /\ Evidence(w).dialogue = DialogueEvidence(w, Replacements(w), Scenes(w))
  BY DEF Evidence, GateEvidence

\* What differs, gate by gate.
LEMMA DifferingIs ==
  ASSUME NEW u, NEW v, NEW gates,
         "structure" \in gates \/ Evidence(u).structure = Evidence(v).structure,
         "registry" \in gates \/ Evidence(u).registry = Evidence(v).registry,
         "dialogue" \in gates \/ Evidence(u).dialogue = Evidence(v).dialogue
  PROVE  Differing(Evidence(v), Evidence(u)) \subseteq gates
<1>1. \A w : /\ Evidence(w)["structure"] = Evidence(w).structure
             /\ Evidence(w)["registry"] = Evidence(w).registry
             /\ Evidence(w)["dialogue"] = Evidence(w).dialogue
  OBVIOUS
<1> DEFINE a == Evidence(u)
           b == Evidence(v)
<1>. HIDE DEF a, b
<1>2. Differing(b, a) \subseteq gates
  BY <1>1 DEF Differing, EvidenceGate, a, b
<1>. QED BY <1>2 DEF a, b

\* A boundary changes the mentions and the lines of the scenes it touches,
\* and of the one that a second addition moves.
LEMMA BoundaryEvidence ==
  ASSUME NEW u, NEW v, NEW c, NEW i, Grown(u, v, c, i), c.category = "boundary"
  PROVE  /\ (\A m \in Mention : SceneOf[m] \notin Touched(u, v, c) \cup MovedIn(v, c))
              => Evidence(u).registry = Evidence(v).registry
         /\ (\A l \in Line : SceneOf[l] \notin Touched(u, v, c) \cup MovedIn(v, c))
              => Evidence(u).dialogue = Evidence(v).dialogue
<1>1. \A s \in Scene \ (Touched(u, v, c) \cup MovedIn(v, c)) : SameScene(u, v, s)
  <2>1. c.key \in Piece
    BY GrownTyped DEF Sound, KeyFits
  <2>. QED BY <2>1, SceneBoundary, ChapterBoundary DEF Piece
<1>2. u.run = v.run
  BY GrownTyped
<1>3. ASSUME NEW es \in SUBSET (Mention \cup Line), \A e \in es : SceneOf[e] \notin Touched(u, v, c) \cup MovedIn(v, c)
      PROVE  InView(u, Scenes(u), es) = InView(v, Scenes(v), es)
  <2>1. \A e \in es : SceneOf[e] \in Scene
    BY CorrectionsAssumption
  <2>2. \A e \in es : SameScene(u, v, SceneOf[e])
    BY <1>1, <1>3, <2>1
  <2>. QED BY <1>2, <2>2, SameView
<1>4. ASSUME \A m \in Mention : SceneOf[m] \notin Touched(u, v, c) \cup MovedIn(v, c)
      PROVE  Evidence(u).registry = Evidence(v).registry
  <2>1. InView(u, Scenes(u), Mention) = InView(v, Scenes(v), Mention)
    BY <1>3, <1>4
  <2>2. RegistryEvidence(u, Replacements(u), Scenes(u)) = RegistryEvidence(v, Replacements(v), Scenes(v))
    BY <2>1, GrownRegistry
  <2>. QED BY <2>2, EvidenceIs
<1>5. ASSUME \A l \in Line : SceneOf[l] \notin Touched(u, v, c) \cup MovedIn(v, c)
      PROVE  Evidence(u).dialogue = Evidence(v).dialogue
  <2>1. InView(u, Scenes(u), Line) = InView(v, Scenes(v), Line)
    BY <1>3, <1>5
  <2>2. Replacements(u) = Replacements(v)
    BY GrownReplacements
  <2>3. DialogueEvidence(u, Replacements(u), Scenes(u)) = DialogueEvidence(v, Replacements(v), Scenes(v))
    BY <2>1, <2>2, GrownDialogue
  <2>. QED BY <2>3, EvidenceIs
<1>. QED BY <1>4, <1>5

\* A label changes neither.
LEMMA LabelEvidence ==
  ASSUME NEW u, NEW v, NEW c, NEW i, Grown(u, v, c, i), c.category = "label"
  PROVE  Evidence(u).registry = Evidence(v).registry /\ Evidence(u).dialogue = Evidence(v).dialogue
<1>1. u.run = v.run /\ \A e \in Mention \cup Line : SceneOf[e] \in Scene
  BY GrownTyped, CorrectionsAssumption
<1>2. \A e \in Mention \cup Line : SameScene(u, v, SceneOf[e])
  BY <1>1, LabelScenes
<1>3. \A es \in SUBSET (Mention \cup Line) : InView(u, Scenes(u), es) = InView(v, Scenes(v), es)
  BY <1>1, <1>2, SameView
<1>4. /\ InView(u, Scenes(u), Mention) = InView(v, Scenes(v), Mention)
      /\ InView(u, Scenes(u), Line) = InView(v, Scenes(v), Line)
  BY <1>3
<1>5. RegistryEvidence(u, Replacements(u), Scenes(u)) = RegistryEvidence(v, Replacements(v), Scenes(v))
  BY <1>4, GrownRegistry
<1>6. Replacements(u) = Replacements(v)
  BY GrownReplacements
<1>7. DialogueEvidence(u, Replacements(u), Scenes(u)) = DialogueEvidence(v, Replacements(v), Scenes(v))
  BY <1>4, <1>6, GrownDialogue
<1>. QED BY <1>5, <1>7, EvidenceIs

\* What is given to another leaves the pieces alone, and the rest with them.
LEMMA GivenEvidence ==
  ASSUME NEW u, NEW v, NEW c, NEW i, Grown(u, v, c, i), c.category \in {"mention", "speaker"}
  PROVE  /\ Evidence(u).structure = Evidence(v).structure
         /\ c.category = "mention" => Evidence(u).dialogue = Evidence(v).dialogue
         /\ c.category = "speaker" => Evidence(u).registry = Evidence(v).registry
<1>1. /\ StructureEvidence(u, Pieces(u, Chapter), Scenes(u))
           = StructureEvidence(v, Pieces(v, Chapter), Scenes(v))
      /\ \A es : InView(u, Scenes(u), es) = InView(v, Scenes(v), es)
  BY GrownStructure
<1>2. Replacements(u) = Replacements(v)
  BY GrownReplacements
<1>3. c.category = "speaker" =>
        RegistryEvidence(u, Replacements(u), Scenes(u)) = RegistryEvidence(v, Replacements(v), Scenes(v))
  BY <1>1, GrownRegistry
<1>4. c.category = "mention" =>
        DialogueEvidence(u, Replacements(u), Scenes(u)) = DialogueEvidence(v, Replacements(v), Scenes(v))
  BY <1>1, <1>2, GrownDialogue
<1>. QED BY <1>1, <1>3, <1>4, EvidenceIs

\* What a correction of a character changes, beside the characters.
LEMMA CharacterEvidence ==
  ASSUME NEW u, NEW v, NEW c, NEW i, Grown(u, v, c, i), c.category \in {"identity", "merge", "split"}
  PROVE  /\ Evidence(u).structure = Evidence(v).structure
         /\ (\A l \in Line : CandidatesOf[l] \cap Affected(v, c) = {} /\ l \notin UnseenLines(v, c))
              => Evidence(u).dialogue = Evidence(v).dialogue
<1>1. StructureEvidence(u, Pieces(u, Chapter), Scenes(u))
        = StructureEvidence(v, Pieces(v, Chapter), Scenes(v))
  BY GrownStructure
<1>2. (\A l \in Line : CandidatesOf[l] \cap Affected(v, c) = {} /\ l \notin UnseenLines(v, c)) =>
        DialogueEvidence(u, Replacements(u), Scenes(u)) = DialogueEvidence(v, Replacements(v), Scenes(v))
  BY CharacterDialogue
<1>. QED BY <1>1, <1>2, EvidenceIs

\* The gates of the last correction and what it overlooks, said of what its
\* run showed before and after.
LEMMA GatesAre ==
  ASSUME CorrectionsInv, corrections # <<>>, NEW i, i = Len(corrections),
         NEW r, r = corrections[i].run
  PROVE  /\ AffectedScenes(i) = Touched(At(r, i), At(r, i - 1), corrections[i])
         /\ MovesUnseen(i) = MovedIn(At(r, i - 1), corrections[i])
         /\ LinesUnseen(i) = UnseenLines(At(r, i - 1), corrections[i])
         /\ corrections[i].category \in {"identity", "merge", "split"} => GatesSentBack(i) =
              {"registry"} \cup {"dialogue" : l \in {n \in Line : CandidatesOf[n] \cap
                                                      Affected(At(r, i - 1), corrections[i]) # {}}}
<1> DEFINE c == corrections[i]
           u == At(r, i)
           v == At(r, i - 1)
<1>1. UNION {ScenesUnder(At(c.run, n), c.target) : n \in {i - 1, i}}
        = ScenesUnder(v, c.target) \cup ScenesUnder(u, c.target)
  OBVIOUS
<1>2. AffectedScenes(i) = Touched(u, v, c)
  <2>. HIDE DEF u, v
  <2>. QED BY <1>1 DEF AffectedScenes, Touched
<1>3. v.run = c.run /\ v = At(c.run, i - 1)
  BY InScopeIs
<1>4. AffectedCharacters(i) = Affected(v, c)
  <2>1. AffectedCharacters(i) =
          {y \in Character : y = c.key \/ Through(Replacements(v), Row(c.run, y)) = Row(c.run, c.key)}
    BY DEF AffectedCharacters
  <2>. HIDE DEF v, c
  <2>. QED BY <1>3, <2>1 DEF Affected
<1>5. CharacterGates(i) =
        {"registry"} \cup {"dialogue" : l \in {n \in Line : CandidatesOf[n] \cap Affected(v, c) # {}}}
  <2>. HIDE DEF v, c
  <2>. QED BY <1>4 DEF CharacterGates
<1>6. c.category \in {"identity", "merge", "split"} => GatesSentBack(i) = CharacterGates(i)
  BY DEF GatesSentBack
<1>7. MovesUnseen(i) = MovedIn(v, c)
  BY <1>3 DEF MovesUnseen, MovedIn
<1>8. Passing(i) = PassingIn(v, c)
  <2>1. Passing(i) = {y \in Character : \E n \in 0..Cardinality(Character) :
                        Chain(Merges(v), Row(c.run, y))[n] = Row(c.run, c.key)}
    BY DEF Passing
  <2>. HIDE DEF v, c
  <2>. QED BY <1>3, <2>1 DEF PassingIn, Passes
<1>9. LinesUnseen(i) = UnseenLines(v, c)
  <2>1. LinesUnseen(i) =
          IF c.category # "merge" THEN {}
          ELSE {l \in Line : \E y \in Passing(i) :
                  \/ y \notin CandidatesOf[l] /\ Claim(v, l, "speaker").who = Row(c.run, y)
                  \/ y \in CandidatesOf[l] /\ OpOf(v, c.key) = "merge" /\ y \notin AffectedCharacters(i)}
    BY DEF LinesUnseen
  <2>. HIDE DEF v, c
  <2>. QED BY <1>3, <1>4, <1>8, <2>1 DEF UnseenLines
<1>. QED BY <1>2, <1>5, <1>6, <1>7, <1>9

\* The last correction sends back what it changes, whatever its category, but
\* for what it overlooks.
LEMMA GoesBack ==
  ASSUME CorrectionsInv
  PROVE  ChangedEvidenceGoesBack
<1>1. SUFFICES ASSUME corrections # <<>>, NEW i, i = Len(corrections), NEW r, r = corrections[i].run
               PROVE  Differing(Evidence(At(r, i - 1)), Evidence(At(r, i)))
                        \subseteq GatesSentBack(i) \cup Overlooked(i)
  BY DEF ChangedEvidenceGoesBack, ChangedBy
<1> DEFINE c == corrections[i]
           u == At(r, i)
           v == At(r, i - 1)
           sent == GatesSentBack(i)
           gates == sent \cup Overlooked(i)
<1>2. Grown(u, v, c, i)
  BY <1>1, LastGrown
<1>3. c.category \in Categories
  BY <1>2, GrownTyped DEF Correction
<1>4. /\ AffectedScenes(i) = Touched(u, v, c)
      /\ MovesUnseen(i) = MovedIn(v, c) /\ LinesUnseen(i) = UnseenLines(v, c)
      /\ c.category \in {"identity", "merge", "split"} => sent =
           {"registry"} \cup {"dialogue" : l \in {n \in Line : CandidatesOf[n] \cap Affected(v, c) # {}}}
  BY <1>1, GatesAre
<1>5. /\ c.category = "boundary" => sent = BoundaryGates(i)
      /\ c.category = "label" => "structure" \in gates
      /\ c.category = "mention" => "registry" \in gates
      /\ c.category = "speaker" => "dialogue" \in gates
  BY DEF GatesSentBack
<1>6. /\ \A m \in Mention : SceneOf[m] \in MovedIn(v, c) => "registry" \in gates
      /\ \A l \in Line : SceneOf[l] \in MovedIn(v, c) => "dialogue" \in gates
      /\ \A l \in Line : l \in UnseenLines(v, c) => "dialogue" \in gates
      /\ sent \subseteq gates
  <2>. HIDE DEF u, v, c, sent
  <2>1. /\ \A m \in Mention : SceneOf[m] \in MovedIn(v, c) => "registry" \in Overlooked(i)
        /\ \A l \in Line : SceneOf[l] \in MovedIn(v, c) => "dialogue" \in Overlooked(i)
        /\ \A l \in Line : l \in UnseenLines(v, c) => "dialogue" \in Overlooked(i)
    BY <1>4, CorrectionsAssumption DEF Overlooked
  <2>. QED BY <2>1
<1>7. CASE c.category = "boundary"
  <2>1. sent = {"structure"} \cup {IF e \in Mention THEN "registry" ELSE "dialogue" :
                  e \in {d \in Mention \cup Line : SceneOf[d] \in Touched(u, v, c)}}
    BY <1>4, <1>5, <1>7 DEF BoundaryGates
  <2>. HIDE DEF u, v, c, sent, gates
  <2>2. /\ \A m \in Mention : SceneOf[m] \in Touched(u, v, c) => "registry" \in sent
        /\ \A l \in Line : SceneOf[l] \in Touched(u, v, c) => "dialogue" \in sent
        /\ "structure" \in sent
    BY <2>1, CorrectionsAssumption
  <2>3. /\ "registry" \in gates \/ Evidence(u).registry = Evidence(v).registry
        /\ "dialogue" \in gates \/ Evidence(u).dialogue = Evidence(v).dialogue
    BY <1>2, <1>6, <1>7, <2>2, BoundaryEvidence
  <2>4. Differing(Evidence(v), Evidence(u)) \subseteq gates
    BY <1>6, <2>2, <2>3, DifferingIs
  <2>. QED BY <2>4 DEF u, v, gates, sent
<1>8. CASE c.category = "label"
  <2>. HIDE DEF u, v, c, sent, gates
  <2>1. Evidence(u).registry = Evidence(v).registry /\ Evidence(u).dialogue = Evidence(v).dialogue
    BY <1>2, <1>8, LabelEvidence
  <2>2. Differing(Evidence(v), Evidence(u)) \subseteq gates
    BY <1>5, <1>8, <2>1, DifferingIs
  <2>. QED BY <2>2 DEF u, v, gates, sent
<1>9. CASE c.category \in {"identity", "merge", "split"}
  <2>. HIDE DEF u, v, c, sent, gates
  <2>1. "registry" \in gates /\ Evidence(u).structure = Evidence(v).structure
    BY <1>2, <1>4, <1>6, <1>9, CharacterEvidence
  <2>2. "dialogue" \in gates \/ Evidence(u).dialogue = Evidence(v).dialogue
    <3>1. SUFFICES ASSUME "dialogue" \notin gates PROVE Evidence(u).dialogue = Evidence(v).dialogue
      OBVIOUS
    <3>2. \A l \in Line : CandidatesOf[l] \cap Affected(v, c) = {} /\ l \notin UnseenLines(v, c)
      BY <1>4, <1>6, <1>9, <3>1
    <3>. QED BY <1>2, <1>9, <3>2, CharacterEvidence
  <2>3. Differing(Evidence(v), Evidence(u)) \subseteq gates
    BY <2>1, <2>2, DifferingIs
  <2>. QED BY <2>3 DEF u, v, gates, sent
<1>10. CASE c.category \in {"mention", "speaker"}
  <2>. HIDE DEF u, v, c, sent, gates
  <2>1. /\ Evidence(u).structure = Evidence(v).structure
        /\ "registry" \in gates \/ Evidence(u).registry = Evidence(v).registry
        /\ "dialogue" \in gates \/ Evidence(u).dialogue = Evidence(v).dialogue
    BY <1>2, <1>5, <1>10, GivenEvidence
  <2>2. Differing(Evidence(v), Evidence(u)) \subseteq gates
    BY <2>1, DifferingIs
  <2>. QED BY <2>2 DEF u, v, gates, sent
<1>. QED BY <1>3, <1>7, <1>8, <1>9, <1>10 DEF Categories

\* A correction that changes what a gate is about sends that gate back, or is
\* one of the kinds that the code is known to overlook: a second addition
\* beside a scene, and a merge of a character whose lines the search misses.
THEOREM ApprovalsAreOfWhatIsShown == CorrectionsSpec => []ChangedEvidenceGoesBack
<1>1. CorrectionsInv => ChangedEvidenceGoesBack
  BY GoesBack
<1>. QED BY <1>1, CorrectionsTyped, PTL

-----------------------------------------------------------------------------
(* What a correction means in a later run.                                 *)

\* Corrections speak of rows and names, but for scenes under added chapters.
LEMMA SoundIsPlain ==
  ASSUME NEW c, NEW i, Sound(c, i)
  PROVE  Plain(c)
  BY DEF Sound, Plain

\* A run that sees only what earlier runs recorded shows no scene under a
\* chapter that was added: their patches name no chapter of its own.
LEMMA CarriedIsAll ==
  ASSUME NEW v, NEW n, ViewTyped(v, n), \A i \in DOMAIN v.rows : v.rows[i].run # v.run
  PROVE  Carried(v) = Scenes(v)
<1> DEFINE a == Pieces(v, Scene)
           act == ActiveChapters(v)
           rows == {id \in act : id[3] = 0}
<1>1. v.run \in Nat \ {0} /\ Numbered(v)
  BY ViewNumbered DEF ViewTyped
<1>2. \A p \in act : p[1] = v.run
  BY ActiveIs DEF StandsIn, Row, Added
<1>3. ASSUME NEW id \in DOMAIN a, a[id].parent \in act
      PROVE  a[id].parent[3] = 0
  <2> DEFINE k == id[2]
             st == BoundaryState(v, k)
             effects == IF id[3] = 0 THEN st.onSource ELSE st.onAdded
             moves == {i \in effects : v.rows[i].category = "boundary"}
  <2>1. a[id] = Item(v, k, effects)
    BY DEF Pieces, Projected
  <2>2. a[id].parent = IF moves # {} THEN PatchFor(v.rows[Latest(moves)], v.run).to
                       ELSE IF k \in Scene THEN Row(v.run, ParentOf[k]) ELSE Story
    BY <2>1 DEF Item
  <2>3. CASE moves = {}
    BY <2>2, <2>3 DEF Row, Story
  <2>4. CASE moves # {}
    <3> DEFINE c == v.rows[Latest(moves)]
    <3>1. Latest(moves) \in DOMAIN v.rows
      <4>1. st.onSource \in SUBSET DOMAIN v.rows /\ st.onAdded \in SUBSET DOMAIN v.rows
        BY <1>1, EffectsNumbered
      <4>. HIDE DEF st
      <4>2. moves \in SUBSET DOMAIN v.rows
        BY <4>1
      <4>. HIDE DEF moves
      <4>. QED BY <1>1, <2>4, <4>2, LatestRow
    <3>2. c.run # v.run /\ Sound(c, Latest(moves))
      <4>. HIDE DEF moves
      <4>. QED BY <3>1 DEF ViewTyped
    <3>3. c \in Correction /\ c.to \in IdOf(c.run)
      <4>. HIDE DEF c
      <4>. QED BY <3>2 DEF Sound
    <3>4. a[id].parent = PatchFor(c, v.run).to
      <4>. HIDE DEF moves, a
      <4>. QED BY <2>2, <2>4
    <3> DEFINE p == a[id].parent
    <3>5. p \in act /\ p = PatchFor(c, v.run).to
      BY <1>3, <3>4
    <3>. HIDE DEF c, p, act
    <3>6. p[3] = c.to[3] /\ (c.to[3] # 0 => p = c.to)
      BY <3>3, <3>5, PatchThird
    <3>7. p[1] = v.run
      BY <1>2, <3>5
    <3>8. c.to[1] \in {0, c.run}
      BY <3>3 DEF IdOf
    <3>9. p[3] = 0
      BY <1>1, <3>2, <3>6, <3>7, <3>8
    <3>. QED BY <3>9 DEF p
  <2>. QED BY <2>3, <2>4
<1>4. {id \in DOMAIN a : a[id].parent \in rows} = {id \in DOMAIN a : a[id].parent \in act}
  <2>. HIDE DEF a, act
  <2>. QED BY <1>3
<1>5. Under(a, rows) = Under(a, act)
  <2>. HIDE DEF a, rows, act
  <2>. QED BY <1>4 DEF Under
<1>. QED BY <1>5 DEF Carried, Scenes

\* Two runs that see the same are twins, and the later one carries over all.
LEMMA Survive ==
  ASSUME CorrectionsInv
  PROVE  CorrectionsSurviveReruns
<1>1. SUFFICES ASSUME NEW r \in DOMAIN analyses, NEW q \in 1..(r - 1), Now(q).rows = Now(r).rows
               PROVE  Differing(CarriedEvidence(Now(q)), Evidence(Now(r))) = {}
  BY DEF CorrectionsSurviveReruns
<1>2. /\ CorrectionsTypeOK /\ InOrder /\ Len(corrections) \in 0..Len(corrections)
      /\ r \in Nat /\ q < r
  BY RunsTyped DEF CorrectionsInv
<1>3. q \in DOMAIN analyses
  BY <1>2, EarlierRun
<1>4. \A p \in DOMAIN analyses : ViewOK(Now(p)) /\ ViewTyped(Now(p), Len(corrections))
  <2>1. TAKE p \in DOMAIN analyses
  <2>2. ViewTyped(Now(p), Len(corrections))
    BY <1>2, ViewsTyped DEF Now
  <2>3. Numbered(Now(p))
    BY <2>2, ViewNumbered
  <2>. QED BY <2>2, <2>3, SoundIsPlain DEF ViewOK, ViewTyped
<1>5. Twins(Now(q), Now(r))
  BY <1>1, <1>3, <1>4 DEF Twins
<1>6. ASSUME NEW i \in DOMAIN Now(r).rows PROVE Now(r).rows[i].run # r
  <2>1. /\ i \in InScope(q, Len(corrections)) /\ Now(r).rows[i] = corrections[i]
        /\ i \in DOMAIN corrections
    <3>1. DOMAIN Now(q).rows = InScope(q, Len(corrections))
      BY InScopeIs DEF Now
    <3>2. DOMAIN Now(r).rows = InScope(r, Len(corrections))
      BY InScopeIs DEF Now
    <3>3. \A j \in InScope(r, Len(corrections)) : Now(r).rows[j] = corrections[j]
      BY InScopeIs DEF Now
    <3>4. i \in InScope(q, Len(corrections)) /\ i \in InScope(r, Len(corrections))
      BY <1>1, <1>6, <3>1, <3>2
    <3>5. DOMAIN corrections = 1..Len(corrections)
      BY <1>2 DEF CorrectionsTypeOK
    <3>6. InScope(r, Len(corrections)) \subseteq 1..Len(corrections)
      BY InScopeIs
    <3>. QED BY <3>3, <3>4, <3>5, <3>6
  <2>2. SUFFICES ASSUME corrections[i].run = r PROVE FALSE
    BY <2>1
  <2>3. corrections[i].at <= analyses[q].created
    BY <1>2, <2>1, <2>2 DEF InScope
  <2>4. analyses[q].created < analyses[r].created /\ analyses[r].created <= corrections[i].at
    BY <1>2, <1>3, <2>1, <2>2 DEF InOrder
  <2>5. corrections[i].at \in Nat /\ analyses[q].created \in Nat /\ analyses[r].created \in Nat
    BY <1>2, <1>3, <2>1, RunsTyped DEF CorrectionsTypeOK, Sound, Correction
  <2>. QED BY <2>3, <2>4, <2>5
<1>7. Carried(Now(r)) = Scenes(Now(r))
  <2>1. Now(r).run = r
    BY InScopeIs DEF Now
  <2>. QED BY <1>4, <1>6, <2>1, CarriedIsAll
<1>8. CarriedEvidence(Now(r)) = Evidence(Now(r))
  BY <1>7 DEF CarriedEvidence, Evidence
<1>9. CarriedEvidence(Now(q)) = CarriedEvidence(Now(r))
  BY <1>5, TwinEvidence
<1>. QED BY <1>8, <1>9 DEF Differing

\* A correction means in a later run what it meant where it was made, except
\* that what it put under a chapter that was added is not shown there: the
\* later run shows what the earlier one shows under the machine's chapters.
THEOREM RerunsShowTheSame == CorrectionsSpec => []CorrectionsSurviveReruns
<1>1. CorrectionsInv => CorrectionsSurviveReruns
  BY Survive
<1>. QED BY <1>1, CorrectionsTyped, PTL
=============================================================================
