--------------------------- MODULE AuditionReview ---------------------------
(* The auditions of an approved cast (audition_repository.py): sessions     *)
(* that freeze the evidence they were made from, clips published from new   *)
(* speech or from the cache, the pronunciation dictionary, and the review   *)
(* gates: one for each role, the narrators', the characters', the           *)
(* pronunciation and the voice readiness review.                            *)
(*                                                                          *)
(* The database is one record, book; a handler is the composition of the    *)
(* functions it calls in its transaction, each from a book to a book.       *)
(* A row is identified by its index.  A review record is content-addressed, *)
(* so it is its evidence; a role's review record is its clip.  The          *)
(* generation jobs are JobQueue's, the runtime is SpeechRuntime's.  Clips   *)
(* with blocking quality findings are not published.  There is one word     *)
(* that a script may contain and the dictionary may explain.  "rejected"    *)
(* stands for both refusals of a review.                                    *)
EXTENDS Integers, Sequences, FiniteSets, SequencesExt

CONSTANTS
  Roles,          \* the roles of the cast, in their order
  Narrators,
  Scopes,         \* what a new entry may be for: "project" or a role
  MaxSessions, MaxClips, MaxEntries, \* bounds: rows of each kind
  MaxChanges      \* bound: everything but first approvals

ASSUME AuditionAssumption ==
  /\ ToSet(Roles) \cap {"narrators", "characters", "pronunciation"} = {}
  /\ {MaxSessions, MaxClips, MaxEntries, MaxChanges} \subseteq Nat

VARIABLES
  world,  \* [tuple, cast, current, verification]: the approvals of the cast,
          \* its assignments, whether the evidence holds, the verified model
  book,   \* the rows of the audition tables
  changes \* disturbances so far (bound)

auditionVars == <<world, book, changes>>

Role      == ToSet(Roles)
Aggregate == {"narrators", "characters"}
Gate      == Aggregate \cup {"pronunciation"}
ReviewDecision == {"approved", "rejected"}
Undecided == [review |-> 0, state |-> "none", revision |-> 0]
GateOf(r) == IF r \in Narrators THEN "narrators" ELSE "characters"
Scoped(g) == {r \in Role : GateOf(r) = g}

AuditionInit ==
  /\ world = [tuple |-> 1, cast |-> 1, current |-> TRUE, verification |-> 1]
  /\ book = [sessions |-> <<>>, clips |-> <<>>, audio |-> <<>>, entries |-> <<>>,
             dictionary |-> 1, decided |-> [x \in Role \cup Gate |-> Undecided],
             shown |-> [g \in Gate |-> <<>>], ready |-> <<>>, verdict |-> Undecided]
  /\ changes = 0

Disturb == changes < MaxChanges /\ changes' = changes + 1
Newest(S) == CHOOSE i \in S \cup {0} : \A j \in S : j <= i

----------------------------------------------------------------------------
(* Sessions, clips and what is current.                                     *)

\* The approvals that the session froze, its assignment, the verification of
\* its model and its dictionary.  _session_dependency_drift asks for all but
\* the dictionary, _validate_session_evidence for any verified model.
ApprovalsStand(w, s)   == w.current /\ s.tuple = w.tuple
AssignmentStands(w, s) == s.cast = w.cast
ModelStands(w, s)      == s.verification = w.verification
DictionaryStands(b, s) == s.dictionary = b.dictionary

Drifted(w, s) == ~(ApprovalsStand(w, s) /\ AssignmentStands(w, s) /\ ModelStands(w, s))
EvidenceValid(b, w, i) ==
  LET s == b.sessions[i] IN
  ApprovalsStand(w, s) /\ AssignmentStands(w, s) /\ DictionaryStands(b, s)

\* _latest_current_audition_session, for all roles or for one.
LatestSession(b, w, R) ==
  IF ~w.current THEN 0
  ELSE Newest({i \in DOMAIN b.sessions :
               b.sessions[i].role \in R /\ b.sessions[i].tuple = w.tuple})

RoleOf(b, c)     == b.sessions[b.clips[c].session].role
ClipsOf(b, i)    == {c \in DOMAIN b.clips : b.clips[c].session = i}
RoleReview(b, r) == Newest({c \in DOMAIN b.clips : RoleOf(b, c) = r})

\* _current_role_audition_evidence: the newest clip of the role's newest
\* session of this cast, 0 if there is none.
CurrentClip(b, w, r) ==
  LET i == LatestSession(b, w, {r}) IN IF i = 0 THEN 0 ELSE Newest(ClipsOf(b, i))

\* _approved_current_role_audition_evidence
Approved(b, w, r) ==
  LET c == CurrentClip(b, w, r)  d == b.decided[r] IN
  /\ d.state = "approved" /\ c # 0 /\ d.review = c
  /\ b.sessions[b.clips[c].session].state # "invalidated"
  /\ ~Drifted(w, b.sessions[b.clips[c].session])

\* _effective_pronunciation_rows and _select_entry: approved entries that no
\* approved entry replaces, the role's before the project's.
Replaced(entries) ==
  UNION {entries[e].line : e \in {f \in DOMAIN entries : entries[f].state = "approved"}}
Winning(entries, r) ==
  LET live  == {e \in DOMAIN entries \ Replaced(entries) : entries[e].state = "approved"}
      own   == {e \in live : entries[e].scope = r}
  IN IF own # {} THEN own ELSE {e \in live : entries[e].scope = "project"}

\* compile_pronunciation_plan: two entries of the same rank cannot be compiled.
Plan(entries, r, spoken) ==
  IF spoken THEN {<<e, entries[e].revision>> : e \in Winning(entries, r)} ELSE {}
Compiles(plan) == Cardinality(plan) <= 1

----------------------------------------------------------------------------
(* Invalidation.                                                            *)

\* _append_audition_review_invalidation
Revoked(d, review) ==
  IF d.state \in {"none", "invalidated"} \/ review = 0 THEN d
  ELSE [review |-> review, state |-> "invalidated", revision |-> d.revision + 1]

Invalidated(session) == [session EXCEPT !.state = "invalidated"]
InvalidateSessions(b, S) ==
  [b EXCEPT !.sessions = [i \in DOMAIN @ |-> IF i \in S THEN Invalidated(@[i]) ELSE @[i]]]

\* _invalidate_clip_dependencies: sessions, the reviews of roles whose newest
\* review is of such a clip, their aggregates and the readiness.
InvalidateClips(b, C) ==
  LET roles == {r \in Role : /\ b.decided[r].state \notin {"none", "invalidated"}
                              /\ RoleReview(b, r) \in C}
      gates == {GateOf(r) : r \in roles}
      Review(x) == IF x \in Role THEN RoleReview(b, x) ELSE Len(b.shown[x])
  IN [InvalidateSessions(b, {b.clips[c].session : c \in C}) EXCEPT
    !.decided = [x \in DOMAIN @ |-> IF x \in roles \cup gates THEN Revoked(@[x], Review(x))
                                                             ELSE @[x]],
    !.verdict = IF gates = {} THEN @ ELSE Revoked(@, Len(b.ready))]

\* _reconcile_project_evidence
Reconciled(b, w) ==
  LET drifted == {i \in DOMAIN b.sessions : Drifted(w, b.sessions[i])}
  IN InvalidateSessions(InvalidateClips(b, UNION {ClipsOf(b, i) : i \in drifted}), drifted)

\* Mutants: the clips that used the entry itself; every clip of the project.
AffectedByUse(b, e) == {c \in DOMAIN b.clips : \E x \in b.clips[c].plan : x[1] = e}
AffectedAnyway(b, e) == DOMAIN b.clips

\* _invalidate_pronunciation_dependencies: the clips that used the entry or
\* one it stands for, and those whose text now would or cannot be compiled.
Affected(b, e) ==
  LET changed == {e} \cup b.entries[e].line
      Uses(plan) == {x[1] : x \in plan} \cap changed # {}
      Now(c) == Plan(b.entries, RoleOf(b, c), b.clips[c].spoken)
  IN {c \in DOMAIN b.clips : Uses(b.clips[c].plan) \/ ~Compiles(Now(c)) \/ Uses(Now(c))}

InvalidatePronunciation(b, e) ==
  LET c == InvalidateClips(b, Affected(b, e)) IN
  [c EXCEPT
    !.decided["pronunciation"] = Revoked(@, Len(b.shown["pronunciation"])),
    !.verdict = Revoked(@, Len(b.ready))]

----------------------------------------------------------------------------
(* Reviews of the gates.                                                    *)

\* _clip_integrity_fingerprints: the file is sound, the cache row still names
\* it, and the newest quality measurement of the file is this clip's.
CacheKey(b, c) == <<RoleOf(b, c), b.sessions[b.clips[c].session].cast,
                    b.clips[c].spoken, b.clips[c].plan>>
SameFile(b, c) == {d \in DOMAIN b.clips : b.clips[d].audio = b.clips[c].audio}
Intact(b, c) ==
  /\ b.audio[b.clips[c].audio].state = "sound" /\ b.audio[b.clips[c].audio].cached
  /\ c = Newest(SameFile(b, c))

\* The evidence of a gate's current review, or none: _ensure_pronunciation_
\* review and _ensure_aggregate_review.
Evidence(b, w, g) ==
  LET i == LatestSession(b, w, Role) IN
  IF i = 0 \/ (g = "pronunciation" /\ Drifted(w, b.sessions[i])) THEN {}
  ELSE {[tuple |-> w.tuple, verification |-> b.sessions[i].verification,
         dictionary |-> IF g = "pronunciation" THEN b.dictionary ELSE b.sessions[i].dictionary,
         parts |-> [r \in Scoped(g) |-> IF Approved(b, w, r) THEN b.decided[r].revision ELSE 0],
         eligible |-> IF g = "pronunciation"
                      THEN \A e \in DOMAIN b.entries : b.entries[e].state \in {"approved", "rejected"}
                      ELSE Scoped(g) # {} /\ \A r \in Scoped(g) : Approved(b, w, r)]}

\* A record with the same evidence is returned, a new one appended.
Ensured(b, w, g) ==
  [b EXCEPT !.shown[g] = @ \o SetToSeq(Evidence(b, w, g) \ ToSet(@))]

\* The gate as _ensure_voice_readiness looks at it: its newest record.
GateHolds(b, w, g) ==
  LET n == Len(b.shown[g])  e == b.shown[g][n]  d == b.decided[g] IN
  /\ n # 0 /\ e.eligible /\ e.tuple = w.tuple
  /\ IF g = "pronunciation" THEN e.dictionary = b.dictionary
     ELSE e.parts = [r \in Scoped(g) |-> b.decided[r].revision]
  /\ d.review = n /\ d.state = "approved"

\* The first role whose approved clip is no longer intact, when the roles
\* before it are approved: the readiness check invalidates it and stops.
Fit(b, w, n) == Approved(b, w, Roles[n]) /\ Intact(b, CurrentClip(b, w, Roles[n]))
Damaged(b, w) ==
  {CurrentClip(b, w, Roles[n]) : n \in {m \in DOMAIN Roles :
     Approved(b, w, Roles[m]) /\ ~Fit(b, w, m) /\ \A l \in 1..(m - 1) : Fit(b, w, l)}}

ReadyEvidence(b, w) ==
  IF /\ LatestSession(b, w, Role) # 0
     /\ \A n \in DOMAIN Roles : Fit(b, w, n)
     /\ \A g \in Gate : GateHolds(b, w, g)
  THEN {[tuple |-> w.tuple, dictionary |-> b.dictionary,
         verification |-> b.sessions[LatestSession(b, w, Role)].verification,
         audio |-> [r \in Role |-> b.clips[CurrentClip(b, w, r)].audio],
         decisions |-> [g \in Gate |-> b.decided[g].revision]]}
  ELSE {}

\* _ensure_voice_readiness
ReadinessChecked(b, w) ==
  LET c == InvalidateClips(b, Damaged(b, w)) IN
  [c EXCEPT !.ready = @ \o SetToSeq(ReadyEvidence(b, w) \ ToSet(@))]

\* _refresh_reviews
Refreshed(b, w) ==
  ReadinessChecked(
    Ensured(Ensured(Ensured(b, w, "pronunciation"), w, "narrators"), w, "characters"), w)

\* The review that the workspace shows, 0 if it shows none.
IndexIn(seq, S) == Newest({n \in DOMAIN seq : seq[n] \in S})
CurrentReview(b, w, x) ==
  IF x \in Role THEN CurrentClip(b, w, x) ELSE IndexIn(b.shown[x], Evidence(b, w, x))

----------------------------------------------------------------------------
(* The handlers.                                                            *)

Become(b) == book' = b /\ UNCHANGED world

\* create_session freezes the approvals, the dictionary and the model.
NewSession(b, w, r) ==
  [role |-> r, tuple |-> w.tuple, cast |-> w.cast, dictionary |-> b.dictionary,
   verification |-> w.verification, state |-> "draft", request |-> "none"]
CreateSession(r) ==
  /\ Len(book.sessions) < MaxSessions /\ world.current
  /\ Become([book EXCEPT !.sessions = Append(@, NewSession(book, world, r))])

SetSession(i, state, request) ==
  Become([book EXCEPT !.sessions[i].request = request,
                      !.sessions[i].state = IF @ = "invalidated" THEN @ ELSE state])

\* queue_generation: a request under the key of an earlier one gets its job.
MayQueue(i) ==
  /\ book.sessions[i].state \notin {"generating", "invalidated"}
  /\ EvidenceValid(book, world, i)
QueueGeneration(i) == MayQueue(i) /\ SetSession(i, "generating", "running")

\* mark_job_terminal of a generation that failed or was cancelled; a retry of
\* its job asks nothing of the session.
EndWithoutClip(i) ==
  /\ book.sessions[i].request = "running"
  /\ SetSession(i, "failed", "ended")
RetryGeneration(i) ==
  /\ book.sessions[i].request = "ended"
  /\ SetSession(i, "generating", "running")

\* The audio that the cache has for a text in the session.
Cached(b, i, spoken) ==
  {b.clips[c].audio : c \in {d \in DOMAIN b.clips :
     /\ CacheKey(b, d) = <<b.sessions[i].role, b.sessions[i].cast, spoken,
                           Plan(b.entries, b.sessions[i].role, spoken)>>
     /\ b.audio[b.clips[d].audio].cached}}

\* The rows of an audio file that may no longer be used, and of its clips.
Withdrawn(b, files) ==
  InvalidateClips(
    [b EXCEPT !.audio = [a \in DOMAIN @ |->
       IF a \in files THEN [state |-> "gone", cached |-> FALSE] ELSE @[a]]],
    {c \in DOMAIN b.clips : b.clips[c].audio \in files})

\* _verified_cache_hit of a file that is no longer sound.
RejectCached(i, spoken) ==
  LET bad == {a \in Cached(book, i, spoken) : book.audio[a].state # "sound"} IN
  /\ book.sessions[i].request = "running" /\ bad # {}
  /\ Become(Withdrawn(book, bad))

\* publish_generation_result and _publish_clip_and_cache: from the cache or
\* with a new file.  The state of the session is not looked at.
WithAudio(b, audio) ==
  IF audio <= Len(b.audio) THEN b
  ELSE [b EXCEPT !.audio = Append(@, [state |-> "sound", cached |-> TRUE])]
Published(b, i, spoken, audio) ==
  [WithAudio(b, audio) EXCEPT
    !.clips = Append(@, [session |-> i, spoken |-> spoken, audio |-> audio,
                         plan |-> Plan(b.entries, b.sessions[i].role, spoken)]),
    !.sessions[i].state = "reviewable", !.sessions[i].request = "none"]

PublishClip(i, spoken) ==
  LET hits == Cached(book, i, spoken) IN
  /\ Len(book.clips) < MaxClips
  /\ book.sessions[i].request = "running" /\ EvidenceValid(book, world, i)
  /\ ~Drifted(world, book.sessions[i])
  /\ Compiles(Plan(book.entries, book.sessions[i].role, spoken))
  /\ \A a \in hits : book.audio[a].state = "sound"
  /\ Become(Published(book, i, spoken, IF hits = {} THEN Len(book.audio) + 1 ELSE Newest(hits)))

\* create_pronunciation_entry: nothing is effective, nothing invalidated.
Entered(b, scope, f) ==
  [b EXCEPT !.dictionary = @ + 1,
            !.entries = Append(@, [scope |-> scope, state |-> "pending", revision |-> 1,
              line |-> IF f = 0 THEN {} ELSE {f} \cup b.entries[f].line])]
CreateEntry(scope, f) ==
  /\ Len(book.entries) < MaxEntries /\ f \in 0..Len(book.entries)
  /\ Become(Entered(book, scope, f))

\* decide_pronunciation_entry
DecideEntry(e, d) ==
  LET before == book.entries[e].state
      b == [book EXCEPT !.dictionary = @ + 1, !.entries[e].state = d,
                        !.entries[e].revision = @ + 1]
      c == IF "approved" \in {before, d} THEN InvalidatePronunciation(b, e) ELSE b
  IN
  /\ before # "rejected"
  /\ Become(Ensured(c, world, "pronunciation"))

\* What a request that shows or decides reviews does first.
Fresh(b, w) == Refreshed(Reconciled(b, w), w)

\* decide_review.  A role's clip is verified first, in a transaction of its own.
Decided(b, x, n, d) ==
  [b EXCEPT !.decided[x] = [review |-> n, state |-> d, revision |-> @.revision + 1]]
DecideReview(b, x, d) ==
  LET n == CurrentReview(b, world, x) IN
  /\ n # 0
  /\ x \in Role => Intact(book, n) /\ EvidenceValid(b, world, b.clips[n].session)
  /\ x \in Gate /\ d = "approved" => b.shown[x][n].eligible
  /\ IF d = "approved" /\ b.decided[x].review # n THEN UNCHANGED changes ELSE Disturb
  /\ Become(Refreshed(Decided(b, x, n, d), world))

\* _assert_per_role_review_clip_integrity of a review of any age: the decision
\* is refused.  A newer measurement of the file is a changed binding, which
\* withdraws the clip and not the file.
RefuseClip(c) ==
  LET audio == book.clips[c].audio IN
  /\ ~Intact(book, c)
  /\ Become(InvalidateClips(
       IF c # Newest(SameFile(book, c)) THEN book
       ELSE [book EXCEPT !.audio[audio] = [state |-> "gone", cached |-> FALSE]], {c}))

\* _decide_voice_readiness
Verdict(b, n, d) ==
  [b EXCEPT !.verdict = [review |-> n, state |-> d, revision |-> @.revision + 1]]
DecideReadiness(b, d) ==
  LET n == IndexIn(b.ready, ReadyEvidence(b, world)) IN
  /\ n # 0
  /\ IF d = "approved" /\ b.verdict.review # n THEN UNCHANGED changes ELSE Disturb
  /\ Become(Verdict(b, n, d))

\* workspace_snapshot
ReadWorkspace(b) == Become(b) /\ UNCHANGED changes

\* clear_cache
ClearCache ==
  /\ \E a \in DOMAIN book.audio : book.audio[a].cached
  /\ Become(Withdrawn(book, {a \in DOMAIN book.audio : book.audio[a].cached}))

----------------------------------------------------------------------------
(* Outside events.                                                          *)

\* The approvals of the cast lose their evidence, get it back unchanged, or
\* are given again, to the same assignments or to others.
LoseAuthority ==
  world.current /\ world' = [world EXCEPT !.current = FALSE] /\ UNCHANGED book
RegainAuthority ==
  ~world.current /\ world' = [world EXCEPT !.current = TRUE] /\ UNCHANGED book
Reapprove(cast) ==
  /\ world' = [world EXCEPT !.tuple = @ + 1, !.cast = cast, !.current = TRUE]
  /\ UNCHANGED book

\* A model action: another verification, and the evidence is reconciled.
ChangeModel ==
  /\ world' = [world EXCEPT !.verification = @ + 1]
  /\ book' = Reconciled(book, world')

DamageFile(a) ==
  /\ book.audio[a].state = "sound"
  /\ Become([book EXCEPT !.audio[a].state = "damaged"])

AuditionNext ==
  \/ /\ \/ \E r \in Role : CreateSession(r)
        \/ \E i \in DOMAIN book.sessions :
             \/ QueueGeneration(i) \/ RetryGeneration(i)
             \/ \E spoken \in BOOLEAN : PublishClip(i, spoken) \/ RejectCached(i, spoken)
        \/ \E c \in DOMAIN book.clips : RefuseClip(c)
        \/ RegainAuthority
     /\ UNCHANGED changes
  \/ LET b == Fresh(book, world) IN
     \/ \E x \in Role \cup Gate, d \in ReviewDecision : DecideReview(b, x, d)
     \/ \E d \in ReviewDecision : DecideReadiness(b, d)
     \/ ReadWorkspace(b)
  \/ /\ \/ \E scope \in Scopes, f \in 0..MaxEntries : CreateEntry(scope, f)
        \/ \E e \in DOMAIN book.entries, d \in {"approved", "rejected", "changes"} :
             DecideEntry(e, d)
        \/ \E i \in DOMAIN book.sessions : EndWithoutClip(i)
        \/ \E a \in DOMAIN book.audio : DamageFile(a)
        \/ ClearCache \/ ChangeModel \/ LoseAuthority
        \/ \E cast \in {world.cast, world.cast + 1} : Reapprove(cast)
     /\ Disturb

AuditionSpec == AuditionInit /\ [][AuditionNext]_auditionVars

----------------------------------------------------------------------------
\* What the workspace reports as ready.
Ready(b, w) ==
  /\ b.verdict.state = "approved"
  /\ LET c == Fresh(b, w)
         n == IndexIn(c.ready, ReadyEvidence(c, w))
     IN n # 0 /\ c.verdict.review = n /\ c.verdict.state = "approved"

\* Voice readiness that the workspace shows as approved rests on what holds
\* now, whatever was decided in between: no pronunciation entry is open, and
\* the current clip of every role speaks the pronunciations that are effective
\* now, from a sound file, for the current assignment and the verified model
\* (_refresh_reviews, _ensure_voice_readiness and the invalidations).
ReadyRestsOnCurrentEvidence ==
  Ready(book, world) =>
    /\ \A e \in DOMAIN book.entries : book.entries[e].state \in {"approved", "rejected"}
    /\ \A r \in Role : LET clip == book.clips[CurrentClip(book, world, r)] IN
         /\ clip.plan = Plan(book.entries, r, clip.spoken)
         /\ book.audio[clip.audio].state = "sound"
         /\ book.sessions[clip.session].cast = world.cast
         /\ book.sessions[clip.session].verification = world.verification

\* A step that changes the entries takes the approval of a role away only if
\* some clip of that role would now be spoken differently.
SparesUnrelated ==
  book'.entries # book.entries =>
    \A r \in Role : Approved(book, world, r) =>
      \/ Approved(book', world', r)
      \/ \E c \in DOMAIN book.clips :
           /\ RoleOf(book, c) = r
           /\ book.clips[c].plan # Plan(book'.entries, r, book.clips[c].spoken)

\* Deciding a pronunciation entry takes no approval away from a role of which
\* every clip is still spoken as it was (_invalidate_pronunciation_
\* dependencies; docs/product/user-workflows.md:170).
UnrelatedApprovalsStay == [][SparesUnrelated]_auditionVars
============================================================================
