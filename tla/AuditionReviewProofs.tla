------------------------- MODULE AuditionReviewProofs -------------------------
(***************************************************************************)
(* Proofs about AuditionReview, for any cast, dictionary and bounds.       *)
(*                                                                         *)
(* The handlers are compositions of functions from book to book, and so    *)
(* are the proofs: first what each function does to a book, then that      *)
(* each handler keeps BookInv.  Most functions only take things away       *)
(* (Follows); what can add an approval, a clip or an entry has a lemma of  *)
(* its own.                                                                *)
(***************************************************************************)
EXTENDS AuditionReview, TLAPS, FiniteSetTheorems, WellFoundedInduction

-----------------------------------------------------------------------------
(* Sequences and their newest members.                                     *)

(* Every set of row numbers has a newest one, 0 if it is empty.            *)
LEMMA NewestIn ==
  ASSUME NEW n \in Nat, NEW S \in SUBSET (1..n)
  PROVE  Newest(S) \in S \cup {0} /\ \A j \in S : j <= Newest(S)
<1> DEFINE Less == {p \in Nat \X Nat : p[1] < p[2]}
           T == {n - i : i \in S \cup {0}}
<1>1. IsWellFoundedOn(Less, Nat)
  BY NatLessThanWellFounded DEF OpToRel
<1>2. T \subseteq Nat /\ T # {}
  OBVIOUS
<1>3. PICK x \in T : \A y \in T : <<y, x>> \notin Less
  <2>. HIDE DEF T, Less
  <2>. QED BY <1>1, <1>2, WFMin
<1>4. PICK i \in S \cup {0} : x = n - i
  OBVIOUS
<1>5. ASSUME NEW j \in S PROVE j <= i
  <2>1. n - j \in T /\ n - j \in Nat /\ x \in Nat
    BY <1>2
  <2>2. ~(n - j < x)
    <3>1. <<n - j, x>> \notin Less
      BY <1>3, <2>1
    <3>. QED BY <2>1, <3>1
  <2>. QED BY <1>4, <2>2
<1>. QED BY <1>5 DEF Newest

(* The sequence of a set with at most one member.                          *)
LEMMA SequenceOfNone == SetToSeq({}) = <<>>
<1>1. Cardinality({}) = 0
  BY FS_EmptySet
<1>2. \E f \in [1..0 -> {}] : IsInjective(f)
  <2>1. <<>> \in [1..0 -> {}] /\ IsInjective(<<>>)
    BY DEF IsInjective
  <2>. QED BY <2>1
<1>3. SetToSeq({}) \in [1..0 -> {}]
  BY <1>1, <1>2 DEF SetToSeq
<1>. QED BY <1>3

LEMMA SequenceOfOne ==
  ASSUME NEW x PROVE SetToSeq({x}) = <<x>>
<1>1. Cardinality({x}) = 1
  BY FS_Singleton
<1>2. \E f \in [1..1 -> {x}] : IsInjective(f)
  <2>1. [i \in 1..1 |-> x] \in [1..1 -> {x}] /\ IsInjective([i \in 1..1 |-> x])
    BY DEF IsInjective
  <2>. QED BY <2>1
<1>3. SetToSeq({x}) \in [1..1 -> {x}]
  BY <1>1, <1>2 DEF SetToSeq
<1>. QED BY <1>3

-----------------------------------------------------------------------------
(* The rows.                                                               *)

Session ==
  [role : Role, tuple : Nat, cast : Nat, dictionary : Nat, verification : Nat,
   state : {"draft", "generating", "failed", "reviewable", "invalidated"},
   request : {"none", "running", "ended"}]
Clip == [session : Nat, spoken : BOOLEAN, audio : Nat, plan : SUBSET (Nat \X Nat)]
Audio == [state : {"sound", "damaged", "gone"}, cached : BOOLEAN]
Entry == [scope : Scopes, state : {"pending", "approved", "rejected", "changes"},
          revision : Nat, line : SUBSET Nat]
Decision == [review : Nat, state : {"none", "approved", "rejected", "invalidated"},
             revision : Nat]
Review == [tuple : Nat, verification : Nat, dictionary : Nat,
           parts : UNION {[Scoped(g) -> Nat] : g \in Gate}, eligible : BOOLEAN]

WorldOK(w) ==
  w \in [tuple : Nat, cast : Nat, current : BOOLEAN, verification : Nat]

(* The book with these tables.                                             *)
Tables(sessions, clips, audio, entries, dictionary, decided, shown, ready, verdict) ==
  [sessions : {sessions}, clips : {clips}, audio : {audio}, entries : {entries},
   dictionary : {dictionary}, decided : {decided}, shown : {shown}, ready : {ready},
   verdict : {verdict}]

IsBook(b) == b \in Tables(b.sessions, b.clips, b.audio, b.entries, b.dictionary, b.decided,
                          b.shown, b.ready, b.verdict)

(* A book has its tables, and a clip its session and its audio.            *)
BookOK(b) ==
  /\ IsBook(b)
  /\ b.sessions \in Seq(Session) /\ b.clips \in Seq(Clip)
  /\ b.audio \in Seq(Audio) /\ b.entries \in Seq(Entry)
  /\ b.dictionary \in Nat
  /\ b.decided \in [Role \cup Gate -> Decision]
  /\ b.shown \in [Gate -> Seq(Review)]
  /\ \A c \in DOMAIN b.clips :
       b.clips[c].session \in DOMAIN b.sessions /\ b.clips[c].audio \in DOMAIN b.audio

SessionOf(b, c) == b.sessions[b.clips[c].session]

(* How the text of a clip would be spoken now.                             *)
Now(b, c) == Plan(b.entries, RoleOf(b, c), b.clips[c].spoken)

(* The dictionary a session froze is not newer than the present one, and a *)
(* later clip does not rest on an older dictionary than an earlier one.    *)
Frozen(b) ==
  /\ \A i \in DOMAIN b.sessions : b.sessions[i].dictionary <= b.dictionary
  /\ \A c, d \in DOMAIN b.clips : c <= d => SessionOf(b, c).dictionary <= SessionOf(b, d).dictionary

(* A clip speaks as its text would be spoken now, or its session is        *)
(* invalidated for good: it froze another dictionary, and only sessions of *)
(* the present one become reviewable again.                                *)
Spoken(b) ==
  \A c \in DOMAIN b.clips :
    /\ Compiles(b.clips[c].plan)
    /\ \/ b.clips[c].plan = Now(b, c)
       \/ SessionOf(b, c).state = "invalidated" /\ SessionOf(b, c).dictionary # b.dictionary

(* While a role's decision stands, its newest clip speaks what it would    *)
(* speak now.                                                              *)
ApprovedSpoken(b) ==
  \A r \in Role : b.decided[r].state = "approved" =>
    RoleReview(b, r) # 0 /\ b.clips[RoleReview(b, r)].plan = Now(b, RoleReview(b, r))

AllDecided(b) == \A e \in DOMAIN b.entries : b.entries[e].state \in {"approved", "rejected"}

(* A pronunciation review that names the present dictionary is eligible    *)
(* only if no entry is open.                                               *)
Vouched(b) ==
  \A n \in DOMAIN b.shown["pronunciation"] :
    LET e == b.shown["pronunciation"][n] IN
    /\ e.dictionary <= b.dictionary
    /\ e.dictionary = b.dictionary /\ e.eligible => AllDecided(b)

BookInv(b) == BookOK(b) /\ Frozen(b) /\ Spoken(b) /\ ApprovedSpoken(b) /\ Vouched(b)

-----------------------------------------------------------------------------
(* What is looked up in a book.                                            *)

LEMMA Names == Role \cap Gate = {} /\ "pronunciation" \in Gate /\ Aggregate \subseteq Gate
               /\ \A r \in Role : GateOf(r) \in Aggregate
BY AuditionAssumption DEF Role, Gate, Aggregate, GateOf

LEMMA Domains ==
  ASSUME NEW b, BookOK(b)
  PROVE  /\ Len(b.sessions) \in Nat /\ DOMAIN b.sessions = 1..Len(b.sessions)
         /\ Len(b.clips) \in Nat /\ DOMAIN b.clips = 1..Len(b.clips)
         /\ Len(b.audio) \in Nat /\ DOMAIN b.audio = 1..Len(b.audio)
         /\ Len(b.entries) \in Nat /\ DOMAIN b.entries = 1..Len(b.entries)
         /\ \A i \in DOMAIN b.sessions : b.sessions[i] \in Session
         /\ \A c \in DOMAIN b.clips : b.clips[c] \in Clip
         /\ \A a \in DOMAIN b.audio : b.audio[a] \in Audio
         /\ \A e \in DOMAIN b.entries : b.entries[e] \in Entry
         /\ \A c \in DOMAIN b.clips : SessionOf(b, c) \in Session /\ RoleOf(b, c) \in Role
<1>1. /\ b.sessions \in Seq(Session) /\ b.clips \in Seq(Clip)
      /\ b.audio \in Seq(Audio) /\ b.entries \in Seq(Entry)
      /\ \A c \in DOMAIN b.clips : b.clips[c].session \in DOMAIN b.sessions
  BY DEF BookOK
<1>2. \A i \in DOMAIN b.sessions : b.sessions[i] \in Session
  BY <1>1
<1>3. \A c \in DOMAIN b.clips : SessionOf(b, c) \in Session
  BY <1>1, <1>2 DEF SessionOf
<1>4. \A c \in DOMAIN b.clips : RoleOf(b, c) \in Role
  BY <1>3 DEF SessionOf, RoleOf, Session
<1>. QED BY <1>1, <1>2, <1>3, <1>4

LEMMA LatestIn ==
  ASSUME NEW b, BookOK(b), NEW w, NEW R
  PROVE  LET i == LatestSession(b, w, R) IN
         /\ i \in DOMAIN b.sessions \cup {0}
         /\ i # 0 => b.sessions[i].role \in R /\ b.sessions[i].tuple = w.tuple
<1> DEFINE S == {i \in DOMAIN b.sessions : b.sessions[i].role \in R /\ b.sessions[i].tuple = w.tuple}
<1>1. Newest(S) \in S \cup {0}
  <2>1. S \in SUBSET (1..Len(b.sessions)) /\ Len(b.sessions) \in Nat
    BY Domains
  <2>. HIDE DEF S
  <2>. QED BY <2>1, NewestIn
<1>2. LatestSession(b, w, R) = IF ~w.current THEN 0 ELSE Newest(S)
  BY DEF LatestSession
<1>. QED BY <1>1, <1>2

LEMMA CurrentIn ==
  ASSUME NEW b, BookOK(b), NEW w, NEW r
  PROVE  LET c == CurrentClip(b, w, r) IN
         c # 0 => /\ c \in DOMAIN b.clips /\ RoleOf(b, c) = r
                  /\ b.clips[c].session = LatestSession(b, w, {r})
<1> DEFINE i == LatestSession(b, w, {r})
<1>1. i # 0 => b.sessions[i].role = r
  BY LatestIn
<1>2. Newest(ClipsOf(b, i)) \in ClipsOf(b, i) \cup {0}
  <2>1. ClipsOf(b, i) \in SUBSET (1..Len(b.clips)) /\ Len(b.clips) \in Nat
    BY Domains DEF ClipsOf
  <2>. HIDE DEF i
  <2>. QED BY <2>1, NewestIn
<1>3. CurrentClip(b, w, r) = IF i = 0 THEN 0 ELSE Newest(ClipsOf(b, i))
  BY DEF CurrentClip
<1>. QED BY <1>1, <1>2, <1>3 DEF ClipsOf, RoleOf

LEMMA ReviewIn ==
  ASSUME NEW b, BookOK(b), NEW r
  PROVE  LET k == RoleReview(b, r) IN
         /\ k \in {c \in DOMAIN b.clips : RoleOf(b, c) = r} \cup {0} /\ k \in Nat
         /\ \A c \in DOMAIN b.clips : RoleOf(b, c) = r => c <= k
<1> DEFINE S == {c \in DOMAIN b.clips : RoleOf(b, c) = r}
<1>1. S \in SUBSET (1..Len(b.clips)) /\ Len(b.clips) \in Nat
  BY Domains
<1>2. Newest(S) \in S \cup {0} /\ \A c \in S : c <= Newest(S)
  <2>. HIDE DEF S
  <2>. QED BY <1>1, NewestIn
<1>. QED BY <1>1, <1>2 DEF RoleReview

-----------------------------------------------------------------------------
(* Functions that only take things away.                                   *)

(* What c leaves of b: sessions and decisions as they were or invalidated. *)
Follows(b, c) ==
  /\ c.clips = b.clips /\ c.entries = b.entries /\ c.dictionary = b.dictionary
  /\ DOMAIN c.sessions = DOMAIN b.sessions
  /\ \A i \in DOMAIN b.sessions : c.sessions[i] \in {b.sessions[i], Invalidated(b.sessions[i])}
  /\ \A r \in Role : c.decided[r] = b.decided[r] \/ c.decided[r].state = "invalidated"

LEMMA InvalidatedSession ==
  ASSUME NEW s \in Session
  PROVE  /\ Invalidated(s) \in Session /\ Invalidated(s).state = "invalidated"
         /\ Invalidated(Invalidated(s)) = Invalidated(s)
         /\ Invalidated(s).role = s.role /\ Invalidated(s).tuple = s.tuple
         /\ Invalidated(s).cast = s.cast /\ Invalidated(s).dictionary = s.dictionary
         /\ Invalidated(s).verification = s.verification
BY DEF Invalidated, Session

(* A session that is left keeps everything but, perhaps, its state.        *)
LEMMA FollowsSession ==
  ASSUME NEW b, NEW c, BookOK(b), Follows(b, c), NEW i \in DOMAIN b.sessions
  PROVE  /\ c.sessions[i].role = b.sessions[i].role /\ c.sessions[i].tuple = b.sessions[i].tuple
         /\ c.sessions[i].cast = b.sessions[i].cast
         /\ c.sessions[i].dictionary = b.sessions[i].dictionary
         /\ c.sessions[i].verification = b.sessions[i].verification
         /\ c.sessions[i].state \in {b.sessions[i].state, "invalidated"}
<1>1. b.sessions[i] \in Session
  BY Domains
<1>. QED BY <1>1, InvalidatedSession DEF Follows

LEMMA FollowsTransitive ==
  ASSUME NEW b, NEW c, NEW d, BookOK(b), Follows(b, c), Follows(c, d)
  PROVE  Follows(b, d)
<1>1. ASSUME NEW i \in DOMAIN b.sessions
      PROVE  d.sessions[i] \in {b.sessions[i], Invalidated(b.sessions[i])}
  BY <1>1, Domains, InvalidatedSession DEF Follows
<1>. QED BY <1>1 DEF Follows

(* The same clips belong to the same roles and are the current ones.       *)
LEMMA FollowsLooks ==
  ASSUME NEW b, NEW c, BookOK(b), Follows(b, c)
  PROVE  /\ \A k \in DOMAIN b.clips : RoleOf(c, k) = RoleOf(b, k)
                                      /\ SessionOf(c, k).dictionary = SessionOf(b, k).dictionary
                                      /\ SessionOf(c, k).state \in {SessionOf(b, k).state, "invalidated"}
         /\ \A r : RoleReview(c, r) = RoleReview(b, r)
         /\ \A w, R : LatestSession(c, w, R) = LatestSession(b, w, R)
         /\ \A w, r : CurrentClip(c, w, r) = CurrentClip(b, w, r)
<1>1. c.clips = b.clips /\ DOMAIN c.sessions = DOMAIN b.sessions
  BY DEF Follows
<1>2. \A k \in DOMAIN b.clips : /\ RoleOf(c, k) = RoleOf(b, k)
                                /\ SessionOf(c, k).dictionary = SessionOf(b, k).dictionary
                                /\ SessionOf(c, k).state \in {SessionOf(b, k).state, "invalidated"}
  <2>1. \A k \in DOMAIN b.clips : b.clips[k].session \in DOMAIN b.sessions
    BY DEF BookOK
  <2>. QED BY <1>1, <2>1, FollowsSession DEF RoleOf, SessionOf
<1>3. ASSUME NEW r PROVE RoleReview(c, r) = RoleReview(b, r)
  <2>1. {k \in DOMAIN c.clips : RoleOf(c, k) = r} = {k \in DOMAIN b.clips : RoleOf(b, k) = r}
    BY <1>1, <1>2
  <2>. QED BY <2>1 DEF RoleReview
<1>4. ASSUME NEW w, NEW R PROVE LatestSession(c, w, R) = LatestSession(b, w, R)
  <2>1. {i \in DOMAIN c.sessions : c.sessions[i].role \in R /\ c.sessions[i].tuple = w.tuple}
        = {i \in DOMAIN b.sessions : b.sessions[i].role \in R /\ b.sessions[i].tuple = w.tuple}
    BY <1>1, FollowsSession
  <2>. QED BY <2>1 DEF LatestSession
<1>5. ASSUME NEW w, NEW r PROVE CurrentClip(c, w, r) = CurrentClip(b, w, r)
  BY <1>1, <1>4 DEF CurrentClip, ClipsOf
<1>. QED BY <1>2, <1>3, <1>4, <1>5

(* What is approved afterwards was approved before.                        *)
LEMMA FollowsKeeps ==
  ASSUME NEW b, NEW c, BookInv(b), Follows(b, c), BookOK(c), Vouched(c)
  PROVE  BookInv(c)
<1>0. BookOK(b) /\ c.clips = b.clips /\ c.entries = b.entries /\ c.dictionary = b.dictionary
      /\ DOMAIN c.sessions = DOMAIN b.sessions
  BY DEF BookInv, Follows
<1>1. \A k \in DOMAIN b.clips : /\ RoleOf(c, k) = RoleOf(b, k)
                                /\ SessionOf(c, k).dictionary = SessionOf(b, k).dictionary
                                /\ SessionOf(c, k).state \in {SessionOf(b, k).state, "invalidated"}
  BY <1>0, FollowsLooks
<1>2. Frozen(c)
  <2>1. \A i \in DOMAIN c.sessions : c.sessions[i].dictionary <= c.dictionary
    BY <1>0, FollowsSession DEF BookInv, Frozen
  <2>. QED BY <1>0, <1>1, <2>1 DEF BookInv, Frozen
<1>3. \A k \in DOMAIN b.clips : Now(c, k) = Now(b, k)
  BY <1>0, <1>1 DEF Now
<1>4. Spoken(c)
  BY <1>0, <1>1, <1>3 DEF BookInv, Spoken
<1>5. ApprovedSpoken(c)
  <2>. SUFFICES ASSUME NEW r \in Role, c.decided[r].state = "approved"
                PROVE  RoleReview(c, r) # 0 /\ c.clips[RoleReview(c, r)].plan = Now(c, RoleReview(c, r))
    BY DEF ApprovedSpoken
  <2>1. b.decided[r].state = "approved" /\ RoleReview(c, r) = RoleReview(b, r)
    BY <1>0, FollowsLooks DEF Follows
  <2>2. RoleReview(b, r) # 0 /\ b.clips[RoleReview(b, r)].plan = Now(b, RoleReview(b, r))
    BY <2>1 DEF BookInv, ApprovedSpoken
  <2>3. RoleReview(b, r) \in DOMAIN b.clips
    BY <1>0, <2>2, ReviewIn
  <2>. QED BY <1>0, <1>3, <2>1, <2>2, <2>3
<1>. QED BY <1>2, <1>4, <1>5 DEF BookInv

-----------------------------------------------------------------------------
(* What the functions of the handlers do to a book.                        *)

(* A function on the row numbers is a table.                               *)
LEMMA Table ==
  ASSUME NEW T, NEW n \in Nat, NEW f, f = [i \in 1..n |-> f[i]], \A i \in 1..n : f[i] \in T
  PROVE  f \in Seq(T) /\ Len(f) = n
OBVIOUS

LEMMA RevokedOK ==
  ASSUME NEW d \in Decision, NEW review \in Nat
  PROVE  /\ Revoked(d, review) \in Decision
         /\ Revoked(d, review) = d \/ Revoked(d, review).state = "invalidated"
         /\ review # 0 => Revoked(d, review).state \in {"none", "invalidated"}
BY DEF Revoked, Decision

(* What is read in the book with these tables.                             *)
LEMMA TablesOf ==
  ASSUME NEW s, NEW c, NEW a, NEW e, NEW n, NEW d, NEW h, NEW r, NEW v,
         NEW b \in Tables(s, c, a, e, n, d, h, r, v)
  PROVE  /\ IsBook(b)
         /\ b.sessions = s /\ b.clips = c /\ b.audio = a /\ b.entries = e /\ b.dictionary = n
         /\ b.decided = d /\ b.shown = h /\ b.ready = r /\ b.verdict = v
BY DEF IsBook, Tables

LEMMA SessionsInvalidated ==
  ASSUME NEW b, BookOK(b), NEW S
  PROVE  LET c == InvalidateSessions(b, S) IN
         /\ BookOK(c) /\ Follows(b, c)
         /\ c.sessions = [i \in DOMAIN b.sessions |->
                            IF i \in S THEN Invalidated(b.sessions[i]) ELSE b.sessions[i]]
         /\ c.clips = b.clips /\ c.audio = b.audio /\ c.entries = b.entries
         /\ c.dictionary = b.dictionary /\ c.decided = b.decided /\ c.shown = b.shown
         /\ c.ready = b.ready /\ c.verdict = b.verdict
<1> DEFINE s == [i \in DOMAIN b.sessions |->
                   IF i \in S THEN Invalidated(b.sessions[i]) ELSE b.sessions[i]]
           c == InvalidateSessions(b, S)
<1>1. /\ IsBook(c) /\ c.sessions = s
      /\ c.clips = b.clips /\ c.audio = b.audio /\ c.entries = b.entries
      /\ c.dictionary = b.dictionary /\ c.decided = b.decided /\ c.shown = b.shown
      /\ c.ready = b.ready /\ c.verdict = b.verdict
  <2>1. c = [b EXCEPT !.sessions = s]
    BY DEF InvalidateSessions, BookOK, IsBook, Tables
  <2>2. [b EXCEPT !.sessions = s]
          \in Tables(s, b.clips, b.audio, b.entries, b.dictionary, b.decided, b.shown, b.ready,
                     b.verdict)
    <3>. HIDE DEF s
    <3>. QED BY DEF BookOK, IsBook, Tables
  <2>. HIDE DEF c, s
  <2>. QED BY <2>1, <2>2, TablesOf
<1>2. s \in Seq(Session) /\ DOMAIN s = DOMAIN b.sessions
  <2>1. \A i \in 1..Len(b.sessions) : s[i] \in Session
    BY Domains, InvalidatedSession
  <2>2. s = [i \in 1..Len(b.sessions) |-> s[i]] /\ Len(b.sessions) \in Nat
    BY Domains
  <2>. HIDE DEF s
  <2>. QED BY <2>1, <2>2, Table, Domains
<1>3. BookOK(c)
  <2>. HIDE DEF c, s
  <2>. QED BY <1>1, <1>2 DEF BookOK
<1>4. Follows(b, c)
  <2>1. \A i \in DOMAIN b.sessions : s[i] \in {b.sessions[i], Invalidated(b.sessions[i])}
    OBVIOUS
  <2>. HIDE DEF c, s
  <2>. QED BY <1>1, <1>2, <2>1 DEF Follows
<1>. QED BY <1>1, <1>3, <1>4

(* The roles that lose their decision are those whose newest review is of  *)
(* such a clip.                                                            *)
LEMMA ClipsInvalidated ==
  ASSUME NEW b, BookOK(b), NEW C \in SUBSET DOMAIN b.clips
  PROVE  LET c == InvalidateClips(b, C) IN
         /\ BookOK(c) /\ Follows(b, c)
         /\ c.audio = b.audio /\ c.shown = b.shown /\ c.ready = b.ready
         /\ c.sessions = [i \in DOMAIN b.sessions |->
                            IF \E k \in C : b.clips[k].session = i
                            THEN Invalidated(b.sessions[i]) ELSE b.sessions[i]]
         /\ \A r \in Role :
              /\ RoleReview(b, r) \in C => c.decided[r].state \in {"none", "invalidated"}
              /\ RoleReview(b, r) \notin C => c.decided[r] = b.decided[r]
<1> DEFINE roles == {r \in Role : /\ b.decided[r].state \notin {"none", "invalidated"}
                                  /\ RoleReview(b, r) \in C}
           gates == {GateOf(r) : r \in roles}
           Shown(x) == IF x \in Role THEN RoleReview(b, x) ELSE Len(b.shown[x])
           S == {b.clips[k].session : k \in C}
           a == InvalidateSessions(b, S)
           d == [x \in DOMAIN b.decided |-> IF x \in roles \cup gates
                                            THEN Revoked(b.decided[x], Shown(x)) ELSE b.decided[x]]
           v == IF gates = {} THEN b.verdict ELSE Revoked(b.verdict, Len(b.ready))
           c == InvalidateClips(b, C)
<1>1. /\ BookOK(a) /\ Follows(b, a)
      /\ a.sessions = [i \in DOMAIN b.sessions |->
                         IF i \in S THEN Invalidated(b.sessions[i]) ELSE b.sessions[i]]
      /\ a.clips = b.clips /\ a.audio = b.audio /\ a.entries = b.entries
      /\ a.dictionary = b.dictionary /\ a.decided = b.decided /\ a.shown = b.shown
      /\ a.ready = b.ready /\ a.verdict = b.verdict
  <2>. HIDE DEF S
  <2>. QED BY SessionsInvalidated
<1>2. /\ IsBook(c) /\ c.sessions = a.sessions /\ c.decided = d
      /\ c.clips = b.clips /\ c.audio = b.audio /\ c.entries = b.entries
      /\ c.dictionary = b.dictionary /\ c.shown = b.shown /\ c.ready = b.ready
  <2>1. c = [a EXCEPT
               !.decided = [x \in DOMAIN @ |-> IF x \in roles \cup gates
                                               THEN Revoked(@[x], Shown(x)) ELSE @[x]],
               !.verdict = IF gates = {} THEN @ ELSE Revoked(@, Len(b.ready))]
    BY DEF InvalidateClips
  <2>2. [a EXCEPT
           !.decided = [x \in DOMAIN @ |-> IF x \in roles \cup gates
                                           THEN Revoked(@[x], Shown(x)) ELSE @[x]],
           !.verdict = IF gates = {} THEN @ ELSE Revoked(@, Len(b.ready))]
          \in Tables(a.sessions, a.clips, a.audio, a.entries, a.dictionary, d, a.shown, a.ready,
                     v)
    <3>1. IsBook(a) /\ a.decided = b.decided /\ a.verdict = b.verdict
      BY <1>1 DEF BookOK
    <3>. HIDE DEF a, roles, gates, Shown
    <3>. QED BY <3>1 DEF IsBook, Tables
  <2>3. c \in Tables(a.sessions, a.clips, a.audio, a.entries, a.dictionary, d, a.shown,
                     a.ready, v)
    BY <2>1, <2>2
  <2>. HIDE DEF a, c, d, v
  <2>4. /\ IsBook(c) /\ c.sessions = a.sessions /\ c.decided = d
        /\ c.clips = a.clips /\ c.audio = a.audio /\ c.entries = a.entries
        /\ c.dictionary = a.dictionary /\ c.shown = a.shown /\ c.ready = a.ready
    BY <2>3, TablesOf
  <2>. QED BY <1>1, <2>4
<1>3. /\ d \in [Role \cup Gate -> Decision]
      /\ \A r \in Role :
           /\ d[r] = b.decided[r] \/ d[r].state = "invalidated"
           /\ RoleReview(b, r) \in C => d[r].state \in {"none", "invalidated"}
           /\ RoleReview(b, r) \notin C => d[r] = b.decided[r]
  <2>1. b.decided \in [Role \cup Gate -> Decision] /\ b.shown \in [Gate -> Seq(Review)]
    BY DEF BookOK
  <2>2. \A x \in Role \cup Gate : Shown(x) \in Nat
    BY <2>1, ReviewIn
  <2>3. \A r \in Role : r \notin gates
    BY Names
  <2>4. \A x \in Role \cup Gate : /\ Revoked(b.decided[x], Shown(x)) \in Decision
                                  /\ Revoked(b.decided[x], Shown(x)) = b.decided[x]
                                     \/ Revoked(b.decided[x], Shown(x)).state = "invalidated"
                                  /\ Shown(x) # 0 => Revoked(b.decided[x], Shown(x)).state
                                                     \in {"none", "invalidated"}
    <3>. HIDE DEF Shown
    <3>. QED BY <2>1, <2>2, RevokedOK
  <2>5. \A r \in Role : Shown(r) = RoleReview(b, r) /\ (RoleReview(b, r) \in C => Shown(r) # 0)
    BY Domains
  <2>6. \A r \in Role : r \in roles <=> /\ b.decided[r].state \notin {"none", "invalidated"}
                                        /\ RoleReview(b, r) \in C
    OBVIOUS
  <2>7. d \in [Role \cup Gate -> Decision]
    <3>. HIDE DEF Shown, roles, gates
    <3>. QED BY <2>1, <2>4
  <2>8. \A r \in Role : d[r] = IF r \in roles THEN Revoked(b.decided[r], Shown(r))
                               ELSE b.decided[r]
    <3>. HIDE DEF Shown, roles, gates
    <3>. QED BY <2>1, <2>3
  <2>. HIDE DEF d, Shown, roles
  <2>. QED BY <2>4, <2>5, <2>6, <2>7, <2>8
<1>4. BookOK(c)
  <2>. HIDE DEF a, c, d, v
  <2>. QED BY <1>1, <1>2, <1>3 DEF BookOK
<1>5. Follows(b, c)
  <2>. HIDE DEF a, c, d, v
  <2>. QED BY <1>1, <1>2, <1>3 DEF Follows
<1>6. c.sessions = [i \in DOMAIN b.sessions |->
                      IF \E k \in C : b.clips[k].session = i
                      THEN Invalidated(b.sessions[i]) ELSE b.sessions[i]]
  <2>1. \A i : i \in S <=> \E k \in C : b.clips[k].session = i
    OBVIOUS
  <2>. HIDE DEF S, c
  <2>. QED BY <1>1, <1>2, <2>1
<1>. HIDE DEF a, d, v
<1>. QED BY <1>2, <1>3, <1>4, <1>5, <1>6

(* What looking at the reviews leaves of a book.                           *)
Leaves(b, c) == BookInv(c) /\ Follows(b, c) /\ c.audio = b.audio

LEMMA LeavesTransitive ==
  ASSUME NEW b, NEW c, NEW d, BookInv(b), Leaves(b, c), Leaves(c, d)
  PROVE  Leaves(b, d)
<1>1. BookOK(b)
  BY DEF BookInv
<1>. QED BY <1>1, FollowsTransitive DEF Leaves

LEMMA SameReviews ==
  ASSUME NEW b, NEW c, BookInv(b), Follows(b, c), BookOK(c), c.shown = b.shown
  PROVE  BookInv(c)
<1>1. Vouched(c)
  BY DEF BookInv, Vouched, AllDecided, Follows
<1>. QED BY <1>1, FollowsKeeps

LEMMA ReconciledLeaves ==
  ASSUME NEW b, BookInv(b), NEW w
  PROVE  Leaves(b, Reconciled(b, w))
<1> DEFINE D == {i \in DOMAIN b.sessions : Drifted(w, b.sessions[i])}
           C == UNION {ClipsOf(b, i) : i \in D}
           a == InvalidateClips(b, C)
           c == InvalidateSessions(a, D)
<1>1. BookOK(b) /\ C \in SUBSET DOMAIN b.clips
  BY DEF BookInv, ClipsOf
<1>2. BookOK(a) /\ Follows(b, a) /\ a.audio = b.audio /\ a.shown = b.shown
  <2>. HIDE DEF C
  <2>. QED BY <1>1, ClipsInvalidated
<1>3. BookOK(c) /\ Follows(a, c) /\ c.audio = a.audio /\ c.shown = a.shown
  <2>. HIDE DEF D, a
  <2>. QED BY <1>2, SessionsInvalidated
<1>4. Follows(b, c)
  <2>. HIDE DEF a, c
  <2>. QED BY <1>1, <1>2, <1>3, FollowsTransitive
<1>5. Leaves(b, c)
  <2>. HIDE DEF a, c
  <2>. QED BY <1>2, <1>3, <1>4, SameReviews DEF Leaves
<1>. QED BY <1>5 DEF Reconciled

LEMMA EvidenceIn ==
  ASSUME NEW b, BookOK(b), NEW w, WorldOK(w), NEW g \in Gate
  PROVE  \/ Evidence(b, w, g) = {}
         \/ \E e \in Review :
              /\ Evidence(b, w, g) = {e}
              /\ g = "pronunciation" => e.dictionary = b.dictionary /\ (e.eligible <=> AllDecided(b))
<1> DEFINE i == LatestSession(b, w, Role)
           parts == [r \in Scoped(g) |-> IF Approved(b, w, r) THEN b.decided[r].revision ELSE 0]
           fit == IF g = "pronunciation" THEN AllDecided(b)
                  ELSE Scoped(g) # {} /\ \A r \in Scoped(g) : Approved(b, w, r)
           e == [tuple |-> w.tuple, verification |-> b.sessions[i].verification,
                 dictionary |-> IF g = "pronunciation" THEN b.dictionary
                                ELSE b.sessions[i].dictionary,
                 parts |-> parts, eligible |-> fit]
<1>1. Evidence(b, w, g) = IF i = 0 \/ (g = "pronunciation" /\ Drifted(w, b.sessions[i]))
                          THEN {} ELSE {e}
  BY DEF Evidence, AllDecided
<1>2. ASSUME i # 0 PROVE e \in Review
  <2>1. b.sessions[i] \in Session
    <3>. HIDE DEF i
    <3>1. i \in DOMAIN b.sessions
      BY <1>2, LatestIn DEF i
    <3>. QED BY <3>1, Domains
  <2>2. b.sessions[i].verification \in Nat /\ b.sessions[i].dictionary \in Nat
    <3>. HIDE DEF i
    <3>. QED BY <2>1 DEF Session
  <2>3. parts \in [Scoped(g) -> Nat]
    <3>1. \A r \in Scoped(g) : b.decided[r].revision \in Nat
      BY DEF BookOK, Scoped, Decision
    <3>. QED BY <3>1
  <2>4. fit \in BOOLEAN
    BY DEF AllDecided, Approved
  <2>5. b.dictionary \in Nat /\ w.tuple \in Nat
    BY DEF BookOK, WorldOK
  <2>. HIDE DEF i, parts, fit
  <2>. QED BY <2>2, <2>3, <2>4, <2>5 DEF Review
<1>3. g = "pronunciation" => e.dictionary = b.dictionary /\ (e.eligible <=> AllDecided(b))
  <2>1. fit \in BOOLEAN
    BY DEF AllDecided, Approved
  <2>2. g = "pronunciation" => fit = AllDecided(b)
    OBVIOUS
  <2>. HIDE DEF fit, parts, i
  <2>. QED BY <2>1, <2>2
<1>. HIDE DEF e, i
<1>. QED BY <1>1, <1>2, <1>3

LEMMA EnsuredLeaves ==
  ASSUME NEW b, BookInv(b), NEW w, WorldOK(w), NEW g \in Gate
  PROVE  /\ Leaves(b, Ensured(b, w, g))
         /\ Ensured(b, w, g).sessions = b.sessions /\ Ensured(b, w, g).decided = b.decided
<1> DEFINE new == SetToSeq(Evidence(b, w, g) \ ToSet(b.shown[g]))
           c == Ensured(b, w, g)
<1>0. BookOK(b) /\ b.shown \in [Gate -> Seq(Review)] /\ b.shown[g] \in Seq(Review)
      /\ b.dictionary \in Nat
  BY DEF BookInv, BookOK
<1>1. \/ new = <<>>
      \/ \E e \in Review :
           new = <<e>> /\ (g = "pronunciation" => /\ e.dictionary = b.dictionary
                                                  /\ e.eligible <=> AllDecided(b))
  <2>1. CASE Evidence(b, w, g) \ ToSet(b.shown[g]) = {}
    BY <2>1, SequenceOfNone
  <2>2. CASE Evidence(b, w, g) \ ToSet(b.shown[g]) # {}
    <3>1. PICK e \in Review :
            /\ Evidence(b, w, g) = {e}
            /\ g = "pronunciation" => e.dictionary = b.dictionary /\ (e.eligible <=> AllDecided(b))
      BY <1>0, <2>2, EvidenceIn
    <3>2. Evidence(b, w, g) \ ToSet(b.shown[g]) = {e}
      BY <2>2, <3>1
    <3>. QED BY <3>1, <3>2, SequenceOfOne
  <2>. QED BY <2>1, <2>2
<1>2. /\ IsBook(c) /\ c.sessions = b.sessions /\ c.decided = b.decided
      /\ c.clips = b.clips /\ c.audio = b.audio /\ c.entries = b.entries
      /\ c.dictionary = b.dictionary
      /\ c.shown = [b.shown EXCEPT ![g] = b.shown[g] \o new]
  <2> DEFINE h == [b.shown EXCEPT ![g] = b.shown[g] \o new]
  <2>1. c \in Tables(b.sessions, b.clips, b.audio, b.entries, b.dictionary, b.decided, h,
                     b.ready, b.verdict)
    BY <1>0 DEF BookOK, IsBook, Tables, Ensured
  <2>. HIDE DEF c, h
  <2>2. /\ IsBook(c) /\ c.sessions = b.sessions /\ c.decided = b.decided
        /\ c.clips = b.clips /\ c.audio = b.audio /\ c.entries = b.entries
        /\ c.dictionary = b.dictionary /\ c.shown = h
    BY <2>1, TablesOf
  <2>. QED BY <2>2 DEF h
<1>. HIDE DEF c
<1>3. new \in Seq(Review)
  <2>. HIDE DEF new
  <2>1. <<>> \in Seq(Review)
    OBVIOUS
  <2>2. \A e \in Review : <<e>> \in Seq(Review)
    <3>. HIDE DEF Review
    <3>. QED OBVIOUS
  <2>. QED BY <1>1, <2>1, <2>2
<1>4. c.shown \in [Gate -> Seq(Review)]
  <2>. HIDE DEF new
  <2>1. b.shown[g] \o new \in Seq(Review)
    BY <1>0, <1>3
  <2>. QED BY <1>0, <1>2, <2>1
<1>5. BookOK(c) /\ Follows(b, c)
  BY <1>0, <1>2, <1>4 DEF BookOK, Follows
<1>6. Vouched(c)
  <2>1. AllDecided(c) = AllDecided(b)
    BY <1>2 DEF AllDecided
  <2>2. CASE g # "pronunciation"
    <3>1. c.shown["pronunciation"] = b.shown["pronunciation"]
      BY <1>0, <1>2, <2>2, Names
    <3>. QED BY <1>2, <2>1, <3>1 DEF BookInv, Vouched
  <2>3. CASE g = "pronunciation"
    <3>1. c.shown[g] = b.shown[g] \o new
      BY <1>0, <1>2
    <3>. SUFFICES ASSUME NEW n \in DOMAIN c.shown[g]
                  PROVE  /\ c.shown[g][n].dictionary <= c.dictionary
                         /\ c.shown[g][n].dictionary = c.dictionary /\ c.shown[g][n].eligible
                              => AllDecided(c)
      BY <2>3 DEF Vouched
    <3>2. CASE n \in DOMAIN b.shown[g]
      <4>. HIDE DEF new
      <4>1. c.shown[g][n] = b.shown[g][n]
        BY <1>0, <1>3, <3>1, <3>2
      <4>. QED BY <1>2, <2>1, <2>3, <3>2, <4>1 DEF BookInv, Vouched
    <3>3. CASE n \notin DOMAIN b.shown[g]
      <4>1. PICK e \in Review : new = <<e>> /\ e.dictionary = b.dictionary
                                /\ (e.eligible <=> AllDecided(b))
        <5>1. new # <<>>
          <6>. HIDE DEF new
          <6>. QED BY <1>0, <3>1, <3>3
        <5>. QED BY <1>1, <2>3, <5>1
      <4>. HIDE DEF new
      <4>2. c.shown[g][n] = e
        BY <1>0, <3>1, <3>3, <4>1
      <4>. QED BY <1>0, <1>2, <2>1, <4>1, <4>2
    <3>. QED BY <3>2, <3>3
  <2>. QED BY <2>2, <2>3
<1>7. Leaves(b, c)
  BY <1>2, <1>5, <1>6, FollowsKeeps DEF Leaves
<1>. QED BY <1>2, <1>7 DEF c

LEMMA ReadinessCheckedLeaves ==
  ASSUME NEW b, BookInv(b), NEW w
  PROVE  Leaves(b, ReadinessChecked(b, w))
<1> DEFINE a == InvalidateClips(b, Damaged(b, w))
           r == a.ready \o SetToSeq(ReadyEvidence(b, w) \ ToSet(a.ready))
           c == ReadinessChecked(b, w)
<1>1. BookOK(b)
  BY DEF BookInv
<1>2. Damaged(b, w) \in SUBSET DOMAIN b.clips
  <2>1. ASSUME NEW n \in DOMAIN Roles, Approved(b, w, Roles[n])
        PROVE  CurrentClip(b, w, Roles[n]) \in DOMAIN b.clips
    BY <1>1, <2>1, CurrentIn DEF Approved
  <2>. QED BY <2>1 DEF Damaged
<1>3. BookOK(a) /\ Follows(b, a) /\ a.audio = b.audio /\ a.shown = b.shown
  BY <1>1, <1>2, ClipsInvalidated
<1>4. /\ IsBook(c) /\ c.sessions = a.sessions /\ c.decided = a.decided
      /\ c.clips = a.clips /\ c.audio = a.audio /\ c.entries = a.entries
      /\ c.dictionary = a.dictionary /\ c.shown = a.shown
  <2>1. c = [a EXCEPT !.ready = r]
    BY DEF ReadinessChecked
  <2>2. IsBook(a)
    BY <1>3 DEF BookOK
  <2>. HIDE DEF a, c, r
  <2>3. c \in Tables(a.sessions, a.clips, a.audio, a.entries, a.dictionary, a.decided,
                     a.shown, r, a.verdict)
    BY <2>1, <2>2 DEF IsBook, Tables
  <2>. QED BY <2>3, TablesOf
<1>5. BookOK(c) /\ Follows(b, c)
  <2>. HIDE DEF a, c
  <2>. QED BY <1>3, <1>4 DEF BookOK, Follows
<1>. HIDE DEF a
<1>. QED BY <1>3, <1>4, <1>5, SameReviews DEF Leaves

LEMMA RefreshedLeaves ==
  ASSUME NEW b, BookInv(b), NEW w, WorldOK(w)
  PROVE  Leaves(b, Refreshed(b, w))
<1> DEFINE p == Ensured(b, w, "pronunciation")
           n == Ensured(p, w, "narrators")
           c == Ensured(n, w, "characters")
           d == ReadinessChecked(c, w)
<1>1. Leaves(b, p)
  BY EnsuredLeaves, Names
<1>2. Leaves(p, n)
  <2>. HIDE DEF p
  <2>. QED BY <1>1, EnsuredLeaves DEF Leaves, Gate, Aggregate
<1>3. Leaves(n, c)
  <2>. HIDE DEF n
  <2>. QED BY <1>2, EnsuredLeaves DEF Leaves, Gate, Aggregate
<1>4. Leaves(c, d)
  <2>. HIDE DEF c
  <2>. QED BY <1>3, ReadinessCheckedLeaves DEF Leaves
<1>5. Leaves(b, d)
  <2>. HIDE DEF p, n, c, d
  <2>1. Leaves(b, n)
    BY <1>1, <1>2, LeavesTransitive
  <2>2. Leaves(b, c)
    BY <1>3, <2>1, LeavesTransitive
  <2>. QED BY <1>4, <2>2, LeavesTransitive
<1>. QED BY <1>5 DEF Refreshed

LEMMA FreshLeaves ==
  ASSUME NEW b, BookInv(b), NEW w, WorldOK(w)
  PROVE  Leaves(b, Fresh(b, w))
<1>1. Leaves(b, Reconciled(b, w))
  BY ReconciledLeaves
<1>2. Leaves(Reconciled(b, w), Refreshed(Reconciled(b, w), w))
  BY <1>1, RefreshedLeaves DEF Leaves
<1>. QED BY <1>1, <1>2, LeavesTransitive DEF Fresh

-----------------------------------------------------------------------------
(* What is ready rests on what holds now.                                  *)

LEMMA NothingToShow ==
  ASSUME NEW seq PROVE IndexIn(seq, {}) = 0
<1>1. {n \in DOMAIN seq : seq[n] \in {}} = {}
  OBVIOUS
<1>2. Newest({}) = 0
  BY DEF Newest
<1>. QED BY <1>1, <1>2 DEF IndexIn

LEMMA ReadyAsks ==
  ASSUME NEW b, NEW w, ReadyEvidence(b, w) # {}
  PROVE  (\A n \in DOMAIN Roles : Fit(b, w, n)) /\ (\A g \in Gate : GateHolds(b, w, g))
<1> DEFINE asked == /\ LatestSession(b, w, Role) # 0
                    /\ \A n \in DOMAIN Roles : Fit(b, w, n)
                    /\ \A g \in Gate : GateHolds(b, w, g)
           evidence ==
             [tuple |-> w.tuple, dictionary |-> b.dictionary,
              verification |-> b.sessions[LatestSession(b, w, Role)].verification,
              audio |-> [r \in Role |-> b.clips[CurrentClip(b, w, r)].audio],
              decisions |-> [g \in Gate |-> b.decided[g].revision]]
<1>1. ReadyEvidence(b, w) = IF asked THEN {evidence} ELSE {}
  BY DEF ReadyEvidence
<1>2. asked
  <2>. HIDE DEF asked, evidence
  <2>. QED BY <1>1
<1>. QED BY <1>2

LEMMA ReadyMeans ==
  ASSUME BookInv(book), WorldOK(world)
  PROVE  ReadyRestsOnCurrentEvidence
<1> DEFINE c == Fresh(book, world)
           Clear(r) == LET clip == book.clips[CurrentClip(book, world, r)] IN
                       /\ clip.plan = Plan(book.entries, r, clip.spoken)
                       /\ book.audio[clip.audio].state = "sound"
                       /\ book.sessions[clip.session].cast = world.cast
                       /\ book.sessions[clip.session].verification = world.verification
<1>. SUFFICES ASSUME Ready(book, world) PROVE AllDecided(book) /\ \A r \in Role : Clear(r)
  BY DEF ReadyRestsOnCurrentEvidence, AllDecided
<1>1. BookInv(c) /\ BookOK(c) /\ Follows(book, c) /\ c.audio = book.audio /\ BookOK(book)
  BY FreshLeaves DEF Leaves, BookInv
<1>2. ReadyEvidence(c, world) # {}
  <2>1. IndexIn(c.ready, ReadyEvidence(c, world)) # 0
    BY DEF Ready
  <2>. QED BY <2>1, NothingToShow
<1>3. (\A n \in DOMAIN Roles : Fit(c, world, n)) /\ GateHolds(c, world, "pronunciation")
  <2>. HIDE DEF c
  <2>1. (\A n \in DOMAIN Roles : Fit(c, world, n)) /\ (\A g \in Gate : GateHolds(c, world, g))
    BY <1>2, ReadyAsks
  <2>. QED BY <2>1, Names
<1>. HIDE DEF c
<1>4. AllDecided(book)
  <2> DEFINE n == Len(c.shown["pronunciation"])
             e == c.shown["pronunciation"][n]
  <2>1. n # 0 /\ e.eligible /\ e.dictionary = c.dictionary
    BY <1>3 DEF GateHolds
  <2>2. n \in DOMAIN c.shown["pronunciation"]
    <3>1. c.shown["pronunciation"] \in Seq(Review)
      BY <1>1, Names DEF BookOK
    <3>. QED BY <2>1, <3>1
  <2>3. AllDecided(c)
    BY <1>1, <2>1, <2>2 DEF BookInv, Vouched
  <2>. QED BY <1>1, <2>3 DEF AllDecided, Follows
<1>5. ASSUME NEW r \in Role PROVE Clear(r)
  <2> DEFINE k == CurrentClip(c, world, r)
  <2>1. PICK n \in DOMAIN Roles : Roles[n] = r
    BY DEF Role, ToSet
  <2>2. Approved(c, world, r) /\ Intact(c, k)
    BY <1>3, <2>1 DEF Fit
  <2>3. k # 0 /\ SessionOf(c, k).state # "invalidated" /\ ~Drifted(world, SessionOf(c, k))
    BY <2>2 DEF Approved, SessionOf
  <2>4. k \in DOMAIN c.clips /\ RoleOf(c, k) = r
    <3>. HIDE DEF k
    <3>. QED BY <1>1, <2>3, CurrentIn DEF k
  <2>5. CurrentClip(book, world, r) = k
    BY <1>1, FollowsLooks
  <2>. HIDE DEF k
  <2>6. c.clips = book.clips /\ c.entries = book.entries
    BY <1>1 DEF Follows
  <2>7. book.clips[k].plan = Plan(book.entries, r, book.clips[k].spoken)
    <3>1. c.clips[k].plan = Now(c, k)
      BY <1>1, <2>3, <2>4 DEF BookInv, Spoken
    <3>. QED BY <2>4, <2>6, <3>1 DEF Now
  <2>8. book.audio[book.clips[k].audio].state = "sound"
    BY <1>1, <2>2, <2>6 DEF Intact
  <2>9. /\ book.sessions[book.clips[k].session].cast = world.cast
        /\ book.sessions[book.clips[k].session].verification = world.verification
    <3>1. book.clips[k].session \in DOMAIN book.sessions
      BY <1>1, <2>4, <2>6 DEF BookOK
    <3>2. SessionOf(c, k).cast = world.cast /\ SessionOf(c, k).verification = world.verification
      BY <2>3 DEF Drifted, AssignmentStands, ModelStands
    <3>. QED BY <1>1, <2>6, <3>1, <3>2, FollowsSession DEF SessionOf
  <2>. QED BY <2>5, <2>7, <2>8, <2>9
<1>. QED BY <1>4, <1>5

-----------------------------------------------------------------------------
(* What a decision of an entry changes in the plans.                       *)

Live(entries) == {f \in DOMAIN entries \ Replaced(entries) : entries[f].state = "approved"}

LEMMA WinningIs ==
  ASSUME NEW entries, NEW r
  PROVE  LET own == {f \in Live(entries) : entries[f].scope = r} IN
         Winning(entries, r) = IF own # {} THEN own
                               ELSE {f \in Live(entries) : entries[f].scope = "project"}
BY DEF Winning, Live

(* The entries before and after a decision of e.                           *)
EntryDecided(before, after, e) ==
  /\ e \in DOMAIN before /\ DOMAIN after = DOMAIN before
  /\ \A f \in DOMAIN before \ {e} : after[f] = before[f]
  /\ after[e].line = before[e].line /\ after[e].scope = before[e].scope
  /\ before[e].revision \in Nat /\ after[e].revision = before[e].revision + 1

(* The same entries are effective, but for the entry and those it stands   *)
(* for.                                                                    *)
LEMMA LiveElsewhere ==
  ASSUME NEW before, NEW after, NEW e, EntryDecided(before, after, e),
         NEW f, f \notin {e} \cup before[e].line
  PROVE  f \in Live(before) <=> f \in Live(after)
<1>1. f \in Replaced(before) <=>
        \E g \in DOMAIN before \ {e} : before[g].state = "approved" /\ f \in before[g].line
  BY DEF Replaced, EntryDecided
<1>2. f \in Replaced(after) <=>
        \E g \in DOMAIN before \ {e} : before[g].state = "approved" /\ f \in before[g].line
  BY DEF Replaced, EntryDecided
<1>. QED BY <1>1, <1>2 DEF Live, EntryDecided

LEMMA WinningElsewhere ==
  ASSUME NEW before, NEW after, NEW e, EntryDecided(before, after, e), NEW r,
         Winning(before, r) \cap ({e} \cup before[e].line) = {},
         Winning(after, r) \cap ({e} \cup before[e].line) = {}
  PROVE  Winning(before, r) = Winning(after, r)
<1> DEFINE changed == {e} \cup before[e].line
           ownB == {f \in Live(before) : before[f].scope = r}
           ownA == {f \in Live(after) : after[f].scope = r}
           allB == {f \in Live(before) : before[f].scope = "project"}
           allA == {f \in Live(after) : after[f].scope = "project"}
<1>1. /\ Winning(before, r) = IF ownB # {} THEN ownB ELSE allB
      /\ Winning(after, r) = IF ownA # {} THEN ownA ELSE allA
  BY WinningIs
<1>2. \A f : f \notin changed => (f \in ownB <=> f \in ownA) /\ (f \in allB <=> f \in allA)
  <2>1. \A f : f \notin changed => (f \in Live(before) <=> f \in Live(after))
    BY LiveElsewhere
  <2>2. \A f \in DOMAIN before : after[f].scope = before[f].scope
    BY DEF EntryDecided
  <2>3. \A f : f \in Live(before) => f \in DOMAIN before
    BY DEF Live
  <2>. QED BY <2>1, <2>2, <2>3
<1>. HIDE DEF ownB, ownA, allB, allA
<1>3. CASE ownB # {}
  <2>1. ownB \subseteq ownA
    BY <1>1, <1>2, <1>3
  <2>2. ownA \subseteq ownB
    BY <1>1, <1>2, <1>3, <2>1
  <2>. QED BY <1>1, <1>3, <2>1, <2>2
<1>4. CASE ownB = {}
  <2>1. ownA = {}
    BY <1>1, <1>2, <1>4
  <2>2. allB = allA
    BY <1>1, <1>2, <1>4, <2>1
  <2>. QED BY <1>1, <1>4, <2>1, <2>2
<1>. QED BY <1>3, <1>4

(* A decision between states that are not effective changes no plan.       *)
LEMMA PlanUnchanged ==
  ASSUME NEW before, NEW after, NEW e, EntryDecided(before, after, e),
         before[e].state # "approved", after[e].state # "approved", NEW r, NEW spoken \in BOOLEAN
  PROVE  Plan(after, r, spoken) = Plan(before, r, spoken)
<1>1. Replaced(after) = Replaced(before)
  <2>1. {f \in DOMAIN after : after[f].state = "approved"}
        = {f \in DOMAIN before : before[f].state = "approved"}
    BY DEF EntryDecided
  <2>2. \A f \in {g \in DOMAIN before : before[g].state = "approved"} : after[f].line = before[f].line
    BY DEF EntryDecided
  <2>. QED BY <2>1, <2>2 DEF Replaced
<1>2. Live(after) = Live(before) /\ e \notin Live(before)
  BY <1>1 DEF Live, EntryDecided
<1>3. \A f \in Live(before) : after[f] = before[f]
  BY <1>2 DEF Live, EntryDecided
<1>4. Winning(after, r) = Winning(before, r) /\ Winning(before, r) \subseteq Live(before)
  BY <1>2, <1>3, WinningIs
<1>. QED BY <1>3, <1>4 DEF Plan

(* A pending entry changes no plan.                                        *)
LEMMA PlanAppended ==
  ASSUME NEW before \in Seq(Entry), NEW x \in Entry, x.state = "pending", NEW r,
         NEW spoken \in BOOLEAN
  PROVE  Plan(Append(before, x), r, spoken) = Plan(before, r, spoken)
<1> DEFINE after == Append(before, x)
<1>1. /\ DOMAIN after = DOMAIN before \cup {Len(before) + 1}
      /\ \A f \in DOMAIN before : after[f] = before[f]
      /\ after[Len(before) + 1] = x
  BY DEF Entry
<1>. HIDE DEF after
<1>2. Replaced(after) = Replaced(before)
  <2>1. {f \in DOMAIN after : after[f].state = "approved"}
        = {f \in DOMAIN before : before[f].state = "approved"}
    BY <1>1
  <2>2. \A f \in {g \in DOMAIN before : before[g].state = "approved"} : after[f].line = before[f].line
    BY <1>1
  <2>. QED BY <2>1, <2>2 DEF Replaced
<1>3. Live(after) = Live(before) /\ Live(before) \subseteq DOMAIN before
  BY <1>1, <1>2 DEF Live
<1>4. Winning(after, r) = Winning(before, r) /\ Winning(before, r) \subseteq DOMAIN before
  BY <1>1, <1>3, WinningIs
<1>5. Plan(after, r, spoken) = Plan(before, r, spoken)
  BY <1>1, <1>4 DEF Plan
<1>. QED BY <1>5 DEF after

(* Where the entry and those it stands for are in neither plan, the plans  *)
(* are the same.                                                           *)
Uses(plan, changed) == {x[1] : x \in plan} \cap changed # {}

LEMMA PlanEntries ==
  ASSUME NEW entries, NEW r
  PROVE  {x[1] : x \in Plan(entries, r, TRUE)} = Winning(entries, r)
<1> DEFINE W == Winning(entries, r)
           P == Plan(entries, r, TRUE)
<1>1. P = {<<e, entries[e].revision>> : e \in W}
  BY DEF Plan
<1>. HIDE DEF W, P
<1>2. ASSUME NEW e \in W PROVE e \in {x[1] : x \in P}
  <2>1. <<e, entries[e].revision>> \in P
    BY <1>1
  <2>2. <<e, entries[e].revision>>[1] = e
    OBVIOUS
  <2>. QED BY <2>1, <2>2
<1>3. ASSUME NEW x \in P PROVE x[1] \in W
  <2>1. PICK e \in W : x = <<e, entries[e].revision>>
    BY <1>1
  <2>. QED BY <2>1
<1>4. {x[1] : x \in P} = W
  BY <1>2, <1>3
<1>. QED BY <1>4 DEF W, P

LEMMA PlanUses ==
  ASSUME NEW entries, NEW r, NEW changed
  PROVE  /\ Uses(Plan(entries, r, TRUE), changed) <=> Winning(entries, r) \cap changed # {}
         /\ ~Uses(Plan(entries, r, FALSE), changed)
<1>1. {x[1] : x \in Plan(entries, r, TRUE)} = Winning(entries, r)
  BY PlanEntries
<1>2. {x[1] : x \in Plan(entries, r, FALSE)} = {}
  BY DEF Plan
<1>. QED BY <1>1, <1>2 DEF Uses

LEMMA PlanElsewhere ==
  ASSUME NEW before, NEW after, NEW e, EntryDecided(before, after, e), NEW r,
         NEW spoken \in BOOLEAN,
         ~Uses(Plan(before, r, spoken), {e} \cup before[e].line),
         ~Uses(Plan(after, r, spoken), {e} \cup before[e].line)
  PROVE  Plan(after, r, spoken) = Plan(before, r, spoken)
<1>1. CASE spoken
  <2>1. /\ Winning(before, r) \cap ({e} \cup before[e].line) = {}
        /\ Winning(after, r) \cap ({e} \cup before[e].line) = {}
    BY <1>1, PlanUses
  <2>2. Winning(after, r) = Winning(before, r)
    BY <2>1, WinningElsewhere
  <2>3. \A f \in Winning(before, r) : after[f].revision = before[f].revision
    <3>1. Winning(before, r) \subseteq DOMAIN before
      BY WinningIs DEF Live
    <3>. QED BY <2>1, <3>1 DEF EntryDecided
  <2>. QED BY <2>2, <2>3 DEF Plan
<1>2. CASE ~spoken
  BY <1>2 DEF Plan
<1>. QED BY <1>1, <1>2

(* Where one of them is in a plan, the plan is another one: the entry has  *)
(* another revision, and an effective entry leaves out those it stands for.*)
LEMMA PlanDiffers ==
  ASSUME NEW before, NEW after, NEW e, EntryDecided(before, after, e), NEW r,
         NEW spoken \in BOOLEAN, "approved" \in {before[e].state, after[e].state},
         Uses(Plan(before, r, spoken), {e} \cup before[e].line)
         \/ Uses(Plan(after, r, spoken), {e} \cup before[e].line)
  PROVE  Plan(after, r, spoken) # Plan(before, r, spoken)
<1>. SUFFICES ASSUME Plan(after, r, spoken) = Plan(before, r, spoken) PROVE FALSE
  OBVIOUS
<1>1. spoken
  BY PlanUses
<1>2. Winning(after, r) = Winning(before, r)
  <2>1. /\ {x[1] : x \in Plan(before, r, TRUE)} = Winning(before, r)
        /\ {x[1] : x \in Plan(after, r, TRUE)} = Winning(after, r)
    BY PlanEntries
  <2>. QED BY <1>1, <2>1
<1>3. PICK x \in Winning(before, r) : x \in {e} \cup before[e].line
  BY <1>1, <1>2, PlanUses
<1>4. x \in Live(before) /\ x \in Live(after)
  BY <1>2, <1>3, WinningIs
<1>5. CASE x = e
  <2>1. <<e, before[e].revision>> \in Plan(after, r, spoken)
    BY <1>1, <1>3, <1>5 DEF Plan
  <2>2. PICK f \in Winning(after, r) : <<e, before[e].revision>> = <<f, after[f].revision>>
    BY <1>1, <2>1 DEF Plan
  <2>. QED BY <2>2 DEF EntryDecided
<1>6. CASE x \in before[e].line
  <2>1. before[e].state = "approved" => x \in Replaced(before)
    BY <1>6 DEF Replaced, EntryDecided
  <2>2. after[e].state = "approved" => x \in Replaced(after)
    BY <1>6 DEF Replaced, EntryDecided
  <2>. QED BY <1>4, <2>1, <2>2 DEF Live
<1>. QED BY <1>3, <1>5, <1>6

-----------------------------------------------------------------------------
(* The handlers.                                                           *)

(* Other sessions, audio or decisions of a book, of which none is undone.  *)
Alters(b, c) ==
  /\ c.clips = b.clips /\ c.entries = b.entries /\ c.dictionary = b.dictionary
  /\ c.shown = b.shown
  /\ DOMAIN b.sessions \subseteq DOMAIN c.sessions
  /\ \A i \in DOMAIN b.sessions :
       /\ c.sessions[i].role = b.sessions[i].role
       /\ c.sessions[i].dictionary = b.sessions[i].dictionary
       /\ b.sessions[i].state = "invalidated" => c.sessions[i].state = "invalidated"
  /\ \A i \in DOMAIN c.sessions \ DOMAIN b.sessions : c.sessions[i].dictionary = b.dictionary
  /\ \A r \in Role : c.decided[r] = b.decided[r]

LEMMA AltersKeeps ==
  ASSUME NEW b, NEW c, BookInv(b), Alters(b, c), BookOK(c)
  PROVE  BookInv(c) /\ c.entries = b.entries
<1>0. BookOK(b) /\ c.clips = b.clips /\ c.entries = b.entries /\ c.dictionary = b.dictionary
      /\ c.shown = b.shown
  BY DEF BookInv, Alters
<1>1. \A k \in DOMAIN b.clips :
        /\ RoleOf(c, k) = RoleOf(b, k) /\ SessionOf(c, k).dictionary = SessionOf(b, k).dictionary
        /\ SessionOf(b, k).state = "invalidated" => SessionOf(c, k).state = "invalidated"
        /\ Now(c, k) = Now(b, k)
  <2>1. \A k \in DOMAIN b.clips : b.clips[k].session \in DOMAIN b.sessions
    BY <1>0 DEF BookOK
  <2>. QED BY <1>0, <2>1 DEF Alters, RoleOf, SessionOf, Now
<1>2. Frozen(c)
  <2>1. \A i \in DOMAIN c.sessions : c.sessions[i].dictionary <= c.dictionary
    <3>1. b.dictionary \in Nat
      BY <1>0 DEF BookOK
    <3>. QED BY <1>0, <3>1 DEF BookInv, Frozen, Alters
  <2>. QED BY <1>0, <1>1, <2>1 DEF BookInv, Frozen
<1>3. Spoken(c)
  BY <1>0, <1>1 DEF BookInv, Spoken
<1>4. \A r : RoleReview(c, r) = RoleReview(b, r)
  BY <1>0, <1>1 DEF RoleReview
<1>5. ApprovedSpoken(c)
  <2>. SUFFICES ASSUME NEW r \in Role, c.decided[r].state = "approved"
                PROVE  RoleReview(c, r) # 0 /\ c.clips[RoleReview(c, r)].plan = Now(c, RoleReview(c, r))
    BY DEF ApprovedSpoken
  <2>1. RoleReview(b, r) # 0 /\ b.clips[RoleReview(b, r)].plan = Now(b, RoleReview(b, r))
    BY DEF BookInv, ApprovedSpoken, Alters
  <2>2. RoleReview(b, r) \in DOMAIN b.clips
    BY <1>0, <2>1, ReviewIn
  <2>. QED BY <1>0, <1>1, <1>4, <2>1, <2>2
<1>6. Vouched(c)
  BY <1>0 DEF BookInv, Vouched, AllDecided
<1>. QED BY <1>0, <1>2, <1>3, <1>5, <1>6 DEF BookInv

(* create_session                                                          *)
LEMMA SessionCreated ==
  ASSUME BookInv(book), WorldOK(world), NEW r \in Role, CreateSession(r)
  PROVE  BookInv(book') /\ book'.entries = book.entries
<1> DEFINE x == NewSession(book, world, r)
           s == Append(book.sessions, x)
           c == [book EXCEPT !.sessions = Append(@, x)]
<1>0. BookOK(book) /\ book.sessions \in Seq(Session) /\ book.dictionary \in Nat
  BY DEF BookInv, BookOK
<1>1. book' = c
  BY DEF CreateSession, Become
<1>2. x \in Session /\ x.dictionary = book.dictionary
  BY <1>0 DEF NewSession, Session, WorldOK
<1>. HIDE DEF x
<1>3. /\ IsBook(c) /\ c.sessions = s /\ c.clips = book.clips /\ c.audio = book.audio
      /\ c.entries = book.entries /\ c.dictionary = book.dictionary
      /\ c.decided = book.decided /\ c.shown = book.shown
  <2>1. c \in Tables(s, book.clips, book.audio, book.entries, book.dictionary, book.decided,
                     book.shown, book.ready, book.verdict)
    BY <1>0 DEF BookOK, IsBook, Tables
  <2>. HIDE DEF c, s
  <2>. QED BY <2>1, TablesOf
<1>. HIDE DEF c
<1>4. /\ s \in Seq(Session) /\ DOMAIN s = DOMAIN book.sessions \cup {Len(book.sessions) + 1}
      /\ \A i \in DOMAIN book.sessions : s[i] = book.sessions[i]
      /\ s[Len(book.sessions) + 1] = x
  BY <1>0, <1>2
<1>. HIDE DEF s
<1>5. BookOK(c)
  BY <1>0, <1>3, <1>4 DEF BookOK
<1>6. Alters(book, c)
  BY <1>2, <1>3, <1>4 DEF Alters
<1>. QED BY <1>1, <1>5, <1>6, AltersKeeps

(* queue_generation, mark_job_terminal and a retry                         *)
LEMMA SessionSet ==
  ASSUME BookInv(book), NEW i \in DOMAIN book.sessions,
         NEW state \in {"generating", "failed"}, NEW request \in {"running", "ended"},
         SetSession(i, state, request)
  PROVE  BookInv(book') /\ book'.entries = book.entries
<1> DEFINE x == [book.sessions[i] EXCEPT !.request = request,
                                         !.state = IF @ = "invalidated" THEN @ ELSE state]
           s == [book.sessions EXCEPT ![i] = x]
<1>0. BookOK(book) /\ book.sessions \in Seq(Session) /\ book.sessions[i] \in Session
  BY Domains DEF BookInv, BookOK
<1>1. book' \in Tables(s, book.clips, book.audio, book.entries, book.dictionary, book.decided,
                       book.shown, book.ready, book.verdict)
  BY <1>0 DEF SetSession, Become, BookOK, IsBook, Tables
<1>2. /\ x \in Session /\ x.role = book.sessions[i].role
      /\ x.dictionary = book.sessions[i].dictionary
      /\ book.sessions[i].state = "invalidated" => x.state = "invalidated"
  BY <1>0 DEF Session
<1>. HIDE DEF x
<1>3. /\ s \in Seq(Session) /\ DOMAIN s = DOMAIN book.sessions /\ s[i] = x
      /\ \A j \in DOMAIN book.sessions : j # i => s[j] = book.sessions[j]
  BY <1>0, <1>2
<1>. HIDE DEF s
<1>4. /\ IsBook(book') /\ book'.sessions = s /\ book'.clips = book.clips
      /\ book'.audio = book.audio
      /\ book'.entries = book.entries /\ book'.dictionary = book.dictionary
      /\ book'.decided = book.decided /\ book'.shown = book.shown
  BY <1>1, TablesOf
<1>5. BookOK(book')
  BY <1>0, <1>3, <1>4 DEF BookOK
<1>6. Alters(book, book')
  BY <1>2, <1>3, <1>4 DEF Alters
<1>. QED BY <1>5, <1>6, AltersKeeps

(* Other audio.                                                            *)
LEMMA AudioSet ==
  ASSUME NEW b, BookInv(b), NEW audio \in Seq(Audio), DOMAIN audio = DOMAIN b.audio,
         NEW c \in Tables(b.sessions, b.clips, audio, b.entries, b.dictionary, b.decided,
                          b.shown, b.ready, b.verdict)
  PROVE  BookInv(c) /\ c.entries = b.entries /\ c.clips = b.clips
<1>1. /\ IsBook(c) /\ c.sessions = b.sessions /\ c.clips = b.clips /\ c.audio = audio
      /\ c.entries = b.entries /\ c.dictionary = b.dictionary
      /\ c.decided = b.decided /\ c.shown = b.shown
  BY TablesOf
<1>2. BookOK(c)
  BY <1>1 DEF BookOK, BookInv
<1>3. Alters(b, c)
  BY <1>1 DEF Alters
<1>. QED BY <1>1, <1>2, <1>3, AltersKeeps

LEMMA WithdrawnKeeps ==
  ASSUME NEW b, BookInv(b), NEW files
  PROVE  BookInv(Withdrawn(b, files)) /\ Withdrawn(b, files).entries = b.entries
<1> DEFINE audio == [a \in DOMAIN b.audio |->
                       IF a \in files THEN [state |-> "gone", cached |-> FALSE] ELSE b.audio[a]]
           c == [b EXCEPT !.audio = [a \in DOMAIN @ |->
                   IF a \in files THEN [state |-> "gone", cached |-> FALSE] ELSE @[a]]]
           C == {k \in DOMAIN b.clips : b.clips[k].audio \in files}
           d == InvalidateClips(c, C)
<1>0. BookOK(b)
  BY DEF BookInv
<1>1. audio \in Seq(Audio) /\ DOMAIN audio = DOMAIN b.audio
  <2>1. \A a \in 1..Len(b.audio) : audio[a] \in Audio
    BY <1>0, Domains DEF Audio
  <2>2. audio = [a \in 1..Len(b.audio) |-> audio[a]] /\ Len(b.audio) \in Nat
    BY <1>0, Domains
  <2>. HIDE DEF audio
  <2>. QED BY <1>0, <2>1, <2>2, Table, Domains
<1>2. c \in Tables(b.sessions, b.clips, audio, b.entries, b.dictionary, b.decided,
                   b.shown, b.ready, b.verdict)
  BY <1>0 DEF BookOK, IsBook, Tables
<1>3. BookInv(c) /\ BookOK(c) /\ c.entries = b.entries /\ c.clips = b.clips
  <2>. HIDE DEF c, audio
  <2>. QED BY <1>1, <1>2, AudioSet DEF BookInv
<1>4. BookOK(d) /\ Follows(c, d) /\ d.shown = c.shown
  <2>1. C \in SUBSET DOMAIN c.clips
    BY <1>3
  <2>. HIDE DEF c, C
  <2>. QED BY <1>3, <2>1, ClipsInvalidated
<1>5. BookInv(d) /\ d.entries = b.entries
  <2>. HIDE DEF c, d
  <2>. QED BY <1>3, <1>4, SameReviews DEF Follows
<1>6. Withdrawn(b, files) = d
  BY DEF Withdrawn
<1>. QED BY <1>5, <1>6

(* _assert_per_role_review_clip_integrity                                  *)
LEMMA ClipRefused ==
  ASSUME BookInv(book), NEW k \in DOMAIN book.clips, RefuseClip(k)
  PROVE  BookInv(book') /\ book'.entries = book.entries
<1> DEFINE a == book.clips[k].audio
           gone == [state |-> "gone", cached |-> FALSE]
           audio == [book.audio EXCEPT ![a] = gone]
           c == IF k # Newest(SameFile(book, k)) THEN book
                ELSE [book EXCEPT !.audio[a] = gone]
<1>0. BookOK(book) /\ book.audio \in Seq(Audio) /\ a \in DOMAIN book.audio
  BY DEF BookInv, BookOK
<1>1. book' = InvalidateClips(c, {k})
  BY DEF RefuseClip, Become
<1>2. [book EXCEPT !.audio[a] = gone]
        \in Tables(book.sessions, book.clips, audio, book.entries, book.dictionary,
                   book.decided, book.shown, book.ready, book.verdict)
  <2>. HIDE DEF a, gone
  <2>. QED BY <1>0 DEF BookOK, IsBook, Tables
<1>3. audio \in Seq(Audio) /\ DOMAIN audio = DOMAIN book.audio
  <2>1. gone \in Audio
    BY DEF Audio
  <2>. HIDE DEF a, gone
  <2>. QED BY <1>0, <2>1
<1>4. BookInv(c) /\ BookOK(c) /\ c.entries = book.entries /\ c.clips = book.clips
  <2>1. CASE c = book
    BY <2>1 DEF BookInv
  <2>2. CASE c = [book EXCEPT !.audio[a] = gone]
    <3>1. c \in Tables(book.sessions, book.clips, audio, book.entries, book.dictionary,
                       book.decided, book.shown, book.ready, book.verdict)
      BY <1>2, <2>2
    <3>. HIDE DEF c, audio
    <3>. QED BY <1>3, <3>1, AudioSet DEF BookInv
  <2>. QED BY <2>1, <2>2
<1>. HIDE DEF c
<1>5. BookOK(book') /\ Follows(c, book') /\ book'.shown = c.shown
  <2> DEFINE d == InvalidateClips(c, {k})
  <2>1. {k} \in SUBSET DOMAIN c.clips
    BY <1>4
  <2>2. BookOK(d) /\ Follows(c, d) /\ d.shown = c.shown
    BY <1>4, <2>1, ClipsInvalidated
  <2>. QED BY <1>1, <2>2
<1>. QED BY <1>4, <1>5, SameReviews DEF Follows

LEMMA FileDamaged ==
  ASSUME BookInv(book), NEW a \in DOMAIN book.audio, DamageFile(a)
  PROVE  BookInv(book') /\ book'.entries = book.entries
<1> DEFINE audio == [book.audio EXCEPT ![a] = [book.audio[a] EXCEPT !.state = "damaged"]]
<1>0. BookOK(book) /\ book.audio \in Seq(Audio) /\ book.audio[a] \in Audio
  BY Domains DEF BookInv, BookOK
<1>1. book' \in Tables(book.sessions, book.clips, audio, book.entries, book.dictionary,
                       book.decided, book.shown, book.ready, book.verdict)
  BY <1>0 DEF DamageFile, Become, BookOK, IsBook, Tables
<1>2. audio \in Seq(Audio) /\ DOMAIN audio = DOMAIN book.audio
  <2>1. [book.audio[a] EXCEPT !.state = "damaged"] \in Audio
    BY <1>0 DEF Audio
  <2>. QED BY <1>0, <2>1
<1>. HIDE DEF audio
<1>. QED BY <1>1, <1>2, AudioSet

(* _decide_voice_readiness                                                 *)
LEMMA VerdictKeeps ==
  ASSUME NEW b, BookInv(b), NEW n, NEW d
  PROVE  BookInv(Verdict(b, n, d)) /\ Verdict(b, n, d).entries = b.entries
<1> DEFINE v == [review |-> n, state |-> d, revision |-> b.verdict.revision + 1]
           c == Verdict(b, n, d)
<1>0. BookOK(b)
  BY DEF BookInv
<1>1. c \in Tables(b.sessions, b.clips, b.audio, b.entries, b.dictionary, b.decided,
                   b.shown, b.ready, v)
  BY <1>0 DEF BookOK, IsBook, Tables, Verdict
<1>. HIDE DEF c, v
<1>2. /\ IsBook(c) /\ c.sessions = b.sessions /\ c.clips = b.clips /\ c.audio = b.audio
      /\ c.entries = b.entries /\ c.dictionary = b.dictionary
      /\ c.decided = b.decided /\ c.shown = b.shown
  BY <1>1, TablesOf
<1>3. BookOK(c) /\ Alters(b, c)
  BY <1>0, <1>2 DEF BookOK, Alters
<1>4. BookInv(c) /\ c.entries = b.entries
  BY <1>3, AltersKeeps
<1>. QED BY <1>4 DEF c

(* publish_generation_result: the session froze the present dictionary, so *)
(* what its earlier clips speak is spoken so now, and it may be shown      *)
(* again.                                                                  *)
LEMMA PlanIn ==
  ASSUME NEW b, BookOK(b), NEW r, NEW spoken \in BOOLEAN
  PROVE  Plan(b.entries, r, spoken) \in SUBSET (Nat \X Nat)
<1>1. Winning(b.entries, r) \subseteq DOMAIN b.entries
  BY WinningIs DEF Live
<1>2. \A e \in DOMAIN b.entries : e \in Nat /\ b.entries[e].revision \in Nat
  <2>1. \A e \in DOMAIN b.entries : b.entries[e] \in Entry /\ e \in Nat
    BY Domains
  <2>. QED BY <2>1 DEF Entry
<1>. QED BY <1>1, <1>2 DEF Plan

LEMMA ClipPublished ==
  ASSUME NEW b, BookInv(b), NEW i \in DOMAIN b.sessions, NEW spoken \in BOOLEAN,
         NEW audio \in DOMAIN b.audio \cup {Len(b.audio) + 1},
         b.sessions[i].dictionary = b.dictionary,
         Compiles(Plan(b.entries, b.sessions[i].role, spoken))
  PROVE  BookInv(Published(b, i, spoken, audio)) /\ Published(b, i, spoken, audio).entries = b.entries
<1> DEFINE plan == Plan(b.entries, b.sessions[i].role, spoken)
           k == [session |-> i, spoken |-> spoken, audio |-> audio, plan |-> plan]
           x == [b.sessions[i] EXCEPT !.state = "reviewable", !.request = "none"]
           s == [b.sessions EXCEPT ![i] = x]
           fresh == [state |-> "sound", cached |-> TRUE]
           files == IF audio <= Len(b.audio) THEN b.audio ELSE Append(b.audio, fresh)
           w == WithAudio(b, audio)
           c == Published(b, i, spoken, audio)
           n == Len(b.clips) + 1
<1>0. /\ BookOK(b) /\ IsBook(b) /\ b.sessions \in Seq(Session) /\ b.clips \in Seq(Clip)
      /\ b.audio \in Seq(Audio) /\ b.sessions[i] \in Session /\ b.dictionary \in Nat /\ i \in Nat
  BY Domains DEF BookInv, BookOK
<1>1. /\ IsBook(w) /\ w.sessions = b.sessions /\ w.clips = b.clips /\ w.audio = files
      /\ w.entries = b.entries /\ w.dictionary = b.dictionary
      /\ w.decided = b.decided /\ w.shown = b.shown
  <2>1. CASE audio <= Len(b.audio)
    BY <1>0, <2>1 DEF WithAudio
  <2>2. CASE ~(audio <= Len(b.audio))
    <3>1. w = [b EXCEPT !.audio = Append(@, fresh)] /\ files = Append(b.audio, fresh)
      BY <2>2 DEF WithAudio
    <3>. HIDE DEF w, files, fresh
    <3>2. w \in Tables(b.sessions, b.clips, files, b.entries, b.dictionary, b.decided,
                       b.shown, b.ready, b.verdict)
      BY <1>0, <3>1 DEF IsBook, Tables
    <3>. QED BY <3>2, TablesOf
  <2>. QED BY <2>1, <2>2
<1>2. /\ IsBook(c) /\ c.sessions = s /\ c.clips = Append(b.clips, k) /\ c.audio = files
      /\ c.entries = b.entries /\ c.dictionary = b.dictionary
      /\ c.decided = b.decided /\ c.shown = b.shown
  <2>1. c = [w EXCEPT !.clips = Append(@, k), !.sessions[i].state = "reviewable",
                      !.sessions[i].request = "none"]
    BY DEF Published
  <2>. HIDE DEF w, c, k, files
  <2> DEFINE ss == [w.sessions EXCEPT ![i] = [w.sessions[i] EXCEPT !.state = "reviewable",
                                                                   !.request = "none"]]
             cc == Append(w.clips, k)
  <2>2. c \in Tables(ss, cc, w.audio, w.entries, w.dictionary, w.decided, w.shown, w.ready,
                     w.verdict)
    BY <1>1, <2>1 DEF IsBook, Tables
  <2>3. ss = s /\ cc = Append(b.clips, k)
    BY <1>1
  <2>. HIDE DEF ss, cc, s
  <2>4. /\ IsBook(c) /\ c.sessions = ss /\ c.clips = cc /\ c.audio = w.audio
        /\ c.entries = w.entries /\ c.dictionary = w.dictionary
        /\ c.decided = w.decided /\ c.shown = w.shown
    BY <2>2, TablesOf
  <2>. QED BY <1>1, <2>3, <2>4
<1>3. /\ x \in Session /\ x.role = b.sessions[i].role /\ x.dictionary = b.dictionary
  BY <1>0 DEF Session
<1>4. /\ s \in Seq(Session) /\ DOMAIN s = DOMAIN b.sessions /\ s[i] = x
      /\ \A j \in DOMAIN b.sessions : j # i => s[j] = b.sessions[j]
  <2>. HIDE DEF x
  <2>. QED BY <1>0, <1>3
<1>5. /\ files \in Seq(Audio) /\ DOMAIN b.audio \subseteq DOMAIN files /\ audio \in DOMAIN files
      /\ audio \in Nat
  <2>1. fresh \in Audio
    BY DEF Audio
  <2>. HIDE DEF fresh
  <2>2. CASE audio <= Len(b.audio)
    BY <1>0, <2>2
  <2>3. CASE ~(audio <= Len(b.audio))
    BY <1>0, <2>1, <2>3
  <2>. QED BY <2>2, <2>3
<1>6. k \in Clip /\ k.session = i /\ k.audio = audio /\ k.spoken = spoken /\ k.plan = plan
  <2>1. plan \in SUBSET (Nat \X Nat)
    BY <1>0, PlanIn
  <2>. HIDE DEF plan
  <2>. QED BY <1>0, <1>5, <2>1 DEF Clip
<1>. HIDE DEF c, w, k, x, s, files
<1>7. /\ c.clips \in Seq(Clip) /\ DOMAIN c.clips = DOMAIN b.clips \cup {n} /\ n \notin DOMAIN b.clips
      /\ c.clips[n] = k /\ \A j \in DOMAIN b.clips : c.clips[j] = b.clips[j] /\ j < n /\ j \in Nat
      /\ n \in Nat
  BY <1>0, <1>2, <1>6
<1>. HIDE DEF n
<1>8. \A j \in DOMAIN b.clips : b.clips[j].session \in DOMAIN b.sessions
                                /\ b.clips[j].audio \in DOMAIN b.audio
  BY <1>0 DEF BookOK
<1>9. BookOK(c)
  <2>1. \A j \in DOMAIN c.clips :
          c.clips[j].session \in DOMAIN c.sessions /\ c.clips[j].audio \in DOMAIN c.audio
    BY <1>2, <1>4, <1>5, <1>6, <1>7, <1>8
  <2>. QED BY <1>0, <1>2, <1>4, <1>5, <1>7, <2>1 DEF BookOK
<1>10. \A j \in DOMAIN b.clips :
         /\ RoleOf(c, j) = RoleOf(b, j) /\ SessionOf(c, j).dictionary = SessionOf(b, j).dictionary
         /\ Now(c, j) = Now(b, j)
         /\ SessionOf(b, j).dictionary # b.dictionary => SessionOf(c, j) = SessionOf(b, j)
  <2>1. \A j \in DOMAIN b.sessions : /\ c.sessions[j].role = b.sessions[j].role
                                     /\ c.sessions[j].dictionary = b.sessions[j].dictionary
                                     /\ b.sessions[j].dictionary # b.dictionary
                                          => c.sessions[j] = b.sessions[j]
    BY <1>2, <1>3, <1>4
  <2>. QED BY <1>2, <1>7, <1>8, <2>1 DEF RoleOf, SessionOf, Now
<1>11. /\ RoleOf(c, n) = b.sessions[i].role /\ SessionOf(c, n).dictionary = b.dictionary
       /\ Now(c, n) = plan
  BY <1>2, <1>3, <1>4, <1>6, <1>7 DEF RoleOf, SessionOf, Now
<1>12. Frozen(c)
  <2>1. \A j \in DOMAIN c.sessions : c.sessions[j].dictionary <= c.dictionary
    <3>1. \A j \in DOMAIN b.sessions : b.sessions[j].dictionary <= b.dictionary
      BY DEF BookInv, Frozen
    <3>. QED BY <1>2, <1>3, <1>4, <3>1, <1>0
  <2>2. \A j, l \in DOMAIN b.clips : j <= l => SessionOf(b, j).dictionary <= SessionOf(b, l).dictionary
    BY DEF BookInv, Frozen
  <2>3. \A j \in DOMAIN b.clips : SessionOf(b, j).dictionary <= b.dictionary
    BY <1>8 DEF BookInv, Frozen, SessionOf
  <2>4. ASSUME NEW j \in DOMAIN c.clips, NEW l \in DOMAIN c.clips, j <= l
        PROVE  SessionOf(c, j).dictionary <= SessionOf(c, l).dictionary
    <3>1. CASE l \in DOMAIN b.clips
      <4>1. j \in DOMAIN b.clips
        BY <1>7, <2>4, <3>1
      <4>. QED BY <1>10, <2>2, <2>4, <3>1, <4>1
    <3>2. CASE l = n
      BY <1>0, <1>7, <1>10, <1>11, <2>3, <3>2
    <3>. QED BY <1>7, <3>1, <3>2
  <2>. QED BY <2>1, <2>4 DEF Frozen
<1>13. Spoken(c)
  <2>1. ASSUME NEW j \in DOMAIN b.clips
        PROVE  /\ Compiles(c.clips[j].plan)
               /\ \/ c.clips[j].plan = Now(c, j)
                  \/ SessionOf(c, j).state = "invalidated" /\ SessionOf(c, j).dictionary # c.dictionary
    BY <1>2, <1>7, <1>10 DEF BookInv, Spoken
  <2>2. Compiles(c.clips[n].plan) /\ c.clips[n].plan = Now(c, n)
    BY <1>6, <1>7, <1>11
  <2>. QED BY <1>7, <2>1, <2>2 DEF Spoken
<1>14. ApprovedSpoken(c)
  <2>. SUFFICES ASSUME NEW r \in Role, c.decided[r].state = "approved"
                PROVE  RoleReview(c, r) # 0 /\ c.clips[RoleReview(c, r)].plan = Now(c, RoleReview(c, r))
    BY DEF ApprovedSpoken
  <2> DEFINE m == RoleReview(c, r)
  <2>1. /\ m \in {j \in DOMAIN c.clips : RoleOf(c, j) = r} \cup {0} /\ m \in Nat
        /\ \A j \in DOMAIN c.clips : RoleOf(c, j) = r => j <= m
    BY <1>9, ReviewIn
  <2>2. CASE r = b.sessions[i].role
    <3>1. n <= m
      BY <1>7, <1>11, <2>1, <2>2
    <3>2. m = n
      <4>. HIDE DEF m
      <4>. QED BY <1>7, <2>1, <3>1
    <3>. QED BY <1>6, <1>7, <1>11, <3>2
  <2>3. CASE r # b.sessions[i].role
    <3>1. {j \in DOMAIN c.clips : RoleOf(c, j) = r} = {j \in DOMAIN b.clips : RoleOf(b, j) = r}
      BY <1>7, <1>10, <1>11, <2>3
    <3>2. m = RoleReview(b, r)
      BY <3>1 DEF RoleReview
    <3>3. m # 0 /\ b.clips[m].plan = Now(b, m)
      BY <1>2, <3>2 DEF BookInv, ApprovedSpoken
    <3>4. m \in DOMAIN b.clips
      BY <1>0, <3>2, <3>3, ReviewIn
    <3>. QED BY <1>7, <1>10, <3>3, <3>4
  <2>. QED BY <2>2, <2>3
<1>15. Vouched(c)
  BY <1>2 DEF BookInv, Vouched, AllDecided
<1>16. BookInv(c) /\ c.entries = b.entries
  BY <1>2, <1>9, <1>12, <1>13, <1>14, <1>15 DEF BookInv
<1>. QED BY <1>16 DEF c

(* Another dictionary: no session, and no review, froze the new one.       *)
Reads(b, c) ==
  /\ c.clips = b.clips /\ c.sessions = b.sessions /\ c.audio = b.audio
  /\ c.decided = b.decided /\ c.shown = b.shown /\ c.dictionary = b.dictionary + 1

LEMMA ReadsLooks ==
  ASSUME NEW b, NEW c, BookInv(b), BookOK(c), Reads(b, c)
  PROVE  /\ \A k \in DOMAIN b.clips : /\ RoleOf(c, k) = RoleOf(b, k) /\ RoleOf(b, k) \in Role
                                      /\ SessionOf(c, k) = SessionOf(b, k)
                                      /\ SessionOf(c, k).dictionary < c.dictionary
                                      /\ b.clips[k].spoken \in BOOLEAN
         /\ \A r : RoleReview(c, r) = RoleReview(b, r)
         /\ Frozen(c) /\ Vouched(c)
<1>0. BookOK(b) /\ b.dictionary \in Nat
  BY DEF BookInv, BookOK
<1>1. \A k \in DOMAIN b.clips : /\ RoleOf(c, k) = RoleOf(b, k) /\ RoleOf(b, k) \in Role
                                /\ SessionOf(c, k) = SessionOf(b, k)
                                /\ SessionOf(b, k).dictionary \in Nat
                                /\ b.clips[k].spoken \in BOOLEAN
                                /\ b.clips[k].session \in DOMAIN b.sessions
  <2>1. \A k \in DOMAIN b.clips : /\ SessionOf(b, k) \in Session /\ RoleOf(b, k) \in Role
                                  /\ b.clips[k] \in Clip
    BY <1>0, Domains
  <2>2. \A k \in DOMAIN b.clips : b.clips[k].session \in DOMAIN b.sessions
    BY <1>0 DEF BookOK
  <2>3. \A k \in DOMAIN b.clips : SessionOf(b, k).dictionary \in Nat /\ b.clips[k].spoken \in BOOLEAN
    BY <2>1 DEF Session, Clip
  <2>. QED BY <2>1, <2>2, <2>3 DEF Reads, RoleOf, SessionOf
<1>2. \A i \in DOMAIN b.sessions : /\ b.sessions[i].dictionary \in Nat
                                   /\ b.sessions[i].dictionary <= b.dictionary
  <2>1. \A i \in DOMAIN b.sessions : b.sessions[i] \in Session
    BY <1>0, Domains
  <2>. QED BY <2>1 DEF BookInv, Frozen, Session
<1>3. \A k \in DOMAIN b.clips : SessionOf(c, k).dictionary < c.dictionary
  BY <1>0, <1>1, <1>2 DEF Reads, SessionOf
<1>4. Frozen(c)
  <2>1. \A i \in DOMAIN c.sessions : c.sessions[i].dictionary <= c.dictionary
    BY <1>0, <1>2 DEF Reads
  <2>. QED BY <1>1, <2>1 DEF BookInv, Frozen, Reads
<1>5. Vouched(c)
  <2>1. b.shown["pronunciation"] \in Seq(Review)
    BY <1>0, Names DEF BookOK
  <2>2. \A n \in DOMAIN b.shown["pronunciation"] : b.shown["pronunciation"][n].dictionary \in Nat
    <3>1. \A n \in DOMAIN b.shown["pronunciation"] : b.shown["pronunciation"][n] \in Review
      BY <2>1
    <3>. QED BY <3>1 DEF Review
  <2>. QED BY <1>0, <2>2 DEF BookInv, Vouched, Reads
<1>6. \A r : RoleReview(c, r) = RoleReview(b, r)
  BY <1>1 DEF RoleReview, Reads
<1>. QED BY <1>1, <1>3, <1>4, <1>5, <1>6

(* If no plan is another one, nothing is lost.                             *)
LEMMA ReadsSame ==
  ASSUME NEW b, NEW c, BookInv(b), BookOK(c), Reads(b, c),
         \A r \in Role, spoken \in BOOLEAN : Plan(c.entries, r, spoken) = Plan(b.entries, r, spoken)
  PROVE  BookInv(c)
<1>0. BookOK(b)
  BY DEF BookInv
<1>1. /\ \A k \in DOMAIN b.clips : /\ RoleOf(c, k) = RoleOf(b, k) /\ RoleOf(b, k) \in Role
                                   /\ SessionOf(c, k) = SessionOf(b, k)
                                   /\ SessionOf(c, k).dictionary < c.dictionary
                                   /\ b.clips[k].spoken \in BOOLEAN
      /\ \A r : RoleReview(c, r) = RoleReview(b, r)
      /\ Frozen(c) /\ Vouched(c)
  BY ReadsLooks
<1>2. \A k \in DOMAIN b.clips : Now(c, k) = Now(b, k)
  BY <1>1 DEF Now, Reads
<1>3. \A k \in DOMAIN b.clips : SessionOf(c, k).dictionary # c.dictionary
  <2>1. \A k \in DOMAIN c.clips : SessionOf(c, k).dictionary \in Nat
    BY Domains DEF Session
  <2>2. c.dictionary \in Nat
    BY DEF BookOK
  <2>. QED BY <1>1, <2>1, <2>2 DEF Reads
<1>4. Spoken(c)
  BY <1>1, <1>2, <1>3 DEF BookInv, Spoken, Reads
<1>5. ApprovedSpoken(c)
  <2>. SUFFICES ASSUME NEW r \in Role, c.decided[r].state = "approved"
                PROVE  RoleReview(c, r) # 0 /\ c.clips[RoleReview(c, r)].plan = Now(c, RoleReview(c, r))
    BY DEF ApprovedSpoken
  <2>1. RoleReview(b, r) # 0 /\ b.clips[RoleReview(b, r)].plan = Now(b, RoleReview(b, r))
    BY DEF BookInv, ApprovedSpoken, Reads
  <2>2. RoleReview(b, r) \in DOMAIN b.clips
    BY <1>0, <2>1, ReviewIn
  <2>. QED BY <1>1, <1>2, <2>1, <2>2 DEF Reads
<1>. QED BY <1>1, <1>4, <1>5 DEF BookInv

(* create_pronunciation_entry                                              *)
LEMMA EntryCreated ==
  ASSUME BookInv(book), NEW scope \in Scopes, NEW f \in 0..MaxEntries, CreateEntry(scope, f)
  PROVE  BookInv(book') /\ Reads(book, book')
<1> DEFINE x == [scope |-> scope, state |-> "pending", revision |-> 1,
                 line |-> IF f = 0 THEN {} ELSE {f} \cup book.entries[f].line]
           entries == Append(book.entries, x)
<1>0. BookOK(book) /\ book.entries \in Seq(Entry) /\ book.dictionary \in Nat
  BY DEF BookInv, BookOK
<1>1. x \in Entry /\ x.state = "pending"
  <2>1. ASSUME f # 0 PROVE {f} \cup book.entries[f].line \in SUBSET Nat
    <3>1. f \in DOMAIN book.entries
      BY <1>0, <2>1 DEF CreateEntry
    <3>2. book.entries[f] \in Entry
      BY <1>0, <3>1, Domains
    <3>. QED BY <3>2 DEF Entry
  <2>2. x.line \in SUBSET Nat
    BY <2>1
  <2>. QED BY <2>2 DEF Entry
<1>2. book' \in Tables(book.sessions, book.clips, book.audio, entries, book.dictionary + 1,
                       book.decided, book.shown, book.ready, book.verdict)
  BY <1>0 DEF CreateEntry, Become, Entered, BookOK, IsBook, Tables
<1>. HIDE DEF x
<1>3. entries \in Seq(Entry)
  BY <1>0, <1>1
<1>4. \A r \in Role, spoken \in BOOLEAN : Plan(entries, r, spoken) = Plan(book.entries, r, spoken)
  BY <1>0, <1>1, PlanAppended
<1>. HIDE DEF entries
<1> DEFINE n == book.dictionary + 1
<1>5. /\ IsBook(book') /\ book'.sessions = book.sessions /\ book'.clips = book.clips
      /\ book'.audio = book.audio /\ book'.entries = entries /\ book'.dictionary = n
      /\ book'.decided = book.decided /\ book'.shown = book.shown
  <2>1. book' \in Tables(book.sessions, book.clips, book.audio, entries, n,
                       book.decided, book.shown, book.ready, book.verdict)
    BY <1>2
  <2>. HIDE DEF n
  <2>. QED BY <2>1, TablesOf
<1>6. BookOK(book') /\ Reads(book, book')
  BY <1>0, <1>3, <1>5 DEF BookOK, Reads
<1>. QED BY <1>4, <1>5, <1>6, ReadsSame

(* decide_pronunciation_entry.  An affected clip would be spoken           *)
(* differently, one that is not affected would not.                        *)
LEMMA AffectedDiffer ==
  ASSUME NEW b, NEW c, BookInv(b), BookOK(c), Reads(b, c), NEW e,
         EntryDecided(b.entries, c.entries, e),
         "approved" \in {b.entries[e].state, c.entries[e].state},
         NEW k \in DOMAIN b.clips, b.clips[k].plan = Now(b, k)
  PROVE  k \in Affected(c, e) <=> c.clips[k].plan # Now(c, k)
<1> DEFINE changed == {e} \cup b.entries[e].line
           plan == b.clips[k].plan
<1>1. /\ RoleOf(c, k) = RoleOf(b, k) /\ c.clips = b.clips /\ b.clips[k].spoken \in BOOLEAN
      /\ c.entries[e].line = b.entries[e].line /\ Compiles(plan)
  BY ReadsLooks DEF Reads, EntryDecided, BookInv, Spoken
<1>2. k \in Affected(c, e) <=> Uses(plan, changed) \/ ~Compiles(Now(c, k)) \/ Uses(Now(c, k), changed)
  BY <1>1 DEF Affected, Uses, Now
<1>3. /\ plan = Plan(b.entries, RoleOf(b, k), b.clips[k].spoken)
      /\ Now(c, k) = Plan(c.entries, RoleOf(b, k), b.clips[k].spoken)
  BY <1>1 DEF Now
<1>. HIDE DEF plan
<1>4. CASE Uses(plan, changed) \/ Uses(Now(c, k), changed)
  <2>1. Now(c, k) # plan
    BY <1>1, <1>3, <1>4, PlanDiffers
  <2>. QED BY <1>1, <1>2, <1>4, <2>1 DEF plan
<1>5. CASE ~Uses(plan, changed) /\ ~Uses(Now(c, k), changed)
  <2>1. Now(c, k) = plan
    BY <1>1, <1>3, <1>5, PlanElsewhere
  <2>. QED BY <1>1, <1>2, <1>5, <2>1 DEF plan
<1>. QED BY <1>4, <1>5

LEMMA EntriesSet ==
  ASSUME NEW b, BookInv(b), NEW entries \in Seq(Entry), NEW n, n = b.dictionary + 1,
         NEW c \in Tables(b.sessions, b.clips, b.audio, entries, n, b.decided, b.shown, b.ready,
                          b.verdict)
  PROVE  BookOK(c) /\ Reads(b, c) /\ c.entries = entries
<1>1. /\ IsBook(c) /\ c.sessions = b.sessions /\ c.clips = b.clips
      /\ c.audio = b.audio /\ c.entries = entries /\ c.dictionary = n
      /\ c.decided = b.decided /\ c.shown = b.shown
  BY TablesOf
<1>. QED BY <1>1 DEF BookInv, BookOK, Reads

(* The row of a decided entry.                                             *)
EntryRow(b, e, d) ==
  [b EXCEPT !.dictionary = @ + 1, !.entries[e].state = d, !.entries[e].revision = @ + 1]

LEMMA EntrySet ==
  ASSUME NEW b, BookInv(b), NEW e \in DOMAIN b.entries,
         NEW d \in {"approved", "rejected", "changes"}
  PROVE  /\ BookOK(EntryRow(b, e, d)) /\ Reads(b, EntryRow(b, e, d))
         /\ EntryDecided(b.entries, EntryRow(b, e, d).entries, e)
         /\ EntryRow(b, e, d).entries[e].state = d
<1> DEFINE x == [b.entries[e] EXCEPT !.state = d, !.revision = @ + 1]
           entries == [b.entries EXCEPT ![e] = x]
           n == b.dictionary + 1
           c == EntryRow(b, e, d)
<1>0. BookOK(b) /\ b.entries \in Seq(Entry) /\ b.entries[e] \in Entry /\ b.dictionary \in Nat
  BY Domains DEF BookInv, BookOK
<1>1. c \in Tables(b.sessions, b.clips, b.audio, entries, n, b.decided, b.shown, b.ready,
                   b.verdict)
  BY <1>0 DEF BookOK, IsBook, Tables, EntryRow
<1>2. /\ x \in Entry /\ x.state = d /\ x.line = b.entries[e].line /\ x.scope = b.entries[e].scope
      /\ b.entries[e].revision \in Nat /\ x.revision = b.entries[e].revision + 1
  <2> DEFINE y == b.entries[e]
  <2>1. y \in Entry
    BY <1>0
  <2>. HIDE DEF y
  <2>2. y.revision \in Nat
    BY <2>1 DEF Entry
  <2>3. [y EXCEPT !.state = d, !.revision = y.revision + 1] \in Entry
    <3> DEFINE m == y.revision + 1
    <3>1. m \in Nat /\ y.scope \in Scopes /\ y.line \in SUBSET Nat
      BY <2>1, <2>2 DEF Entry
    <3>2. y \in [scope : {y.scope}, state : {y.state}, revision : {y.revision}, line : {y.line}]
      BY <2>1 DEF Entry
    <3>. HIDE DEF m
    <3>3. [y EXCEPT !.state = d, !.revision = m]
            \in [scope : {y.scope}, state : {d}, revision : {m}, line : {y.line}]
      BY <3>2
    <3>4. [y EXCEPT !.state = d, !.revision = m] \in Entry
      BY <3>1, <3>3 DEF Entry
    <3>. QED BY <3>4 DEF m
  <2>4. LET z == [y EXCEPT !.state = d, !.revision = y.revision + 1] IN
        z.state = d /\ z.line = y.line /\ z.scope = y.scope /\ z.revision = y.revision + 1
    BY <2>1 DEF Entry
  <2>5. x = [y EXCEPT !.state = d, !.revision = y.revision + 1]
    BY DEF y
  <2>. HIDE DEF x
  <2>. QED BY <2>2, <2>3, <2>4, <2>5 DEF y
<1>. HIDE DEF x, c
<1>3. /\ entries \in Seq(Entry) /\ DOMAIN entries = DOMAIN b.entries /\ entries[e] = x
      /\ \A f \in DOMAIN b.entries \ {e} : entries[f] = b.entries[f]
  BY <1>0, <1>2
<1>. HIDE DEF entries
<1>4. BookOK(c) /\ Reads(b, c) /\ c.entries = entries
  <2>1. n = b.dictionary + 1
    OBVIOUS
  <2>. HIDE DEF n
  <2>. QED BY <1>1, <1>3, <2>1, EntriesSet
<1>5. EntryDecided(b.entries, c.entries, e) /\ c.entries[e].state = d
  BY <1>2, <1>3, <1>4 DEF EntryDecided
<1>. QED BY <1>4, <1>5 DEF c

LEMMA PronunciationInvalidated ==
  ASSUME NEW b, BookOK(b), NEW e
  PROVE  LET c == InvalidatePronunciation(b, e) IN
         /\ BookOK(c) /\ Follows(b, c) /\ c.audio = b.audio /\ c.shown = b.shown
         /\ c.sessions = [i \in DOMAIN b.sessions |->
                            IF \E k \in Affected(b, e) : b.clips[k].session = i
                            THEN Invalidated(b.sessions[i]) ELSE b.sessions[i]]
         /\ \A r \in Role :
              /\ RoleReview(b, r) \in Affected(b, e) => c.decided[r].state \in {"none", "invalidated"}
              /\ RoleReview(b, r) \notin Affected(b, e) => c.decided[r] = b.decided[r]
<1> DEFINE C == Affected(b, e)
           a == InvalidateClips(b, C)
           p == Revoked(a.decided["pronunciation"], Len(b.shown["pronunciation"]))
           d == [a.decided EXCEPT !["pronunciation"] = p]
           v == Revoked(a.verdict, Len(b.ready))
           c == InvalidatePronunciation(b, e)
<1>1. C \in SUBSET DOMAIN b.clips
  BY DEF Affected
<1>2. /\ BookOK(a) /\ Follows(b, a) /\ a.audio = b.audio /\ a.shown = b.shown
      /\ a.sessions = [i \in DOMAIN b.sessions |->
                         IF \E k \in C : b.clips[k].session = i
                         THEN Invalidated(b.sessions[i]) ELSE b.sessions[i]]
      /\ \A r \in Role :
           /\ RoleReview(b, r) \in C => a.decided[r].state \in {"none", "invalidated"}
           /\ RoleReview(b, r) \notin C => a.decided[r] = b.decided[r]
  <2>. HIDE DEF C
  <2>. QED BY <1>1, ClipsInvalidated
<1>3. c = [a EXCEPT !.decided["pronunciation"] = Revoked(@, Len(b.shown["pronunciation"])),
                    !.verdict = Revoked(@, Len(b.ready))]
  BY DEF InvalidatePronunciation
<1>. HIDE DEF a, c
<1>4. c \in Tables(a.sessions, a.clips, a.audio, a.entries, a.dictionary, d, a.shown, a.ready, v)
  BY <1>2, <1>3 DEF BookOK, IsBook, Tables
<1>5. a.decided \in [Role \cup Gate -> Decision] /\ Len(b.shown["pronunciation"]) \in Nat
  <2>1. b.shown["pronunciation"] \in Seq(Review)
    BY Names DEF BookOK
  <2>. QED BY <1>2, <2>1 DEF BookOK
<1>6. p \in Decision
  BY <1>5, Names, RevokedOK
<1>. HIDE DEF p, v
<1>7. d \in [Role \cup Gate -> Decision] /\ \A r \in Role : d[r] = a.decided[r]
  <2>1. "pronunciation" \notin Role
    BY Names
  <2>. QED BY <1>5, <1>6, <2>1
<1>. HIDE DEF d
<1>8. /\ IsBook(c) /\ c.sessions = a.sessions /\ c.clips = a.clips /\ c.audio = a.audio
      /\ c.entries = a.entries /\ c.dictionary = a.dictionary
      /\ c.decided = d /\ c.shown = a.shown
  BY <1>4, TablesOf
<1>9. BookOK(c) /\ Follows(b, c)
  BY <1>2, <1>7, <1>8 DEF BookOK, Follows
<1>. QED BY <1>2, <1>7, <1>8, <1>9 DEF c

(* What an effective decision leaves.                                      *)
LEMMA DecisionKeeps ==
  ASSUME NEW b, NEW c, BookInv(b), BookOK(c), Reads(b, c), NEW e,
         EntryDecided(b.entries, c.entries, e),
         "approved" \in {b.entries[e].state, c.entries[e].state}
  PROVE  BookInv(InvalidatePronunciation(c, e))
<1> DEFINE d == InvalidatePronunciation(c, e)
           C == Affected(c, e)
<1>0. /\ BookOK(b) /\ c.clips = b.clips /\ c.sessions = b.sessions /\ c.decided = b.decided
  BY DEF BookInv, Reads
<1>1. /\ \A k \in DOMAIN b.clips : /\ RoleOf(c, k) = RoleOf(b, k)
                                   /\ SessionOf(c, k) = SessionOf(b, k)
                                   /\ SessionOf(c, k).dictionary < c.dictionary
      /\ \A r : RoleReview(c, r) = RoleReview(b, r)
      /\ Frozen(c) /\ Vouched(c)
  BY ReadsLooks
<1>2. /\ BookOK(d) /\ Follows(c, d) /\ d.shown = c.shown
      /\ d.sessions = [i \in DOMAIN c.sessions |->
                         IF \E k \in C : c.clips[k].session = i
                         THEN Invalidated(c.sessions[i]) ELSE c.sessions[i]]
      /\ \A r \in Role :
           /\ RoleReview(c, r) \in C => d.decided[r].state \in {"none", "invalidated"}
           /\ RoleReview(c, r) \notin C => d.decided[r] = c.decided[r]
  BY PronunciationInvalidated
<1>. HIDE DEF d
<1>3. d.clips = c.clips /\ d.entries = c.entries /\ d.dictionary = c.dictionary
      /\ DOMAIN d.sessions = DOMAIN c.sessions
  BY <1>2 DEF Follows
<1>4. \A k \in DOMAIN c.clips : /\ RoleOf(d, k) = RoleOf(c, k) /\ Now(d, k) = Now(c, k)
                                /\ SessionOf(d, k).dictionary = SessionOf(c, k).dictionary
                                /\ SessionOf(d, k).state \in {SessionOf(c, k).state, "invalidated"}
  BY <1>2, <1>3, FollowsLooks DEF Now
<1>5. \A k \in DOMAIN c.clips : k \in C => SessionOf(d, k).state = "invalidated"
  <2>. SUFFICES ASSUME NEW k \in DOMAIN c.clips, k \in C
                PROVE  SessionOf(d, k).state = "invalidated"
    OBVIOUS
  <2>1. c.clips[k].session \in DOMAIN c.sessions /\ SessionOf(c, k) \in Session
    BY Domains DEF BookOK
  <2>2. SessionOf(d, k) = Invalidated(SessionOf(c, k))
    <3>. HIDE DEF C
    <3>. QED BY <1>2, <1>3, <2>1 DEF SessionOf
  <2>. QED BY <2>1, <2>2, InvalidatedSession
<1>6. \A k \in DOMAIN c.clips : SessionOf(d, k).dictionary # d.dictionary
  <2>1. \A k \in DOMAIN c.clips : SessionOf(c, k).dictionary \in Nat
    BY Domains DEF Session
  <2>2. c.dictionary \in Nat
    BY DEF BookOK
  <2>. QED BY <1>0, <1>1, <1>3, <1>4, <2>1, <2>2
<1>7. \A k \in DOMAIN b.clips : b.clips[k].plan = Now(b, k) /\ k \notin C => d.clips[k].plan = Now(d, k)
  BY <1>0, <1>3, <1>4, AffectedDiffer
<1>8. Frozen(d)
  <2>1. \A i \in DOMAIN d.sessions : d.sessions[i].dictionary <= d.dictionary
    BY <1>1, <1>2, <1>3, FollowsSession DEF Frozen
  <2>. QED BY <1>1, <1>3, <1>4, <2>1 DEF Frozen
<1>9. Spoken(d)
  <2>. SUFFICES ASSUME NEW k \in DOMAIN b.clips
                PROVE  /\ Compiles(d.clips[k].plan)
                       /\ \/ d.clips[k].plan = Now(d, k)
                          \/ SessionOf(d, k).state = "invalidated" /\ SessionOf(d, k).dictionary # d.dictionary
    BY <1>0, <1>3 DEF Spoken
  <2>1. /\ Compiles(b.clips[k].plan)
        /\ b.clips[k].plan = Now(b, k) \/ SessionOf(b, k).state = "invalidated"
    BY DEF BookInv, Spoken
  <2>2. CASE SessionOf(b, k).state = "invalidated"
    BY <1>0, <1>1, <1>3, <1>4, <1>6, <2>1, <2>2
  <2>3. CASE k \in C
    BY <1>0, <1>3, <1>5, <1>6, <2>1, <2>3
  <2>4. CASE k \notin C /\ b.clips[k].plan = Now(b, k)
    BY <1>0, <1>3, <1>7, <2>1, <2>4
  <2>. QED BY <2>1, <2>2, <2>3, <2>4
<1>10. ApprovedSpoken(d)
  <2>. SUFFICES ASSUME NEW r \in Role, d.decided[r].state = "approved"
                PROVE  RoleReview(d, r) # 0 /\ d.clips[RoleReview(d, r)].plan = Now(d, RoleReview(d, r))
    BY DEF ApprovedSpoken
  <2> DEFINE m == RoleReview(b, r)
  <2>1. RoleReview(c, r) = m /\ RoleReview(d, r) = m
    BY <1>1, <1>2, FollowsLooks
  <2>. HIDE DEF m
  <2>2. m \notin C /\ b.decided[r].state = "approved"
    BY <1>0, <1>2, <2>1
  <2>3. m # 0 /\ b.clips[m].plan = Now(b, m)
    BY <2>2 DEF BookInv, ApprovedSpoken, m
  <2>4. m \in DOMAIN b.clips
    BY <1>0, <2>3, ReviewIn DEF m
  <2>. QED BY <1>7, <2>1, <2>2, <2>3, <2>4
<1>11. Vouched(d)
  BY <1>1, <1>2, <1>3 DEF Vouched, AllDecided
<1>. QED BY <1>2, <1>8, <1>9, <1>10, <1>11 DEF BookInv, d

(* An approval stays unless a clip of its role would be spoken differently.*)
LEMMA DecisionSpares ==
  ASSUME NEW b, NEW c, BookInv(b), BookOK(c), Reads(b, c), NEW e,
         EntryDecided(b.entries, c.entries, e),
         "approved" \in {b.entries[e].state, c.entries[e].state},
         NEW w, NEW r \in Role, Approved(b, w, r),
         \A k \in DOMAIN b.clips : RoleOf(b, k) = r =>
           b.clips[k].plan = Plan(c.entries, r, b.clips[k].spoken)
  PROVE  Approved(InvalidatePronunciation(c, e), w, r)
<1> DEFINE d == InvalidatePronunciation(c, e)
           C == Affected(c, e)
           n == CurrentClip(b, w, r)
           i == b.clips[n].session
<1>0. /\ BookOK(b) /\ c.clips = b.clips /\ c.sessions = b.sessions /\ c.decided = b.decided
  BY DEF BookInv, Reads
<1>1. /\ \A k \in DOMAIN b.clips : RoleOf(c, k) = RoleOf(b, k) /\ SessionOf(c, k) = SessionOf(b, k)
      /\ RoleReview(c, r) = RoleReview(b, r)
  BY ReadsLooks
<1>2. /\ Follows(c, d)
      /\ d.sessions = [j \in DOMAIN c.sessions |->
                         IF \E k \in C : c.clips[k].session = j
                         THEN Invalidated(c.sessions[j]) ELSE c.sessions[j]]
      /\ RoleReview(c, r) \notin C => d.decided[r] = c.decided[r]
  BY PronunciationInvalidated
<1>. HIDE DEF d
<1>3. CurrentClip(d, w, r) = n
  <2>1. CurrentClip(d, w, r) = CurrentClip(c, w, r)
    BY <1>2, FollowsLooks
  <2>2. CurrentClip(c, w, r) = n
    BY <1>0 DEF CurrentClip, LatestSession, ClipsOf
  <2>. QED BY <2>1, <2>2
<1>4. /\ b.decided[r].state = "approved" /\ n # 0 /\ b.decided[r].review = n
      /\ b.sessions[i].state # "invalidated" /\ ~Drifted(w, b.sessions[i])
  BY DEF Approved
<1>5. n \in DOMAIN b.clips /\ RoleOf(b, n) = r
  <2>. HIDE DEF n
  <2>. QED BY <1>0, <1>4, CurrentIn DEF n
<1>. HIDE DEF n
<1>6. \A k \in DOMAIN b.clips : RoleOf(b, k) = r /\ b.clips[k].plan = Now(b, k) => k \notin C
  <2>. SUFFICES ASSUME NEW k \in DOMAIN b.clips, RoleOf(b, k) = r, b.clips[k].plan = Now(b, k)
                PROVE  k \notin C
    OBVIOUS
  <2>1. c.clips[k].plan = Now(c, k)
    BY <1>0, <1>1 DEF Now
  <2>. QED BY <2>1, AffectedDiffer
<1>7. RoleReview(c, r) \notin C
  <2> DEFINE m == RoleReview(b, r)
  <2>1. m # 0 /\ b.clips[m].plan = Now(b, m)
    BY <1>4 DEF BookInv, ApprovedSpoken
  <2>2. m \in DOMAIN b.clips /\ RoleOf(b, m) = r
    BY <1>0, <2>1, ReviewIn
  <2>. HIDE DEF C, m
  <2>3. m \notin C
    BY <1>6, <2>1, <2>2
  <2>. QED BY <1>1, <2>3 DEF m
<1>8. ~\E k \in C : c.clips[k].session = i
  <2>. SUFFICES ASSUME NEW k \in C, c.clips[k].session = i PROVE FALSE
    OBVIOUS
  <2>1. k \in DOMAIN b.clips
    BY <1>0 DEF Affected
  <2>2. RoleOf(b, k) = r /\ SessionOf(b, k).state # "invalidated"
    <3>. HIDE DEF C
    <3>. QED BY <1>0, <1>4, <1>5 DEF RoleOf, SessionOf
  <2>3. b.clips[k].plan = Now(b, k)
    BY <2>1, <2>2 DEF BookInv, Spoken
  <2>. HIDE DEF C
  <2>. QED BY <1>6, <2>1, <2>2, <2>3
<1>9. d.sessions[i] = b.sessions[i] /\ d.clips = b.clips
  <2>1. i \in DOMAIN b.sessions
    BY <1>0, <1>5 DEF BookOK
  <2>. HIDE DEF C, i
  <2>. QED BY <1>0, <1>2, <1>8, <2>1 DEF Follows
<1>10. d.decided[r] = b.decided[r]
  <2>. HIDE DEF C
  <2>. QED BY <1>0, <1>2, <1>7
<1>. QED BY <1>3, <1>4, <1>9, <1>10 DEF Approved, d

(* An approval looks at the sessions, the clips and the decisions.         *)
LEMMA ApprovedSame ==
  ASSUME NEW b, NEW c, NEW w, NEW r, c.sessions = b.sessions, c.clips = b.clips,
         c.decided = b.decided
  PROVE  Approved(c, w, r) <=> Approved(b, w, r)
BY DEF Approved, CurrentClip, LatestSession, ClipsOf

(* What a step that changes the entries leaves approved.                   *)
Spares(r) ==
  Approved(book, world, r) =>
    \/ Approved(book', world', r)
    \/ \E c \in DOMAIN book.clips :
         /\ RoleOf(book, c) = r
         /\ book.clips[c].plan # Plan(book'.entries, r, book.clips[c].spoken)

LEMMA EntryDecision ==
  ASSUME BookInv(book), WorldOK(world), NEW e \in DOMAIN book.entries,
         NEW d \in {"approved", "rejected", "changes"}, DecideEntry(e, d)
  PROVE  BookInv(book') /\ \A r \in Role : Spares(r)
<1> DEFINE b == EntryRow(book, e, d)
           effective == "approved" \in {book.entries[e].state, d}
           c == IF effective THEN InvalidatePronunciation(b, e) ELSE b
<1>1. book' = Ensured(c, world, "pronunciation") /\ world' = world
  BY DEF DecideEntry, Become, EntryRow
<1>2. /\ BookOK(b) /\ Reads(book, b) /\ EntryDecided(book.entries, b.entries, e)
      /\ b.entries[e].state = d
  BY EntrySet
<1>. HIDE DEF b
<1>3. BookInv(c) /\ c.entries = b.entries
  <2>1. CASE effective
    <3>1. BookInv(InvalidatePronunciation(b, e))
      BY <1>2, <2>1, DecisionKeeps
    <3>2. InvalidatePronunciation(b, e).entries = b.entries
      BY <1>2, PronunciationInvalidated DEF Follows
    <3>. QED BY <2>1, <3>1, <3>2
  <2>2. CASE ~effective
    <3>1. \A r \in Role, spoken \in BOOLEAN :
            Plan(b.entries, r, spoken) = Plan(book.entries, r, spoken)
      BY <1>2, <2>2, PlanUnchanged
    <3>2. BookInv(b)
      BY <1>2, <3>1, ReadsSame
    <3>. QED BY <2>2, <3>2
  <2>. QED BY <2>1, <2>2
<1>4. ASSUME NEW r \in Role, Approved(book, world, r),
             \A k \in DOMAIN book.clips : RoleOf(book, k) = r =>
               book.clips[k].plan = Plan(b.entries, r, book.clips[k].spoken)
      PROVE  Approved(c, world, r)
  <2>1. CASE effective
    BY <1>2, <1>4, <2>1, DecisionSpares
  <2>2. CASE ~effective
    BY <1>2, <1>4, <2>2, ApprovedSame DEF Reads
  <2>. QED BY <2>1, <2>2
<1>. HIDE DEF c
<1>5. /\ Leaves(c, book') /\ book'.sessions = c.sessions /\ book'.decided = c.decided
  BY <1>1, <1>3, EnsuredLeaves, Names
<1>6. BookInv(book') /\ book'.entries = b.entries /\ book'.clips = c.clips
  BY <1>3, <1>5 DEF Leaves, Follows
<1>7. ASSUME NEW r \in Role PROVE Spares(r)
  <2>. SUFFICES ASSUME Approved(book, world, r),
                       ~\E k \in DOMAIN book.clips :
                          /\ RoleOf(book, k) = r
                          /\ book.clips[k].plan # Plan(book'.entries, r, book.clips[k].spoken)
                PROVE  Approved(book', world', r)
    BY DEF Spares
  <2>1. Approved(c, world, r)
    BY <1>4, <1>6
  <2>. QED BY <1>1, <1>5, <1>6, <2>1, ApprovedSame
<1>. QED BY <1>6, <1>7

LEMMA EntryCreation ==
  ASSUME BookInv(book), NEW scope \in Scopes, NEW f \in 0..MaxEntries, CreateEntry(scope, f)
  PROVE  BookInv(book') /\ \A r \in Role : Spares(r)
<1>1. BookInv(book') /\ Reads(book, book')
  BY EntryCreated
<1>2. world' = world
  BY DEF CreateEntry, Become
<1>3. \A r \in Role : Approved(book', world, r) <=> Approved(book, world, r)
  BY <1>1, ApprovedSame DEF Reads
<1>. QED BY <1>1, <1>2, <1>3 DEF Spares

(* decide_review of a role: the clip shown froze the present dictionary,   *)
(* and so did every later one of the role.                                 *)
LEMMA RoleDecided ==
  ASSUME NEW b, BookInv(b), NEW w, NEW r \in Role, CurrentClip(b, w, r) # 0,
         SessionOf(b, CurrentClip(b, w, r)).dictionary = b.dictionary
  PROVE  RoleReview(b, r) # 0 /\ b.clips[RoleReview(b, r)].plan = Now(b, RoleReview(b, r))
<1> DEFINE n == CurrentClip(b, w, r)
           m == RoleReview(b, r)
<1>0. BookOK(b)
  BY DEF BookInv
<1>1. n \in DOMAIN b.clips /\ RoleOf(b, n) = r
  <2>. HIDE DEF n
  <2>. QED BY <1>0, CurrentIn DEF n
<1>2. m \in Nat /\ n <= m /\ m \in {k \in DOMAIN b.clips : RoleOf(b, k) = r} \cup {0} /\ n # 0
  BY <1>0, <1>1, ReviewIn
<1>3. n \in Nat
  BY <1>0, <1>1, Domains
<1>. HIDE DEF n, m
<1>4. m \in DOMAIN b.clips /\ m # 0
  BY <1>0, <1>1, <1>2, <1>3, Domains
<1>5. /\ SessionOf(b, n).dictionary <= SessionOf(b, m).dictionary
      /\ SessionOf(b, m).dictionary <= b.dictionary
  <2>1. b.clips[m].session \in DOMAIN b.sessions
    BY <1>0, <1>4 DEF BookOK
  <2>. QED BY <1>1, <1>2, <1>4, <2>1 DEF BookInv, Frozen, SessionOf
<1>6. SessionOf(b, m).dictionary = b.dictionary
  <2>1. SessionOf(b, m).dictionary \in Nat /\ b.dictionary \in Nat
    <3>1. SessionOf(b, m) \in Session
      BY <1>0, <1>4, Domains
    <3>. QED BY <1>0, <3>1 DEF Session, BookOK
  <2>2. SessionOf(b, n).dictionary = b.dictionary
    BY DEF n
  <2>. QED BY <1>5, <2>1, <2>2
<1>7. b.clips[m].plan = Now(b, m)
  BY <1>4, <1>6 DEF BookInv, Spoken
<1>. QED BY <1>4, <1>7 DEF m

LEMMA DecidedKeeps ==
  ASSUME NEW b, BookInv(b), NEW x \in Role \cup Gate, NEW n \in Nat, NEW d \in ReviewDecision,
         x \in Role => RoleReview(b, x) # 0
                       /\ b.clips[RoleReview(b, x)].plan = Now(b, RoleReview(b, x))
  PROVE  BookInv(Decided(b, x, n, d)) /\ Decided(b, x, n, d).entries = b.entries
<1> DEFINE y == [review |-> n, state |-> d, revision |-> b.decided[x].revision + 1]
           decided == [b.decided EXCEPT ![x] = y]
           c == Decided(b, x, n, d)
<1>0. BookOK(b) /\ b.decided \in [Role \cup Gate -> Decision] /\ b.decided[x] \in Decision
  BY DEF BookInv, BookOK
<1>1. c \in Tables(b.sessions, b.clips, b.audio, b.entries, b.dictionary, decided, b.shown,
                   b.ready, b.verdict)
  BY <1>0 DEF BookOK, IsBook, Tables, Decided
<1>2. y \in Decision
  BY <1>0 DEF Decision, ReviewDecision
<1>. HIDE DEF c, y
<1>3. decided \in [Role \cup Gate -> Decision] /\ \A z \in Role : z # x => decided[z] = b.decided[z]
  BY <1>0, <1>2
<1>. HIDE DEF decided
<1>4. /\ IsBook(c) /\ c.sessions = b.sessions /\ c.clips = b.clips /\ c.audio = b.audio
      /\ c.entries = b.entries /\ c.dictionary = b.dictionary
      /\ c.decided = decided /\ c.shown = b.shown
  BY <1>1, TablesOf
<1>5. BookOK(c)
  BY <1>0, <1>3, <1>4 DEF BookOK
<1>6. Frozen(c) /\ Spoken(c) /\ Vouched(c)
  BY <1>4 DEF BookInv, Frozen, Spoken, Vouched, AllDecided, SessionOf, RoleOf, Now
<1>7. ApprovedSpoken(c)
  <2>. SUFFICES ASSUME NEW r \in Role, c.decided[r].state = "approved"
                PROVE  RoleReview(c, r) # 0 /\ c.clips[RoleReview(c, r)].plan = Now(c, RoleReview(c, r))
    BY DEF ApprovedSpoken
  <2>1. RoleReview(c, r) = RoleReview(b, r) /\ \A k : Now(c, k) = Now(b, k)
    BY <1>4 DEF RoleReview, RoleOf, Now
  <2>2. RoleReview(b, r) # 0 /\ b.clips[RoleReview(b, r)].plan = Now(b, RoleReview(b, r))
    BY <1>3, <1>4 DEF BookInv, ApprovedSpoken
  <2>. QED BY <1>4, <2>1, <2>2
<1>. QED BY <1>4, <1>5, <1>6, <1>7 DEF BookInv, c

LEMMA ReviewDecided ==
  ASSUME BookInv(book), WorldOK(world), NEW x \in Role \cup Gate, NEW d \in ReviewDecision,
         DecideReview(Fresh(book, world), x, d)
  PROVE  BookInv(book') /\ book'.entries = book.entries
<1> DEFINE b == Fresh(book, world)
           n == CurrentReview(b, world, x)
           c == Decided(b, x, n, d)
<1>1. BookInv(b) /\ BookOK(b) /\ b.entries = book.entries
  BY FreshLeaves DEF Leaves, BookInv, Follows
<1>. HIDE DEF b
<1>2. /\ n # 0 /\ book' = Refreshed(c, world)
      /\ x \in Role => EvidenceValid(b, world, b.clips[n].session)
  BY DEF DecideReview, Become, b
<1>3. x \in Role => n = CurrentClip(b, world, x)
  BY DEF CurrentReview
<1>4. n \in Nat
  <2>1. CASE x \in Role
    <3>1. n \in DOMAIN b.clips
      <4>. HIDE DEF n
      <4>. QED BY <1>1, <1>2, <1>3, <2>1, CurrentIn
    <3>. QED BY <1>1, <3>1, Domains
  <2>2. CASE x \notin Role
    <3> DEFINE S == {m \in DOMAIN b.shown[x] : b.shown[x][m] \in Evidence(b, world, x)}
    <3>1. b.shown[x] \in Seq(Review)
      BY <1>1, <2>2 DEF BookOK
    <3>2. Len(b.shown[x]) \in Nat /\ S \in SUBSET (1..Len(b.shown[x]))
      BY <3>1
    <3>3. n = Newest(S)
      BY <2>2 DEF CurrentReview, IndexIn
    <3>. HIDE DEF S, n
    <3>4. n \in S \cup {0}
      BY <3>2, <3>3, NewestIn
    <3>. QED BY <3>2, <3>4
  <2>. QED BY <2>1, <2>2
<1>5. x \in Role => RoleReview(b, x) # 0
                    /\ b.clips[RoleReview(b, x)].plan = Now(b, RoleReview(b, x))
  <2>. SUFFICES ASSUME x \in Role
                PROVE  RoleReview(b, x) # 0
                       /\ b.clips[RoleReview(b, x)].plan = Now(b, RoleReview(b, x))
    OBVIOUS
  <2>1. SessionOf(b, n).dictionary = b.dictionary
    BY <1>2 DEF EvidenceValid, DictionaryStands, SessionOf
  <2>2. CurrentClip(b, world, x) # 0
        /\ SessionOf(b, CurrentClip(b, world, x)).dictionary = b.dictionary
    BY <1>2, <1>3, <2>1
  <2>. QED BY <1>1, <2>2, RoleDecided
<1>. HIDE DEF n
<1>6. BookInv(c) /\ c.entries = b.entries
  BY <1>1, <1>4, <1>5, DecidedKeeps
<1>. HIDE DEF c
<1>. QED BY <1>1, <1>2, <1>6, RefreshedLeaves DEF Leaves, Follows

LEMMA PublishedStep ==
  ASSUME BookInv(book), NEW i \in DOMAIN book.sessions, NEW spoken \in BOOLEAN,
         PublishClip(i, spoken)
  PROVE  BookInv(book') /\ book'.entries = book.entries
<1> DEFINE hits == Cached(book, i, spoken)
           audio == IF hits = {} THEN Len(book.audio) + 1 ELSE Newest(hits)
<1>0. BookOK(book)
  BY DEF BookInv
<1>1. book' = Published(book, i, spoken, audio)
  BY DEF PublishClip, Become
<1>2. /\ book.sessions[i].dictionary = book.dictionary
      /\ Compiles(Plan(book.entries, book.sessions[i].role, spoken))
  BY DEF PublishClip, EvidenceValid, DictionaryStands
<1>3. hits \in SUBSET (1..Len(book.audio)) /\ Len(book.audio) \in Nat
      /\ DOMAIN book.audio = 1..Len(book.audio)
  BY <1>0, Domains DEF Cached, BookOK
<1>. HIDE DEF hits
<1>4. Newest(hits) \in hits \cup {0} /\ \A j \in hits : j <= Newest(hits)
  BY <1>3, NewestIn
<1>5. audio \in DOMAIN book.audio \cup {Len(book.audio) + 1}
  <2>1. CASE hits = {}
    BY <2>1
  <2>2. CASE hits # {}
    <3>1. PICK j \in hits : j <= Newest(hits)
      BY <1>4, <2>2
    <3>2. Newest(hits) # 0
      BY <1>3, <3>1
    <3>. QED BY <1>3, <1>4, <2>2, <3>2
  <2>. QED BY <2>1, <2>2
<1>. HIDE DEF audio
<1>. QED BY <1>1, <1>2, <1>5, ClipPublished

-----------------------------------------------------------------------------
(* The inductive invariant.                                                *)

AuditionInv == WorldOK(world) /\ BookInv(book)

LEMMA InitInv == AuditionInit => AuditionInv
<1>. SUFFICES ASSUME AuditionInit PROVE AuditionInv
  OBVIOUS
<1>1. WorldOK(world)
  BY DEF AuditionInit, WorldOK
<1>2. /\ IsBook(book) /\ book.sessions = <<>> /\ book.clips = <<>> /\ book.audio = <<>>
      /\ book.entries = <<>> /\ book.dictionary = 1
      /\ book.decided = [x \in Role \cup Gate |-> Undecided]
      /\ book.shown = [g \in Gate |-> <<>>]
  BY DEF AuditionInit, IsBook, Tables
<1>3. BookOK(book)
  <2>1. Undecided \in Decision
    BY DEF Undecided, Decision
  <2>2. \A T : <<>> \in Seq(T)
    OBVIOUS
  <2>3. book.decided \in [Role \cup Gate -> Decision] /\ book.shown \in [Gate -> Seq(Review)]
    BY <1>2, <2>1, <2>2
  <2>. QED BY <1>2, <2>2, <2>3 DEF BookOK
<1>4. ApprovedSpoken(book)
  BY <1>2 DEF ApprovedSpoken, Undecided
<1>5. Frozen(book) /\ Spoken(book) /\ Vouched(book)
  BY <1>2, Names DEF Frozen, Spoken, Vouched
<1>. QED BY <1>1, <1>3, <1>4, <1>5 DEF AuditionInv, BookInv

(* Every step keeps the invariant, and one that changes the entries spares *)
(* what is spoken as before.                                               *)
LEMMA NextInv ==
  ASSUME AuditionInv, [AuditionNext]_auditionVars
  PROVE  AuditionInv' /\ (book'.entries # book.entries => \A r \in Role : Spares(r))
<1> DEFINE Kept == BookInv(book') /\ book'.entries = book.entries
<1>0. WorldOK(world) /\ BookInv(book) /\ BookOK(book)
  BY DEF AuditionInv, BookInv
<1>1. CASE Kept /\ UNCHANGED world
  BY <1>0, <1>1 DEF AuditionInv
<1>2. CASE Kept /\ WorldOK(world')
  BY <1>2 DEF AuditionInv
<1>3. CASE BookInv(book') /\ UNCHANGED world /\ \A r \in Role : Spares(r)
  BY <1>0, <1>3 DEF AuditionInv
<1>4. ASSUME NEW r \in Role, CreateSession(r) PROVE Kept /\ UNCHANGED world
  BY <1>0, <1>4, SessionCreated DEF CreateSession, Become
<1>5. ASSUME NEW i \in DOMAIN book.sessions, QueueGeneration(i) \/ RetryGeneration(i) \/ EndWithoutClip(i)
      PROVE  Kept /\ UNCHANGED world
  BY <1>0, <1>5, SessionSet DEF QueueGeneration, RetryGeneration, EndWithoutClip, SetSession, Become
<1>6. ASSUME NEW i \in DOMAIN book.sessions, NEW spoken \in BOOLEAN, PublishClip(i, spoken)
      PROVE  Kept /\ UNCHANGED world
  BY <1>0, <1>6, PublishedStep DEF PublishClip, Become
<1>7. ASSUME NEW i \in DOMAIN book.sessions, NEW spoken \in BOOLEAN, RejectCached(i, spoken)
      PROVE  Kept /\ UNCHANGED world
  BY <1>0, <1>7, WithdrawnKeeps DEF RejectCached, Become
<1>8. ASSUME NEW c \in DOMAIN book.clips, RefuseClip(c) PROVE Kept /\ UNCHANGED world
  BY <1>0, <1>8, ClipRefused DEF RefuseClip, Become
<1>9. ASSUME RegainAuthority \/ LoseAuthority PROVE Kept /\ WorldOK(world')
  <2>1. Kept
    BY <1>0, <1>9 DEF RegainAuthority, LoseAuthority
  <2>2. WorldOK(world')
    BY <1>0, <1>9 DEF RegainAuthority, LoseAuthority, WorldOK
  <2>. QED BY <2>1, <2>2
<1>10. ASSUME NEW x \in Role \cup Gate, NEW d \in ReviewDecision,
              DecideReview(Fresh(book, world), x, d)
       PROVE  Kept /\ UNCHANGED world
  <2>1. Kept
    BY <1>0, <1>10, ReviewDecided
  <2>2. UNCHANGED world
    BY <1>10 DEF DecideReview, Become
  <2>. QED BY <2>1, <2>2
<1>11. ASSUME NEW d \in ReviewDecision, DecideReadiness(Fresh(book, world), d)
       PROVE  Kept /\ UNCHANGED world
  <2> DEFINE b == Fresh(book, world)
  <2>1. BookInv(b) /\ b.entries = book.entries
    BY <1>0, FreshLeaves DEF Leaves, Follows
  <2>. HIDE DEF b
  <2>2. /\ book' = Verdict(b, IndexIn(b.ready, ReadyEvidence(b, world)), d)
        /\ UNCHANGED world
    BY <1>11 DEF DecideReadiness, Become, b
  <2>. QED BY <2>1, <2>2, VerdictKeeps
<1>12. ASSUME ReadWorkspace(Fresh(book, world)) PROVE Kept /\ UNCHANGED world
  BY <1>0, <1>12, FreshLeaves DEF ReadWorkspace, Become, Leaves, Follows
<1>13. ASSUME NEW scope \in Scopes, NEW f \in 0..MaxEntries, CreateEntry(scope, f)
       PROVE  BookInv(book') /\ UNCHANGED world /\ \A r \in Role : Spares(r)
  BY <1>0, <1>13, EntryCreation DEF CreateEntry, Become
<1>14. ASSUME NEW e \in DOMAIN book.entries, NEW d \in {"approved", "rejected", "changes"},
              DecideEntry(e, d)
       PROVE  BookInv(book') /\ UNCHANGED world /\ \A r \in Role : Spares(r)
  <2>1. BookInv(book') /\ \A r \in Role : Spares(r)
    BY <1>0, <1>14, EntryDecision
  <2>2. UNCHANGED world
    BY <1>14 DEF DecideEntry, Become
  <2>. QED BY <2>1, <2>2
<1>15. ASSUME NEW a \in DOMAIN book.audio, DamageFile(a) PROVE Kept /\ UNCHANGED world
  BY <1>0, <1>15, FileDamaged DEF DamageFile, Become
<1>16. ASSUME ClearCache PROVE Kept /\ UNCHANGED world
  BY <1>0, <1>16, WithdrawnKeeps DEF ClearCache, Become
<1>17. ASSUME ChangeModel PROVE Kept /\ WorldOK(world')
  <2>1. WorldOK(world')
    BY <1>0, <1>17 DEF ChangeModel, WorldOK
  <2>2. Kept
    BY <1>0, <1>17, ReconciledLeaves DEF ChangeModel, Leaves, Follows
  <2>. QED BY <2>1, <2>2
<1>18. ASSUME NEW cast \in {world.cast, world.cast + 1}, Reapprove(cast)
       PROVE  Kept /\ WorldOK(world')
  <2>1. cast \in Nat
    BY <1>0 DEF WorldOK
  <2>2. WorldOK(world')
    <3>1. world \in [tuple : {world.tuple}, cast : {world.cast}, current : {world.current},
                     verification : {world.verification}]
      BY <1>0 DEF WorldOK
    <3>2. world.tuple \in Nat /\ world.verification \in Nat
      BY <1>0 DEF WorldOK
    <3> DEFINE n == world.tuple + 1
               v == world.verification
    <3>3. world' \in [tuple : {n}, cast : {cast}, current : {TRUE}, verification : {v}]
      BY <1>18, <3>1 DEF Reapprove
    <3>4. n \in Nat /\ v \in Nat
      BY <3>2
    <3>. HIDE DEF n, v
    <3>. QED BY <2>1, <3>3, <3>4 DEF WorldOK
  <2>3. Kept
    BY <1>0, <1>18 DEF Reapprove
  <2>. QED BY <2>2, <2>3
<1>19. CASE UNCHANGED auditionVars
  BY <1>0, <1>19 DEF AuditionInv, auditionVars
<1>20. CASE AuditionNext
  <2>. HIDE DEF Kept
  <2>1. \/ Kept /\ UNCHANGED world
        \/ Kept /\ WorldOK(world')
        \/ BookInv(book') /\ UNCHANGED world /\ \A r \in Role : Spares(r)
    BY <1>4, <1>5, <1>6, <1>7, <1>8, <1>9, <1>10, <1>11, <1>12, <1>13, <1>14, <1>15, <1>16,
       <1>17, <1>18, <1>20 DEF AuditionNext
  <2>. QED BY <1>1, <1>2, <1>3, <2>1
<1>. QED BY <1>19, <1>20

(* The tables of the auditions stay consistent, the sessions' dictionaries *)
(* are those of their time, and a clip that its session does not disown    *)
(* speaks what the pronunciation entries say now.                          *)
THEOREM AuditionInvariance == AuditionSpec => []AuditionInv
<1>1. AuditionInv /\ [AuditionNext]_auditionVars => AuditionInv'
  BY NextInv
<1>. QED BY <1>1, InitInv, PTL DEF AuditionSpec

(* Voice readiness that the workspace shows as approved rests on what holds*)
(* now: no pronunciation entry is open, and the clip of every role speaks  *)
(* the effective pronunciations, from a sound file, for the current        *)
(* assignment and model.                                                   *)
THEOREM ReadyIsCurrent == AuditionSpec => []ReadyRestsOnCurrentEvidence
<1>1. AuditionInv => ReadyRestsOnCurrentEvidence
  BY ReadyMeans DEF AuditionInv
<1>. QED BY <1>1, AuditionInvariance, PTL

(* A decision about a pronunciation takes the approval of a role away only *)
(* if a clip of the role would now be spoken differently.                  *)
THEOREM UnrelatedApprovals == AuditionSpec => UnrelatedApprovalsStay
<1>1. AuditionInv /\ [AuditionNext]_auditionVars => [SparesUnrelated]_auditionVars
  BY NextInv DEF Spares, SparesUnrelated
<1>. QED BY <1>1, AuditionInvariance, PTL DEF AuditionSpec, UnrelatedApprovalsStay
=============================================================================
