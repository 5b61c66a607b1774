-------------------------- MODULE StoryCorrections --------------------------
(* The human corrections of a published analysis (story_intelligence.py):   *)
(* rows that are only appended, and a projection that replays them over the *)
(* machine's rows each time somebody looks.  Chapters and scenes are added, *)
(* removed, moved and relabelled; characters are merged and split; mentions *)
(* and lines are given to characters.  A later run of the same text takes   *)
(* over what was recorded before it was created.                            *)
(*                                                                          *)
(* StoryReview has the gates' life; here is what a correction changes and   *)
(* which of the first three gates it sends back (every category sends back  *)
(* the fourth).  append_correction is one BEGIN IMMEDIATE transaction, and  *)
(* it refuses a request that was made from another revision, fingerprint or *)
(* predecessor: who appends a correction has seen the present state.  The   *)
(* categories whose patch no other entity reads (alias, viewpoint, place,   *)
(* order, relationship, feeling, intent, disposition) go the way of         *)
(* "identity" or less far.                                                  *)
(*                                                                          *)
(* The analysis is deterministic, so all runs have the same rows under      *)
(* identifiers of their own: <<r, k, 0>> is row k in run r, <<r, k, i>>     *)
(* what correction i added beside it, and <<0, n, 0>> a name that a client  *)
(* gave to half of a split character.                                       *)
EXTENDS Integers, Sequences, FiniteSets, SequencesExt

CONSTANTS
  Chapter, Scene, Character, Mention, Line, \* identity keys of the rows
  ParentOf,       \* the chapter of a scene
  SceneOf,        \* the scene of a mention or a line
  CandidatesOf,   \* the characters a mention or a line may be of
  Name,           \* identities a client makes up for a split
  MaxTexts, MaxAnalyses, MaxEvents  \* bounds: texts, runs, and runs and
                                \* corrections together

Piece == Chapter \cup Scene

\* A key names its collection ("characters:..."), and a run has finitely many.
ASSUME CorrectionsAssumption ==
  /\ Chapter \cap Scene = {} /\ Piece \cap (Character \cup Mention \cup Line) = {}
  /\ Character \cap (Mention \cup Line) = {} /\ Mention \cap Line = {}
  /\ IsFiniteSet(Character)
  /\ ParentOf \in [Scene -> Chapter]
  /\ SceneOf \in [Mention \cup Line -> Scene]
  /\ CandidatesOf \in [Mention \cup Line -> SUBSET Character]
  /\ {MaxTexts, MaxAnalyses, MaxEvents} \subseteq Nat

VARIABLES
  analyses,        \* [text, created] of each run, in order of creation
  corrections, \* the rows, in the order of recorded_at
  clock        \* the present instant

correctionVars == <<analyses, corrections, clock>>

EvidenceGate == {"structure", "registry", "dialogue"}

Row(r, k)      == <<r, k, 0>>
Added(r, k, i) == <<r, k, i>>
Named(n)       == <<0, n, 0>>
Story          == <<0, "story", 0>>
Nobody         == <<0, "nobody", 0>>

\* An identifier as every run of the text would say it.
Local(r, id) == IF id[1] = r THEN <<0, id[2], id[3]>> ELSE id

----------------------------------------------------------------------------
(* Which corrections a run sees, and how it reads them.                     *)

\* The same story, source, extraction, profile and approval.
Compatible(q, r) == q # r /\ analyses[q].text = analyses[r].text

\* (Mutant: corrections of all runs of the text, whenever they were made.)
InScopeOfText(r, n) ==
  {i \in 1..n : corrections[i].run = r \/ Compatible(corrections[i].run, r)}

\* _correction_scope_condition, among the first n corrections.
InScope(r, n) ==
  {i \in 1..n :
     \/ corrections[i].run = r
     \/ /\ Compatible(corrections[i].run, r)
        /\ corrections[i].at <= analyses[r].created}

\* What is read: a run, and the corrections in its scope.
At(r, n) == [run |-> r, rows |-> [i \in InScope(r, n) |-> corrections[i]]]
Now(r)   == At(r, Len(corrections))

\* _correction_patch_for_run: machine rows of the earlier run become those of
\* this one.  What a correction added is no row, and stays as it was written.
Unmapped(id, from, r) == id \* (mutant: the rows keep the identifiers of their run)

Remapped(id, from, r) == IF id[1] = from /\ id[3] = 0 THEN Row(r, id[2]) ELSE id

PatchFor(c, r) ==
  [c EXCEPT !.to = Remapped(@, c.run, r),
            !.mentions = {Remapped(m, c.run, r) : m \in @}]

About(v, k, categories) ==
  {i \in DOMAIN v.rows : v.rows[i].key = k /\ v.rows[i].category \in categories}

Categories == {"boundary", "label", "identity", "merge", "split", "mention", "speaker"}

\* The last of some corrections by time, or 0.
Latest(is) == IF is = {} THEN 0 ELSE Max(is)

\* _applicable_corrections: the last of them by revision, then by time.
LatestRevised(v, is) ==
  Latest({i \in is : \A j \in is : v.rows[j].revision <= v.rows[i].revision})

Applicable(v, k, categories) == LatestRevised(v, About(v, k, categories))

\* _effective_correction: by time alone.
EffectiveCorrection(v, k) == Latest(About(v, k, Categories))

----------------------------------------------------------------------------
(* Chapters and scenes.                                                     *)

\* _structure_operations: by time.
StructureOperations(v, k) == About(v, k, {"boundary", "label"})

Untouched == [source |-> TRUE, root |-> 0, added |-> FALSE, onSource |-> {}, onAdded |-> {}]

\* One step of _structure_boundary_state: is the correction about the row or
\* about what was added beside it, and what becomes of that.
Replayed(c, k, st, i) ==
  LET toAdded == \/ c.supersedes \in st.onAdded
                 \/ c.supersedes \notin st.onSource /\ st.root # 0 /\ c.target # Row(c.run, k)
      makesRoot == c.op = "add" /\ ~toAdded /\ st.source /\ st.root = 0
      branch == IF toAdded \/ makesRoot THEN "added" ELSE "source"
      stays(active) == IF c.op = "label" THEN active ELSE c.op # "remove"
  IN [source   |-> IF branch = "source" THEN stays(st.source) ELSE st.source,
      root     |-> IF makesRoot THEN i ELSE st.root,
      added    |-> IF branch = "added" THEN stays(st.added) ELSE st.added,
      onSource |-> IF branch = "source" THEN st.onSource \cup {i} ELSE st.onSource,
      onAdded  |-> IF branch = "added" THEN st.onAdded \cup {i} ELSE st.onAdded]

\* The operations on a piece, replayed one after the other.
Replay(v, k) ==
  LET ops == StructureOperations(v, k)
      after[n \in 0..Latest(ops)] ==
        IF n = 0 THEN Untouched
        ELSE IF n \in ops THEN Replayed(v.rows[n], k, after[n - 1], n) ELSE after[n - 1]
  IN after

BoundaryState(v, k) == Replay(v, k)[Latest(StructureOperations(v, k))]

\* _structure_item_from_effects: the parent and the label the effects leave.
Item(v, k, effects) ==
  LET moves  == {i \in effects : v.rows[i].category = "boundary"}
      labels == {i \in effects : v.rows[i].category = "label"}
  IN [parent |-> IF moves # {} THEN PatchFor(v.rows[Latest(moves)], v.run).to
                 ELSE IF k \in Scene THEN Row(v.run, ParentOf[k]) ELSE Story,
      label  |-> Latest(labels),
      last   |-> Latest(effects)]

\* _project_structure_row: what is left of a row and of what was added to it.
Standing(v, k) ==
  LET st == BoundaryState(v, k) IN
  (IF st.source THEN {Row(v.run, k)} ELSE {}) \cup
  (IF st.added THEN {Added(v.run, k, st.root)} ELSE {})

Projected(v, id) ==
  LET st == BoundaryState(v, id[2]) IN
  Item(v, id[2], IF id[3] = 0 THEN st.onSource ELSE st.onAdded)

\* _effective_structure_graph
Pieces(v, ks) == [id \in UNION {Standing(v, k) : k \in ks} |-> Projected(v, id)]

ActiveChapters(v) == DOMAIN Pieces(v, Chapter)

Under(scenes, chapters) ==
  Restrict(scenes, {id \in DOMAIN scenes : scenes[id].parent \in chapters})

Scenes(v) == Under(Pieces(v, Scene), ActiveChapters(v))

\* removed_entity_ids: a mention or a line goes where its scene goes.
\* Each with the chapter it is shown in.
InView(v, scenes, es) ==
  {<<e, Local(v.run, scenes[Row(v.run, SceneOf[e])].parent)>> :
     e \in {d \in es : Row(v.run, SceneOf[d]) \in DOMAIN scenes}}

\* _apply_chapter_scene_aggregates
ScenesUnder(v, chapter) == DOMAIN Under(Scenes(v), {chapter})

StructureEvidence(v, chapters, scenes) ==
  <<{<<Local(v.run, id), chapters[id].label, chapters[id].last,
       {Local(v.run, s) : s \in DOMAIN Under(scenes, {id})}>> : id \in DOMAIN chapters},
    {<<Local(v.run, id), scenes[id].label, scenes[id].last, Local(v.run, scenes[id].parent)>> :
       id \in DOMAIN scenes}>>

----------------------------------------------------------------------------
(* Characters.                                                              *)

\* _registry_effect_index: the last merge or split of each character counts.
RegistryOp(v, x) == Latest(About(v, x, {"merge", "split"}))

Merges(v) ==
  LET op == [x \in Character |-> RegistryOp(v, x)]
      merged == {x \in Character : op[x] # 0 /\ v.rows[op[x]].category = "merge"}
  IN [id \in {Row(v.run, x) : x \in merged} |-> PatchFor(v.rows[op[id[2]]], v.run).to]

Through(replaced, id) == IF id \in DOMAIN replaced THEN replaced[id] ELSE id

\* Where a chain of merges leads; one that closes on itself leads nowhere.
Chain(merges, id) ==
  LET at[n \in 0..Cardinality(Character)] ==
        IF n = 0 THEN id ELSE Through(merges, at[n - 1])
  IN at

Followed(merges, id) == Chain(merges, id)[Cardinality(Character)]

Replacements(v) ==
  LET merges == Merges(v)
      end == [id \in DOMAIN merges |-> Followed(merges, id)]
  IN [id \in DOMAIN merges |-> IF end[id] \in DOMAIN merges THEN id ELSE end[id]]

\* The splits that count, and which of them owns a mention: the latest, or 0.
Splits(v) ==
  {i \in {RegistryOp(v, x) : x \in Character} \ {0} : v.rows[i].category = "split"}

SplitOwner(v, m) ==
  Latest({i \in Splits(v) : Row(v.run, m) \in PatchFor(v.rows[i], v.run).mentions})

Alone(ids) == \E id \in ids : ids = {id}

\* The machine's claim of a mention or a line, or the last human one.
Claim(v, e, category) ==
  LET direct == Applicable(v, e, {category})
      machine == {Row(v.run, x) : x \in CandidatesOf[e]}
  IN IF direct = 0
     THEN [who |-> IF Alone(machine) THEN CHOOSE id \in machine : TRUE ELSE Nobody,
           candidates |-> machine, by |-> 0]
     ELSE LET to == PatchFor(v.rows[direct], v.run).to IN
          [who |-> to, by |-> direct,
           candidates |-> IF category = "speaker" THEN machine
                          ELSE IF to = Nobody THEN {} ELSE {to}]

\* _apply_registry_effects: merged identities give way, an ambiguity between
\* identities that became one is resolved, and a split takes its mentions.
OfMention(v, replaced, m) ==
  LET claim == Claim(v, m, "mention")
      left  == {Through(replaced, id) : id \in claim.candidates}
      split == SplitOwner(v, m)
      known(id) == [who |-> id, maybe |-> {}]
  IN IF split > claim.by THEN known(PatchFor(v.rows[split], v.run).to)
     ELSE IF claim.who # Nobody THEN known(Through(replaced, claim.who))
     ELSE IF ~Alone(claim.candidates) /\ Alone(left)
     THEN known(CHOOSE id \in left : TRUE)
     ELSE [who |-> Nobody, maybe |-> left]

\* _effective_mention_index: the mentions that are shown, each with whom it is
\* of or may be of.
MentionIndex(v, replaced, shown) ==
  [m \in {pair[1] : pair \in shown} |-> OfMention(v, replaced, m)]

\* _apply_character_mention_aggregates: what a character lists of them.
MentionsOf(index, id) ==
  <<{m \in DOMAIN index : index[m].who = id}, {m \in DOMAIN index : id \in index[m].maybe}>>

OfLine(v, replaced, l) ==
  LET claim == Claim(v, l, "speaker")
      final(id) == Local(v.run, Through(replaced, id))
  IN <<final(claim.who), {final(id) : id \in claim.candidates}, claim.by>>

DialogueEvidence(v, replaced, scenes) ==
  {<<shown, OfLine(v, replaced, shown[1])>> : shown \in InView(v, scenes, Line)}

\* The identities that the last splits gave (_synthetic_split_character).
SplitCharacters(v, index) ==
  {<<v.rows[i].to, MentionsOf(index, v.rows[i].to),
     {Local(v.run, m) : m \in PatchFor(v.rows[i], v.run).mentions}>> : i \in Splits(v)}

\* The rows of the characters, each with what was made of it, and the others.
RegistryEvidence(v, replaced, scenes) ==
  LET shown == InView(v, scenes, Mention)
      index == MentionIndex(v, replaced, shown)
      changed(x) == LET op == Applicable(v, x, {"merge", "split"}) IN
                    IF op = 0 THEN Nobody ELSE Local(v.run, PatchFor(v.rows[op], v.run).to)
  IN <<{<<x, Applicable(v, x, {"identity"}),
          MentionsOf(index, Row(v.run, x)), changed(x)>> : x \in Character},
       SplitCharacters(v, index), shown>>

\* What each gate is about.
GateEvidence(v, replaced, chapters, scenes) ==
  [structure |-> StructureEvidence(v, chapters, scenes),
   registry  |-> RegistryEvidence(v, replaced, scenes),
   dialogue  |-> DialogueEvidence(v, replaced, scenes)]

Evidence(v) == GateEvidence(v, Replacements(v), Pieces(v, Chapter), Scenes(v))

----------------------------------------------------------------------------
(* What a correction refers to and what it replaces.                        *)

LastBoundary(v, k) == Applicable(v, k, {"boundary"})

\* _require_same_run_ids: rows that the last boundary does not remove, and
\* what it adds.
KnownChapters(v) ==
  LET by == [k \in Chapter |-> LastBoundary(v, k)]
      op(k) == IF by[k] = 0 THEN "none" ELSE v.rows[by[k]].op
  IN {Row(v.run, k) : k \in {c \in Chapter : op(c) # "remove"}} \cup
     {Added(v.run, k, by[k]) : k \in {c \in Chapter : op(c) = "add"}}

KnownCharacters(v) ==
  {Row(v.run, x) : x \in Character} \cup
  {v.rows[i].to : i \in {j \in DOMAIN v.rows : v.rows[j].category = "split"}}

\* _resolve_correction_target_entity: the row, or what was added beside it.
Targets(v, k) ==
  LET root == BoundaryState(v, k).root
  IN {Row(v.run, k)} \cup (IF root = 0 THEN {} ELSE {Added(v.run, k, root)})

\* _structure_branch_current
BranchCurrent(v, k, target) ==
  LET st == BoundaryState(v, k)
  IN Latest(IF target = Row(v.run, k) THEN st.onSource ELSE st.onAdded)

Current(v, category, k, target) ==
  IF category \in {"boundary", "label"} THEN BranchCurrent(v, k, target)
  ELSE EffectiveCorrection(v, k)

\* Revisions count one category of a piece, or all corrections of another row.
NextRevision(v, category, k, target) ==
  LET before == IF category \in {"boundary", "label"}
                THEN Applicable(v, k, {category})
                ELSE Current(v, category, k, target)
  IN IF before = 0 THEN 1 ELSE v.rows[before].revision + 1

OpOf(v, x) ==
  LET op == RegistryOp(v, x) IN IF op = 0 THEN "none" ELSE v.rows[op].category

----------------------------------------------------------------------------
(* The gates that append_correction sent back with correction i: those of   *)
(* its category, and those whose rows refer to what it is about.            *)

\* (Mutant: only the scenes of the machine's row.)
AffectedScenesOfRow(i) ==
  LET c == corrections[i] IN
  IF c.target = Row(c.run, c.key) /\ (c.supersedes = 0 => c.op # "add")
  THEN {s \in Scene : c.key \in {s, ParentOf[s]}} ELSE {}

\* The scenes whose contents a boundary touches, in the run as it was and as
\* it became; an addition beside an uncorrected piece touches none.
AffectedScenes(i) ==
  LET c == corrections[i]
      under == UNION {ScenesUnder(At(c.run, n), c.target) : n \in {i - 1, i}}
  IN IF c.supersedes = 0 /\ c.op = "add" THEN {}
     ELSE (IF c.target = Row(c.run, c.key)
           THEN {s \in Scene : c.key \in {s, ParentOf[s]}} ELSE {}) \cup
          {id[2] : id \in {d \in under : c.key \in Chapter /\ d[3] = 0}}

BoundaryGates(i) ==
  LET referring == {e \in Mention \cup Line : SceneOf[e] \in AffectedScenes(i)}
  IN {"structure"} \cup {IF e \in Mention THEN "registry" ELSE "dialogue" : e \in referring}

\* The character, and those that it had replaced.
AffectedCharacters(i) ==
  LET c == corrections[i]
      replaced == Replacements(At(c.run, i - 1))
  IN {y \in Character : y = c.key \/ Through(replaced, Row(c.run, y)) = Row(c.run, c.key)}

\* A line counts if its machine payload names one of them.
CharacterGates(i) ==
  {"registry"} \cup
  {"dialogue" : l \in {n \in Line : CandidatesOf[n] \cap AffectedCharacters(i) # {}}}

GatesSentBack(i) ==
  CASE corrections[i].category = "boundary" -> BoundaryGates(i)
    [] corrections[i].category = "label"    -> {"structure"}
    [] corrections[i].category \in {"identity", "merge", "split"} -> CharacterGates(i)
    [] corrections[i].category = "mention"  -> {"registry"} \cup
         {"dialogue" : l \in {n \in Line : SceneOf[n] = SceneOf[corrections[i].key]}}
    [] corrections[i].category = "speaker"  -> {"dialogue"}

----------------------------------------------------------------------------
(* The corrections that _validate_correction_patch lets pass.               *)

\* The row that append_correction writes, at an instant that no earlier row
\* has: a new one, or the one in which the last run was created.
Record(v, category, k, target, op, to, mentions) ==
  /\ clock' \in {clock + 1} \cup {analyses[r].created : r \in DOMAIN analyses} /\ clock' >= clock
  /\ corrections # <<>> => clock' > Last(corrections).at
  /\ corrections' = Append(corrections,
       [run |-> v.run, category |-> category, key |-> k, target |-> target,
        op |-> op, to |-> to, mentions |-> mentions,
        revision   |-> NextRevision(v, category, k, target),
        supersedes |-> Current(v, category, k, target),
        at |-> clock'])
  /\ UNCHANGED analyses

Parents(v, k) == IF k \in Scene THEN KnownChapters(v) ELSE {Story}

\* (What a removal says of the parent is never read.)
Boundary(v, k, target, op, to) ==
  /\ to \in Parents(v, k) /\ (op = "remove" => to = CHOOSE id \in Parents(v, k) : TRUE)
  /\ Record(v, "boundary", k, target, op, to, {})

Label(v, k, target) == Record(v, "label", k, target, "label", Nobody, {})

Identity(v, x) == Record(v, "identity", x, Row(v.run, x), "name", Nobody, {})

\* Not into itself, not what was split, and not into what is replaced by it.
\* The code walks from replacement to replacement, each of them already final.
Merge(v, x, to) ==
  /\ to \in KnownCharacters(v) \ {Row(v.run, x)}
  /\ OpOf(v, x) # "split" /\ Through(Replacements(v), to) # Row(v.run, x)
  /\ Record(v, "merge", x, Row(v.run, x), "merge", to, {})

\* Mentions of the character that nobody resolved and that no split of another
\* character took, under a name that no split has had.
Split(v, x, n, mentions) ==
  /\ mentions # {} /\ OpOf(v, x) # "merge"
  /\ \A i \in DOMAIN corrections : corrections[i].to # Named(n)
  /\ \A m \in mentions :
       /\ About(v, m, {"mention"}) = {} /\ x \in CandidatesOf[m]
       /\ LET owner == SplitOwner(v, m) IN owner # 0 => corrections[owner].key = x
  /\ Record(v, "split", x, Row(v.run, x), "split", Named(n), {Row(v.run, m) : m \in mentions})

\* A mention that a split took is no longer resolved by hand.
ResolveMention(v, m, to) ==
  /\ to \in KnownCharacters(v) \cup {Nobody} /\ SplitOwner(v, m) = 0
  /\ Record(v, "mention", m, Row(v.run, m), "mention", to, {})

AttributeLine(v, l, to) ==
  /\ to \in KnownCharacters(v) \cup {Nobody}
  /\ Record(v, "speaker", l, Row(v.run, l), "speaker", to, {})

\* create_whole_book_run: of the text of the latest run, or of a newer one.
CreateWholeBookRun(text) ==
  /\ Len(analyses) < MaxAnalyses
  /\ (analyses # <<>> => text - Last(analyses).text \in {0, 1})
  /\ clock' = clock + 1
  /\ analyses' = Append(analyses, [text |-> text, created |-> clock'])
  /\ UNCHANGED corrections

CorrectionsInit == analyses = <<>> /\ corrections = <<>> /\ clock = 0

AppendCorrection(v) ==
  \/ \E k \in Piece : \E target \in Targets(v, k) :
       \/ Label(v, k, target)
       \/ \E op \in {"add", "remove", "move"}, to \in KnownChapters(v) \cup {Story} :
            Boundary(v, k, target, op, to)
  \/ \E x \in Character :
       \/ Identity(v, x)
       \/ \E to \in KnownCharacters(v) : Merge(v, x, to)
       \/ \E n \in Name, mentions \in SUBSET Mention : Split(v, x, n, mentions)
  \/ \E to \in KnownCharacters(v) \cup {Nobody} :
       \/ \E m \in Mention : ResolveMention(v, m, to)
       \/ \E l \in Line : AttributeLine(v, l, to)

CorrectionsNext ==
  /\ Len(analyses) + Len(corrections) < MaxEvents
  /\ \/ \E text \in 1..MaxTexts : CreateWholeBookRun(text)
     \/ \E r \in DOMAIN analyses : AppendCorrection(Now(r))

CorrectionsSpec == CorrectionsInit /\ [][CorrectionsNext]_correctionVars

----------------------------------------------------------------------------
(* Properties                                                               *)

Differing(before, after) == {g \in EvidenceGate : after[g] # before[g]}

\* Three ways in which a correction changes what a gate shows and the code does
\* not send it back.  A second addition beside a row takes no branch of its
\* own: it moves the row, and it is told from a first one only by what it
\* replaces.
MovesUnseen(i) ==
  LET c == corrections[i] IN
  IF /\ c.category = "boundary" /\ c.op = "add" /\ c.supersedes = 0
     /\ BoundaryState(At(c.run, i - 1), c.key).root # 0
  THEN {c.key} ELSE {}

\* The characters that stand, or would, for what a merge says of another: the
\* chain of merges passes it.
Passing(i) ==
  LET c == corrections[i]
      merges == Merges(At(c.run, i - 1))
  IN {y \in Character : \E n \in 0..Cardinality(Character) :
        Chain(merges, Row(c.run, y))[n] = Row(c.run, c.key)}

\* The lines that a merge speaks of and that are not looked for.  One was given
\* to the character by hand: its machine payload names others.  The other
\* names a character that was merged into this one, which was merged itself:
\* their lines are counted where the chain ended, not where it is changed.
LinesUnseen(i) ==
  LET c == corrections[i]
      before == At(c.run, i - 1)
      given(l, y) == Claim(before, l, "speaker").who = Row(c.run, y)
      named(l, y) == y \in CandidatesOf[l]
      again == OpOf(before, c.key) = "merge"
  IN IF c.category # "merge" THEN {}
     ELSE {l \in Line : \E y \in Passing(i) :
             \/ ~named(l, y) /\ given(l, y)
             \/ named(l, y) /\ again /\ y \notin AffectedCharacters(i)}

Overlooked(i) ==
  {IF e \in Mention THEN "registry" ELSE "dialogue" :
     e \in {d \in Mention \cup Line : SceneOf[d] \in MovesUnseen(i)}} \cup
  {"dialogue" : l \in LinesUnseen(i)}

ChangedBy(i) ==
  LET r == corrections[i].run IN Differing(Evidence(At(r, i - 1)), Evidence(At(r, i)))

\* A correction that changes what a gate of its run is about sends that gate
\* back, so an approval is of what the reader still sees.  What it overlooks
\* are the mentions and lines of a scene that is added a second time, and two
\* kinds of lines of a character that is merged.
ChangedEvidenceGoesBack ==
  corrections # <<>> =>
    LET i == Len(corrections) IN ChangedBy(i) \subseteq GatesSentBack(i) \cup Overlooked(i)

\* What the gates are there for, and what the code does not keep (README).
EveryChangeGoesBack ==
  corrections # <<>> =>
    LET i == Len(corrections) IN ChangedBy(i) \subseteq GatesSentBack(i)

\* A correction of one run changes nothing that an earlier run shows.  (A run
\* created in the instant the correction is recorded in does see it: the
\* comparison is by time, and time has milliseconds.)
RunsAreIsolated ==
  corrections # <<>> =>
    \A r \in DOMAIN analyses :
      LET i == Len(corrections) IN
      r # corrections[i].run /\ analyses[r].created < corrections[i].at
        => Differing(Evidence(At(r, i - 1)), Evidence(At(r, i))) = {}

\* What a run shows less the scenes that were put under a chapter that a
\* correction added, with what they contain.  (The parent in the patch of such
\* a correction is no row, and no later run has a chapter of that name.)
Carried(v) == Under(Pieces(v, Scene), {id \in ActiveChapters(v) : id[3] = 0})

CarriedEvidence(v) == GateEvidence(v, Replacements(v), Pieces(v, Chapter), Carried(v))

\* Two runs of one text that see the same corrections: the later one shows
\* what the earlier one shows under the chapters of the machine, neither less
\* nor more nor otherwise.  A correction means there what it meant where it
\* was made, except that what it put under an added chapter is lost.
CorrectionsSurviveReruns ==
  \A r \in DOMAIN analyses : \A q \in 1..(r - 1) :
    Compatible(q, r) /\ Now(q).rows = Now(r).rows
      => Differing(CarriedEvidence(Now(q)), Evidence(Now(r))) = {}

\* What the product's acceptance tests ask for ("Every applicable correction
\* survives a compatible deterministic rerun"), and the code does not keep for
\* a scene under an added chapter (README).
EveryCorrectionSurvives ==
  \A r \in DOMAIN analyses : \A q \in 1..(r - 1) :
    Compatible(q, r) /\ Now(q).rows = Now(r).rows
      => Differing(Evidence(Now(q)), Evidence(Now(r))) = {}

\* Every merge that counts leads to a character that is not merged.  With a
\* second merge among the corrections, or merges of two runs that do not see
\* each other's, the code does not keep it (README).
MergesLeadSomewhere ==
  \A r \in DOMAIN analyses : LET merges == Merges(Now(r)) IN
    \A id \in DOMAIN merges : Followed(merges, id) \notin DOMAIN merges
=============================================================================
