------------------------ MODULE PrivateStorageProofs ------------------------
(***************************************************************************)
(* Proofs about PrivateStorage, for any uploads, contents, scripts,        *)
(* artifacts, clearings and number of faults: no row loses its bytes, and  *)
(* no audio comes back that a clearing took away.                          *)
(***************************************************************************)
EXTENDS PrivateStorage, TLAPS

-----------------------------------------------------------------------------
(* The inductive invariant.                                                *)

Availability == {"none", "present", "corrupt", "purged", "quarantined"}
Clearing == [todo : SUBSET Audio, renamed : SUBSET Audio, purged : SUBSET Audio,
             quarantined : SUBSET Audio, then : {"idle", "clear", "delete", "restore"}]

(* Documents: the one of the upload that holds the archive lock is in its  *)
(* place.                                                                  *)
SourcePart ==
  /\ uploads \in [Upload -> Content \cup {"new", "left", "ended"}]
  /\ DOMAIN archive \subseteq Upload
  /\ sourceFiles \subseteq Content /\ sourceRows \subseteq sourceFiles
  /\ \A u, v \in DOMAIN archive : u = v
  /\ \A u \in DOMAIN archive : uploads[u] \in sourceFiles

(* Scripts: one whose transaction goes on is staged and has no row.        *)
ScriptPart ==
  /\ scriptStaging \subseteq Script /\ scriptFiles \subseteq Script
  /\ scriptRows \subseteq Script /\ finalizing \subseteq scriptRows
  /\ scriptRows \subseteq scriptStaging \cup scriptFiles
  /\ writer \notin scriptRows
  /\ writer \in Script => writer \in scriptStaging

AudioTypeOK ==
  /\ worker \in Audio \cup {Nobody}
  /\ audioStaging \subseteq Audio /\ audioFiles \subseteq Audio
  /\ tombstones \subseteq Audio /\ lost \subseteq Audio
  /\ availability \in [Audio -> Availability]
  /\ cache \in [artifact : Audio \cup {Nobody},
                state : {"none", "verified", "missing", "cleared"}]
  /\ clearing \in [Clear -> Clearing]

(* Nobody works while the service is not serving.                          *)
Quiet ==
  ~Serving => /\ writer = Nobody /\ worker = Nobody
              /\ \A c \in Clear : clearing[c] = NoClear

(* What the worker works on has no row; what it has placed is there.       *)
WorkerOK ==
  /\ worker \in Audio => availability[worker] = "none"
  /\ writer \in Audio => writer = worker /\ writer \in audioFiles

(* The cache knows artifacts with a row, and only those become tombstones. *)
FilesOK ==
  /\ \A a \in Audio : availability[a] = "present" => a \in audioFiles \cup tombstones \cup lost
  /\ tombstones \cap audioFiles = {}
  /\ \A a \in tombstones : availability[a] # "none"
  /\ cache.state # "none" =>
       cache.artifact \in Audio /\ availability[cache.artifact] # "none"

(* A clearing speaks of rows that are not purged until its transaction     *)
(* commits, and what it renamed it marks as purged.                        *)
ClearingOK(c) ==
  LET k == clearing[c] IN
  /\ k.then = "clear" <=> writer = c
  /\ k.then = "clear" =>
       /\ k.todo \cap k.renamed = {}
       /\ \A a \in k.todo \cup k.renamed \cup k.purged \cup k.quarantined :
            availability[a] \notin {"none", "purged"}
       /\ k.renamed \subseteq k.purged
       /\ cache.state # "none"
  /\ k.then = "delete" => \A a \in k.renamed : availability[a] = "purged"

AudioPart ==
  /\ AudioTypeOK /\ Quiet /\ WorkerOK /\ FilesOK
  /\ \A c \in Clear : ClearingOK(c)

StorageIInv ==
  /\ phase \in {"serving", "starting", "down"}
  /\ writer \in {Nobody} \cup Script \cup Audio \cup Clear
  /\ SourcePart /\ ScriptPart /\ AudioPart

(* No two clearings have the same file to delete or to rename back, also   *)
(* when they overlap, and what a committed one has to delete is gone.      *)
Held ==
  /\ \A c \in Clear : clearing[c].renamed \subseteq tombstones
  /\ \A c, d \in Clear : c # d => clearing[c].renamed \cap clearing[d].renamed = {}

TakenIsGone ==
  \A c \in Clear : clearing[c].then = "delete" => \A a \in clearing[c].renamed : Gone(a)

LEMMA InvariantSuffices == StorageIInv => RowsHaveTheirBytes
BY DEF StorageIInv, SourcePart, ScriptPart, AudioPart, FilesOK, RowsHaveTheirBytes

-----------------------------------------------------------------------------
(* The parts a step does not touch.                                        *)

LEMMA SourcesKept == ASSUME SourcePart, UNCHANGED sourceVars PROVE SourcePart'
BY DEF SourcePart, sourceVars

LEMMA ScriptsKept ==
  ASSUME ScriptPart, UNCHANGED scriptVars, writer' \notin Script \/ UNCHANGED writer
  PROVE  ScriptPart'
BY DEF ScriptPart, scriptVars

(* Steps of uploads and scripts change at most the writer, between nobody  *)
(* and a script.                                                           *)
LEMMA AudioKept ==
  ASSUME AudioPart, UNCHANGED <<audioVars, phase>>,
         \/ UNCHANGED writer
         \/ Serving /\ writer \in Script \cup {Nobody} /\ writer' \in Script \cup {Nobody}
  PROVE  AudioPart'
<1>1. \A x \in Audio \cup Clear : writer = x <=> writer' = x
  BY StorageAssumption DEF Nobody
<1>2. UNCHANGED <<worker, audioStaging, audioFiles, tombstones, availability, cache, clearing,
                  lost, phase>>
  BY DEF audioVars
<1>3. AudioTypeOK' /\ FilesOK'
  BY <1>2 DEF AudioPart, AudioTypeOK, FilesOK
<1>4. Quiet'
  BY <1>2 DEF AudioPart, Quiet, Serving
<1>5. WorkerOK'
  BY <1>1, <1>2 DEF AudioPart, WorkerOK
<1>6. \A c \in Clear : ClearingOK(c)'
  BY <1>1, <1>2 DEF AudioPart, ClearingOK
<1>. QED BY <1>3, <1>4, <1>5, <1>6 DEF AudioPart

-----------------------------------------------------------------------------
(* Documents and scripts.                                                  *)

LEMMA SourceStep ==
  ASSUME StorageIInv, SourceNext
  PROVE  StorageIInv' /\ UNCHANGED audioVars
<1>1. PICK u \in Upload :
        \/ \E b \in Content : StageUpload(u, b)
        \/ Archive(u) \/ RecordSource(u) \/ RecordFails(u) \/ RejectUpload(u)
  BY DEF SourceNext
<1>2. UNCHANGED <<phase, writer, scriptVars, audioVars>>
  BY <1>1 DEF StageUpload, Archive, RecordSource, RecordFails, RejectUpload
<1>3. SourcePart'
  <2>1. SourcePart /\ Content \cap {"new", "left", "ended"} = {}
    BY StorageAssumption DEF StorageIInv
  <2>2. ASSUME NEW b \in Content, StageUpload(u, b) PROVE SourcePart'
    BY <2>1, <2>2 DEF SourcePart, StageUpload
  <2>3. CASE Archive(u)
    BY <2>1, <2>3 DEF SourcePart, Archive
  <2>4. ASSUME u \in DOMAIN archive, Leave(u), UNCHANGED sourceRows \/ sourceRows' = sourceRows \cup {uploads[u]},
               \/ UNCHANGED sourceFiles
               \/ UNCHANGED sourceRows /\ uploads[u] \notin sourceRows
                  /\ sourceFiles' = sourceFiles \ {uploads[u]}
        PROVE  SourcePart'
    <3>1. DOMAIN archive' = {}
      BY <2>1, <2>4 DEF SourcePart, Leave
    <3>2. uploads' \in [Upload -> Content \cup {"new", "left", "ended"}]
      BY <2>1, <2>4 DEF SourcePart, Leave
    <3>. QED BY <2>1, <2>4, <3>1, <3>2 DEF SourcePart
  <2>5. CASE RecordSource(u) \/ RecordFails(u)
    BY <2>4, <2>5 DEF RecordSource, RecordFails
  <2>6. CASE RejectUpload(u)
    BY <2>1, <2>6 DEF SourcePart, RejectUpload
  <2>. QED BY <1>1, <2>2, <2>3, <2>5, <2>6
<1>. QED BY <1>2, <1>3, ScriptsKept, AudioKept DEF StorageIInv

LEMMA ScriptStep ==
  ASSUME StorageIInv, ScriptNext
  PROVE  StorageIInv' /\ UNCHANGED audioVars
<1>1. PICK s \in Script :
        \/ StageScript(s) \/ CommitScript(s) \/ AbortScript(s)
        \/ FinalizeScript(s) \/ FinalizeFails(s) \/ StartScript(s)
  BY DEF ScriptNext
<1>2. UNCHANGED <<phase, sourceVars, audioVars>>
  BY <1>1 DEF StageScript, CommitScript, AbortScript, FinalizeScript, FinalizeFails, StartScript
<1>3. \/ UNCHANGED writer
      \/ Serving /\ writer \in Script \cup {Nobody} /\ writer' \in Script \cup {Nobody}
  BY <1>1 DEF StageScript, CommitScript, AbortScript, FinalizeScript, FinalizeFails, StartScript,
              Free
<1>4. ScriptPart'
  <2>1. /\ ScriptPart /\ Nobody \notin Script
        /\ phase = "starting" => writer = Nobody
    BY StorageAssumption DEF StorageIInv, Nobody, AudioPart, Quiet, Serving
  <2>2. CASE StageScript(s)
    BY <2>1, <2>2 DEF ScriptPart, StageScript
  <2>3. CASE CommitScript(s)
    BY <2>1, <2>3 DEF ScriptPart, CommitScript
  <2>4. CASE AbortScript(s)
    BY <2>1, <2>4 DEF ScriptPart, AbortScript
  <2>5. CASE FinalizeScript(s)
    BY <2>1, <2>5 DEF ScriptPart, FinalizeScript
  <2>6. CASE FinalizeFails(s)
    BY <2>1, <2>6 DEF ScriptPart, FinalizeFails
  <2>7. CASE StartScript(s)
    BY <2>1, <2>7 DEF ScriptPart, StartScript
  <2>. QED BY <1>1, <2>2, <2>3, <2>4, <2>5, <2>6, <2>7
<1>. QED BY <1>2, <1>3, <1>4, SourcesKept, AudioKept DEF StorageIInv

-----------------------------------------------------------------------------
(* Audio.  One lemma for each action; none touches documents or scripts.   *)

LEMMA Frame ==
  ASSUME StorageIInv, AudioPart', UNCHANGED <<sourceVars, scriptVars>>,
         phase' \in {"serving", "starting", "down"},
         UNCHANGED writer \/ writer' \in {Nobody} \cup Audio \cup Clear
  PROVE  StorageIInv'
<1>1. writer' \notin Script \/ UNCHANGED writer
  BY StorageAssumption DEF Nobody
<1>. QED BY <1>1, SourcesKept, ScriptsKept DEF StorageIInv

(* What the steps below need to know of a state.                           *)
LEMMA AudioFacts ==
  ASSUME StorageIInv
  PROVE  /\ AudioTypeOK /\ Quiet /\ WorkerOK /\ FilesOK
         /\ \A c \in Clear : ClearingOK(c)
         /\ Nobody \notin Audio \cup Clear \cup Script
         /\ Audio \cap Clear = {} /\ Script \cap Audio = {} /\ Script \cap Clear = {}
BY StorageAssumption DEF StorageIInv, AudioPart, Nobody

LEMMA MissCacheStep ==
  ASSUME StorageIInv, MissCache
  PROVE  AudioPart'
<1> USE AudioFacts
<1>1. AudioTypeOK'
  BY DEF MissCache, AudioTypeOK, FilesOK, Availability
<1>2. \A a \in Audio : \/ availability'[a] = availability[a]
                       \/ availability[a] = "present" /\ availability'[a] = "corrupt"
  BY DEF MissCache, AudioTypeOK, FilesOK
<1>3. Quiet' /\ WorkerOK'
  BY <1>2 DEF MissCache, Quiet, WorkerOK, Free, Serving
<1>4. FilesOK'
  BY <1>2 DEF MissCache, FilesOK, AudioTypeOK
<1>5. \A c \in Clear : ClearingOK(c)'
  BY <1>2 DEF MissCache, ClearingOK, AudioTypeOK, Clearing
<1>. QED BY <1>1, <1>3, <1>4, <1>5 DEF AudioPart

LEMMA GenerationStep ==
  ASSUME StorageIInv, NEW a \in Audio, StageAudio(a) \/ DropAudio(a) \/ PlaceAudio(a)
  PROVE  AudioPart'
<1> USE AudioFacts
<1>1. /\ Serving /\ UNCHANGED <<phase, tombstones, availability, cache, clearing, lost>>
      /\ availability[a] = "none"
  BY DEF StageAudio, DropAudio, PlaceAudio, Free, WorkerOK
<1>2. AudioTypeOK' /\ Quiet'
  BY <1>1 DEF StageAudio, DropAudio, PlaceAudio, AudioTypeOK, Quiet, Serving
<1>3. WorkerOK'
  BY <1>1 DEF StageAudio, DropAudio, PlaceAudio, WorkerOK, Free
<1>4. FilesOK'
  BY <1>1 DEF StageAudio, DropAudio, PlaceAudio, FilesOK
<1>5. \A c \in Clear : ClearingOK(c)'
  BY <1>1 DEF StageAudio, DropAudio, PlaceAudio, ClearingOK, Free
<1>. QED BY <1>2, <1>3, <1>4, <1>5 DEF AudioPart

LEMMA PublishAudioStep ==
  ASSUME StorageIInv, NEW a \in Audio, PublishAudio(a)
  PROVE  AudioPart'
<1> USE AudioFacts
<1>1. AudioTypeOK' /\ Quiet'
  BY DEF PublishAudio, AudioTypeOK, Quiet, Serving, Availability
<1>2. /\ \A b \in Audio : availability'[b] = IF b = a THEN "present" ELSE availability[b]
      /\ availability[a] = "none" /\ a \in audioFiles
  BY DEF PublishAudio, AudioTypeOK, WorkerOK
<1>3. WorkerOK'
  BY DEF PublishAudio, WorkerOK
<1>4. FilesOK'
  BY <1>2 DEF PublishAudio, FilesOK, AudioTypeOK
<1>5. ASSUME NEW c \in Clear PROVE ClearingOK(c)'
  <2>1. clearing[c].then # "clear" /\ clearing[c].renamed \subseteq Audio
    BY DEF PublishAudio, ClearingOK, AudioTypeOK, Clearing
  <2>. QED BY <1>2, <2>1 DEF PublishAudio, ClearingOK
<1>. QED BY <1>1, <1>3, <1>4, <1>5 DEF AudioPart

LEMMA AbortAudioStep ==
  ASSUME StorageIInv, NEW a \in Audio, AbortAudio(a)
  PROVE  AudioPart'
<1> USE AudioFacts
<1>1. AudioTypeOK' /\ Quiet' /\ WorkerOK'
  BY DEF AbortAudio, AudioTypeOK, Quiet, WorkerOK, Serving
<1>2. availability[a] = "none"
  BY DEF AbortAudio, WorkerOK
<1>3. FilesOK'
  BY <1>2 DEF AbortAudio, FilesOK
<1>4. \A c \in Clear : ClearingOK(c)'
  BY DEF AbortAudio, ClearingOK
<1>. QED BY <1>1, <1>3, <1>4 DEF AudioPart

LEMMA LoseAudioStep ==
  ASSUME StorageIInv, NEW a \in Audio, LoseAudio(a)
  PROVE  AudioPart'
<1> USE AudioFacts
<1>1. AudioTypeOK' /\ Quiet' /\ WorkerOK' /\ FilesOK'
  BY DEF LoseAudio, AudioTypeOK, Quiet, WorkerOK, FilesOK, Serving
<1>2. \A c \in Clear : ClearingOK(c)'
  BY DEF LoseAudio, ClearingOK
<1>. QED BY <1>1, <1>2 DEF AudioPart

LEMMA StartAudioStep ==
  ASSUME StorageIInv, NEW a \in Audio, StartAudio(a)
  PROVE  AudioPart'
<1> USE AudioFacts
<1>1. AudioTypeOK' /\ Quiet' /\ WorkerOK'
  BY DEF StartAudio, AudioTypeOK, Quiet, WorkerOK, Serving
<1>2. FilesOK'
  BY DEF StartAudio, FilesOK
<1>3. \A c \in Clear : ClearingOK(c)'
  BY DEF StartAudio, ClearingOK
<1>. QED BY <1>1, <1>2, <1>3 DEF AudioPart

(* Clearing: its own record changes, the records of the others do not.     *)
LEMMA NoClearOK == NoClear \in Clearing
BY DEF NoClear, Clearing

LEMMA RecordWritten ==
  ASSUME AudioTypeOK, NEW c \in Clear, NEW k \in Clearing,
         clearing' = [clearing EXCEPT ![c] = k]
  PROVE  /\ clearing' \in [Clear -> Clearing] /\ clearing'[c] = k
         /\ \A d \in Clear : d # c => clearing'[d] = clearing[d]
BY DEF AudioTypeOK

LEMMA BeginClearStep ==
  ASSUME StorageIInv, NEW c \in Clear, BeginClear(c)
  PROVE  AudioPart'
<1> USE AudioFacts
<1> DEFINE todo == {a \in {cache.artifact} : availability[a] # "purged"}
<1>1. /\ todo \subseteq Audio /\ \A a \in todo : availability[a] \notin {"none", "purged"}
      /\ clearing[c] = NoClear /\ writer = Nobody /\ writer' = c
  BY DEF BeginClear, FilesOK, Free
<1> DEFINE k == [NoClear EXCEPT !.then = "clear", !.todo = todo]
<1>2. clearing' = [clearing EXCEPT ![c] = k]
  BY DEF BeginClear
<1>7. /\ k \in Clearing /\ k.then = "clear"
      /\ k.todo = todo /\ k.renamed = {} /\ k.purged = {} /\ k.quarantined = {}
  <2>1. k = [NoClear EXCEPT !.then = "clear", !.todo = todo]
    OBVIOUS
  <2> HIDE DEF k, todo
  <2>. QED BY <1>1, <2>1, NoClearOK DEF NoClear, Clearing
<1> HIDE DEF k, todo
<1>3. /\ clearing' \in [Clear -> Clearing] /\ clearing'[c] = k
      /\ \A d \in Clear : d # c => clearing'[d] = clearing[d]
  BY <1>2, <1>7, RecordWritten
<1>4. AudioTypeOK' /\ Quiet' /\ WorkerOK' /\ FilesOK'
  BY <1>1, <1>3 DEF BeginClear, AudioTypeOK, Quiet, WorkerOK, FilesOK, Serving, Free
<1>5. ClearingOK(c)'
  BY <1>1, <1>3, <1>7 DEF BeginClear, ClearingOK
<1>6. ASSUME NEW d \in Clear, d # c PROVE ClearingOK(d)'
  BY <1>1, <1>3, <1>6 DEF BeginClear, ClearingOK
<1>. QED BY <1>4, <1>5, <1>6 DEF AudioPart

LEMMA ClearOneStep ==
  ASSUME StorageIInv, NEW c \in Clear, NEW a \in Audio, ClearOne(c, a)
  PROVE  AudioPart'
<1> USE AudioFacts
<1>1. /\ Serving /\ writer = c /\ a \in clearing[c].todo
      /\ UNCHANGED <<phase, writer, worker, audioStaging, availability, cache, lost>>
      /\ clearing[c].then = "clear" /\ availability[a] \notin {"none", "purged"}
  BY DEF ClearOne, ClearingOK
<1>2. clearing' \in [Clear -> Clearing]
  BY DEF ClearOne, AudioTypeOK, Clearing
<1>3. /\ \A d \in Clear : d # c => clearing'[d] = clearing[d]
      /\ clearing'[c].todo = clearing[c].todo \ {a}
      /\ clearing'[c].then = "clear"
      /\ \/ /\ clearing'[c].renamed = clearing[c].renamed \cup {a}
            /\ clearing'[c].purged = clearing[c].purged \cup {a}
            /\ clearing'[c].quarantined = clearing[c].quarantined
            /\ a \in audioFiles
            /\ audioFiles' = audioFiles \ {a} /\ tombstones' = tombstones \cup {a}
         \/ /\ clearing'[c].renamed = clearing[c].renamed
            /\ \/ /\ clearing'[c].purged = clearing[c].purged \cup {a} /\ a \notin audioFiles
                  /\ clearing'[c].quarantined = clearing[c].quarantined
               \/ /\ clearing'[c].purged = clearing[c].purged
                  /\ clearing'[c].quarantined = clearing[c].quarantined \cup {a}
            /\ UNCHANGED <<audioFiles, tombstones>>
  BY <1>1 DEF ClearOne, AudioTypeOK, Clearing
<1>4. AudioTypeOK' /\ Quiet' /\ WorkerOK'
  BY <1>1, <1>2, <1>3 DEF AudioTypeOK, Quiet, WorkerOK, Serving
<1>5. FilesOK'
  BY <1>1, <1>3 DEF FilesOK
<1>6. ClearingOK(c)'
  BY <1>1, <1>3 DEF ClearingOK
<1>7. ASSUME NEW d \in Clear, d # c PROVE ClearingOK(d)'
  BY <1>1, <1>3, <1>7 DEF ClearingOK
<1>. QED BY <1>4, <1>5, <1>6, <1>7 DEF AudioPart

LEMMA CommitClearStep ==
  ASSUME StorageIInv, NEW c \in Clear, CommitClear(c)
  PROVE  AudioPart'
<1> USE AudioFacts
<1>1. /\ Serving /\ writer = c /\ writer' = Nobody /\ clearing[c].then = "clear"
      /\ clearing[c] \in Clearing
      /\ UNCHANGED <<phase, worker, audioStaging, audioFiles, tombstones, lost>>
  BY DEF CommitClear, ClearingOK, AudioTypeOK
<1>2. \A a \in Audio :
        /\ a \in clearing[c].purged \cup clearing[c].quarantined
             => availability[a] \notin {"none", "purged"}
        /\ availability'[a] = IF a \in clearing[c].purged THEN "purged"
                              ELSE IF a \in clearing[c].quarantined THEN "quarantined"
                              ELSE availability[a]
  BY <1>1 DEF CommitClear, ClearingOK
<1> DEFINE k == [NoClear EXCEPT !.then = "delete", !.renamed = clearing[c].renamed]
<1>10. /\ k \in Clearing /\ clearing' = [clearing EXCEPT ![c] = k]
       /\ k.then = "delete" /\ k.renamed = clearing[c].renamed
  <2>1. clearing[c].renamed \in SUBSET Audio
    BY <1>1 DEF Clearing
  <2>2. /\ k = [NoClear EXCEPT !.then = "delete", !.renamed = clearing[c].renamed]
        /\ clearing' = [clearing EXCEPT ![c] = k]
    BY DEF CommitClear
  <2> HIDE DEF k
  <2>. QED BY <2>1, <2>2, NoClearOK DEF NoClear, Clearing
<1> HIDE DEF k
<1>3. clearing'[c] = k /\ \A d \in Clear : d # c => clearing'[d] = clearing[d]
  BY <1>10, RecordWritten
<1>4. clearing' \in [Clear -> Clearing]
  BY <1>10, RecordWritten
<1>5. AudioTypeOK'
  BY <1>1, <1>4 DEF CommitClear, AudioTypeOK, Availability
<1>6. Quiet' /\ WorkerOK'
  BY <1>1, <1>2 DEF Quiet, WorkerOK, Serving
<1>7. FilesOK'
  <2>1. cache' = [cache EXCEPT !.state = "cleared"] /\ cache.state # "none"
    BY <1>1 DEF CommitClear, ClearingOK
  <2>2. cache'.artifact = cache.artifact
    BY <2>1 DEF AudioTypeOK
  <2>. QED BY <1>1, <1>2, <2>1, <2>2 DEF FilesOK, AudioTypeOK
<1>8. ClearingOK(c)'
  BY <1>1, <1>2, <1>3, <1>10 DEF ClearingOK, Clearing
<1>9. ASSUME NEW d \in Clear, d # c PROVE ClearingOK(d)'
  <2>1. clearing[d].then # "clear" /\ clearing[d].renamed \subseteq Audio /\ writer' # d
    BY <1>1, <1>9 DEF ClearingOK, AudioTypeOK, Clearing
  <2>. QED BY <1>2, <1>3, <1>9, <2>1 DEF ClearingOK
<1>. QED BY <1>5, <1>6, <1>7, <1>8, <1>9 DEF AudioPart

LEMMA AbortClearStep ==
  ASSUME StorageIInv, NEW c \in Clear, AbortClear(c)
  PROVE  AudioPart'
<1> USE AudioFacts
<1>1. /\ Serving /\ writer = c /\ writer' = Nobody /\ clearing[c] \in Clearing
      /\ UNCHANGED <<phase, worker, audioStaging, audioFiles, tombstones, availability, cache,
                     lost>>
  BY DEF AbortClear, AudioTypeOK
<1> DEFINE k == [NoClear EXCEPT !.then = "restore", !.renamed = clearing[c].renamed]
<1>7. k \in Clearing /\ clearing' = [clearing EXCEPT ![c] = k] /\ k.then = "restore"
  <2>1. clearing[c].renamed \in SUBSET Audio
    BY <1>1 DEF Clearing
  <2>2. /\ k = [NoClear EXCEPT !.then = "restore", !.renamed = clearing[c].renamed]
        /\ clearing' = [clearing EXCEPT ![c] = k]
    BY DEF AbortClear
  <2> HIDE DEF k
  <2>. QED BY <2>1, <2>2, NoClearOK DEF NoClear, Clearing
<1> HIDE DEF k
<1>2. clearing'[c] = k /\ \A d \in Clear : d # c => clearing'[d] = clearing[d]
  BY <1>7, RecordWritten
<1>3. clearing' \in [Clear -> Clearing]
  BY <1>7, RecordWritten
<1>4. AudioTypeOK' /\ Quiet' /\ WorkerOK' /\ FilesOK'
  BY <1>1, <1>3 DEF AudioTypeOK, Quiet, WorkerOK, FilesOK, Serving
<1>5. ClearingOK(c)'
  BY <1>1, <1>2, <1>7 DEF ClearingOK
<1>6. ASSUME NEW d \in Clear, d # c PROVE ClearingOK(d)'
  BY <1>1, <1>2, <1>6 DEF ClearingOK
<1>. QED BY <1>4, <1>5, <1>6 DEF AudioPart

(* What a clearing does with its files after its transaction.              *)
LEMMA SettleStep ==
  ASSUME StorageIInv, NEW c \in Clear,
         \/ \E a \in Audio : DeleteTombstone(c, a) \/ RestoreAudio(c, a)
         \/ EndClear(c)
  PROVE  AudioPart'
<1> USE AudioFacts
<1>1. /\ Serving /\ clearing[c].then \in {"delete", "restore"} /\ clearing[c] \in Clearing
      /\ UNCHANGED <<phase, writer, worker, audioStaging, availability, cache, lost>>
  BY DEF DeleteTombstone, RestoreAudio, EndClear, AudioTypeOK
<1>2. ASSUME NEW a \in Audio, a \in clearing[c].renamed,
             clearing' = [clearing EXCEPT ![c].renamed = @ \ {a}],
             \/ clearing[c].then = "delete" /\ tombstones' = tombstones \ {a} /\ UNCHANGED audioFiles
             \/ tombstones' = tombstones \ {a} /\ audioFiles' = audioFiles \cup {a}
      PROVE  AudioPart'
  <2>1. /\ clearing' \in [Clear -> Clearing]
        /\ \A d \in Clear : /\ clearing'[d].then = clearing[d].then
                            /\ clearing'[d].todo = clearing[d].todo
                            /\ clearing'[d].purged = clearing[d].purged
                            /\ clearing'[d].quarantined = clearing[d].quarantined
                            /\ d # c => clearing'[d].renamed = clearing[d].renamed
        /\ clearing'[c].renamed = clearing[c].renamed \ {a}
    BY <1>2 DEF AudioTypeOK, Clearing
  <2>2. AudioTypeOK' /\ Quiet' /\ WorkerOK'
    BY <1>1, <1>2, <2>1 DEF AudioTypeOK, Quiet, WorkerOK, Serving
  <2>3. FilesOK'
    BY <1>1, <1>2 DEF FilesOK, ClearingOK
  <2>4. ClearingOK(c)'
    BY <1>1, <2>1 DEF ClearingOK
  <2>5. ASSUME NEW d \in Clear, d # c PROVE ClearingOK(d)'
    BY <1>1, <2>1, <2>5 DEF ClearingOK
  <2>. QED BY <2>2, <2>3, <2>4, <2>5 DEF AudioPart
<1>3. CASE EndClear(c)
  <2>1. /\ \A d \in Clear : d # c => clearing'[d] = clearing[d]
        /\ clearing'[c] = NoClear
    BY <1>3 DEF EndClear, AudioTypeOK
  <2>2. clearing' \in [Clear -> Clearing]
    BY <1>3, <2>1 DEF EndClear, AudioTypeOK, Clearing, NoClear
  <2>3. AudioTypeOK' /\ Quiet' /\ WorkerOK' /\ FilesOK'
    BY <1>1, <1>3, <2>2 DEF EndClear, AudioTypeOK, Quiet, WorkerOK, FilesOK, Serving
  <2>4. ClearingOK(c)'
    BY <1>1, <2>1 DEF ClearingOK, NoClear
  <2>5. ASSUME NEW d \in Clear, d # c PROVE ClearingOK(d)'
    BY <1>1, <2>1, <2>5 DEF ClearingOK
  <2>. QED BY <2>3, <2>4, <2>5 DEF AudioPart
<1>. QED BY <1>2, <1>3 DEF DeleteTombstone, RestoreAudio

(* Every step that touches audio, documents and scripts apart.             *)
LEMMA AudioStep ==
  ASSUME StorageIInv, AudioNext
  PROVE  StorageIInv'
<1>1. UNCHANGED <<sourceVars, scriptVars, phase>>
  BY DEF AudioNext, MissCache, StageAudio, DropAudio, PlaceAudio, PublishAudio, AbortAudio,
         LoseAudio, StartAudio, BeginClear, CommitClear, AbortClear, EndClear, ClearOne,
         DeleteTombstone, RestoreAudio
<1>2. UNCHANGED writer \/ writer' \in {Nobody} \cup Audio \cup Clear
  BY DEF AudioNext, MissCache, StageAudio, DropAudio, PlaceAudio, PublishAudio, AbortAudio,
         LoseAudio, StartAudio, BeginClear, CommitClear, AbortClear, EndClear, ClearOne,
         DeleteTombstone, RestoreAudio
<1>3. AudioPart'
  BY MissCacheStep, GenerationStep, PublishAudioStep, AbortAudioStep, LoseAudioStep,
     StartAudioStep, BeginClearStep, ClearOneStep, CommitClearStep, AbortClearStep, SettleStep
     DEF AudioNext
<1>4. phase' \in {"serving", "starting", "down"}
  BY <1>1 DEF StorageIInv
<1>. QED BY <1>1, <1>2, <1>3, <1>4, Frame

-----------------------------------------------------------------------------
(* The process.                                                            *)

LEMMA CrashStep == ASSUME StorageIInv, Crash PROVE StorageIInv'
<1> USE AudioFacts
<1>1. SourcePart'
  <2>1. /\ \A u \in Upload : uploads'[u] \in Content \cup {"new", "left", "ended"}
        /\ uploads' \in [Upload -> Content \cup {"new", "left", "ended"}]
    BY DEF Crash, StorageIInv, SourcePart
  <2>2. DOMAIN archive' = {}
    BY DEF Crash
  <2>. QED BY <2>1, <2>2 DEF Crash, StorageIInv, SourcePart
<1>2. ScriptPart'
  BY DEF Crash, StorageIInv, ScriptPart
<1>3. AudioPart'
  <2>1. \A c \in Clear : clearing'[c] = NoClear
    BY DEF Crash
  <2>2. AudioTypeOK'
    BY NoClearOK DEF Crash, AudioTypeOK
  <2>3. Quiet' /\ WorkerOK' /\ FilesOK'
    BY <2>1 DEF Crash, Quiet, WorkerOK, FilesOK, Serving
  <2>4. \A c \in Clear : ClearingOK(c)'
    BY <2>1 DEF Crash, ClearingOK, NoClear
  <2>. QED BY <2>2, <2>3, <2>4 DEF AudioPart
<1>. QED BY <1>1, <1>2, <1>3 DEF Crash, StorageIInv

LEMMA StartStep == ASSUME StorageIInv, Start PROVE StorageIInv'
<1> USE AudioFacts
<1>1. SourcePart'
  <2>1. uploads' \in [Upload -> Content \cup {"new", "left", "ended"}]
    BY DEF Start, StorageIInv, SourcePart
  <2>2. \A u \in DOMAIN archive : uploads'[u] = uploads[u]
    BY StorageAssumption DEF Start, StorageIInv, SourcePart
  <2>. QED BY <2>1, <2>2 DEF Start, StorageIInv, SourcePart
<1>2. AudioPart'
  <2>1. UNCHANGED <<writer, audioVars>> /\ phase = "down" /\ phase' = "starting"
    BY DEF Start
  <2>. QED BY <2>1
           DEF audioVars, AudioPart, AudioTypeOK, Quiet, WorkerOK, FilesOK, ClearingOK, Serving
<1>. QED BY <1>1, <1>2, ScriptsKept DEF Start, StorageIInv

LEMMA ServeStep == ASSUME StorageIInv, Serve PROVE StorageIInv'
<1> USE AudioFacts
<1>1. \A a \in Audio : /\ availability[a] # "present" => availability'[a] = availability[a]
                       /\ availability[a] = "present" =>
                            availability'[a] \in {"present", "corrupt"}
  BY DEF Serve
<1>2. /\ UNCHANGED <<writer, sourceVars, scriptVars, worker, audioStaging, audioFiles, tombstones,
                     cache, clearing, lost>>
      /\ phase' = "serving" /\ writer = Nobody /\ worker = Nobody
      /\ \A c \in Clear : clearing[c] = NoClear
  BY DEF Serve, Quiet, Serving
<1>3. AudioTypeOK' /\ Quiet' /\ WorkerOK'
  BY <1>1, <1>2 DEF Serve, AudioTypeOK, Availability, Quiet, WorkerOK, Serving
<1>4. FilesOK'
  BY <1>1, <1>2 DEF FilesOK, AudioTypeOK
<1>5. \A c \in Clear : ClearingOK(c)'
  BY <1>2 DEF ClearingOK, NoClear
<1>6. AudioPart'
  BY <1>3, <1>4, <1>5 DEF AudioPart
<1>. QED BY <1>2, <1>6, SourcesKept, ScriptsKept DEF StorageIInv

LEMMA StorageStep ==
  ASSUME StorageIInv, [StorageNext]_storageVars
  PROVE  StorageIInv'
<1>1. CASE UNCHANGED storageVars
  BY <1>1, SourcesKept, ScriptsKept, AudioKept DEF storageVars, StorageIInv
<1>. QED BY <1>1, SourceStep, ScriptStep, AudioStep, CrashStep, StartStep, ServeStep
         DEF StorageNext

LEMMA StorageStart == ASSUME StorageInit PROVE StorageIInv
<1>1. SourcePart
  BY DEF StorageInit, SourcePart
<1>2. ScriptPart
  BY StorageAssumption DEF StorageInit, ScriptPart, Nobody
<1>3. \A c \in Clear : clearing[c] = NoClear /\ writer # c
  BY StorageAssumption DEF StorageInit, Nobody
<1>4. AudioTypeOK
  BY NoClearOK DEF StorageInit, AudioTypeOK, Availability
<1>5. Quiet /\ WorkerOK /\ FilesOK
  BY StorageAssumption DEF StorageInit, Quiet, WorkerOK, FilesOK, Serving, Nobody
<1>6. \A c \in Clear : ClearingOK(c)
  BY <1>3 DEF ClearingOK, NoClear
<1>. QED BY <1>1, <1>2, <1>4, <1>5, <1>6 DEF StorageInit, StorageIInv, AudioPart

-----------------------------------------------------------------------------
(* What clearings took away.                                               *)

(* What the actions of a clearing write into its record.                   *)
LEMMA RecordBegins ==
  ASSUME StorageIInv, NEW c \in Clear, BeginClear(c)
  PROVE  clearing'[c].then = "clear" /\ clearing'[c].renamed = {}
<1> DEFINE k == [NoClear EXCEPT !.then = "clear",
                                !.todo = {a \in {cache.artifact} : availability[a] # "purged"}]
<1>1. k.then = "clear" /\ k.renamed = {}
  BY DEF NoClear
<1>2. clearing' = [clearing EXCEPT ![c] = k]
  BY DEF BeginClear
<1> HIDE DEF k
<1>. QED BY <1>1, <1>2, AudioFacts DEF AudioTypeOK

LEMMA RecordSettles ==
  ASSUME StorageIInv, NEW c \in Clear, CommitClear(c) \/ AbortClear(c)
  PROVE  /\ clearing'[c].renamed = clearing[c].renamed
         /\ CommitClear(c) => clearing'[c].then = "delete"
         /\ AbortClear(c) => clearing'[c].then = "restore"
<1>1. ASSUME NEW then, clearing' = [clearing EXCEPT ![c] =
                         [NoClear EXCEPT !.then = then, !.renamed = clearing[c].renamed]]
      PROVE  clearing'[c].renamed = clearing[c].renamed /\ clearing'[c].then = then
  <2> DEFINE k == [NoClear EXCEPT !.then = then, !.renamed = clearing[c].renamed]
  <2>1. k.then = then /\ k.renamed = clearing[c].renamed
    BY DEF NoClear
  <2>2. clearing' = [clearing EXCEPT ![c] = k]
    BY <1>1
  <2> HIDE DEF k
  <2>. QED BY <2>1, <2>2, AudioFacts DEF AudioTypeOK
<1>2. CASE CommitClear(c)
  <2>1. clearing'[c].renamed = clearing[c].renamed /\ clearing'[c].then = "delete"
    BY <1>1, <1>2 DEF CommitClear
  <2>2. AbortClear(c) => clearing'[c].then = "restore"
    BY <1>1 DEF AbortClear
  <2>. QED BY <2>1, <2>2
<1>3. CASE AbortClear(c)
  <2>1. clearing'[c].renamed = clearing[c].renamed /\ clearing'[c].then = "restore"
    BY <1>1, <1>3 DEF AbortClear
  <2>2. CommitClear(c) => clearing'[c].then = "delete"
    BY <1>1 DEF CommitClear
  <2>. QED BY <2>1, <2>2
<1>. QED BY <1>2, <1>3

LEMMA RecordEnds ==
  ASSUME StorageIInv, NEW c \in Clear, EndClear(c)
  PROVE  clearing'[c].then = "idle" /\ clearing'[c].renamed = {}
<1>1. clearing'[c] = NoClear
  BY AudioFacts DEF EndClear, AudioTypeOK
<1>. QED BY <1>1 DEF NoClear

LEMMA HeldStep ==
  ASSUME StorageIInv, Held, [StorageNext]_storageVars
  PROVE  Held'
<1> USE AudioFacts
<1>1. CASE UNCHANGED <<clearing, tombstones>>
  BY <1>1 DEF Held
<1>2. ASSUME \A c \in Clear : clearing'[c] = NoClear PROVE Held'
  BY <1>2 DEF Held, NoClear
(* A step that writes the record of one clearing.                          *)
<1>3. ASSUME NEW c \in Clear, \A d \in Clear : d # c => clearing'[d] = clearing[d],
             \/ /\ clearing'[c].renamed \subseteq clearing[c].renamed
                /\ \A a \in tombstones \ tombstones' :
                     a \in clearing[c].renamed \ clearing'[c].renamed
             \/ \E a \in audioFiles : /\ clearing'[c].renamed = clearing[c].renamed \cup {a}
                                     /\ tombstones' = tombstones \cup {a}
      PROVE  Held'
  <2>1. \A d \in Clear : d # c => clearing[c].renamed \cap clearing[d].renamed = {}
    BY DEF Held
  <2>2. \A d \in Clear : d # c => clearing'[c].renamed \cap clearing[d].renamed = {}
    BY <1>3, <2>1 DEF Held, FilesOK
  <2>3. \A d \in Clear : d # c => clearing'[d].renamed \subseteq tombstones'
    BY <1>3, <2>1 DEF Held
  <2>4. clearing'[c].renamed \subseteq tombstones'
    BY <1>3 DEF Held
  <2>5. \A d, e \in Clear : d # e => clearing'[d].renamed \cap clearing'[e].renamed = {}
    BY <1>3, <2>2 DEF Held
  <2>. QED BY <2>3, <2>4, <2>5 DEF Held
<1>4. CASE SourceNext \/ ScriptNext \/ UNCHANGED storageVars
  BY <1>1, <1>4, SourceStep, ScriptStep DEF storageVars, audioVars
<1>5. CASE Crash
  BY <1>2, <1>5 DEF Crash
<1>6. CASE Start \/ Serve
  BY <1>1, <1>6 DEF Start, Serve, audioVars
<1>7. ASSUME NEW a \in Audio, StartAudio(a) PROVE Held'
  BY <1>2, <1>7 DEF StartAudio, Quiet, Serving
<1>8. ASSUME NEW a \in Audio,
             MissCache \/ StageAudio(a) \/ DropAudio(a) \/ PlaceAudio(a) \/ PublishAudio(a)
               \/ AbortAudio(a) \/ LoseAudio(a)
      PROVE  Held'
  BY <1>1, <1>8 DEF MissCache, StageAudio, DropAudio, PlaceAudio, PublishAudio, AbortAudio,
                    LoseAudio
<1>9. ASSUME NEW c \in Clear, BeginClear(c) \/ CommitClear(c) \/ AbortClear(c) \/ EndClear(c)
      PROVE  Held'
  <2>1. /\ \A d \in Clear : d # c => clearing'[d] = clearing[d]
        /\ UNCHANGED tombstones
    BY <1>9 DEF BeginClear, CommitClear, AbortClear, EndClear, AudioTypeOK
  <2>2. clearing'[c].renamed \subseteq clearing[c].renamed
    BY <1>9, RecordBegins, RecordSettles, RecordEnds
  <2>. QED BY <1>3, <2>1, <2>2
<1>10. ASSUME NEW c \in Clear, NEW a \in Audio, ClearOne(c, a) PROVE Held'
  <2>1. \A d \in Clear : d # c => clearing'[d] = clearing[d]
    BY <1>10 DEF ClearOne, AudioTypeOK
  <2>2. \/ clearing'[c].renamed = clearing[c].renamed /\ UNCHANGED tombstones
        \/ /\ a \in audioFiles /\ clearing'[c].renamed = clearing[c].renamed \cup {a}
           /\ tombstones' = tombstones \cup {a}
    BY <1>10 DEF ClearOne, AudioTypeOK, Clearing
  <2>. QED BY <1>3, <2>1, <2>2
<1>11. ASSUME NEW c \in Clear, NEW a \in Audio, DeleteTombstone(c, a) \/ RestoreAudio(c, a)
       PROVE  Held'
  <2>1. \A d \in Clear : d # c => clearing'[d] = clearing[d]
    BY <1>11 DEF DeleteTombstone, RestoreAudio, AudioTypeOK
  <2>2. /\ a \in clearing[c].renamed /\ clearing'[c].renamed = clearing[c].renamed \ {a}
        /\ tombstones' = tombstones \ {a}
    BY <1>11 DEF DeleteTombstone, RestoreAudio, AudioTypeOK, Clearing
  <2>. QED BY <1>3, <2>1, <2>2
<1>. QED
  <2>1. CASE MissCache
    BY <1>1, <2>1 DEF MissCache
  <2>. QED BY <1>4, <1>5, <1>6, <1>7, <1>8, <1>9, <1>10, <1>11, <2>1 DEF StorageNext, AudioNext

(* What may be in place after a step that was not there before: what is    *)
(* generated, which has no row yet, what a failed clearing still had, and  *)
(* what a start finds beside a row that is not purged.                     *)
LEMMA FilesAppear ==
  ASSUME StorageIInv, [StorageNext]_storageVars, NEW a \in audioFiles' \ audioFiles
  PROVE  \/ availability[a] # "purged"
         \/ \E c \in Clear : clearing[c].then = "restore" /\ a \in clearing[c].renamed
<1> USE AudioFacts
<1>1. CASE SourceNext \/ ScriptNext \/ UNCHANGED storageVars
  BY <1>1, SourceStep, ScriptStep DEF storageVars, audioVars
<1>2. CASE Crash \/ Start \/ Serve
  BY <1>2 DEF Crash, Start, Serve, audioVars
<1>3. CASE MissCache
  BY <1>3 DEF MissCache
<1>4. ASSUME NEW b \in Audio,
             \/ StageAudio(b) \/ DropAudio(b) \/ PlaceAudio(b) \/ PublishAudio(b)
             \/ AbortAudio(b) \/ LoseAudio(b) \/ StartAudio(b)
      PROVE  availability[a] # "purged"
  BY <1>4 DEF StageAudio, DropAudio, PlaceAudio, PublishAudio, AbortAudio, LoseAudio, StartAudio,
              WorkerOK
<1>5. ASSUME NEW c \in Clear, BeginClear(c) \/ CommitClear(c) \/ AbortClear(c) \/ EndClear(c)
      PROVE  FALSE
  BY <1>5 DEF BeginClear, CommitClear, AbortClear, EndClear
<1>6. ASSUME NEW c \in Clear, NEW b \in Audio, ClearOne(c, b) \/ DeleteTombstone(c, b)
      PROVE  FALSE
  BY <1>6 DEF ClearOne, DeleteTombstone
<1>7. ASSUME NEW c \in Clear, NEW b \in Audio, RestoreAudio(c, b)
      PROVE  clearing[c].then = "restore" /\ a \in clearing[c].renamed
  BY <1>7 DEF RestoreAudio
<1>. QED BY <1>1, <1>2, <1>3, <1>4, <1>5, <1>6, <1>7 DEF StorageNext, AudioNext

(* A purged row stays purged.                                              *)
LEMMA PurgedStays ==
  ASSUME StorageIInv, [StorageNext]_storageVars, NEW a \in Audio, availability[a] = "purged"
  PROVE  availability'[a] = "purged"
<1> USE AudioFacts
<1>1. CASE SourceNext \/ ScriptNext \/ UNCHANGED storageVars
  BY <1>1, SourceStep, ScriptStep DEF storageVars, audioVars
<1>2. CASE Crash \/ Start \/ Serve
  BY <1>2 DEF Crash, Start, Serve, audioVars
<1>3. CASE MissCache
  BY <1>3 DEF MissCache, AudioTypeOK
<1>4. ASSUME NEW b \in Audio,
             \/ StageAudio(b) \/ DropAudio(b) \/ PlaceAudio(b) \/ PublishAudio(b)
             \/ AbortAudio(b) \/ LoseAudio(b) \/ StartAudio(b)
      PROVE  availability'[a] = "purged"
  BY <1>4 DEF StageAudio, DropAudio, PlaceAudio, PublishAudio, AbortAudio, LoseAudio, StartAudio,
              WorkerOK, AudioTypeOK
<1>5. ASSUME NEW c \in Clear, BeginClear(c) \/ AbortClear(c) \/ EndClear(c)
      PROVE  availability'[a] = "purged"
  BY <1>5 DEF BeginClear, AbortClear, EndClear
<1>6. ASSUME NEW c \in Clear, CommitClear(c) PROVE availability'[a] = "purged"
  <2>1. a \notin clearing[c].quarantined
    BY <1>6 DEF CommitClear, ClearingOK
  <2>. QED BY <1>6, <2>1 DEF CommitClear
<1>7. ASSUME NEW c \in Clear, NEW b \in Audio,
             ClearOne(c, b) \/ DeleteTombstone(c, b) \/ RestoreAudio(c, b)
      PROVE  availability'[a] = "purged"
  BY <1>7 DEF ClearOne, DeleteTombstone, RestoreAudio
<1>. QED BY <1>1, <1>2, <1>3, <1>4, <1>5, <1>6, <1>7 DEF StorageNext, AudioNext

(* What a step does to the record of a clearing: it stays or shrinks in    *)
(* its phase, begins or ends, or its transaction ends.                     *)
LEMMA ClearingSteps ==
  ASSUME StorageIInv, [StorageNext]_storageVars, NEW c \in Clear,
         clearing'[c].then \in {"delete", "restore"}
  PROVE  \/ /\ clearing[c].then = clearing'[c].then
            /\ clearing'[c].renamed \subseteq clearing[c].renamed
         \/ AbortClear(c) /\ clearing'[c].then = "restore"
         \/ CommitClear(c) /\ clearing'[c].then = "delete"
<1> USE AudioFacts
<1>1. CASE SourceNext \/ ScriptNext \/ UNCHANGED storageVars
  BY <1>1, SourceStep, ScriptStep DEF storageVars, audioVars
<1>2. CASE Crash \/ Start \/ Serve
  BY <1>2 DEF Crash, Start, Serve, audioVars, NoClear
<1>3. CASE MissCache
  BY <1>3 DEF MissCache
<1>4. ASSUME NEW b \in Audio,
             \/ StageAudio(b) \/ DropAudio(b) \/ PlaceAudio(b) \/ PublishAudio(b)
             \/ AbortAudio(b) \/ LoseAudio(b) \/ StartAudio(b)
      PROVE  UNCHANGED clearing
  BY <1>4 DEF StageAudio, DropAudio, PlaceAudio, PublishAudio, AbortAudio, LoseAudio, StartAudio
<1>5. ASSUME NEW d \in Clear, BeginClear(d) \/ EndClear(d), c = d PROVE FALSE
  BY <1>5, RecordBegins, RecordEnds
<1>6. ASSUME NEW d \in Clear, CommitClear(d) \/ AbortClear(d), c = d
      PROVE  \/ AbortClear(c) /\ clearing'[c].then = "restore"
             \/ CommitClear(c) /\ clearing'[c].then = "delete"
  BY <1>6, RecordSettles
<1>7. ASSUME NEW d \in Clear, NEW b \in Audio, ClearOne(d, b), c = d PROVE FALSE
  BY <1>7 DEF ClearOne, ClearingOK, AudioTypeOK, Clearing
<1>8. ASSUME NEW d \in Clear, NEW b \in Audio, DeleteTombstone(d, b) \/ RestoreAudio(d, b), c = d
      PROVE  /\ clearing[c].then = clearing'[c].then
             /\ clearing'[c].renamed \subseteq clearing[c].renamed
  BY <1>8 DEF DeleteTombstone, RestoreAudio, AudioTypeOK, Clearing
<1>9. ASSUME NEW d \in Clear, c # d,
             \/ BeginClear(d) \/ CommitClear(d) \/ AbortClear(d) \/ EndClear(d)
             \/ \E b \in Audio : ClearOne(d, b) \/ DeleteTombstone(d, b) \/ RestoreAudio(d, b)
      PROVE  clearing'[c] = clearing[c]
  BY <1>9 DEF BeginClear, CommitClear, AbortClear, EndClear, ClearOne, DeleteTombstone,
              RestoreAudio, AudioTypeOK
<1>. QED BY <1>1, <1>2, <1>3, <1>4, <1>5, <1>6, <1>7, <1>8, <1>9 DEF StorageNext, AudioNext

LEMMA GoneStays ==
  ASSUME StorageIInv, [StorageNext]_storageVars, NEW a \in Audio, Gone(a)
  PROVE  Gone(a)'
<1>1. availability'[a] = "purged"
  BY PurgedStays DEF Gone
<1>2. a \notin audioFiles'
  BY FilesAppear DEF Gone
<1>3. ASSUME NEW c \in Clear, clearing'[c].then = "restore" PROVE a \notin clearing'[c].renamed
  <2>1. CASE clearing[c].then = "restore" /\ clearing'[c].renamed \subseteq clearing[c].renamed
    BY <2>1 DEF Gone
  <2>2. CASE AbortClear(c)
    <3>1. clearing'[c].renamed = clearing[c].renamed /\ clearing[c].then = "clear"
      BY <2>2, RecordSettles, AudioFacts DEF AbortClear, ClearingOK
    <3>. QED BY <3>1, AudioFacts DEF ClearingOK, Gone
  <2>. QED BY <1>3, <2>1, <2>2, ClearingSteps
<1>. QED BY <1>1, <1>2, <1>3 DEF Gone

LEMMA TakenStep ==
  ASSUME StorageIInv, Held, TakenIsGone, [StorageNext]_storageVars
  PROVE  TakenIsGone'
<1> SUFFICES ASSUME NEW c \in Clear, clearing'[c].then = "delete", NEW a \in clearing'[c].renamed
             PROVE  Gone(a)'
  BY DEF TakenIsGone
<1>1. CASE clearing[c].then = "delete" /\ clearing'[c].renamed \subseteq clearing[c].renamed
  <2>1. a \in Audio /\ Gone(a)
    BY <1>1, AudioFacts DEF TakenIsGone, AudioTypeOK, Clearing
  <2>. QED BY <2>1, GoneStays
<1>2. CASE CommitClear(c)
  <2>1. /\ clearing'[c].renamed = clearing[c].renamed /\ clearing[c].then = "clear"
        /\ \A d \in Clear : d # c => clearing'[d] = clearing[d]
        /\ UNCHANGED audioFiles
    BY <1>2, RecordSettles, AudioFacts DEF CommitClear, AudioTypeOK, ClearingOK
  <2>2. a \in Audio /\ a \in clearing[c].purged /\ a \in tombstones
    BY <2>1, AudioFacts DEF ClearingOK, AudioTypeOK, Clearing, Held
  <2>3. availability'[a] = "purged" /\ a \notin audioFiles'
    BY <1>2, <2>1, <2>2, AudioFacts DEF CommitClear, FilesOK
  <2>4. \A d \in Clear : d # c => a \notin clearing'[d].renamed
    BY <2>1 DEF Held
  <2>. QED BY <2>3, <2>4 DEF Gone
<1>. QED BY <1>1, <1>2, ClearingSteps

-----------------------------------------------------------------------------
(* The theorems.                                                           *)

THEOREM StorageInvariance == StorageSpec => []StorageIInv
<1>1. StorageInit => StorageIInv
  BY StorageStart
<1>2. StorageIInv /\ [StorageNext]_storageVars => StorageIInv'
  BY StorageStep
<1>. QED BY <1>1, <1>2, PTL DEF StorageSpec

(* Whatever uploads, scripts, generations and clearings interleave, also   *)
(* clearings that overlap, and wherever a file operation fails or the      *)
(* process dies: the bytes every row refers to are on the disk, in place   *)
(* or where the request or a start finds them, unless somebody deleted     *)
(* them by hand.                                                           *)
THEOREM BytesOfRows == StorageSpec => []RowsHaveTheirBytes
<1>. QED BY StorageInvariance, InvariantSuffices, PTL

(* What a clear_cache took away and committed never comes back, also when  *)
(* clearings overlap: two of them never have the same file to rename back, *)
(* and neither a rollback nor a start puts audio back in place whose row   *)
(* says that it was purged, unless a failed clearing had it before that.   *)
THEOREM ClearedStaysCleared == StorageSpec => PurgedAudioIsGone
<1> DEFINE GoneStay == \A a \in Audio : Gone(a) => Gone(a)'
<1>1. StorageInit => Held /\ TakenIsGone
  BY DEF StorageInit, Held, TakenIsGone, NoClear
<1>2. StorageIInv /\ Held /\ TakenIsGone /\ [StorageNext]_storageVars => Held' /\ TakenIsGone'
  BY HeldStep, TakenStep
<1>3. StorageIInv /\ [StorageNext]_storageVars => [GoneStay]_storageVars
  BY GoneStays
<1>4. StorageSpec => [][GoneStay]_storageVars
  <2> HIDE DEF GoneStay
  <2>. QED BY <1>3, StorageInvariance, PTL DEF StorageSpec
<1>5. StorageSpec => []TakenIsGone
  BY <1>1, <1>2, StorageInvariance, PTL DEF StorageSpec
<1>. QED BY <1>4, <1>5 DEF PurgedAudioIsGone, TakenIsGone
=============================================================================
