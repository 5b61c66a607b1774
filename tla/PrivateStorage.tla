--------------------------- MODULE PrivateStorage ---------------------------
(* The private files that rows of the database refer to: the bytes of an    *)
(* imported document (projects.py), the text of an audition script and the  *)
(* audio of an audition (audition_repository.py).  A file and its row never *)
(* change in one step, and each kind has its own order:                     *)
(*                                                                          *)
(*   source  staged; moved to its place, which its bytes name; row          *)
(*   script  staged and row in one transaction; moved to its place after    *)
(*   audio   staged; moved to its place and row in one transaction; cleared *)
(*           by a tombstone and row in one transaction, deleted after       *)
(*                                                                          *)
(* Requests run on threads of their own, generations on the one worker,     *)
(* uploads on the event loop.  Every file operation may fail, the process   *)
(* may die between any two steps, also while a start sorts the files out,   *)
(* and somebody outside may delete audio.                                   *)
EXTENDS Naturals

CONSTANTS
  Upload,       \* requests that import a document
  Content,      \* what documents contain, and so the names of their files
  Script,       \* requests that create a script
  Audio,        \* artifacts that generations make
  Clear,        \* requests that clear the cache
  MaxFaults     \* bound on crashes, failed operations and outside deletions

ASSUME StorageAssumption ==
  /\ MaxFaults \in Nat
  /\ Script \cap Audio = {} /\ Script \cap Clear = {} /\ Audio \cap Clear = {}
  /\ "nobody" \notin Script \cup Audio \cup Clear
  /\ Content \cap {"new", "left", "ended"} = {}

VARIABLES
  phase,        \* "serving", "starting" or "down"
  writer,       \* who holds the database's write transaction
  uploads,      \* what each upload has staged, or where it is
  archive,      \* the upload that holds the archive lock, and if it moved its file
  sourceFiles, sourceRows,
  scriptStaging, scriptFiles, scriptRows,
  finalizing,   \* scripts whose row is committed and whose file is still staged
  worker,       \* the artifact the worker works on
  audioStaging, audioFiles, tombstones,
  availability, \* of the row of each artifact, "none" without a row
  cache,        \* artifact and state of the one cache record, for one cache key
  clearing,     \* what each clear request still has to do with its files
  lost,         \* audio that somebody deleted from outside
  faults

sourceVars  == <<uploads, archive, sourceFiles, sourceRows>>
scriptVars  == <<scriptStaging, scriptFiles, scriptRows, finalizing>>
audioVars   == <<worker, audioStaging, audioFiles, tombstones, availability, cache,
                 clearing, lost>>
storageVars == <<phase, writer, faults, sourceVars, scriptVars, audioVars>>

Nobody == "nobody"
NoClear == [todo |-> {}, renamed |-> {}, purged |-> {}, quarantined |-> {}, then |-> "idle"]

Serving == phase = "serving"
Free    == Serving /\ writer = Nobody

Fault == faults < MaxFaults /\ faults' = faults + 1

----------------------------------------------------------------------------
(* Imported documents: StoryImportService.import_upload.                    *)

StageUpload(u, b) ==
  /\ Serving /\ uploads[u] = "new"
  /\ uploads' = [uploads EXCEPT ![u] = b]
  /\ UNCHANGED <<phase, writer, faults, archive, sourceFiles, sourceRows, scriptVars, audioVars>>

\* Under the lock: a document that is there already is verified, a new one is
\* moved to its place.
Archive(u) ==
  /\ Serving /\ uploads[u] \in Content /\ archive = <<>>
  /\ uploads[u] \in sourceRows => uploads[u] \in sourceFiles
  /\ archive' = [v \in {u} |-> uploads[u] \notin sourceRows \cup sourceFiles]
  /\ sourceFiles' = sourceFiles \cup {uploads[u]}
  /\ UNCHANGED <<phase, writer, faults, uploads, sourceRows, scriptVars, audioVars>>

Leave(u) ==
  /\ archive' = [v \in DOMAIN archive \ {u} |-> archive[v]]
  /\ uploads' = [uploads EXCEPT ![u] = "ended"]

\* create_pending_import commits, still under the lock.
RecordSource(u) ==
  /\ Free /\ u \in DOMAIN archive
  /\ sourceRows' = sourceRows \cup {uploads[u]} /\ Leave(u)
  /\ UNCHANGED <<phase, writer, faults, sourceFiles, scriptVars, audioVars>>

\* It fails, and _remove_unreferenced_source takes back what the upload moved.
\* What cannot be deleted stays, and is found by the next upload of the bytes.
RecordFails(u) ==
  /\ Free /\ u \in DOMAIN archive /\ Fault /\ Leave(u)
  /\ \/ archive[u] /\ uploads[u] \notin sourceRows
        /\ sourceFiles' = sourceFiles \ {uploads[u]}
     \/ UNCHANGED sourceFiles
  /\ UNCHANGED <<phase, writer, sourceRows, scriptVars, audioVars>>

\* Too large, empty, of an unknown format, or not what its row says.
RejectUpload(u) ==
  /\ Serving /\ uploads[u] \in Content /\ u \notin DOMAIN archive
  /\ uploads' = [uploads EXCEPT ![u] = "ended"]
  /\ UNCHANGED <<phase, writer, faults, archive, sourceFiles, sourceRows, scriptVars, audioVars>>

----------------------------------------------------------------------------
(* Scripts: create_script and _PendingScriptPublication.                    *)

StageScript(s) ==
  /\ Free /\ s \notin scriptRows \cup scriptStaging
  /\ writer' = s /\ scriptStaging' = scriptStaging \cup {s}
  /\ UNCHANGED <<phase, faults, sourceVars, scriptFiles, scriptRows, finalizing, audioVars>>

CommitScript(s) ==
  /\ Serving /\ writer = s
  /\ writer' = Nobody /\ scriptRows' = scriptRows \cup {s} /\ finalizing' = finalizing \cup {s}
  /\ UNCHANGED <<phase, faults, sourceVars, scriptStaging, scriptFiles, audioVars>>

\* The transaction fails, and _script_storage_session discards the file if it
\* can be deleted.
AbortScript(s) ==
  /\ Serving /\ writer = s /\ Fault
  /\ writer' = Nobody /\ scriptStaging' \in {scriptStaging, scriptStaging \ {s}}
  /\ UNCHANGED <<phase, sourceVars, scriptFiles, scriptRows, finalizing, audioVars>>

FinalizeScript(s) ==
  /\ Serving /\ s \in finalizing
  /\ finalizing' = finalizing \ {s}
  /\ scriptStaging' = scriptStaging \ {s} /\ scriptFiles' = scriptFiles \cup {s}
  /\ UNCHANGED <<phase, writer, faults, sourceVars, scriptRows, audioVars>>

\* "Finalization is pending safe recovery": the next start moves the file.
FinalizeFails(s) ==
  /\ Serving /\ s \in finalizing /\ Fault
  /\ finalizing' = finalizing \ {s}
  /\ UNCHANGED <<phase, writer, sourceVars, scriptStaging, scriptFiles, scriptRows, audioVars>>

----------------------------------------------------------------------------
(* Audio: what a generation makes, and what the cache keeps of it.          *)

Readable(a) == a \in audioFiles

\* The artifact of the cache is verified before it is used again: the row is
\* told when it cannot be read, because it is missing or for another reason.
MissCache ==
  /\ Free /\ cache.state = "verified"
  /\ \/ ~Readable(cache.artifact) /\ UNCHANGED faults
     \/ Fault
  /\ cache' = [cache EXCEPT !.state = "missing"]
  /\ availability' = [availability EXCEPT ![cache.artifact] =
                        IF @ = "present" THEN "corrupt" ELSE @]
  /\ UNCHANGED <<phase, writer, sourceVars, scriptVars, worker, audioStaging, audioFiles,
                 tombstones, clearing, lost>>

\* _prepare_audio_file, when the cache does not have it.
StageAudio(a) ==
  /\ Serving /\ worker = Nobody /\ cache.state # "verified"
  /\ availability[a] = "none" /\ a \notin audioStaging \cup audioFiles
  /\ worker' = a /\ audioStaging' = audioStaging \cup {a}
  /\ UNCHANGED <<phase, writer, faults, sourceVars, scriptVars, audioFiles, tombstones,
                 availability, cache, clearing, lost>>

\* The measurement refuses it, the job is cancelled, or something else fails
\* before the publication; the file is deleted if it can be.
DropAudio(a) ==
  /\ Serving /\ worker = a /\ writer # a
  /\ worker' = Nobody
  /\ \/ audioStaging' = audioStaging \ {a} /\ UNCHANGED faults
     \/ Fault /\ UNCHANGED audioStaging
  /\ UNCHANGED <<phase, writer, sourceVars, scriptVars, audioFiles, tombstones, availability,
                 cache, clearing, lost>>

\* publish_generation_result, in the queue's final transaction.
PlaceAudio(a) ==
  /\ Free /\ worker = a
  /\ writer' = a /\ audioStaging' = audioStaging \ {a} /\ audioFiles' = audioFiles \cup {a}
  /\ UNCHANGED <<phase, faults, sourceVars, scriptVars, worker, tombstones, availability,
                 cache, clearing, lost>>

\* The cache record of the key is the new artifact's, whatever it was.
PublishAudio(a) ==
  /\ Serving /\ writer = a /\ worker = a
  /\ writer' = Nobody /\ worker' = Nobody
  /\ availability' = [availability EXCEPT ![a] = "present"]
  /\ cache' = [artifact |-> a, state |-> "verified"]
  /\ UNCHANGED <<phase, faults, sourceVars, scriptVars, audioStaging, audioFiles, tombstones,
                 clearing, lost>>

\* The transaction fails: what it placed is deleted if it can be.
AbortAudio(a) ==
  /\ Serving /\ writer = a /\ worker = a /\ Fault
  /\ writer' = Nobody /\ worker' = Nobody
  /\ audioFiles' \in {audioFiles, audioFiles \ {a}}
  /\ UNCHANGED <<phase, sourceVars, scriptVars, audioStaging, tombstones, availability, cache,
                 clearing, lost>>

----------------------------------------------------------------------------
(* clear_cache: each file becomes a tombstone and its row "purged" in one   *)
(* transaction; then the tombstones are deleted, or become files again.     *)

BeginClear(c) ==
  /\ Free /\ clearing[c] = NoClear
  /\ cache.state \notin {"none", "cleared"}
  /\ writer' = c
  /\ clearing' = [clearing EXCEPT ![c] =
       [NoClear EXCEPT !.then = "clear",
                       !.todo = {a \in {cache.artifact} : availability[a] # "purged"}]]
  /\ UNCHANGED <<phase, faults, sourceVars, scriptVars, worker, audioStaging, audioFiles,
                 tombstones, availability, cache, lost>>

\* A file that can be verified is renamed; one that is missing has nothing to
\* purge, and one that cannot be verified is left alone and not trusted.
ClearOne(c, a) ==
  /\ Serving /\ writer = c /\ a \in clearing[c].todo
  /\ \/ /\ a \in audioFiles
        /\ audioFiles' = audioFiles \ {a} /\ tombstones' = tombstones \cup {a}
        /\ clearing' = [clearing EXCEPT ![c].todo = @ \ {a}, ![c].renamed = @ \cup {a},
                                        ![c].purged = @ \cup {a}]
        /\ UNCHANGED faults
     \/ /\ a \notin audioFiles
        /\ clearing' = [clearing EXCEPT ![c].todo = @ \ {a}, ![c].purged = @ \cup {a}]
        /\ UNCHANGED <<faults, audioFiles, tombstones>>
     \/ /\ a \in audioFiles /\ Fault
        /\ clearing' = [clearing EXCEPT ![c].todo = @ \ {a}, ![c].quarantined = @ \cup {a}]
        /\ UNCHANGED <<audioFiles, tombstones>>
  /\ UNCHANGED <<phase, writer, sourceVars, scriptVars, worker, audioStaging, availability,
                 cache, lost>>

CommitClear(c) ==
  /\ Serving /\ writer = c /\ clearing[c].todo = {}
  /\ writer' = Nobody
  /\ availability' = [a \in Audio |-> IF a \in clearing[c].purged THEN "purged"
                                      ELSE IF a \in clearing[c].quarantined THEN "quarantined"
                                      ELSE availability[a]]
  /\ cache' = [cache EXCEPT !.state = "cleared"]
  /\ clearing' = [clearing EXCEPT ![c] = [NoClear EXCEPT !.then = "delete",
                                                         !.renamed = clearing[c].renamed]]
  /\ UNCHANGED <<phase, faults, sourceVars, scriptVars, worker, audioStaging, audioFiles,
                 tombstones, lost>>

\* A rename or the transaction fails.  The rows are back at once, and others
\* may write, before the files are.
AbortClear(c) ==
  /\ Serving /\ writer = c /\ Fault
  /\ writer' = Nobody
  /\ clearing' = [clearing EXCEPT ![c] = [NoClear EXCEPT !.then = "restore",
                                                         !.renamed = clearing[c].renamed]]
  /\ UNCHANGED <<phase, sourceVars, scriptVars, worker, audioStaging, audioFiles, tombstones,
                 availability, cache, lost>>

\* _compensate_cache_clear_files
DeleteTombstone(c, a) ==
  /\ Serving /\ clearing[c].then = "delete" /\ a \in clearing[c].renamed
  /\ tombstones' = tombstones \ {a}
  /\ clearing' = [clearing EXCEPT ![c].renamed = @ \ {a}]
  /\ UNCHANGED <<phase, writer, faults, sourceVars, scriptVars, worker, audioStaging,
                 audioFiles, availability, cache, lost>>

RestoreAudio(c, a) ==
  /\ Serving /\ clearing[c].then = "restore" /\ a \in clearing[c].renamed
  /\ a \notin audioFiles
  /\ tombstones' = tombstones \ {a} /\ audioFiles' = audioFiles \cup {a}
  /\ clearing' = [clearing EXCEPT ![c].renamed = @ \ {a}]
  /\ UNCHANGED <<phase, writer, faults, sourceVars, scriptVars, worker, audioStaging,
                 availability, cache, lost>>

\* All done, or one file operation failed and the rest waits for a start.
EndClear(c) ==
  /\ Serving /\ clearing[c].then \in {"delete", "restore"}
  /\ IF clearing[c].renamed = {} THEN UNCHANGED faults ELSE Fault
  /\ clearing' = [clearing EXCEPT ![c] = NoClear]
  /\ UNCHANGED <<phase, writer, sourceVars, scriptVars, worker, audioStaging, audioFiles,
                 tombstones, availability, cache, lost>>

\* Somebody deletes audio by hand.
LoseAudio(a) ==
  /\ a \in audioFiles /\ writer = Nobody /\ Fault
  /\ audioFiles' = audioFiles \ {a} /\ lost' = lost \cup {a}
  /\ UNCHANGED <<phase, writer, sourceVars, scriptVars, worker, audioStaging, tombstones,
                 availability, cache, clearing>>

----------------------------------------------------------------------------
(* The process dies, and the next one sorts the files out before it serves. *)

Crash ==
  /\ phase \in {"serving", "starting"} /\ Fault
  /\ phase' = "down" /\ writer' = Nobody
  /\ archive' = <<>> /\ finalizing' = {} /\ worker' = Nobody
  /\ uploads' = [u \in Upload |-> IF uploads[u] \in Content THEN "left" ELSE uploads[u]]
  /\ clearing' = [c \in Clear |-> NoClear]
  /\ UNCHANGED <<sourceFiles, sourceRows, scriptStaging, scriptFiles, scriptRows,
                 audioStaging, audioFiles, tombstones, availability, cache, lost>>

\* reconcile_staging: an upload that nobody finishes is deleted.
Start ==
  /\ phase = "down" /\ phase' = "starting"
  /\ uploads' = [u \in Upload |-> IF uploads[u] = "left" THEN "ended" ELSE uploads[u]]
  /\ UNCHANGED <<writer, faults, archive, sourceFiles, sourceRows, scriptVars, audioVars>>

\* (Mutant: what is staged is deleted, as for uploads.)
StartDiscardsScript(s) ==
  /\ phase = "starting" /\ s \in scriptStaging
  /\ scriptStaging' = scriptStaging \ {s}
  /\ UNCHANGED <<phase, writer, faults, sourceVars, scriptFiles, scriptRows, finalizing, audioVars>>

\* _reconcile_script_storage, one staged file: deleted without a row or beside
\* the moved file, else moved.
StartScript(s) ==
  /\ phase = "starting" /\ s \in scriptStaging
  /\ scriptStaging' = scriptStaging \ {s}
  /\ scriptFiles' = IF s \in scriptRows THEN scriptFiles \cup {s} ELSE scriptFiles
  /\ UNCHANGED <<phase, writer, faults, sourceVars, scriptRows, finalizing, audioVars>>

ScriptsSorted == scriptStaging = {} /\ scriptRows \subseteq scriptFiles

\* (Mutant: every tombstone is a file that somebody wanted to keep.)
StartRestoresAudio(a) ==
  /\ phase = "starting" /\ ScriptsSorted
  /\ audioStaging' = audioStaging \ {a}
  /\ tombstones' = tombstones \ {a}
  /\ audioFiles' = IF a \in tombstones THEN audioFiles \cup {a} ELSE audioFiles
  /\ UNCHANGED <<phase, writer, faults, sourceVars, scriptVars, worker, availability, cache,
                 clearing, lost>>

\* _reconcile_audio_storage, the files of one artifact: what is staged and
\* what no row knows is deleted, a tombstone unless its row is not purged.
\* (The start is refused, here and for scripts, where RowsHaveTheirBytes fails.)
StartAudio(a) ==
  /\ phase = "starting" /\ ScriptsSorted
  /\ audioStaging' = audioStaging \ {a}
  /\ tombstones' = tombstones \ {a}
  /\ audioFiles' =
       IF a \in tombstones /\ availability[a] \notin {"none", "purged"} THEN audioFiles \cup {a}
       ELSE IF availability[a] = "none" THEN audioFiles \ {a} ELSE audioFiles
  /\ UNCHANGED <<phase, writer, faults, sourceVars, scriptVars, worker, availability, cache,
                 clearing, lost>>

AudioSorted ==
  /\ audioStaging = {} /\ tombstones = {}
  /\ \A a \in audioFiles : availability[a] # "none"

\* The rows are told last, of the audio that is missing.
Serve ==
  /\ phase = "starting" /\ ScriptsSorted /\ AudioSorted
  /\ phase' = "serving"
  /\ availability' = [a \in Audio |-> IF availability[a] = "present" /\ ~Readable(a)
                                      THEN "corrupt" ELSE availability[a]]
  /\ UNCHANGED <<writer, faults, sourceVars, scriptVars, worker, audioStaging, audioFiles,
                 tombstones, cache, clearing, lost>>

----------------------------------------------------------------------------

StorageInit ==
  /\ phase = "serving" /\ writer = Nobody /\ faults = 0
  /\ uploads = [u \in Upload |-> "new"] /\ archive = <<>>
  /\ sourceFiles = {} /\ sourceRows = {}
  /\ scriptStaging = {} /\ scriptFiles = {} /\ scriptRows = {} /\ finalizing = {}
  /\ worker = Nobody /\ audioStaging = {} /\ audioFiles = {} /\ tombstones = {}
  /\ availability = [a \in Audio |-> "none"]
  /\ cache = [artifact |-> Nobody, state |-> "none"]
  /\ clearing = [c \in Clear |-> NoClear] /\ lost = {}

SourceNext ==
  \E u \in Upload :
    \/ \E b \in Content : StageUpload(u, b)
    \/ Archive(u) \/ RecordSource(u) \/ RecordFails(u) \/ RejectUpload(u)

ScriptNext ==
  \E s \in Script :
    \/ StageScript(s) \/ CommitScript(s) \/ AbortScript(s)
    \/ FinalizeScript(s) \/ FinalizeFails(s) \/ StartScript(s)

AudioNext ==
  \/ MissCache
  \/ \E a \in Audio :
       \/ StageAudio(a) \/ DropAudio(a) \/ PlaceAudio(a) \/ PublishAudio(a) \/ AbortAudio(a)
       \/ LoseAudio(a) \/ StartAudio(a)
  \/ \E c \in Clear :
       \/ BeginClear(c) \/ CommitClear(c) \/ AbortClear(c) \/ EndClear(c)
       \/ \E a \in Audio : ClearOne(c, a) \/ DeleteTombstone(c, a) \/ RestoreAudio(c, a)

StorageNext ==
  \/ SourceNext \/ ScriptNext \/ AudioNext
  \/ Crash \/ Start \/ Serve

StorageSpec == StorageInit /\ [][StorageNext]_storageVars

----------------------------------------------------------------------------
(* Properties                                                               *)

\* What the database refers to is on the disk: a document under its name, the
\* text of a script staged or in place, and audio in place or as a tombstone
\* that a start or the request itself puts back, unless somebody deleted it.
\* And no start finds what it refuses to sort out: a text that is nowhere, or a
\* tombstone beside the file of a row that is not purged.
RowsHaveTheirBytes ==
  /\ sourceRows \subseteq sourceFiles
  /\ scriptRows \subseteq scriptStaging \cup scriptFiles
  /\ {a \in Audio : availability[a] = "present"} \subseteq audioFiles \cup tombstones \cup lost
  /\ phase = "starting" => \A a \in tombstones \cap audioFiles : availability[a] = "purged"

\* The row says that the audio was removed, its file is away, and no clearing
\* that failed still has it to rename back.
Gone(a) ==
  /\ availability[a] = "purged" /\ a \notin audioFiles
  /\ \A c \in Clear : clearing[c].then = "restore" => a \notin clearing[c].renamed

\* What a clearing itself took away and committed is gone, and what is gone never
\* comes back: not by the rollback of another clearing that overlaps, a crash, a
\* deletion that fails, or a start that finds the tombstone.  (What a clearing
\* found missing while another one had it does come back when that one fails.)
PurgedAudioIsGone ==
  /\ [](\A c \in Clear : clearing[c].then = "delete" => \A a \in clearing[c].renamed : Gone(a))
  /\ [][\A a \in Audio : Gone(a) => Gone(a)']_storageVars

\* What one would say of a row that is purged, and the code does not keep when
\* clearings overlap (README): its file, once away, stays away.
PurgedStaysAway ==
  [][\A a \in Audio :
       availability[a] = "purged" /\ a \notin audioFiles => a \notin audioFiles']_storageVars
=============================================================================
