---------------------------- MODULE ModelPackages ----------------------------
(***************************************************************************)
(* The managed speech model package: its directory, the directories set    *)
(* aside while it is repaired or removed, the active marker, and the       *)
(* installation row, which requests under one lock change in an order of   *)
(* file operations and one transaction (model_packages.py and the model    *)
(* actions of audition_repository.py).  Between any two of them the        *)
(* service may die; a file operation or the transaction may fail.          *)
(*                                                                         *)
(* The bytes of a directory are abstracted to whether they are exactly     *)
(* those of the manifest.  A request with a stale revision, or with a key  *)
(* that was used, changes nothing and is left out, and so are a request's  *)
(* own staging directories, whose names nobody else reads.                 *)
(***************************************************************************)
EXTENDS Naturals, FiniteSets

CONSTANTS Tomb,       \* names of directories set aside for removal
          MaxFaults   \* bound: crashes, failing operations, outside damage

ASSUME FaultAssumption == MaxFaults \in Nat
ASSUME TombAssumption ==
  /\ IsFiniteSet(Tomb) /\ Cardinality(Tomb) > MaxFaults
  /\ "none" \notin Tomb /\ "nothing" \notin Tomb

VARIABLES
  service,   \* down or up
  refused,   \* why the last start failed its reconciliation
  place,     \* the bytes at the package's path
  tomb,      \* tomb[t]: the bytes of .removing-<fingerprint>-<t>.pending
  spare,     \* the bytes a running repair set aside in .backup-...
  leftover,  \* an exact package is in a .backup-... that no repair owns
  marker,    \* state/active.json exists
  row,       \* the state of the newest installation row
  checked,   \* the outcome of the newest verification row
  work,      \* an unfinished or retryable audition job needs the installation
  op,        \* the request that holds _model_action_lock
  faults,
  caveat     \* history: what happened that the recovery does not cover

files == <<place, tomb, spare, leftover, marker>>
rows  == <<row, checked, work>>
vars  == <<service, refused, files, rows, op, faults, caveat>>

Idle == [kind |-> "none", step |-> "none", note |-> "none"]

Init ==
  /\ service = "down" /\ refused = "no"
  /\ place = "absent" /\ tomb = [t \in Tomb |-> "absent"] /\ spare = "absent" /\ leftover = FALSE
  /\ marker = FALSE
  /\ row = "none" /\ checked = "none" /\ work = FALSE
  /\ op = Idle
  /\ faults = 0 /\ caveat = {}

Present(c) == c # "absent"
Pending == {t \in Tomb : Present(tomb[t])}

Go(step) == op' = [op EXCEPT !.step = step]
Finish == op' = Idle
Keep(note, step) == op' = [op EXCEPT !.note = note, !.step = step]

Fault == faults < MaxFaults /\ faults' = faults + 1
NoFault == UNCHANGED <<faults, caveat>>
At(kinds, step) == op.kind \in kinds /\ op.step = step

----------------------------------------------------------------------------
(* A request begins: what the first, reading transaction admits. *)

\* mutation: a removal does not ask for dependent jobs.
InactiveOnly == row = "inactive"

\* A removal needs an installation that no unfinished or retryable job needs.
MayRemove == row = "inactive" /\ ~work

MayBegin(kind) ==
  CASE kind = "install"    -> row \in {"none", "removed"}
    [] kind = "repair"     -> row \in {"installed", "inactive", "repair_required"}
    [] kind = "verify"     -> row # "removed"
    [] kind = "activate"   -> checked = "verified" /\ row \in {"installed", "inactive", "active"}
    [] kind = "deactivate" -> row = "active"
    [] kind = "remove"     -> MayRemove

Kinds == {"install", "repair", "verify", "activate", "deactivate", "remove"}

Begin(kind) ==
  /\ service = "up" /\ op = Idle
  /\ MayBegin(kind)
  /\ op' = [kind |-> kind, step |-> "files", note |-> "none"]
  /\ UNCHANGED <<service, refused, files, rows>> /\ NoFault

----------------------------------------------------------------------------
(* File operations of a request *)

\* install, and repair of a missing package: a package that is there is kept
\* if it is exact and refused if not; the archive is copied and verified.
Install ==
  /\ At({"install"}, "files") \/ (At({"repair"}, "files") /\ ~Present(place))
  /\ \/ place = "exact" /\ Go("persist")
     \/ place = "wrong" /\ Finish
     \/ ~Present(place) /\ (Finish \/ Go("publish"))   \* a bad or a good archive
  /\ UNCHANGED <<service, refused, files, rows>> /\ NoFault

PublishPackage ==
  /\ op.step = "publish"
  /\ place' = "exact"
  /\ Go("check")
  /\ UNCHANGED <<service, refused, tomb, spare, leftover, marker, rows>> /\ NoFault

\* What was published is verified; it stays where it is in any case.
CheckPublished ==
  /\ op.step = "check"
  /\ IF place = "exact" THEN Go("persist") ELSE Finish
  /\ UNCHANGED <<service, refused, files, rows>> /\ NoFault

\* mutation: the package in place is deleted instead of set aside.
DeleteInPlace ==
  /\ At({"repair"}, "files") /\ Present(place)
  /\ place' = "absent" /\ Go("swap")
  /\ UNCHANGED <<service, refused, tomb, spare, leftover, marker, rows>> /\ NoFault

\* repair: with a verified copy of the archive, the package is set aside.
SetAside ==
  /\ At({"repair"}, "files") /\ Present(place)
  /\ \/ Finish /\ UNCHANGED files
     \/ spare' = place /\ place' = "absent" /\ Go("swap") /\ UNCHANGED <<tomb, leftover, marker>>
  /\ UNCHANGED <<service, refused, rows>> /\ NoFault

Swap ==
  /\ op.step = "swap"
  /\ place' = "exact"
  /\ Go("drop")
  /\ UNCHANGED <<service, refused, tomb, spare, leftover, marker, rows>> /\ NoFault

\* The copy cannot be moved: what was there is put back, if that works.
SwapFails ==
  /\ op.step = "swap"
  /\ Fault
  /\ \/ place' = spare /\ UNCHANGED <<leftover, caveat>>
     \/ /\ leftover' = (leftover \/ spare = "exact")
        /\ caveat' = caveat \cup {"repair cut short"}
        /\ UNCHANGED place
  /\ spare' = "absent"
  /\ Finish
  /\ UNCHANGED <<service, refused, tomb, marker, rows>>

\* The copy in place is verified again before the package aside is deleted.
DropSpare ==
  /\ op.step = "drop"
  /\ IF place = "exact"
     THEN Go("persist") /\ UNCHANGED place
     ELSE place' = spare /\ Finish
  /\ spare' = "absent"
  /\ UNCHANGED <<service, refused, tomb, leftover, marker, rows>> /\ NoFault

\* Deleting one of the two directories fails; the other one is lost if the
\* copy in place is the wrong one (the finally block of repair).
DropFails ==
  /\ op.step = "drop" /\ Present(place)
  /\ Fault
  /\ spare' = "absent"
  /\ Finish
  /\ UNCHANGED <<service, refused, place, tomb, leftover, marker, rows, caveat>>

VerifyPackage ==
  /\ At({"verify"}, "files")
  /\ Keep(IF place = "exact" THEN "verified" ELSE "failed", "persist")
  /\ UNCHANGED <<service, refused, files, rows>> /\ NoFault

\* activate and deactivate change the marker before the rows.
Activate ==
  /\ At({"activate"}, "files")
  /\ IF place = "exact"
     THEN marker' = TRUE /\ Keep(IF row = "active" THEN "was_active" ELSE "was_inactive", "persist")
     ELSE Finish /\ UNCHANGED marker
  /\ UNCHANGED <<service, refused, place, tomb, spare, leftover, rows>> /\ NoFault

Deactivate ==
  /\ At({"deactivate"}, "files")
  /\ marker' = FALSE
  /\ Keep("was_active", "persist")
  /\ UNCHANGED <<service, refused, place, tomb, spare, leftover, rows>> /\ NoFault

\* stage_remove: refused for the active package; a missing one needs nothing.
FreshTomb == CHOOSE t \in Tomb : ~Present(tomb[t])
StageRemove ==
  /\ Pending # Tomb
  /\ tomb' = [tomb EXCEPT ![FreshTomb] = place]
  /\ place' = "absent"
  /\ op' = [op EXCEPT !.note = FreshTomb,
                      !.step = IF op.kind = "remove" THEN "persist" ELSE "delete"]

Remove ==
  /\ At({"remove"}, "files")
  /\ \/ marker /\ Finish /\ UNCHANGED files
     \/ ~marker /\ ~Present(place) /\ Keep("nothing", "persist") /\ UNCHANGED files
     \/ /\ ~marker /\ Present(place)
        /\ StageRemove
        /\ UNCHANGED <<spare, leftover, marker>>
  /\ UNCHANGED <<service, refused, rows>> /\ NoFault

----------------------------------------------------------------------------
(* The transaction, what compensates for its failure, what follows it *)

NextRow ==
  CASE op.kind \in {"install", "repair"} -> "installed"
    [] op.kind = "verify" -> IF op.note = "failed" THEN "repair_required"
                             ELSE IF row = "active" THEN "active" ELSE "installed"
    [] op.kind = "activate" -> "active"
    [] op.kind = "deactivate" -> "inactive"
    [] op.kind = "remove" -> "removed"

\* mutation: the directory set aside is left for the next start.
PersistOnly ==
  /\ op.step = "persist"
  /\ row' = NextRow
  /\ checked' = IF op.kind \in {"install", "repair"} THEN "verified" ELSE checked
  /\ Finish
  /\ UNCHANGED <<service, refused, files, work>> /\ NoFault

Persist ==
  /\ op.step = "persist"
  /\ row' = NextRow
  /\ checked' = CASE op.kind \in {"install", "repair"} -> "verified"
                  [] op.kind = "verify" -> op.note
                  [] OTHER -> checked
  /\ IF op.kind = "remove" /\ op.note \in Tomb THEN Go("delete") ELSE Finish
  /\ UNCHANGED <<service, refused, files, work>> /\ NoFault

\* The transaction fails: an install, a marker and a removal are undone.
PersistFails ==
  /\ op.step = "persist"
  /\ Fault
  /\ IF op.kind \in {"repair", "verify"} \/ op.note = "nothing" THEN Finish ELSE Go("undo")
  /\ UNCHANGED <<service, refused, files, rows, caveat>>

\* mutation: the undo of a removal forgets the directory that was set aside.
ForgetTomb ==
  /\ At({"remove"}, "undo")
  /\ Finish
  /\ UNCHANGED <<service, refused, files, rows>> /\ NoFault

\* rollback_staged_removal
PutBack ==
  /\ At({"remove"}, "undo")
  /\ ~Present(place)
  /\ place' = tomb[op.note]
  /\ tomb' = [tomb EXCEPT ![op.note] = "absent"]
  /\ Finish
  /\ UNCHANGED <<service, refused, spare, leftover, marker, rows>> /\ NoFault

\* _restore_managed_model_activation: activating again verifies again.
RestoreMarker ==
  /\ At({"activate", "deactivate"}, "undo")
  /\ marker' = (op.note = "was_active" /\ (place = "exact" \/ marker))
  /\ Finish
  /\ UNCHANGED <<service, refused, place, tomb, spare, leftover, rows>> /\ NoFault

\* _remove_uncommitted_model_installation: deactivate, then remove at once.
UndoInstall ==
  /\ At({"install"}, "undo")
  /\ marker' = FALSE
  /\ IF Present(place)
     THEN StageRemove
     ELSE Finish /\ UNCHANGED <<place, tomb>>
  /\ UNCHANGED <<service, refused, spare, leftover, rows>> /\ NoFault

\* An undo fails: what it would have restored stays as it is.
UndoFails ==
  /\ op.step = "undo"
  /\ Fault
  /\ caveat' = caveat \cup (IF op.kind = "remove" THEN {"not undone"} ELSE {})
  /\ Finish
  /\ UNCHANGED <<service, refused, files, rows>>

\* commit_staged_removal deletes file by file.
BeginDelete ==
  /\ op.step = "delete" /\ op.note \in Tomb
  /\ ~Present(place)
  /\ tomb' = [tomb EXCEPT ![op.note] = "wrong"]
  /\ Go("deleting")
  /\ UNCHANGED <<service, refused, place, spare, leftover, marker, rows>> /\ NoFault

Delete ==
  /\ op.step = "deleting"
  /\ tomb' = [tomb EXCEPT ![op.note] = "absent"]
  /\ Finish
  /\ UNCHANGED <<service, refused, place, spare, leftover, marker, rows>> /\ NoFault

DeleteFails ==
  /\ op.step \in {"delete", "deleting"}
  /\ Fault
  /\ caveat' = caveat \cup {"not deleted"}
  /\ Finish
  /\ UNCHANGED <<service, refused, files, rows>>

----------------------------------------------------------------------------
(* Start and end of the service *)

\* _reconcile_model_package_storage deletes or puts back one directory that
\* a removal set aside; a second one, or a package in the way, refuses.
Start ==
  /\ service = "down"
  /\ IF Cardinality(Pending) > 1 \/ (Pending # {} /\ Present(place))
     THEN refused' = "collision" /\ UNCHANGED <<service, place, tomb>>
     ELSE /\ service' = "up" /\ refused' = "no"
          /\ tomb' = [t \in Tomb |-> "absent"]
          /\ \/ (row = "removed" \/ Pending = {}) /\ UNCHANGED place
             \/ row # "removed" /\ \E t \in Pending : place' = tomb[t]
  /\ UNCHANGED <<spare, leftover, marker, rows, op>> /\ NoFault

\* The delete of the reconciliation stops half-way.
StartFails ==
  /\ service = "down" /\ Cardinality(Pending) = 1 /\ ~Present(place) /\ row = "removed"
  /\ Fault
  /\ refused' = "delete"
  /\ tomb' = [t \in Tomb |-> IF t \in Pending THEN "wrong" ELSE "absent"]
  /\ UNCHANGED <<service, place, spare, leftover, marker, rows, op, caveat>>

\* The model actions end before the service does, or it dies in one.
Stop ==
  /\ service = "up" /\ op = Idle
  /\ service' = "down"
  /\ UNCHANGED <<refused, files, rows, op>> /\ NoFault

Crash ==
  /\ service = "up" /\ op # Idle
  /\ Fault
  /\ service' = "down"
  /\ leftover' = (leftover \/ spare = "exact") /\ spare' = "absent"
  /\ op' = Idle
  /\ caveat' = caveat \cup
       (IF op.step = "swap" THEN {"repair cut short"}
        ELSE IF At({"install"}, "deleting") THEN {"not deleted"} ELSE {})
  /\ UNCHANGED <<refused, place, tomb, marker, rows>>

----------------------------------------------------------------------------
(* Around the requests *)

\* queue_generation needs the active, verified installation.
QueueWork ==
  /\ service = "up" /\ row = "active" /\ checked = "verified" /\ ~work
  /\ work' = TRUE
  /\ UNCHANGED <<service, refused, files, row, checked, op>> /\ NoFault

FinishWork ==
  /\ service = "up" /\ work
  /\ work' = FALSE
  /\ UNCHANGED <<service, refused, files, row, checked, op>> /\ NoFault

\* A disk or another program changes the package.
Damage ==
  /\ place = "exact"
  /\ Fault
  /\ place' \in {"wrong", "absent"}
  /\ caveat' = caveat \cup {"damage"}
  /\ UNCHANGED <<service, refused, tomb, spare, leftover, marker, rows, op>>

RequestStep ==
  \/ Install \/ PublishPackage \/ CheckPublished \/ SetAside \/ Swap \/ DropSpare \/ VerifyPackage
  \/ Activate \/ Deactivate \/ Remove \/ Persist \/ PutBack \/ RestoreMarker
  \/ UndoInstall \/ BeginDelete \/ Delete

Next ==
  \/ \E kind \in Kinds : Begin(kind)
  \/ RequestStep
  \/ SwapFails \/ DropFails \/ PersistFails \/ UndoFails \/ DeleteFails
  \/ Start \/ StartFails \/ Stop \/ Crash
  \/ QueueWork \/ FinishWork \/ Damage

Spec == Init /\ [][Next]_vars

----------------------------------------------------------------------------
(* Properties *)

Bytes == {"absent", "exact", "wrong"}
Installed == {"installed", "inactive", "active"}
Caveats == {"damage", "not undone", "not deleted", "repair cut short"}

\* Whatever crashed or failed: as long as nobody outside touched the bytes, an
\* installation that the rows list still has them somewhere on the disk.
BytesKept ==
  row \in Installed /\ "damage" \notin caveat
    => \/ place = "exact" \/ spare = "exact" \/ leftover
       \/ \E t \in Tomb : tomb[t] = "exact"

\* After a start and between requests, an installation that the rows list is
\* in its place, and what is there is exact, unless one of the named accidents
\* happened: a start resolves both commit windows of a removal and of an
\* undone install (audition_repository.py:1221-1260).
InstalledIsInPlace ==
  service = "up" /\ op = Idle /\ caveat = {}
    => /\ row \in Installed => place = "exact"
       /\ place # "wrong"

\* No unfinished or retryable audition job loses its installation: it may be
\* deactivated under the job, never removed (audition_repository.py:2201-2238).
WorkKeepsInstallation == work => row # "removed"

\* The service locks itself out only after deleting or putting back a package
\* failed before; then a package installed again is in the way of every start.
StartsUnlessCleanupFailed ==
  refused = "collision" => caveat \cap {"not undone", "not deleted"} # {}
=============================================================================
