-------------------------- MODULE DatabaseUpgrade --------------------------
(***************************************************************************)
(* Database.__init__ in database.py: services take the data-directory      *)
(* lock, inspect the schema they find, keep a verified backup of every     *)
(* older version and migrate it one version at a time.  Each transaction   *)
(* and each file operation is an action; between any two of them the       *)
(* process may die.  Around the services, older releases write to a        *)
(* database of their version and the operator restores or damages backups. *)
(*                                                                         *)
(* Rows are abstracted to a data value; a ledger row to the stamp it was   *)
(* written with (applied_at), so two migrations of one database never give *)
(* the same rows, which is what the logical digests tell apart.            *)
(***************************************************************************)
EXTENDS Naturals, Sequences

CONSTANTS Service,       \* processes that open the database
          NoService,     \* the lock is free
          Missing,       \* no backup of a version
          Damaged,       \* a backup file that fails its verification
          Latest,        \* _DATABASE_SCHEMA_VERSION
          MaxClock,      \* bound: writes and migrations
          MaxFaults      \* bound: crashes, failing operations, outside changes

ASSUME ServiceAssumption == NoService \notin Service
ASSUME LatestAssumption == Latest \in Nat \ {0}
ASSUME BoundsAssumption == MaxClock \in Nat \ {0} /\ MaxFaults \in Nat
ASSUME MarksAssumption == Missing # Damaged

VARIABLES
  db,        \* the database file
  backup,    \* backup[v]: the file <stem>.v<v>-backup<suffix>
  lock,      \* the holder of the data-directory lock
  pc,        \* where each service is
  at,        \* the schema version it works from (current_version)
  digest,    \* the source digest of the backup it is making
  temporary, \* its temporary copy, with a name no other process uses
  reason,    \* why its last start was refused
  clock,     \* the next time stamp or data value
  faults,
  touched,   \* history: something outside the services changed a file
  origin     \* history: origin[v], the rows a migration from v started with

process == <<pc, at, digest, temporary, reason>>
outside == <<clock, faults, touched>>
vars == <<db, backup, lock, process, outside, origin>>

Old     == 1 .. Latest - 1
NoRows  == <<>>

\* _logical_database_digest: equal for two files iff their rows are equal.
Rows(c) == <<c.version, c.ledger, c.data>>

\* mutation: versions that only an interrupted chain leaves are not known.
SupportedEnds == db.issued /\ db.version \in {0, 1, Latest}

\* user_version, ledger and schema signature name one issued version.
Supported == db.issued /\ db.version \in 0 .. Latest

Stamped(n) == [i \in 1 .. n |-> 0]

\* What the first start may find: no database, one of each release, or a file
\* of another program, an altered schema or a future version (not issued).
Init ==
  /\ db \in [version : 0 .. Latest + 1, ledger : {Stamped(n) : n \in 0 .. Latest + 1},
             data : {0}, issued : BOOLEAN, journal : {"delete"}]
  /\ Len(db.ledger) = db.version
  /\ db.version > Latest => ~db.issued
  /\ backup   = [v \in Old |-> Missing]
  /\ lock     = NoService
  /\ pc       = [p \in Service |-> "closed"]
  /\ at       = [p \in Service |-> 0]
  /\ digest   = [p \in Service |-> NoRows]
  /\ temporary = [p \in Service |-> NoRows]
  /\ reason   = [p \in Service |-> "none"]
  /\ clock    = 1
  /\ faults   = 0
  /\ touched  = FALSE
  /\ origin   = [v \in Old |-> Missing]

Go(p, where) == pc' = [pc EXCEPT ![p] = where]

\* The exception handler of __init__ disposes the engine and frees the lock.
Refuse(p, why) ==
  /\ Go(p, "closed")
  /\ reason' = [reason EXCEPT ![p] = why]
  /\ lock' = NoService

Fault == faults < MaxFaults /\ faults' = faults + 1 /\ UNCHANGED <<clock, touched>>

----------------------------------------------------------------------------
(* Opening *)

\* _DataDirectoryLock: one non-blocking attempt.
TakeLock(p) ==
  /\ pc[p] = "closed"
  /\ IF lock = NoService
     THEN /\ lock' = p
          /\ Go(p, "inspect")
          /\ reason' = [reason EXCEPT ![p] = "none"]
     ELSE /\ reason' = [reason EXCEPT ![p] = "locked"]
          /\ UNCHANGED <<lock, pc>>
  /\ UNCHANGED <<db, backup, at, digest, temporary, outside, origin>>

\* _initialize_schema up to its rollback: version, ledger and signature.
Inspect(p) ==
  /\ pc[p] = "inspect"
  /\ IF Supported
     THEN /\ at' = [at EXCEPT ![p] = db.version]
          /\ Go(p, IF db.version \in Old THEN "digest" ELSE "wal")
          /\ UNCHANGED <<reason, lock>>
     ELSE Refuse(p, "schema") /\ UNCHANGED at
  /\ UNCHANGED <<db, backup, digest, temporary, outside, origin>>

\* What follows the backup of a version: the first one turns on the journal.
AfterBackup == IF db.journal = "wal" THEN "migrate" ELSE "wal"

\* mutation: an existing backup is reused as it is.
CompareNothing(p) ==
  /\ pc[p] = "digest"
  /\ IF backup[at[p]] = Missing
     THEN digest' = [digest EXCEPT ![p] = Rows(db)] /\ Go(p, "copy")
     ELSE UNCHANGED digest /\ Go(p, AfterBackup)
  /\ UNCHANGED <<db, backup, lock, reason, at, temporary, outside, origin>>

\* _create_verified_vN_backup: an existing backup must be the source's copy.
CompareBackup(p) ==
  /\ pc[p] = "digest"
  /\ LET old == backup[at[p]] IN
     \/ old = Missing
        /\ digest' = [digest EXCEPT ![p] = Rows(db)]
        /\ Go(p, "copy")
        /\ UNCHANGED <<reason, lock>>
     \/ old = Rows(db)
        /\ Go(p, AfterBackup)
        /\ UNCHANGED <<digest, temporary, reason, lock>>
     \/ old \notin {Missing, Rows(db)}
        /\ Refuse(p, "backup")
        /\ UNCHANGED digest
  /\ UNCHANGED <<db, backup, at, temporary, outside, origin>>

\* mutation: the copy is written under the backup's own name.
CopyInPlace(p) ==
  /\ pc[p] = "copy"
  /\ temporary' = [temporary EXCEPT ![p] = Rows(db)]
  /\ backup' = [backup EXCEPT ![at[p]] = Damaged]
  /\ Go(p, "publish")
  /\ UNCHANGED <<db, lock, at, digest, reason, outside, origin>>

\* The online backup into a file of its own; the disk may fail it silently.
CopyBackup(p) ==
  /\ pc[p] = "copy"
  /\ \/ temporary' = [temporary EXCEPT ![p] = Rows(db)] /\ UNCHANGED outside
     \/ temporary' = [temporary EXCEPT ![p] = Damaged] /\ Fault
  /\ Go(p, "publish")
  /\ UNCHANGED <<db, backup, lock, at, digest, reason, origin>>

\* The copy is verified against the digest and atomically takes its place.
PublishBackup(p) ==
  /\ pc[p] = "publish"
  /\ IF temporary[p] = digest[p]
     THEN /\ backup' = [backup EXCEPT ![at[p]] = temporary[p]]
          /\ Go(p, AfterBackup)
          /\ UNCHANGED <<lock, reason>>
     ELSE Refuse(p, "failure") /\ UNCHANGED backup
  /\ UNCHANGED <<db, at, digest, temporary, outside, origin>>

EnableWal(p) ==
  /\ pc[p] = "wal"
  /\ db' = [db EXCEPT !.journal = "wal"]
  /\ Go(p, IF at[p] = 0 THEN "create" ELSE IF at[p] = Latest THEN "verify" ELSE "migrate")
  /\ UNCHANGED <<backup, lock, at, digest, temporary, reason, outside, origin>>

\* One transaction makes all tables, the ledger and the version.
CreateSchema(p) ==
  /\ pc[p] = "create"
  /\ clock < MaxClock
  /\ db' = [db EXCEPT !.version = Latest, !.ledger = [v \in 1 .. Latest |-> clock]]
  /\ clock' = clock + 1
  /\ Go(p, "verify")
  /\ UNCHANGED <<backup, lock, at, digest, temporary, reason, faults, touched, origin>>

\* mutation: all migrations of a chain follow the first backup.
MigrateAtOnce(p) ==
  /\ pc[p] = "migrate"
  /\ clock < MaxClock
  /\ db' = [db EXCEPT !.version = Latest,
                      !.ledger = @ \o [v \in 1 .. Latest - at[p] |-> clock]]
  /\ origin' = [origin EXCEPT ![at[p]] = Rows(db)]
  /\ clock' = clock + 1
  /\ at' = [at EXCEPT ![p] = Latest]
  /\ Go(p, "verify")
  /\ UNCHANGED <<backup, lock, digest, temporary, reason, faults, touched>>

\* One transaction rebuilds or adds the tables of the next version, writes its
\* ledger row and its version and checks the signature before it commits.
Migrate(p) ==
  LET next == at[p] + 1 IN
  /\ pc[p] = "migrate"
  /\ clock < MaxClock
  /\ db' = [db EXCEPT !.version = next, !.ledger = Append(@, clock)]
  /\ origin' = [origin EXCEPT ![at[p]] = Rows(db)]
  /\ clock' = clock + 1
  /\ at' = [at EXCEPT ![p] = next]
  /\ Go(p, IF next = Latest THEN "verify" ELSE "digest")
  /\ UNCHANGED <<backup, lock, digest, temporary, reason, faults, touched>>

\* A read, a file operation, a transaction or the last verification fails: the
\* transaction is rolled back, a temporary copy is removed.
OpenFails(p) ==
  /\ pc[p] \in {"inspect", "digest", "copy", "publish", "wal", "create", "migrate", "verify"}
  /\ Refuse(p, "failure")
  /\ Fault
  /\ UNCHANGED <<db, backup, at, digest, temporary, origin>>

\* _verify: quick_check and foreign keys of the finished database.
Verify(p) ==
  /\ pc[p] = "verify"
  /\ Go(p, "serving")
  /\ UNCHANGED <<db, backup, lock, at, digest, temporary, reason, outside, origin>>

----------------------------------------------------------------------------
(* Serving and ending *)

\* session and immediate_session: the service's own transactions.
Transact(p) ==
  /\ pc[p] = "serving"
  /\ clock < MaxClock
  /\ db' = [db EXCEPT !.data = clock]
  /\ clock' = clock + 1
  /\ UNCHANGED <<backup, lock, process, faults, touched, origin>>

Close(p) ==
  /\ pc[p] = "serving"
  /\ Go(p, "closed")
  /\ lock' = NoService
  /\ UNCHANGED <<db, backup, at, digest, temporary, reason, outside, origin>>

\* The operating system frees the lock; SQLite undoes an open transaction.
Crash(p) ==
  /\ pc[p] # "closed"
  /\ Go(p, "closed")
  /\ lock' = NoService
  /\ Fault
  /\ UNCHANGED <<db, backup, at, digest, temporary, reason, origin>>

----------------------------------------------------------------------------
(* Outside the service: what may happen to the files while nobody has them. *)

Outside ==
  /\ lock = NoService
  /\ faults < MaxFaults
  /\ faults' = faults + 1
  /\ touched' = TRUE
  /\ UNCHANGED <<lock, process, origin>>

\* An older release works with a database of its version.
OldReleaseWrites ==
  /\ Outside
  /\ db.issued /\ db.version \in Old
  /\ clock < MaxClock
  /\ db' = [db EXCEPT !.data = clock]
  /\ clock' = clock + 1
  /\ UNCHANGED backup

\* The operator puts a copy of a verified backup in place of the database.
RestoreBackup(v) ==
  /\ Outside
  /\ backup[v] \notin {Missing, Damaged}
  /\ \E mode \in {"delete", "wal"} :
       db' = [version |-> v, ledger |-> backup[v][2], data |-> backup[v][3],
              issued |-> TRUE, journal |-> mode]
  /\ UNCHANGED <<backup, clock>>

DamageBackup(v) ==
  /\ Outside
  /\ backup[v] # Missing
  /\ backup' = [backup EXCEPT ![v] = Damaged]
  /\ UNCHANGED <<db, clock>>

----------------------------------------------------------------------------
OpenStep(p) ==
  \/ Inspect(p) \/ CompareBackup(p) \/ CopyBackup(p) \/ PublishBackup(p)
  \/ EnableWal(p) \/ CreateSchema(p) \/ Migrate(p) \/ Verify(p)

Next ==
  \/ \E p \in Service : \/ TakeLock(p) \/ OpenStep(p) \/ OpenFails(p)
                        \/ Transact(p) \/ Close(p) \/ Crash(p)
  \/ OldReleaseWrites
  \/ \E v \in Old : RestoreBackup(v) \/ DamageBackup(v)

Spec == Init /\ [][Next]_vars

\* The service that holds the lock goes on, and a refused one is started again
\* by its user; writing, closing and everything outside is nobody's duty.
FairSpec == Spec /\ \A p \in Service : WF_vars(TakeLock(p)) /\ WF_vars(OpenStep(p))

----------------------------------------------------------------------------
(* Properties *)

Place == {"closed", "inspect", "digest", "copy", "publish", "wal", "create",
          "migrate", "verify", "serving"}
RowsOf(v) == {v} \X [1 .. v -> 0 .. MaxClock] \X (0 .. MaxClock)

\* Every variable has its type; a service past the lock is its holder.
DatabaseTypeOK ==
  /\ Rows(db) \in RowsOf(db.version)
  /\ db.version \in 0 .. Latest + 1 /\ db.issued \in BOOLEAN
  /\ db.journal \in {"delete", "wal"}
  /\ \A v \in Old : /\ backup[v] \in RowsOf(v) \cup {Missing, Damaged}
                    /\ origin[v] \in RowsOf(v) \cup {Missing}
  /\ pc \in [Service -> Place]
  /\ at \in [Service -> 0 .. Latest]
  /\ lock \in Service \cup {NoService}
  /\ \A p \in Service : pc[p] # "closed" <=> lock = p
  /\ clock \in 1 .. MaxClock /\ faults \in 0 .. MaxFaults

\* Whatever interrupted the upgrades before: the rows a migration started with
\* are still in the backup of their version, exactly, unless somebody damaged
\* that file.  (The backups of database.py:3345-3367 are "retained after".)
RecoveryPoints ==
  \A v \in Old : origin[v] # Missing => backup[v] \in {origin[v], Damaged}

\* A start is refused for its backup only when something outside changed a
\* file: the service never locks itself out with what its own interrupted
\* upgrade left behind (database.py:3385-3631).
InterruptedUpgradeResumes ==
  \A p \in Service : reason[p] = "backup" => touched

\* As long as nobody else touches the files, a database of any release is
\* served in the end, through any bounded number of crashes and failures.
UpgradeCompletes ==
  Supported /\ [](~touched) => <>(\E p \in Service : pc[p] = "serving")

\* The services implement RecoverableStore: see there.
Store == INSTANCE RecoverableStore WITH content <- db, kept <- backup
ImplementsStore == Store!Spec
=============================================================================
