------------------------ MODULE DatabaseUpgradeProofs ------------------------
(* Proofs about DatabaseUpgrade, for any number of services and schema      *)
(* versions: the types, the recovery points, the refusals for a backup, and *)
(* that the upgrade implements RecoverableStore.                            *)
(*                                                                          *)
(* None of these is inductive alone.  The inductive invariant adds what the *)
(* service that has the lock knows at each place (Knows): from "copy" on    *)
(* that there is no backup and what its digest is, at "migrate" that the    *)
(* backup of this version is the database.  And it adds that backups which  *)
(* nobody outside touched are of the versions passed so far (OwnBackups),   *)
(* so the one backup found is the database's own.                           *)
EXTENDS DatabaseUpgrade, TLAPS

Value == 0 .. MaxClock

FilesOK ==
  /\ db \in [version : 0 .. Latest + 1, ledger : Seq(Value), data : Value,
             issued : BOOLEAN, journal : {"delete", "wal"}]
  /\ Len(db.ledger) = db.version
  /\ backup = [v \in Old |-> backup[v]] /\ origin = [v \in Old |-> origin[v]]
  /\ \A v \in Old : /\ backup[v] \in RowsOf(v) \cup {Missing, Damaged}
                    /\ origin[v] \in RowsOf(v) \cup {Missing}

ServicesOK ==
  /\ pc \in [Service -> Place] /\ at \in [Service -> 0 .. Latest]
  /\ lock \in Service \cup {NoService}
  /\ \A p \in Service : pc[p] # "closed" <=> lock = p
  /\ digest = [p \in Service |-> digest[p]]
  /\ temporary = [p \in Service |-> temporary[p]]
  /\ reason \in [Service -> {"none", "locked", "schema", "backup", "failure"}]
  /\ clock \in 1 .. MaxClock /\ faults \in 0 .. MaxFaults /\ touched \in BOOLEAN

\* What a service knows at each place, as long as it has the lock.
Knows(p) ==
  /\ pc[p] \notin {"closed", "inspect"} => Supported
  /\ pc[p] \in {"digest", "copy", "publish", "wal", "create", "migrate"} => at[p] = db.version
  /\ pc[p] \in {"digest", "copy", "publish", "migrate"} => at[p] \in Old
  /\ pc[p] \in {"copy", "publish"} => backup[at[p]] = Missing /\ digest[p] = Rows(db)
  /\ pc[p] \in {"wal", "migrate"} /\ at[p] \in Old => backup[at[p]] = Rows(db)
  /\ pc[p] = "create" => at[p] = 0
  /\ pc[p] \in {"verify", "serving"} => db.version = Latest

\* As long as nothing outside changed a file, the backups are those of the
\* versions the database went through.
OwnBackups ==
  ~touched /\ Supported =>
    /\ \A v \in Old : v > db.version => backup[v] = Missing
    /\ db.version \in Old => backup[db.version] \in {Missing, Rows(db)}

Inv ==
  /\ FilesOK /\ ServicesOK
  /\ \A p \in Service : Knows(p)
  /\ OwnBackups /\ RecoveryPoints /\ InterruptedUpgradeResumes

----------------------------------------------------------------------------
\* A migration extends the ledger by one entry and keeps the earlier ones.
LEMMA LedgerGrows ==
  ASSUME NEW S, NEW f \in Seq(S), NEW e \in S
  PROVE  /\ Append(f, e) \in Seq(S) /\ Len(Append(f, e)) = Len(f) + 1
         /\ SubSeq(Append(f, e), 1, Len(f)) = f
<1>1. /\ Append(f, e) \in Seq(S) /\ Len(Append(f, e)) = Len(f) + 1 /\ Len(f) \in Nat
      /\ \A i \in 1..Len(f) : Append(f, e)[i] = f[i]
  OBVIOUS
<1> QED
  BY <1>1

\* A function on 1 .. n is a sequence of length n.
LEMMA LedgerIsMap ==
  ASSUME NEW n \in Nat, NEW S, NEW f \in [1..n -> S]
  PROVE  f \in Seq(S) /\ Len(f) = n
  OBVIOUS

\* What a backup of the open database would hold has the shape of a backup.
LEMMA DatabaseRows ==
  ASSUME FilesOK
  PROVE  Rows(db) \in RowsOf(db.version)
<1>1. db.ledger \in [1..db.version -> Value] /\ db.data \in Value
  BY DEF FilesOK
<1> QED
  BY <1>1 DEF Rows, RowsOf, Value

\* A step that leaves the files alone can only disturb what a service knows.
LEMMA SameFiles ==
  ASSUME Inv, UNCHANGED <<db, backup, origin, touched>>
  PROVE  FilesOK' /\ OwnBackups' /\ RecoveryPoints'
<1>1. FilesOK'
  BY DEF Inv, FilesOK
<1>2. OwnBackups'
  BY DEF Inv, OwnBackups, Rows, Supported
<1>3. RecoveryPoints'
  BY DEF Inv, RecoveryPoints
<1> QED
  BY <1>1, <1>2, <1>3

\* The holder of the lock is the only service that is not closed.
LEMMA Alone ==
  ASSUME Inv, NEW p \in Service, pc[p] # "closed", NEW q \in Service, q # p
  PROVE  pc[q] = "closed"
  BY DEF Inv, ServicesOK

\* A closed service claims nothing about the files.
LEMMA ClosedKnowsNothing ==
  ASSUME NEW q \in Service, pc'[q] = "closed"
  PROVE  Knows(q)'
  BY DEF Knows

----------------------------------------------------------------------------
(* One lemma for each action.                                               *)

\* Taking the lock, or being refused it, changes no file.
LEMMA TakeLockInv ==
  ASSUME Inv, NEW p \in Service, TakeLock(p)
  PROVE  Inv'
<1>1. FilesOK' /\ OwnBackups' /\ RecoveryPoints'
  BY SameFiles DEF TakeLock, outside
<1>2. ServicesOK'
  BY ServiceAssumption DEF Inv, ServicesOK, TakeLock, Go, outside, Place
<1>3. ASSUME NEW q \in Service
      PROVE  Knows(q)'
  BY DEF Inv, Knows, ServicesOK, TakeLock, Go, Rows, Supported
<1>4. InterruptedUpgradeResumes'
  BY DEF Inv, ServicesOK, InterruptedUpgradeResumes, TakeLock, outside
<1> QED
  BY <1>1, <1>2, <1>3, <1>4 DEF Inv

\* The inspection only reads; what no release issued is refused.
LEMMA InspectInv ==
  ASSUME Inv, NEW p \in Service, Inspect(p)
  PROVE  Inv'
<1>1. FilesOK' /\ OwnBackups' /\ RecoveryPoints'
  BY SameFiles DEF Inspect, outside
<1>2. ServicesOK'
  BY ServiceAssumption DEF Inv, ServicesOK, Inspect, Refuse, Go, outside, Place, Supported
<1>3. ASSUME NEW q \in Service
      PROVE  Knows(q)'
  BY DEF Inv, Knows, ServicesOK, Inspect, Refuse, Go, Rows, Supported
<1>4. InterruptedUpgradeResumes'
  BY DEF Inv, ServicesOK, InterruptedUpgradeResumes, Inspect, Refuse, outside
<1> QED
  BY <1>1, <1>2, <1>3, <1>4 DEF Inv

\* Only a backup that something outside changed refuses a start.
LEMMA CompareInv ==
  ASSUME Inv, NEW p \in Service, CompareBackup(p)
  PROVE  Inv'
<1>1. FilesOK' /\ OwnBackups' /\ RecoveryPoints'
  BY SameFiles DEF CompareBackup, outside
<1>2. ServicesOK'
  BY ServiceAssumption
  DEF Inv, ServicesOK, CompareBackup, Refuse, Go, outside, Place, AfterBackup
<1>3. Knows(p)'
  BY DEF Inv, Knows, ServicesOK, CompareBackup, Refuse, Go, Rows, Supported, AfterBackup
<1>4. ASSUME NEW q \in Service, q # p
      PROVE  Knows(q)'
  BY <1>4, Alone, ClosedKnowsNothing
  DEF Inv, ServicesOK, CompareBackup, Refuse, Go
<1>5. InterruptedUpgradeResumes'
  <2>1. Knows(p) /\ pc[p] = "digest"
    BY DEF Inv, CompareBackup
  <2>2. ~touched => backup[at[p]] \in {Missing, Rows(db)}
    BY <2>1 DEF Inv, OwnBackups, Knows
  <2> QED
    BY <2>2 DEF Inv, ServicesOK, InterruptedUpgradeResumes, CompareBackup, Refuse, outside
<1> QED
  BY <1>1, <1>2, <1>3, <1>4, <1>5 DEF Inv

\* The temporary copy of the database becomes no recovery point yet.
LEMMA CopyInv ==
  ASSUME Inv, NEW p \in Service, CopyBackup(p)
  PROVE  Inv'
<1>1. FilesOK' /\ OwnBackups' /\ RecoveryPoints'
  BY SameFiles DEF CopyBackup, outside, Fault
<1>2. ServicesOK'
  BY ServiceAssumption, BoundsAssumption
  DEF Inv, ServicesOK, CopyBackup, Go, outside, Place, Fault
<1>3. Knows(p)'
  BY DEF Inv, Knows, ServicesOK, CopyBackup, Go, Rows, Supported
<1>4. ASSUME NEW q \in Service, q # p
      PROVE  Knows(q)'
  BY <1>4, Alone, ClosedKnowsNothing DEF Inv, ServicesOK, CopyBackup, Go
<1>5. InterruptedUpgradeResumes'
  BY DEF Inv, InterruptedUpgradeResumes, CopyBackup, outside, Fault
<1> QED
  BY <1>1, <1>2, <1>3, <1>4, <1>5 DEF Inv

\* A backup is published only where there is none, so no recovery point is
\* written over.
LEMMA PublishInv ==
  ASSUME Inv, NEW p \in Service, PublishBackup(p)
  PROVE  Inv'
<1>1. /\ pc[p] = "publish" /\ Supported /\ at[p] = db.version /\ at[p] \in Old
      /\ backup[at[p]] = Missing /\ digest[p] = Rows(db)
  BY DEF Inv, Knows, PublishBackup
<1>2. /\ UNCHANGED <<db, origin, touched>>
      /\ \/ backup' = [backup EXCEPT ![db.version] = Rows(db)]
         \/ UNCHANGED backup
  BY <1>1 DEF PublishBackup, outside
<1>3. FilesOK'
  <2>1. Rows(db) \in RowsOf(db.version)
    BY DatabaseRows DEF Inv
  <2> QED
    BY <1>1, <1>2, <2>1 DEF Inv, FilesOK
<1>4. OwnBackups'
  <2>1. \A v \in Old : v # db.version => backup'[v] = backup[v]
    BY <1>2 DEF Inv, FilesOK
  <2>2. backup'[db.version] \in {Missing, Rows(db)}
    BY <1>1, <1>2 DEF Inv, FilesOK
  <2>3. \A v \in Old : v > db.version => v # db.version
    BY LatestAssumption DEF Inv, FilesOK, Old
  <2> QED
    BY <1>1, <1>2, <2>1, <2>2, <2>3 DEF Inv, OwnBackups, Supported, Rows
<1>5. RecoveryPoints'
  <2>1. origin[db.version] = Missing
    BY <1>1, MarksAssumption DEF Inv, RecoveryPoints
  <2> QED
    BY <1>1, <1>2, <2>1 DEF Inv, FilesOK, RecoveryPoints
<1>6. ServicesOK'
  BY ServiceAssumption
  DEF Inv, ServicesOK, PublishBackup, Refuse, Go, outside, Place, AfterBackup
<1>7. Knows(p)'
  <2>1. CASE temporary[p] = digest[p]
    <3>1. pc'[p] \in {"wal", "migrate"} /\ at' = at
      BY <2>1 DEF Inv, ServicesOK, PublishBackup, Go, AfterBackup
    <3>2. backup'[at[p]] = Rows(db)
      BY <1>1, <2>1 DEF Inv, FilesOK, PublishBackup
    <3> QED
      BY <1>1, <1>2, <3>1, <3>2 DEF Knows, Supported, Rows
  <2>2. CASE temporary[p] # digest[p]
    BY <2>2, ClosedKnowsNothing DEF Inv, ServicesOK, PublishBackup, Refuse, Go
  <2> QED
    BY <2>1, <2>2
<1>8. ASSUME NEW q \in Service, q # p
      PROVE  Knows(q)'
  BY <1>1, <1>8, Alone, ClosedKnowsNothing DEF Inv, ServicesOK, PublishBackup, Refuse, Go
<1>9. InterruptedUpgradeResumes'
  BY <1>1 DEF Inv, ServicesOK, InterruptedUpgradeResumes, PublishBackup, Refuse, outside
<1> QED
  BY <1>3, <1>4, <1>5, <1>6, <1>7, <1>8, <1>9 DEF Inv

\* Switching the journal changes no row.
LEMMA WalInv ==
  ASSUME Inv, NEW p \in Service, EnableWal(p)
  PROVE  Inv'
<1>1. pc[p] = "wal" /\ Supported /\ at[p] = db.version
  BY DEF Inv, Knows, EnableWal
<1>2. /\ db' \in [version : 0 .. Latest + 1, ledger : Seq(Value), data : Value,
                  issued : BOOLEAN, journal : {"delete", "wal"}]
      /\ db'.version = db.version /\ db'.ledger = db.ledger /\ db'.data = db.data
      /\ db'.issued = db.issued
  BY DEF Inv, FilesOK, EnableWal
<1>3. UNCHANGED <<backup, origin, touched, reason, at, digest>> /\ Rows(db') = Rows(db)
  BY <1>2 DEF EnableWal, outside, Rows
<1>4. FilesOK'
  BY <1>2, <1>3 DEF Inv, FilesOK
<1>5. OwnBackups'
  BY <1>2, <1>3 DEF Inv, OwnBackups, Supported, Rows
<1>6. RecoveryPoints' /\ InterruptedUpgradeResumes'
  BY <1>3 DEF Inv, RecoveryPoints, InterruptedUpgradeResumes
<1>7. ServicesOK'
  BY ServiceAssumption DEF Inv, ServicesOK, EnableWal, Go, outside, Place
<1>8. Knows(p)'
  <2>1. pc'[p] = IF at[p] = 0 THEN "create" ELSE IF at[p] = Latest THEN "verify" ELSE "migrate"
    BY DEF Inv, ServicesOK, EnableWal, Go
  <2>2. at[p] \notin {0, Latest} => at[p] \in Old
    BY LatestAssumption DEF Inv, ServicesOK, Old
  <2>3. Knows(p)
    BY DEF Inv
  <2> QED
    BY <1>1, <1>2, <1>3, <2>1, <2>2, <2>3, LatestAssumption DEF Knows, Supported, Rows, Old
<1>9. ASSUME NEW q \in Service, q # p
      PROVE  Knows(q)'
  BY <1>1, <1>9, Alone, ClosedKnowsNothing DEF Inv, ServicesOK, EnableWal, Go
<1> QED
  BY <1>4, <1>5, <1>6, <1>7, <1>8, <1>9 DEF Inv

\* A new database gets the latest version, which is never backed up.
LEMMA CreateInv ==
  ASSUME Inv, NEW p \in Service, CreateSchema(p)
  PROVE  Inv'
<1>1. pc[p] = "create" /\ Supported /\ clock \in Value /\ db.version = 0
  BY BoundsAssumption DEF Inv, Knows, CreateSchema, ServicesOK, Value
<1>2. [v \in 1 .. Latest |-> clock] \in Seq(Value) /\ Len([v \in 1 .. Latest |-> clock]) = Latest
  <2>1. [v \in 1 .. Latest |-> clock] \in [1..Latest -> Value]
    BY <1>1
  <2> QED
    BY <2>1, LatestAssumption, LedgerIsMap
<1>3. /\ db' \in [version : 0 .. Latest + 1, ledger : Seq(Value), data : Value,
                  issued : BOOLEAN, journal : {"delete", "wal"}]
      /\ db'.version = Latest /\ Len(db'.ledger) = Latest /\ db'.issued = db.issued
  <2> PICK ledger : ledger = [v \in 1 .. Latest |-> clock]
    OBVIOUS
  <2>1. db' = [db EXCEPT !.version = Latest, !.ledger = ledger]
    BY DEF CreateSchema
  <2>2. ledger \in Seq(Value) /\ Len(ledger) = Latest /\ Latest \in 0 .. Latest + 1
    BY <1>2, LatestAssumption
  <2> QED
    BY <2>1, <2>2 DEF Inv, FilesOK
<1>4. UNCHANGED <<backup, origin, touched, reason, at, digest>>
  BY DEF CreateSchema
<1>5. FilesOK'
  BY <1>3, <1>4 DEF Inv, FilesOK
<1>6. OwnBackups'
  BY <1>3, LatestAssumption DEF OwnBackups, Old
<1>7. RecoveryPoints' /\ InterruptedUpgradeResumes'
  BY <1>4 DEF Inv, RecoveryPoints, InterruptedUpgradeResumes
<1>8. ServicesOK'
  BY ServiceAssumption, BoundsAssumption DEF Inv, ServicesOK, CreateSchema, Go, Place
<1>9. Knows(p)'
  <2>1. pc'[p] = "verify"
    BY DEF Inv, ServicesOK, CreateSchema, Go
  <2> QED
    BY <1>1, <1>3, <2>1, LatestAssumption DEF Knows, Supported
<1>10. ASSUME NEW q \in Service, q # p
       PROVE  Knows(q)'
  BY <1>1, <1>10, Alone, ClosedKnowsNothing DEF Inv, ServicesOK, CreateSchema, Go
<1> QED
  BY <1>5, <1>6, <1>7, <1>8, <1>9, <1>10 DEF Inv

\* A migration starts from rows that are in the backup of their version.
LEMMA MigrateInv ==
  ASSUME Inv, NEW p \in Service, Migrate(p)
  PROVE  Inv'
<1>1. /\ pc[p] = "migrate" /\ Supported /\ clock \in Value /\ at[p] = db.version
      /\ db.version \in Old /\ backup[db.version] = Rows(db)
  BY BoundsAssumption DEF Inv, Knows, Migrate, ServicesOK, Value
<1>2. /\ Append(db.ledger, clock) \in Seq(Value)
      /\ Len(Append(db.ledger, clock)) = db.version + 1
  BY <1>1, LedgerGrows DEF Inv, FilesOK
<1>3. db.version + 1 \in 0 .. Latest /\ db.version \in Nat
  BY <1>1, LatestAssumption DEF Old
<1>4. /\ db' \in [version : 0 .. Latest + 1, ledger : Seq(Value), data : Value,
                  issued : BOOLEAN, journal : {"delete", "wal"}]
      /\ db'.version = db.version + 1 /\ Len(db'.ledger) = db.version + 1
      /\ db'.issued = db.issued
  <2> PICK ledger : ledger = Append(db.ledger, clock)
    OBVIOUS
  <2> PICK next : next = db.version + 1
    OBVIOUS
  <2>1. db' = [db EXCEPT !.version = next, !.ledger = ledger]
    <3>1. db' = [db EXCEPT !.version = db.version + 1, !.ledger = Append(db.ledger, clock)]
      BY <1>1 DEF Migrate
    <3> QED
      BY <3>1
  <2>2. next \in 0 .. Latest + 1 /\ ledger \in Seq(Value) /\ Len(ledger) = next
    BY <1>2, <1>3, LatestAssumption
  <2> QED
    BY <2>1, <2>2 DEF Inv, FilesOK
<1>5. /\ UNCHANGED <<backup, touched, reason, digest>>
      /\ origin' = [origin EXCEPT ![db.version] = Rows(db)]
  BY <1>1 DEF Migrate
<1>6. FilesOK'
  <2>1. Rows(db) \in RowsOf(db.version)
    BY DatabaseRows DEF Inv
  <2> QED
    BY <1>1, <1>4, <1>5, <2>1 DEF Inv, FilesOK
<1>7. OwnBackups'
  <2>1. ~touched => \A v \in Old : v > db.version => backup[v] = Missing
    BY <1>1 DEF Inv, OwnBackups
  <2> QED
    BY <1>3, <1>4, <1>5, <2>1, LatestAssumption DEF OwnBackups, Old
<1>8. RecoveryPoints'
  BY <1>1, <1>5 DEF Inv, FilesOK, RecoveryPoints
<1>9. InterruptedUpgradeResumes'
  BY <1>5 DEF Inv, InterruptedUpgradeResumes
<1>10. ServicesOK'
  BY <1>1, <1>3, ServiceAssumption, BoundsAssumption, LatestAssumption
  DEF Inv, ServicesOK, Migrate, Go, Place
<1>11. Knows(p)'
  <2>1. /\ at'[p] = db.version + 1
        /\ pc'[p] = IF db.version + 1 = Latest THEN "verify" ELSE "digest"
    BY <1>1 DEF Inv, ServicesOK, Migrate, Go
  <2>2. db.version + 1 # Latest => db.version + 1 \in Old
    BY <1>3, LatestAssumption DEF Old
  <2> QED
    BY <1>1, <1>3, <1>4, <2>1, <2>2 DEF Knows, Supported
<1>12. ASSUME NEW q \in Service, q # p
       PROVE  Knows(q)'
  BY <1>1, <1>12, Alone, ClosedKnowsNothing DEF Inv, ServicesOK, Migrate, Go
<1> QED
  BY <1>6, <1>7, <1>8, <1>9, <1>10, <1>11, <1>12 DEF Inv

\* The last verification opens a database of the latest version.
LEMMA VerifyInv ==
  ASSUME Inv, NEW p \in Service, Verify(p)
  PROVE  Inv'
<1>1. FilesOK' /\ OwnBackups' /\ RecoveryPoints'
  BY SameFiles DEF Verify, outside
<1>2. ServicesOK'
  BY ServiceAssumption DEF Inv, ServicesOK, Verify, Go, outside, Place
<1>3. Knows(p)'
  BY DEF Inv, Knows, ServicesOK, Verify, Go, Rows, Supported
<1>4. ASSUME NEW q \in Service, q # p
      PROVE  Knows(q)'
  BY <1>4, Alone, ClosedKnowsNothing DEF Inv, ServicesOK, Verify, Go
<1>5. InterruptedUpgradeResumes'
  BY DEF Inv, InterruptedUpgradeResumes, Verify, outside
<1> QED
  BY <1>1, <1>2, <1>3, <1>4, <1>5 DEF Inv

\* A failure, a crash and a close give the lock back and leave the files.
LEMMA EndInv ==
  ASSUME Inv, NEW p \in Service, OpenFails(p) \/ Crash(p) \/ Close(p)
  PROVE  Inv'
<1>1. /\ pc[p] # "closed" /\ pc' = [pc EXCEPT ![p] = "closed"] /\ lock' = NoService
      /\ UNCHANGED <<db, backup, origin, touched, at, digest, temporary, clock>>
      /\ reason' = [reason EXCEPT ![p] = "failure"] \/ UNCHANGED reason
      /\ faults' \in 0 .. MaxFaults
  BY BoundsAssumption
  DEF Inv, ServicesOK, OpenFails, Crash, Close, Refuse, Go, Fault, outside
<1>2. FilesOK' /\ OwnBackups' /\ RecoveryPoints'
  BY <1>1, SameFiles
<1>3. ServicesOK'
  BY <1>1, ServiceAssumption DEF Inv, ServicesOK, Place
<1>4. ASSUME NEW q \in Service
      PROVE  Knows(q)'
  BY <1>1, Alone, ClosedKnowsNothing DEF Inv, ServicesOK
<1>5. InterruptedUpgradeResumes'
  BY <1>1 DEF Inv, ServicesOK, InterruptedUpgradeResumes
<1> QED
  BY <1>2, <1>3, <1>4, <1>5 DEF Inv

\* New data of a database of this version: it has no backup to agree with.
LEMMA TransactInv ==
  ASSUME Inv, NEW p \in Service, Transact(p)
  PROVE  Inv'
<1>1. pc[p] = "serving" /\ Supported /\ clock \in Value /\ db.version = Latest
  BY BoundsAssumption DEF Inv, Knows, Transact, ServicesOK, Value
<1>2. /\ db' \in [version : 0 .. Latest + 1, ledger : Seq(Value), data : Value,
                  issued : BOOLEAN, journal : {"delete", "wal"}]
      /\ db'.version = db.version /\ db'.ledger = db.ledger /\ db'.issued = db.issued
  BY <1>1 DEF Inv, FilesOK, Transact
<1>3. UNCHANGED <<backup, origin, touched, reason, at, digest, pc>>
  BY DEF Transact, process
<1>4. FilesOK'
  BY <1>2, <1>3 DEF Inv, FilesOK
<1>5. OwnBackups'
  BY <1>1, <1>2, LatestAssumption DEF OwnBackups, Old
<1>6. RecoveryPoints' /\ InterruptedUpgradeResumes'
  BY <1>3 DEF Inv, RecoveryPoints, InterruptedUpgradeResumes
<1>7. ServicesOK'
  BY BoundsAssumption DEF Inv, ServicesOK, Transact, process
<1>8. Knows(p)'
  BY <1>1, <1>2, <1>3 DEF Knows, Supported
<1>9. ASSUME NEW q \in Service, q # p
      PROVE  Knows(q)'
  BY <1>1, <1>3, <1>9, Alone, ClosedKnowsNothing
<1> QED
  BY <1>4, <1>5, <1>6, <1>7, <1>8, <1>9 DEF Inv

\* What happens outside happens while every service is closed.
LEMMA OutsideInv ==
  ASSUME Inv, Outside, clock' \in 1 .. MaxClock, FilesOK', RecoveryPoints'
  PROVE  Inv'
<1>1. /\ UNCHANGED <<lock, pc, at, digest, temporary, reason>> /\ touched' = TRUE
      /\ faults' \in 0 .. MaxFaults
  BY BoundsAssumption DEF Inv, ServicesOK, Outside, process
<1>2. ServicesOK'
  BY <1>1 DEF Inv, ServicesOK
<1>3. OwnBackups' /\ InterruptedUpgradeResumes'
  BY <1>1 DEF OwnBackups, InterruptedUpgradeResumes
<1>4. ASSUME NEW q \in Service
      PROVE  Knows(q)'
  BY <1>1, ServiceAssumption, ClosedKnowsNothing DEF Inv, ServicesOK, Outside
<1> QED
  BY <1>2, <1>3, <1>4 DEF Inv

\* An older release writes rows of its own schema while no service runs.
LEMMA OldReleaseInv ==
  ASSUME Inv, OldReleaseWrites
  PROVE  Inv'
<1>1. clock \in Value /\ clock' \in 1 .. MaxClock /\ UNCHANGED <<backup, origin>>
  BY BoundsAssumption DEF Inv, ServicesOK, OldReleaseWrites, Outside, Value
<1>2. /\ db' \in [version : 0 .. Latest + 1, ledger : Seq(Value), data : Value,
                  issued : BOOLEAN, journal : {"delete", "wal"}]
      /\ db'.version = db.version /\ db'.ledger = db.ledger
  BY <1>1 DEF Inv, FilesOK, OldReleaseWrites
<1>3. FilesOK' /\ RecoveryPoints'
  BY <1>1, <1>2 DEF Inv, FilesOK, RecoveryPoints
<1> QED
  BY <1>1, <1>3, OutsideInv DEF OldReleaseWrites

\* The operator puts a backup in place of the database.
LEMMA RestoreInv ==
  ASSUME Inv, NEW v \in Old, RestoreBackup(v)
  PROVE  Inv'
<1>1. clock' \in 1 .. MaxClock /\ UNCHANGED <<backup, origin>> /\ Outside
  BY DEF Inv, ServicesOK, RestoreBackup, Outside
<1>2. backup[v] \in RowsOf(v) /\ v \in 0 .. Latest + 1 /\ v \in Nat
  BY LatestAssumption DEF Inv, FilesOK, RestoreBackup, Old
<1>3. backup[v][2] \in [1..v -> Value] /\ backup[v][3] \in Value
  BY <1>2 DEF RowsOf, Value
<1>4. backup[v][2] \in Seq(Value) /\ Len(backup[v][2]) = v
  BY <1>2, <1>3, LedgerIsMap
<1>5. /\ db' \in [version : 0 .. Latest + 1, ledger : Seq(Value), data : Value,
                  issued : BOOLEAN, journal : {"delete", "wal"}]
      /\ Len(db'.ledger) = db'.version
  BY <1>2, <1>3, <1>4 DEF RestoreBackup
<1>6. FilesOK' /\ RecoveryPoints'
  BY <1>1, <1>5 DEF Inv, FilesOK, RecoveryPoints
<1> QED
  BY <1>1, <1>6, OutsideInv

\* Something outside deletes or damages a backup.
LEMMA DamageInv ==
  ASSUME Inv, NEW v \in Old, DamageBackup(v)
  PROVE  Inv'
<1>1. /\ clock' \in 1 .. MaxClock /\ UNCHANGED <<db, origin>> /\ Outside
      /\ backup' = [backup EXCEPT ![v] = Damaged]
  BY DEF Inv, ServicesOK, DamageBackup, Outside
<1>2. FilesOK' /\ RecoveryPoints'
  BY <1>1 DEF Inv, FilesOK, RecoveryPoints
<1> QED
  BY <1>1, <1>2, OutsideInv

----------------------------------------------------------------------------
\* No database, no backup, no service: the invariant holds.
LEMMA InitInv == Init => Inv
<1> SUFFICES ASSUME Init PROVE Inv
  OBVIOUS
<1>1. FilesOK
  <2>1. \A n \in Nat : Stamped(n) \in [1..n -> Value]
    BY BoundsAssumption DEF Stamped, Value
  <2>2. \A n \in 0 .. Latest + 1 : Stamped(n) \in Seq(Value)
    BY <2>1, LedgerIsMap, LatestAssumption
  <2> QED
    BY <2>2, BoundsAssumption DEF Init, FilesOK, Value
<1>2. ServicesOK
  <2>1. pc \in [Service -> Place] /\ at \in [Service -> 0 .. Latest]
    BY LatestAssumption DEF Init, Place
  <2>2. \A p \in Service : pc[p] = "closed" /\ lock # p
    BY ServiceAssumption DEF Init
  <2>3. /\ digest = [p \in Service |-> digest[p]]
        /\ temporary = [p \in Service |-> temporary[p]]
        /\ reason \in [Service -> {"none", "locked", "schema", "backup", "failure"}]
    BY DEF Init
  <2>4. /\ lock \in Service \cup {NoService} /\ clock \in 1 .. MaxClock
        /\ faults \in 0 .. MaxFaults /\ touched \in BOOLEAN
    <3>1. lock = NoService /\ clock = 1 /\ faults = 0 /\ touched = FALSE
      BY DEF Init
    <3>2. 1 \in 1 .. MaxClock /\ 0 \in 0 .. MaxFaults
      BY BoundsAssumption
    <3> QED
      BY <3>1, <3>2
  <2> QED
    BY <2>1, <2>2, <2>3, <2>4 DEF ServicesOK
<1>3. \A p \in Service : Knows(p)
  BY DEF Init, Knows
<1>4. OwnBackups /\ RecoveryPoints /\ InterruptedUpgradeResumes
  BY LatestAssumption DEF Init, OwnBackups, RecoveryPoints, InterruptedUpgradeResumes, FilesOK, Old
<1> QED
  BY <1>1, <1>2, <1>3, <1>4 DEF Inv

\* Every step keeps the invariant.
LEMMA StepInv == Inv /\ [Next]_vars => Inv'
<1> SUFFICES ASSUME Inv, [Next]_vars PROVE Inv'
  OBVIOUS
<1>1. ASSUME NEW p \in Service, OpenStep(p)
      PROVE  Inv'
  BY <1>1, InspectInv, CompareInv, CopyInv, PublishInv, WalInv, CreateInv, MigrateInv, VerifyInv
  DEF OpenStep
<1>2. ASSUME NEW p \in Service,
             TakeLock(p) \/ OpenFails(p) \/ Transact(p) \/ Close(p) \/ Crash(p)
      PROVE  Inv'
  BY <1>2, TakeLockInv, TransactInv, EndInv
<1>3. ASSUME NEW v \in Old, RestoreBackup(v) \/ DamageBackup(v)
      PROVE  Inv'
  BY <1>3, RestoreInv, DamageInv
<1>4. ASSUME UNCHANGED vars
      PROVE  Inv'
  <2>1. FilesOK' /\ OwnBackups' /\ RecoveryPoints'
    BY <1>4, SameFiles DEF vars, outside
  <2>2. ServicesOK' /\ InterruptedUpgradeResumes'
    BY <1>4 DEF vars, outside, process, Inv, ServicesOK, InterruptedUpgradeResumes
  <2>3. ASSUME NEW q \in Service
        PROVE  Knows(q)'
    BY <1>4 DEF vars, process, Inv, Knows, Supported, Rows
  <2> QED
    BY <2>1, <2>2, <2>3 DEF Inv
<1> QED
  BY <1>1, <1>2, <1>3, <1>4, OldReleaseInv DEF Next

\* The inductive invariant holds in every reachable state: the types, what the
\* holder of the lock knows about the backup, and whose backups there are.
THEOREM Invariance == Spec => []Inv
  BY InitInv, StepInv, PTL DEF Spec

\* Every variable keeps its type, and a service is past the lock if and only
\* if it is its holder.
THEOREM TypeCorrect == FairSpec => []DatabaseTypeOK
<1>1. Inv => DatabaseTypeOK
  BY DatabaseRows DEF Inv, FilesOK, ServicesOK, DatabaseTypeOK
<1> QED
  BY <1>1, Invariance, PTL DEF FairSpec

\* The rows every migration started with are in the backup of their version.
THEOREM RecoveryPointsKept == FairSpec => []RecoveryPoints
<1>1. Inv => RecoveryPoints
  BY DEF Inv
<1> QED
  BY <1>1, Invariance, PTL DEF FairSpec

\* No interruption of its own upgrade makes the service refuse a backup.
THEOREM NoLockOut == FairSpec => []InterruptedUpgradeResumes
<1>1. Inv => InterruptedUpgradeResumes
  BY DEF Inv
<1> QED
  BY <1>1, Invariance, PTL DEF FairSpec

----------------------------------------------------------------------------
(* The services implement RecoverableStore.                                 *)

\* The refinement: both start without a database.
LEMMA StoreInit == Init => Store!Init
  BY DEF Init, Store!Init, Store!Old, Old

\* The publication of a backup is the keeping of a recovery point.
LEMMA StoreKeep ==
  ASSUME Inv, NEW p \in Service, PublishBackup(p)
  PROVE  Store!Keep \/ UNCHANGED <<db, backup>>
<1>1. Supported /\ at[p] = db.version /\ at[p] \in Old /\ backup[at[p]] = Missing
      /\ digest[p] = Rows(db)
  BY DEF Inv, Knows, PublishBackup
<1> QED
  BY <1>1 DEF PublishBackup, Store!Keep, Store!Accepted, Supported, Store!Old, Old,
              Store!Rows, Rows

\* The switch of the journal is its own abstract step.
LEMMA StoreWal ==
  ASSUME Inv, NEW p \in Service, EnableWal(p)
  PROVE  Store!EnableWal
<1>1. Supported
  BY DEF Inv, Knows, EnableWal
<1> QED
  BY <1>1 DEF EnableWal, Store!EnableWal, Store!Accepted, Supported

\* The creation of the database is one abstract step.
LEMMA StoreCreate ==
  ASSUME Inv, NEW p \in Service, CreateSchema(p)
  PROVE  Store!Create
<1>1. Supported /\ db.version = 0
  BY DEF Inv, Knows, CreateSchema
<1> PICK ledger : ledger = [v \in 1 .. Latest |-> clock]
  OBVIOUS
<1>2. Len(ledger) = Latest
  BY LatestAssumption, LedgerIsMap
<1>3. db' = [db EXCEPT !.version = Latest, !.ledger = ledger] /\ UNCHANGED backup
  BY DEF CreateSchema
<1>4. db'.ledger = ledger
  BY <1>3 DEF Inv, FilesOK
<1> QED
  BY <1>1, <1>2, <1>3, <1>4 DEF Store!Create, Store!Accepted, Supported

\* A migration is an abstract advance, because Inv gives it its recovery point.
LEMMA StoreAdvance ==
  ASSUME Inv, NEW p \in Service, Migrate(p)
  PROVE  Store!Advance
<1>1. /\ Supported /\ at[p] = db.version /\ db.version \in Old
      /\ backup[db.version] = Rows(db) /\ clock \in Value
  BY BoundsAssumption DEF Inv, Knows, Migrate, ServicesOK, Value
<1> PICK ledger : ledger = Append(db.ledger, clock)
  OBVIOUS
<1>2. Len(ledger) = db.version + 1 /\ SubSeq(ledger, 1, db.version) = db.ledger
  BY <1>1, LedgerGrows DEF Inv, FilesOK
<1>3. db' = [db EXCEPT !.version = db.version + 1, !.ledger = ledger] /\ UNCHANGED backup
  BY <1>1 DEF Migrate
<1>4. db'.ledger = ledger /\ db'.version = db.version + 1
  BY <1>3 DEF Inv, FilesOK
<1> QED
  BY <1>1, <1>2, <1>3, <1>4
  DEF Store!Advance, Store!Accepted, Supported, Store!Old, Old, Store!Rows, Rows

\* New data are an abstract write.
LEMMA StoreWrite ==
  ASSUME Inv, Supported, db.version > 0, db' = [db EXCEPT !.data = clock], UNCHANGED backup
  PROVE  Store!Write
<1>1. db'.data = clock
  BY DEF Inv, FilesOK
<1> QED
  BY <1>1 DEF Store!Write, Store!Accepted, Supported

\* A restored backup is an abstract restore.
LEMMA StoreRestore ==
  ASSUME Inv, NEW v \in Old, RestoreBackup(v)
  PROVE  Store!Restore
<1>1. backup[v] \in RowsOf(v)
  BY DEF Inv, FilesOK, RestoreBackup
<1>2. backup[v] = <<v, backup[v][2], backup[v][3]>>
  BY <1>1 DEF RowsOf
<1>3. db'.version = v /\ db'.ledger = backup[v][2] /\ db'.data = backup[v][3]
  BY DEF RestoreBackup
<1> QED
  BY <1>2, <1>3 DEF RestoreBackup, Store!Restore, Store!Rows, Store!Old, Old

\* A damaged backup is an abstract loss.
LEMMA StoreLose ==
  ASSUME NEW v \in Old, DamageBackup(v)
  PROVE  Store!Lose
  BY DEF DamageBackup, Store!Lose, Store!Old, Old

\* Every step is an abstract step or leaves the store alone.
LEMMA StoreStep == Inv /\ [Next]_vars => [Store!Next]_(Store!vars)
<1> SUFFICES ASSUME Inv, [Next]_vars
             PROVE  Store!Next \/ UNCHANGED <<db, backup>>
  BY DEF Store!vars
<1>1. ASSUME NEW p \in Service, OpenStep(p)
      PROVE  Store!Next \/ UNCHANGED <<db, backup>>
  BY <1>1, StoreKeep, StoreWal, StoreCreate, StoreAdvance
  DEF OpenStep, Inspect, CompareBackup, CopyBackup, Verify, Store!Next
<1>2. ASSUME NEW p \in Service, TakeLock(p) \/ OpenFails(p) \/ Close(p) \/ Crash(p)
      PROVE  UNCHANGED <<db, backup>>
  BY <1>2 DEF TakeLock, OpenFails, Close, Crash
<1>3. ASSUME NEW p \in Service, Transact(p)
      PROVE  Store!Next
  <2>1. Supported /\ db.version > 0
    BY <1>3, LatestAssumption DEF Inv, Knows, Transact
  <2> QED
    BY <1>3, <2>1, StoreWrite DEF Transact, Store!Next
<1>4. ASSUME OldReleaseWrites
      PROVE  Store!Next
  <2>1. Supported /\ db.version > 0
    BY <1>4, LatestAssumption DEF OldReleaseWrites, Old, Supported
  <2> QED
    BY <1>4, <2>1, StoreWrite DEF OldReleaseWrites, Store!Next
<1>5. ASSUME NEW v \in Old, RestoreBackup(v) \/ DamageBackup(v)
      PROVE  Store!Next
  BY <1>5, StoreRestore, StoreLose DEF Store!Next
<1>6. ASSUME UNCHANGED vars
      PROVE  UNCHANGED <<db, backup>>
  BY <1>6 DEF vars
<1> QED
  BY <1>1, <1>2, <1>3, <1>4, <1>5, <1>6 DEF Next

\* Every behaviour of the upgrade is a behaviour of RecoverableStore: content
\* moves on only from a kept recovery point, which is never rewritten.
THEOREM Refinement == FairSpec => ImplementsStore
<1>1. Spec => Store!Init /\ [][Store!Next]_(Store!vars)
  BY StoreInit, StoreStep, Invariance, PTL DEF Spec
<1> QED
  BY <1>1, PTL DEF FairSpec, ImplementsStore, Store!Spec
============================================================================
