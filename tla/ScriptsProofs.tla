---------------------------- MODULE ScriptsProofs ----------------------------
(***************************************************************************)
(* Theorems about the two components that run beside the server and write  *)
(* to its database: BootGate, for every retention and every bound, and,    *)
(* from the second half on, Import, for every file, every database it is   *)
(* imported into and every bound.                                          *)
(*                                                                         *)
(* BootGate's invariant keeps an account: what armings and slips allow,    *)
(* heals have used up.  A sentinel is worth one restore, but between the   *)
(* restore and the rm that takes it away; a boot past the gate without a   *)
(* database is worth one, and there is no replica then.  The rest says     *)
(* that a boot which applies migrations has not skipped any, and that of   *)
(* the snapshots a backup removes there is always one it keeps.            *)
(*                                                                         *)
(* Import's invariant says that what an open transaction sees is what the  *)
(* statements of its row make of the database, unless a commit of another  *)
(* process has made that stale, which it cannot once the lock is held; and *)
(* that a busy line has such a commit to pay for it.  What a dry run       *)
(* foresees is followed along the course its lines take, from forecast to  *)
(* forecast, which the real run then takes too.                            *)
(***************************************************************************)
EXTENDS BootGate, Import, FiniteSetTheorems, TLAPS

-----------------------------------------------------------------------------
(* The invariant of the boot gate                                          *)

Credit == heals < armings + slips

\* The account.
Accounts ==
    /\ {heals, armings, slips, crashes, losses, faults} \subseteq Nat
    /\ heals <= armings + slips
    /\ sentinel /\ pc \notin {"alerting", "disarm"} => Credit
    /\ pc \in {"disarm", "migrate"} /\ ~Exists(db) => Credit /\ ~Exists(replica)
    /\ pc = "migrate" /\ ~Exists(db) => ~sentinel
    /\ pc = "restoring" => sentinel /\ ~Exists(db)
    /\ pc = "alerting" => Exists(db)

\* Each database, copy and snapshot records the migrations it has, and where
\* there is no database there are none.
Whole(d) == d.schema = d.logged /\ (~Exists(d) => d.logged = 0)

Recorded ==
    /\ Whole(db) /\ Whole(replica) /\ Whole(fetching.of) /\ Whole(backup.copy.of)
    /\ \A d \in late : Whole(d) /\ Exists(d)
    /\ \A s \in snapshots : Whole(s.of) /\ Exists(s.of)
    /\ backup.step = "put" => Exists(backup.copy.of)
    /\ fetching # NoSnapshot => pc = "held" /\ Exists(fetching.of)

\* A boot that applies migrations is at most at the first that is not applied.
Migrations ==
    /\ migrating["boot"].on <=> pc = "applying"
    /\ pc = "applying" => Exists(db) /\ migrating["boot"].at <= db.logged + 1
    /\ migrating["script"].on => pc \in {"applying", "running"}
    /\ pc = "running" => Exists(db) /\ db.logged >= image

\* The line of the database is the replica's, or was chosen.
Lines ==
    /\ lines \in 0..MaxLines
    /\ ~Exists(db) => lines < MaxLines
    /\ Exists(db) /\ Exists(replica) => db.line \in {replica.line} \cup chosen

\* There is a snapshot that the running backup keeps.
Kept ==
    /\ day \in 0..MaxDay
    /\ backup.copy.day <= day
    /\ backup.step = "prune" => snapshots \ backup.todo # {}

IInv == TypeOK /\ Accounts /\ Recorded /\ Migrations /\ Lines /\ Kept

-----------------------------------------------------------------------------
(* docker-entrypoint.sh                                                    *)

LEMMA StartKeeps ==
    ASSUME IInv, Start
    PROVE  IInv'
<1> USE BootAssumption DEF IInv, Start, volume, storage, asked, counts
<1>1. TypeOK'
  BY DEF TypeOK, Booting
<1>2. Accounts'
  BY DEF Accounts, Credit
<1>3. Recorded' /\ Migrations' /\ Lines' /\ Kept'
  BY DEF Recorded, Migrations, Lines, Kept
<1> QED
  BY <1>1, <1>2, <1>3

LEMMA GateKeeps ==
    ASSUME IInv, Gate
    PROVE  IInv'
<1> USE BootAssumption DEF IInv, Gate, Beside, volume, storage, asked, counts
<1>1. TypeOK'
  BY DEF TypeOK, Booting
<1>2. Accounts'
  BY DEF Accounts, Credit
<1>3. Recorded' /\ Migrations' /\ Lines' /\ Kept'
  BY DEF Recorded, Migrations, Lines, Kept
<1> QED
  BY <1>1, <1>2, <1>3

LEMMA RestoreKeeps ==
    ASSUME IInv, Restore
    PROVE  IInv'
<1> USE BootAssumption DEF IInv, Restore, Beside, volume, storage, asked, counts
<1>1. TypeOK'
  BY DEF TypeOK, Booting
<1>2. Accounts'
  BY DEF Accounts, Credit
<1>3. Lines'
  BY DEF Lines, Accounts
<1>4. Recorded' /\ Migrations' /\ Kept'
  BY DEF Recorded, Migrations, Kept
<1> QED
  BY <1>1, <1>2, <1>3, <1>4

LEMMA RestoreFailsKeeps ==
    ASSUME IInv, RestoreFails
    PROVE  IInv'
<1> USE BootAssumption DEF IInv, RestoreFails, Beside, Fault, volume, storage, asked, counts
<1>1. Accounts'
  BY DEF Accounts, Credit
<1>2. TypeOK' /\ Recorded' /\ Migrations' /\ Lines' /\ Kept'
  BY DEF TypeOK, Recorded, Migrations, Lines, Kept
<1> QED
  BY <1>1, <1>2

LEMMA AlertKeeps ==
    ASSUME IInv, Alert
    PROVE  IInv'
<1> USE BootAssumption DEF IInv, Alert, Beside, volume, storage, asked, counts
<1>1. TypeOK'
  BY DEF TypeOK, Booting
<1>2. Accounts' /\ Recorded' /\ Migrations' /\ Lines' /\ Kept'
  BY DEF Accounts, Recorded, Migrations, Lines, Kept
<1> QED
  BY <1>1, <1>2

LEMMA DisarmKeeps ==
    ASSUME IInv, Disarm
    PROVE  IInv'
<1> USE BootAssumption DEF IInv, Disarm, Beside, volume, storage, asked, counts
<1>1. TypeOK'
  BY DEF TypeOK, Booting
<1>2. Accounts'
  BY DEF Accounts, Credit
<1>3. Recorded' /\ Migrations' /\ Lines' /\ Kept'
  BY DEF Recorded, Migrations, Lines, Kept
<1> QED
  BY <1>1, <1>2, <1>3

-----------------------------------------------------------------------------
(* runMigrations                                                           *)

LEMMA OpenAndReadKeeps ==
    ASSUME IInv, OpenAndRead
    PROVE  IInv'
<1> USE BootAssumption DEF IInv, OpenAndRead, Beside, volume, storage, asked, counts
<1>a. /\ pc = "migrate" /\ pc' = "applying" /\ Exists(db)'
      /\ UNCHANGED <<sentinel, armings, slips, crashes, losses, faults, replica>>
      /\ \/ Exists(db) /\ heals' = heals
         \/ ~Exists(db) /\ heals' = heals + 1
  BY DEF Exists, Lines
<1>1. TypeOK'
  BY DEF TypeOK, Booting, Contents, Migrators, None, Lines
<1>2. Accounts'
  BY <1>a DEF Accounts, Credit
<1>3. Recorded'
  BY DEF Recorded, Whole, None
<1>4. Migrations'
  <2>1. /\ pc = "migrate" /\ pc' = "applying" /\ Exists(db)' /\ db'.logged = db.logged
        /\ migrating \in [Migrators -> [on : BOOLEAN, at : 0..(MaxImage + 1)]]
    BY <1>a DEF Exists, None, Contents, TypeOK, Recorded, Whole
  <2>2. migrating' = [migrating EXCEPT !["boot"] = [on |-> TRUE, at |-> db.logged + 1]]
    OBVIOUS
  <2>3. /\ migrating'["boot"].on = TRUE /\ migrating'["boot"].at = db.logged + 1
        /\ migrating'["script"] = migrating["script"]
    BY <2>1, <2>2 DEF Migrators
  <2>4. db.logged \in Nat
    BY DEF TypeOK, Contents
  <2> QED
    BY <2>1, <2>3, <2>4 DEF Migrations
<1>5. Lines'
  BY DEF Lines, Exists, Accounts
<1>6. Kept'
  BY DEF Kept
<1> QED
  BY <1>1, <1>2, <1>3, <1>4, <1>5, <1>6

LEMMA ScriptReadsKeeps ==
    ASSUME IInv, ScriptReads
    PROVE  IInv'
<1> USE BootAssumption DEF IInv, ScriptReads, Beside, volume, storage, asked, counts
<1>1. TypeOK'
  BY DEF TypeOK, Contents, Migrators
<1>2. Accounts'
  BY DEF Accounts, Credit
<1>3. Recorded' /\ Migrations' /\ Lines' /\ Kept'
  BY DEF Recorded, Migrations, Lines, Kept
<1> QED
  BY <1>1, <1>2, <1>3

LEMMA ApplyKeeps ==
    ASSUME IInv, NEW m \in Migrators, Apply(m)
    PROVE  IInv'
<1> USE BootAssumption DEF IInv, Apply, Beside, volume, storage, asked, counts
<1> DEFINE Done == /\ db' \in Contents /\ db'.line = db.line
                   /\ db'.schema = migrating[m].at /\ db'.logged = migrating[m].at
                   /\ db.logged < migrating[m].at /\ migrating[m].at <= image
                   /\ migrating' = [migrating EXCEPT ![m] =
                                       [on |-> TRUE, at |-> migrating[m].at + 1]]
                   /\ pc' = pc
           Clash == /\ db' = db
                    /\ migrating' = IF m = "boot" THEN AllStopped ELSE Stopped(m)
                    /\ pc' = IF m = "boot" THEN "off" ELSE pc
<1>a. /\ migrating \in [Migrators -> [on : BOOLEAN, at : 0..(MaxImage + 1)]]
      /\ migrating[m] \in [on : BOOLEAN, at : 0..(MaxImage + 1)] /\ migrating[m].on
      /\ migrating[m].at \in 0..(MaxImage + 1) /\ image \in 1..MaxImage /\ MaxImage \in Nat
      /\ db \in Contents /\ db.logged \in Nat /\ db.schema \in Nat
  BY DEF TypeOK, Contents
<1>b. UNCHANGED <<sentinel, asked, counts, image, replica, backup, storage, fetching, day>>
  OBVIOUS
<1>c. Done \/ Clash
  <2>1. CASE ~Clashes(m)
    <3>1. /\ db' = [db EXCEPT !.schema = migrating[m].at, !.logged = migrating[m].at]
          /\ migrating' = [migrating EXCEPT ![m].at = @ + 1] /\ pc' = pc
          /\ migrating[m].at <= image
      BY <2>1
    <3>2. migrating' = [migrating EXCEPT ![m] = [on |-> TRUE, at |-> migrating[m].at + 1]]
      BY <1>a, <3>1
    <3>3. db.logged < migrating[m].at
      BY <1>a, <2>1 DEF Clashes
    <3>4. /\ db' \in Contents /\ db'.line = db.line
          /\ db'.schema = migrating[m].at /\ db'.logged = migrating[m].at
      <4>1. migrating[m].at \in 0..MaxImage
        BY <1>a, <3>1
      <4>2. db' = [line |-> db.line, schema |-> migrating[m].at, logged |-> migrating[m].at]
        BY <1>a, <3>1 DEF Contents
      <4>3. db.line \in 0..MaxLines
        BY <1>a DEF Contents
      <4> QED
        BY <4>1, <4>2, <4>3, Zenon DEF Contents
    <3> QED
      BY <3>1, <3>2, <3>3, <3>4
  <2>2. CASE Clashes(m)
    BY <2>2
  <2> QED
    BY <2>1, <2>2
<1>1. TypeOK'
  <2>1. CASE Done
    BY <1>a, <2>1 DEF TypeOK, Migrators
  <2>2. CASE Clash
    <3>1. migrating' \in [Migrators -> [on : BOOLEAN, at : 0..(MaxImage + 1)]]
      BY <1>a, <2>2 DEF TypeOK, Stopped, AllStopped
    <3> QED
      BY <2>2, <3>1 DEF TypeOK
  <2> QED
    BY <1>c, <2>1, <2>2
<1>2. Accounts'
  <2>1. pc' # pc => pc = "applying" /\ pc' = "off"
    BY <1>a, <1>c DEF Migrations
  <2>2. Exists(db') = Exists(db)
    BY <1>c DEF Exists
  <2> QED
    BY <1>b, <2>1, <2>2 DEF Accounts, Credit
<1>3. Recorded'
  <2>1. Whole(db')
    BY <1>a, <1>c DEF Whole, Recorded, Exists, Migrations, Migrators
  <2>2. fetching # NoSnapshot => pc' = "held"
    BY <1>a, <1>c DEF Recorded, Migrations
  <2> QED
    BY <1>b, <2>1, <2>2 DEF Recorded
<1>4. Migrations'
  <2>1. CASE Done /\ m = "boot"
    BY <1>a, <1>b, <2>1 DEF Migrations, Exists, Migrators
  <2>2. CASE Done /\ m = "script"
    BY <1>a, <1>b, <2>2 DEF Migrations, Exists, Migrators, TypeOK
  <2>3. CASE Clash
    BY <1>a, <1>b, <2>3 DEF Migrations, Exists, Migrators, Stopped, AllStopped
  <2> QED
    BY <1>c, <2>1, <2>2, <2>3 DEF Migrators
<1>5. Lines'
  BY DEF Lines, Exists, TypeOK, Contents
<1>6. Kept'
  BY DEF Kept
<1> QED
  BY <1>1, <1>2, <1>3, <1>4, <1>5, <1>6

LEMMA MigratedKeeps ==
    ASSUME IInv, NEW m \in Migrators, Migrated(m)
    PROVE  IInv'
<1> USE BootAssumption DEF IInv, Migrated, Beside, volume, storage, asked, counts
<1>1. TypeOK'
  BY DEF TypeOK, Stopped
<1>2. Accounts'
  BY DEF Accounts, Credit, Migrations
<1>3. Recorded'
  BY DEF Recorded, Migrations
<1>4. Migrations'
  BY DEF Migrations, Contents, TypeOK, Stopped
<1>5. Lines' /\ Kept'
  BY DEF Lines, Kept
<1> QED
  BY <1>1, <1>2, <1>3, <1>4, <1>5

-----------------------------------------------------------------------------
(* backup.js and restore.js                                                *)

LEMMA BackupCopiesKeeps ==
    ASSUME IInv, BackupCopies
    PROVE  IInv'
<1> USE BootAssumption DEF IInv, BackupCopies, Elsewhere, volume, storage, asked, counts
<1>1. TypeOK'
  BY DEF TypeOK, Snapshot, Kept
<1>2. Accounts'
  BY DEF Accounts, Credit
<1>3. Recorded'
  BY DEF Recorded, Migrations
<1>4. Migrations' /\ Lines' /\ Kept'
  BY DEF Migrations, Lines, Kept
<1> QED
  BY <1>1, <1>2, <1>3, <1>4

LEMMA BackupPutsKeeps ==
    ASSUME IInv, BackupPuts
    PROVE  IInv'
<1> USE BootAssumption DEF IInv, BackupPuts, Elsewhere, Fault, volume, storage, asked, counts
<1> DEFINE new == [backup.copy EXCEPT !.day = day]
           Put == /\ snapshots' = snapshots \cup {new}
                  /\ backup' = [backup EXCEPT !.step = "prune", !.todo = Expired(backup)]
                  /\ UNCHANGED <<late, counts>>
           Lost == /\ faults' = faults + 1 /\ UNCHANGED <<crashes, losses>>
                   /\ late' \subseteq late \cup {backup.copy.of}
                   /\ backup' = [backup EXCEPT !.step = "idle", !.copy = NoSnapshot]
                   /\ UNCHANGED snapshots
<1>a. backup \in [step : {"idle", "put", "prune"}, copy : Snapshot, todo : SUBSET Snapshot]
      /\ backup.copy \in Snapshot /\ backup.step = "put" /\ day \in 0..MaxDay
  BY DEF TypeOK, Kept
<1>b. new \in Snapshot /\ new.day = day /\ new.of = backup.copy.of /\ new.of \in Contents
  BY <1>a DEF Snapshot
<1>c. NoSnapshot \in Snapshot /\ NoSnapshot.of = None /\ NoSnapshot.day = 0 /\ None \in Contents
  BY DEF NoSnapshot, None, Snapshot, Contents
<1>d. Expired(backup) \subseteq {s \in snapshots : s.day + Retention < backup.copy.day}
  BY DEF Expired
<1>e. Put \/ Lost
  OBVIOUS
<1>f. UNCHANGED <<db, replica, fetching, asked, pc, image, sentinel, migrating, day>>
  OBVIOUS
<1> HIDE DEF new
<1>1. TypeOK'
  <2>1. CASE Put
    <3>1. backup' \in [step : {"idle", "put", "prune"}, copy : Snapshot, todo : SUBSET Snapshot]
      BY <1>a, <1>d, <2>1 DEF TypeOK
    <3> QED
      BY <1>b, <1>f, <2>1, <3>1 DEF TypeOK
  <2>2. CASE Lost
    <3>1. backup' \in [step : {"idle", "put", "prune"}, copy : Snapshot, todo : SUBSET Snapshot]
      BY <1>a, <1>c, <2>2
    <3> QED
      BY <1>b, <1>f, <2>2, <3>1 DEF TypeOK
  <2> QED
    BY <1>e, <2>1, <2>2
<1>2. Accounts'
  BY DEF Accounts, Credit
<1>3. Recorded'
  <2>1. CASE Put
    BY <1>a, <1>b, <1>f, <2>1 DEF Recorded
  <2>2. CASE Lost
    BY <1>a, <1>b, <1>c, <1>f, <2>2 DEF Recorded, Whole, None
  <2> QED
    BY <1>e, <2>1, <2>2
<1>4. Kept'
  <2>1. CASE Put
    <3>1. new \notin Expired(backup)
      BY <1>a, <1>b, <1>d DEF Kept, Snapshot
    <3> QED
      BY <1>a, <1>f, <2>1, <3>1 DEF Kept
  <2>2. CASE Lost
    BY <1>a, <1>c, <1>f, <2>2 DEF Kept
  <2> QED
    BY <1>e, <2>1, <2>2
<1>5. Migrations' /\ Lines'
  BY DEF Migrations, Lines
<1> QED
  BY <1>1, <1>2, <1>3, <1>4, <1>5

LEMMA BackupPrunesKeeps ==
    ASSUME IInv, BackupPrunes
    PROVE  IInv'
<1> USE BootAssumption DEF IInv, BackupPrunes, Elsewhere, Fault, volume, storage, asked, counts
<1>1. Accounts'
  BY DEF Accounts, Credit
<1>2. TypeOK' /\ Recorded' /\ Migrations' /\ Lines' /\ Kept'
  BY DEF TypeOK, Recorded, Migrations, Lines, Kept
<1> QED
  BY <1>1, <1>2

LEMMA BackupEndsKeeps ==
    ASSUME IInv, BackupEnds
    PROVE  IInv'
<1> USE BootAssumption DEF IInv, BackupEnds, Elsewhere, volume, storage, asked, counts
<1>1. TypeOK'
  BY DEF TypeOK, Contents, Snapshot, None, NoSnapshot
<1>2. Accounts'
  BY DEF Accounts, Credit
<1>3. Recorded'
  BY DEF Recorded, Whole, None, NoSnapshot
<1>4. Kept'
  BY DEF Kept, NoSnapshot
<1>5. Migrations' /\ Lines'
  BY DEF Migrations, Lines
<1> QED
  BY <1>1, <1>2, <1>3, <1>4, <1>5

LEMMA LateArrivesKeeps ==
    ASSUME IInv, NEW d \in late, LateArrives(d)
    PROVE  IInv'
<1> USE BootAssumption DEF IInv, LateArrives, Elsewhere, volume, storage, asked, counts
<1>1. TypeOK'
  BY DEF TypeOK, Snapshot, Kept
<1>2. Accounts'
  BY DEF Accounts, Credit
<1>3. Recorded' /\ Migrations' /\ Lines' /\ Kept'
  BY DEF Recorded, Migrations, Lines, Kept
<1> QED
  BY <1>1, <1>2, <1>3

LEMMA FetchKeeps ==
    ASSUME IInv, NEW s \in snapshots, Fetch(s)
    PROVE  IInv'
<1> USE BootAssumption DEF IInv, Fetch, Elsewhere, volume, storage, asked, counts
<1>1. Accounts'
  BY DEF Accounts, Credit
<1>2. TypeOK' /\ Recorded' /\ Migrations' /\ Lines' /\ Kept'
  BY DEF TypeOK, Recorded, Migrations, Lines, Kept
<1> QED
  BY <1>1, <1>2

LEMMA FetchedKeeps ==
    ASSUME IInv, Fetched
    PROVE  IInv'
<1> USE BootAssumption DEF IInv, Fetched, Elsewhere, volume, storage, asked, counts
<1>1. TypeOK'
  <2>1. fetching.of \in Contents /\ fetching.of.line \in 1..MaxLines
    BY DEF TypeOK, Snapshot, Contents, Recorded, Exists
  <2>2. NoSnapshot \in Snapshot
    BY DEF NoSnapshot, None, Snapshot, Contents
  <2> QED
    BY <2>1, <2>2 DEF TypeOK
<1>2. Accounts'
  BY DEF Accounts, Credit, Recorded
<1>3. Recorded'
  BY DEF Recorded, Whole, None, NoSnapshot
<1>4. Migrations'
  BY DEF Migrations, Recorded
<1>5. Lines'
  BY DEF Lines, Recorded
<1>6. Kept'
  BY DEF Kept
<1> QED
  BY <1>1, <1>2, <1>3, <1>4, <1>5, <1>6

-----------------------------------------------------------------------------
(* The machine, the operator, Litestream                                   *)

LEMMA CrashKeeps ==
    ASSUME IInv, Crash
    PROVE  IInv'
<1> USE BootAssumption DEF IInv, Crash, Down, volume, storage, asked, counts
<1>1. TypeOK'
  BY DEF TypeOK, Contents, Snapshot, None, NoSnapshot, AllStopped
<1>2. Accounts'
  BY DEF Accounts, Credit
<1>3. Recorded'
  BY DEF Recorded, Whole, None, NoSnapshot
<1>4. Migrations'
  BY DEF Migrations, Migrators, AllStopped
<1>5. Kept'
  BY DEF Kept, NoSnapshot
<1>6. Lines'
  BY DEF Lines
<1> QED
  BY <1>1, <1>2, <1>3, <1>4, <1>5, <1>6

LEMMA RestartKeeps ==
    ASSUME IInv, Restart
    PROVE  IInv'
<1> USE BootAssumption DEF IInv, Restart, Down, volume, storage, asked, counts
<1>1. TypeOK'
  BY DEF TypeOK, Contents, Snapshot, None, NoSnapshot, AllStopped
<1>2. Accounts'
  BY DEF Accounts, Credit
<1>3. Recorded'
  BY DEF Recorded, Whole, None, NoSnapshot
<1>4. Migrations'
  BY DEF Migrations, Migrators, AllStopped
<1>5. Kept'
  BY DEF Kept, NoSnapshot
<1>6. Lines'
  BY DEF Lines
<1> QED
  BY <1>1, <1>2, <1>3, <1>4, <1>5, <1>6

LEMMA LoseVolumeKeeps ==
    ASSUME IInv, LoseVolume
    PROVE  IInv'
<1> USE BootAssumption DEF IInv, LoseVolume, volume, storage, asked, counts
<1>1. TypeOK'
  <2>1. None \in Contents
    BY DEF None, Contents
  <2> QED
    BY <2>1 DEF TypeOK
<1>2. Recorded'
  BY DEF Recorded, NoSnapshot
<1>3. Lines'
  BY DEF Lines, Exists, None
<1>4. Accounts' /\ Migrations' /\ Kept'
  BY DEF Accounts, Migrations, Kept
<1> QED
  BY <1>1, <1>2, <1>3, <1>4

LEMMA LoseDatabaseKeeps ==
    ASSUME IInv, LoseDatabase
    PROVE  IInv'
<1> USE BootAssumption DEF IInv, LoseDatabase, volume, storage, asked, counts
<1>1. TypeOK'
  BY DEF TypeOK, Snapshot, NoSnapshot, Recorded
<1>2. Accounts'
  BY DEF Accounts, Credit
<1>3. Recorded'
  BY DEF Recorded, NoSnapshot
<1>4. Lines'
  BY DEF Lines, Exists, None
<1>5. Migrations' /\ Kept'
  BY DEF Migrations, Kept
<1> QED
  BY <1>1, <1>2, <1>3, <1>4, <1>5

LEMMA ArmKeeps ==
    ASSUME IInv, Arm
    PROVE  IInv'
<1> USE BootAssumption DEF IInv, Arm, volume, storage, asked, counts
<1>1. Accounts'
  BY DEF Accounts, Credit
<1>2. TypeOK' /\ Recorded' /\ Migrations' /\ Lines' /\ Kept'
  BY DEF TypeOK, Recorded, Migrations, Lines, Kept
<1> QED
  BY <1>1, <1>2

LEMMA ReplicateKeeps ==
    ASSUME IInv, Replicate
    PROVE  IInv'
<1> USE BootAssumption DEF IInv, Replicate, volume, storage, asked, counts
<1>1. Accounts'
  BY DEF Accounts, Credit
<1>2. TypeOK' /\ Recorded' /\ Migrations' /\ Lines' /\ Kept'
  BY DEF TypeOK, Recorded, Migrations, Lines, Kept
<1> QED
  BY <1>1, <1>2

LEMMA TickKeeps ==
    ASSUME IInv, Tick
    PROVE  IInv'
<1> USE BootAssumption DEF IInv, Tick, volume, storage, asked, counts
<1>1. Accounts'
  BY DEF Accounts, Credit
<1>2. Kept'
  BY DEF Kept, TypeOK, Snapshot
<1>3. TypeOK' /\ Recorded' /\ Migrations' /\ Lines'
  BY DEF TypeOK, Recorded, Migrations, Lines
<1> QED
  BY <1>1, <1>2, <1>3

-----------------------------------------------------------------------------
(* The theorems                                                            *)

LEMMA InvStep == IInv /\ [Next]_vars => IInv'
<1> SUFFICES ASSUME IInv, [Next]_vars PROVE IInv'
  OBVIOUS
<1>1. CASE UNCHANGED vars
  BY <1>1 DEF vars, volume, storage, asked, counts, IInv, TypeOK, Accounts, Credit, Recorded,
              Migrations, Lines, Kept, Expired
<1>2. CASE BootStep
  <2>1. "boot" \in Migrators
    BY DEF Migrators
  <2> QED
    BY <1>2, <2>1, StartKeeps, GateKeeps, RestoreKeeps, RestoreFailsKeeps, AlertKeeps, DisarmKeeps,
       OpenAndReadKeeps, ApplyKeeps, MigratedKeeps DEF BootStep
<1>3. CASE ScriptReads \/ Apply("script") \/ Migrated("script")
  <2>1. "script" \in Migrators
    BY DEF Migrators
  <2> QED
    BY <1>3, <2>1, ScriptReadsKeeps, ApplyKeeps, MigratedKeeps
<1>4. CASE BackupCopies \/ BackupPuts \/ BackupPrunes \/ BackupEnds \/ Fetched
  BY <1>4, BackupCopiesKeeps, BackupPutsKeeps, BackupPrunesKeeps, BackupEndsKeeps, FetchedKeeps
<1>5. CASE (\E d \in late : LateArrives(d)) \/ (\E s \in snapshots : Fetch(s))
  BY <1>5, LateArrivesKeeps, FetchKeeps
<1>6. CASE Crash \/ Restart \/ LoseVolume \/ LoseDatabase \/ Arm \/ Replicate \/ Tick
  BY <1>6, CrashKeeps, RestartKeeps, LoseVolumeKeeps, LoseDatabaseKeeps, ArmKeeps,
     ReplicateKeeps, TickKeeps
<1> QED
  BY <1>1, <1>2, <1>3, <1>4, <1>5, <1>6 DEF Next

LEMMA InvInit == Init => IInv
<1> SUFFICES ASSUME Init PROVE IInv
  OBVIOUS
<1> USE BootAssumption DEF Init, None, NoSnapshot, Exists
<1>1. TypeOK
  <2>1. /\ 0 \in 0..MaxLines /\ 0 \in 0..MaxImage /\ 0 \in 0..MaxDay
        /\ 0 \in 0..(MaxImage + 1) /\ 1 \in 1..MaxImage
    OBVIOUS
  <2>2. db \in Contents /\ replica \in Contents /\ None \in Contents
    BY <2>1 DEF Contents
  <2>3. NoSnapshot \in Snapshot
    BY <2>1, <2>2 DEF Snapshot
  <2>4. migrating \in [Migrators -> [on : BOOLEAN, at : 0..(MaxImage + 1)]]
    BY <2>1
  <2>5. backup \in [step : {"idle", "put", "prune"}, copy : Snapshot, todo : SUBSET Snapshot]
    BY <2>3
  <2>6. late \subseteq Contents /\ snapshots \subseteq Snapshot /\ chosen \subseteq 1..MaxLines
    OBVIOUS
  <2>7. pc \in Booting \cup {"off", "held", "running"} /\ image \in 1..MaxImage
        /\ sentinel \in BOOLEAN /\ fetching \in Snapshot
    BY <2>1, <2>3
  <2> QED
    BY <2>2, <2>4, <2>5, <2>6, <2>7 DEF TypeOK
<1>2. Accounts /\ Recorded /\ Lines /\ Kept
  BY DEF Accounts, Recorded, Whole, Lines, Kept
<1>3. Migrations
  BY DEF Migrations, Migrators
<1> QED
  BY <1>1, <1>2, <1>3 DEF IInv

\* The account, the migrations and the snapshots, for any number of crashes,
\* lost volumes and failing calls.
THEOREM Invariance == Spec => []IInv
  BY InvInit, InvStep, PTL DEF Spec

\* The entrypoint brings no database into being without a human's permission of
\* its own, but after a stop between the restore and the rm of the sentinel; and
\* the server runs on a database that has every migration of its release.
THEOREM GateAlwaysHolds == Spec => []GateHolds
<1>1. IInv => GateHolds
  <2> SUFFICES ASSUME IInv PROVE GateHolds
    OBVIOUS
  <2>1. /\ TypeOK /\ heals <= armings + slips /\ db.schema = db.logged
        /\ pc = "running" => Exists(db) /\ db.logged >= image
    BY DEF IInv, Accounts, Recorded, Whole, Migrations
  <2>2. sentinel /\ pc \in {"migrate", "applying", "running"} => slips > 0 \/ armings > heals
    BY DEF IInv, Accounts, Credit
  <2> QED
    BY <2>1, <2>2 DEF GateHolds
<1> QED
  BY <1>1, Invariance, PTL

LEMMA KeepsStep == IInv /\ [Next]_vars => [Keeps]_vars
<1> SUFFICES ASSUME IInv, Next PROVE Keeps
  BY DEF vars
<1>1. CASE Replicate
  BY <1>1 DEF Replicate, volume, storage, asked, counts, Keeps, IInv, Lines, Migrations
<1>2. CASE BackupPrunes
  <2>1. PICK s \in backup.todo : snapshots' = snapshots \ {s} \/ snapshots' = snapshots
    BY <1>2 DEF BackupPrunes
  <2>2. snapshots' # {}
    BY <1>2, <2>1 DEF BackupPrunes, IInv, Kept
  <2> QED
    BY <1>2, <2>2 DEF BackupPrunes, Keeps
<1>3. ASSUME replica' = replica, snapshots \subseteq snapshots'
      PROVE  Keeps
  BY <1>3 DEF Keeps
<1>4. CASE BootStep \/ ScriptReads \/ Apply("script") \/ Migrated("script")
  BY <1>3, <1>4 DEF BootStep, Start, Gate, Restore, RestoreFails, Alert, Disarm, OpenAndRead,
     Apply, Migrated, ScriptReads, Beside, storage
<1>5. CASE BackupCopies \/ BackupPuts \/ BackupEnds \/ Fetched
  BY <1>3, <1>5 DEF BackupCopies, BackupPuts, BackupEnds, Fetched, storage
<1>6. CASE (\E d \in late : LateArrives(d)) \/ (\E s \in snapshots : Fetch(s))
  BY <1>3, <1>6 DEF LateArrives, Fetch, storage
<1>7. CASE Crash \/ Restart \/ LoseVolume \/ LoseDatabase \/ Arm \/ Tick
  BY <1>3, <1>7 DEF Crash, Restart, Down, LoseVolume, LoseDatabase, Arm, Tick, storage
<1> QED
  BY <1>1, <1>2, <1>4, <1>5, <1>6, <1>7 DEF Next

\* Litestream replaces a replica by one of another line only when the operator
\* chose a snapshot of that line, and pruneOldSnapshots never empties the bucket.
THEOREM BackupsAlwaysKept == Spec => BackupsKept
  BY Invariance, KeepsStep, PTL DEF BackupsKept, Spec

-----------------------------------------------------------------------------
(* Import: what a row makes of a database                                  *)

\* A database whose constraints hold: addresses are unique, members are users.
Consistent(d) == Storable(d) /\ d.members \subseteq DOMAIN d.users

\* What the statements of a row may do to a database before its issue is there.
Grew(d, e) ==
    /\ e \in Database /\ Consistent(e)
    /\ e.issues = d.issues /\ e.gone = d.gone
    /\ d.members \subseteq e.members
    /\ DOMAIN d.users \subseteq DOMAIN e.users
    /\ \A u \in DOMAIN d.users : e.users[u] = d.users[u]
    /\ DOMAIN d.statuses \subseteq DOMAIN e.statuses
    /\ \A s \in DOMAIN d.statuses :
         /\ e.statuses[s].by = d.statuses[s].by
         /\ e.statuses[s].archived => d.statuses[s].archived

\* What a row makes of a database b: its status and its people, what it resolves,
\* and its issue.
Labelled(b, line) == WithStatus(b, line.status)
Peopled(b, line) == WithPeople(Labelled(b, line), line)

Resolved(b, line) ==
    [status |-> StatusOf(Labelled(b, line), line.status),
     opener |-> PersonOf(Peopled(b, line), line.opener),
     assignee |-> IF line.assignee = Blank THEN 0
                  ELSE PersonOf(Peopled(b, line), line.assignee)]

Imported(b, line, by, run, l) ==
    WithIssue(Peopled(b, line), NextNumber(b), Resolved(b, line), by, run, l)

\* The issues of b with one more, made, and what else is in e is there for its sake.
Brought(b, e, made) ==
    /\ e.issues = Append(b.issues, made) /\ made \in Issue
    /\ made.number = Len(b.issues) + 1
    /\ made.status \in DOMAIN e.statuses /\ ~e.statuses[made.status].archived
    /\ made.assignee # 0 => made.assignee \in e.members
    /\ b.members \subseteq e.members
    /\ DOMAIN b.users \subseteq DOMAIN e.users
    /\ \A u \in DOMAIN b.users : e.users[u] = b.users[u]
    /\ \A u \in DOMAIN e.users \ DOMAIN b.users : u \in {made.opener, made.assignee}
    /\ DOMAIN b.statuses \subseteq DOMAIN e.statuses
    /\ \A s \in DOMAIN b.statuses :
         /\ e.statuses[s].by = b.statuses[s].by
         /\ e.statuses[s].archived => b.statuses[s].archived
    /\ \A s \in DOMAIN e.statuses \ DOMAIN b.statuses : s = made.status

\* The default status is there, and active.
HasDefault(d) ==
    DefaultStatus \in DOMAIN d.statuses /\ ~d.statuses[DefaultStatus].archived

-----------------------------------------------------------------------------
(* The inductive invariant                                                 *)

\* What is in a database as the rows and the requests before made it.
Sound ==
    /\ Consistent(committed)
    /\ \A i \in DOMAIN committed.issues :
         /\ committed.issues[i].number = i /\ committed.issues[i].by # "dry"
         /\ committed.issues[i].run <= runs
    /\ ~committed.gone => HasDefault(committed)

\* The importer's people are quoted and its statuses are used.
Quoted(d) ==
    \A u \in DOMAIN d.users : d.users[u].by = "import" =>
       \E i \in DOMAIN d.issues : u \in {d.issues[i].opener, d.issues[i].assignee}

UsedBy(d) ==
    \A s \in DOMAIN d.statuses : d.statuses[s].by = "import" =>
       \E i \in DOMAIN d.issues : d.issues[i].status = s

Justified == ~committed.gone => Quoted(committed) /\ UsedBy(committed)

\* The transaction's view and the row are what the row's statements so far make
\* of b.
Applied(b) ==
    LET line == csv[next]
    IN  /\ step = "begun" => view = b /\ row = NoRow
        /\ step = "labelled" =>
             /\ ~b.gone /\ view = Labelled(b, line)
             /\ row = [NoRow EXCEPT !.status = StatusOf(Labelled(b, line), line.status)]
        /\ step = "peopled" =>
             ~b.gone /\ view = Peopled(b, line) /\ row = Resolved(b, line)

\* Where the importer stands: in a row of a run that can be imported, and in a
\* real run with the view of the database it began with, unless a commit of another
\* process made that stale, which it cannot once the lock is held.
InRow ==
    /\ step # "between" => Running /\ next <= Len(csv) /\ Usable(csv[next])
    /\ step = "between" => row = NoRow
    /\ Consistent(view)
    /\ view.gone => committed.gone
    /\ mode = "real" /\ step # "between" /\ ~stale => Applied(committed)

Locking ==
    /\ locked => Open /\ ~stale
    /\ locked /\ mode = "real" => step \in {"labelled", "peopled"}
    /\ Running /\ stale => meddled > 0
    /\ Running /\ committed.gone => meddled > 0
    /\ meddled <= writes

\* What createIssue read is still so, as no other handler runs, and its number is
\* the next one while its snapshot is the last.
Creation ==
    /\ creating.status = 0 => creating = NoCreation
    /\ creating.status # 0 /\ ~committed.gone =>
         /\ creating.status \in DOMAIN committed.statuses
         /\ ~committed.statuses[creating.status].archived
    /\ creating.status # 0 /\ creating.assignee # 0 /\ ~committed.gone =>
         /\ creating.assignee \in committed.members
         /\ ~committed.users[creating.assignee].disabled
    /\ creating.number # 0 /\ ~creating.stale =>
         committed.gone \/ creating.number = NextNumber(committed)

\* The results of the lines, against the database and the commits of others; a
\* real run whose view is stale has a commit that no row has paid for yet.
Entered ==
    mode \in {"real", "over"} /\ ~committed.gone =>
      \A l \in DOMAIN csv :
         IF result[l] = "imported" THEN \E i \in DOMAIN committed.issues : Inserted(l) = {i}
         ELSE Inserted(l) = {}

BusyLines == {l \in DOMAIN csv : result[l] = "busy"}

Told ==
    /\ Running => \A l \in DOMAIN csv : l >= next => result[l] = "none"
    /\ \A l \in DOMAIN csv : result[l] = "missing" => ~Usable(csv[l])
    /\ \A l \in DOMAIN csv : result[l] = "refused" => committed.gone
    /\ \A l \in DOMAIN csv : result[l] = "busy" => meddled > 0

Paid ==
    /\ mode = "real" => Cardinality(BusyLines) <= meddled
    /\ mode = "real" /\ step # "between" /\ stale => Cardinality(BusyLines) < meddled

ImportInv ==
    /\ ImportTypeOK /\ Sound /\ Justified /\ InRow /\ Locking /\ Creation
    /\ Entered /\ Told /\ Paid

-----------------------------------------------------------------------------
(* Names and addresses                                                     *)

\* A part of 1..n that is not empty has a least element.
LEMMA LeastOf ==
    ASSUME NEW n \in Nat, NEW S \in SUBSET (1..n), S # {}
    PROVE  \E m \in S : \A k \in S : m <= k
<1> DEFINE Below(k) == {j \in S : j < k}
           F == {Below(k) : k \in S}
<1>0. S \subseteq Int /\ IsFiniteSet(S)
  <2>1. IsFiniteSet(1..n)
    BY FS_Interval
  <2>2. IsFiniteSet(S)
    BY <2>1, FS_Subset
  <2>3. S \subseteq Int
    OBVIOUS
  <2> QED
    BY <2>2, <2>3
<1>1. F \subseteq FiniteSubsetsOf(S) /\ F # {}
  <2>1. F \subseteq SUBSET S /\ F # {}
    BY Zenon
  <2>2. FiniteSubsetsOf(S) = SUBSET S
    BY <1>0, FS_FiniteSubsetsOfFinite
  <2> QED
    BY <2>1, <2>2, Zenon
<1>2. IsWellFoundedOn(StrictSubsetOrdering(S), FiniteSubsetsOf(S))
  BY FS_StrictSubsetOrderingWellFounded
<1>3. PICK u \in F : \A v \in F : ~(<<v, u>> \in StrictSubsetOrdering(S))
  <2> HIDE DEF F
  <2> QED
    BY <1>1, <1>2, WFMin
<1>4. PICK m \in S : u = Below(m)
  BY <1>3, Zenon
<1>5. ASSUME NEW k \in S PROVE m <= k
  <2>1. SUFFICES ASSUME k < m PROVE FALSE
    BY <1>0, <1>4
  <2>2. k \in Below(m) /\ k \notin Below(k) /\ Below(k) \subseteq Below(m)
    <3>1. ~(k < k)
      BY <1>0
    <3>2. ASSUME NEW j \in S, j < k PROVE j < m
      BY <1>0, <2>1, <3>2
    <3> QED
      BY <2>1, <3>1, <3>2
  <2>3. Below(k) \in F /\ Below(k) \subseteq S /\ Below(m) \subseteq S
    BY Zenon
  <2>4. <<Below(k), Below(m)>> \in StrictSubsetOrdering(S)
    <3> HIDE DEF Below
    <3> QED
      BY <2>2, <2>3 DEF StrictSubsetOrdering
  <2> QED
    BY <1>3, <1>4, <2>3, <2>4
<1> QED
  BY <1>4, <1>5

\* A part of 1..n that is not empty has a greatest element.
LEMMA GreatestOf ==
    ASSUME NEW n \in Nat, NEW S \in SUBSET (1..n), S # {}
    PROVE  \E m \in S : \A k \in S : k <= m
<1> DEFINE T == {n + 1 - k : k \in S}
<1>1. T \in SUBSET (1..n) /\ T # {}
  <2>1. ASSUME NEW k \in S PROVE n + 1 - k \in 1..n
    <3>1. k \in 1..n
      OBVIOUS
    <3> QED
      BY <3>1
  <2>2. T \in SUBSET (1..n)
    BY <2>1
  <2>3. PICK k : k \in S
    OBVIOUS
  <2>4. n + 1 - k \in T
    BY <2>3
  <2> QED
    BY <2>2, <2>4
<1>2. PICK t \in T : \A k \in T : t <= k
  <2> HIDE DEF T
  <2> QED
    BY <1>1, LeastOf
<1>3. PICK m \in S : t = n + 1 - m
  OBVIOUS
<1>4. ASSUME NEW k \in S PROVE k <= m
  <2>1. n + 1 - k \in T
    OBVIOUS
  <2> QED
    BY <1>2, <1>3, <2>1
<1> QED
  BY <1>3, <1>4

\* A name that is mapped is a name, and so is what it is mapped to.
LEMMA MapType ==
    ASSUME NEW p \in DOMAIN UserMap
    PROVE  /\ p \in People /\ UserMap[p].display \in People /\ UserMap[p].email \in Emails
<1> DEFINE S == {j \in DOMAIN Specs : Specs[j].name = p}
           Last(k) == /\ Specs[k].name = p
                      /\ \A i \in DOMAIN Specs : Specs[i].name = p => i <= k
           k == CHOOSE j \in DOMAIN Specs : Last(j)
<1>1. p \in {Specs[j].name : j \in DOMAIN Specs}
  BY DEF UserMap
<1>2. S \in SUBSET (1..Len(Specs)) /\ S # {} /\ Len(Specs) \in Nat
  BY <1>1, ImportAssumption
<1>3. \E j \in DOMAIN Specs : Last(j)
  BY <1>2, GreatestOf
<1>4. k \in DOMAIN Specs /\ Last(k)
  BY <1>3
<1>5. UserMap[p] = [email |-> Specs[k].email,
                    display |-> IF Specs[k].display = Blank THEN p ELSE Specs[k].display]
  BY <1>1 DEF UserMap
<1>6. p \in People /\ Specs[k].display \in People \cup {Blank}
  BY <1>1, <1>4, ImportAssumption
<1>7. UserMap[p].display \in People
  <2> HIDE DEF k
  <2> QED
    BY <1>5, <1>6
<1>8. UserMap[p].email \in Emails
  BY DEF Emails
<1> QED
  BY <1>6, <1>7, <1>8

\* The rows of a table are numbered from 1.
LEMMA Rows ==
    ASSUME NEW d \in Database
    PROVE  /\ d.users \in Seq(User) /\ DOMAIN d.users = 1..Len(d.users)
           /\ Len(d.users) \in Nat
           /\ d.statuses \in Seq(Status) /\ DOMAIN d.statuses = 1..Len(d.statuses)
           /\ Len(d.statuses) \in Nat
           /\ d.issues \in Seq(Issue) /\ DOMAIN d.issues = 1..Len(d.issues)
           /\ Len(d.issues) \in Nat
           /\ d.members \subseteq Nat /\ d.gone \in BOOLEAN
           /\ \A u \in DOMAIN d.users : d.users[u] \in User
           /\ \A s \in DOMAIN d.statuses : d.statuses[s] \in Status
           /\ \A i \in DOMAIN d.issues : d.issues[i] \in Issue
           /\ d = [users |-> d.users, members |-> d.members, statuses |-> d.statuses,
                   issues |-> d.issues, gone |-> d.gone]
  BY DEF Database

\* Of the addresses that are tried one is free, since a user has only one.
LEMMA FreeEmailIsFree ==
    ASSUME NEW d \in Database, NEW p \in People
    PROVE  FreeEmail(d, p) \in Emails /\ HasEmail(d, FreeEmail(d, p)) = {}
<1> DEFINE n == Len(d.users)
           At(k) == HasEmail(d, <<Slug[p], k>>)
           Free(k) == At(k) = {} /\ \A j \in 1..(k - 1) : At(j) # {}
           S == {k \in 1..(n + 1) : At(k) = {}}
<1>1. n \in Nat /\ DOMAIN d.users = 1..n
  BY Rows
<1>2. S # {}
  <2> SUFFICES ASSUME S = {} PROVE FALSE
    OBVIOUS
  <2> DEFINE f == [k \in 1..(n + 1) |-> CHOOSE u \in At(k) : TRUE]
  <2>1. \A k \in 1..(n + 1) : f[k] \in At(k)
    OBVIOUS
  <2>2. \A k \in 1..(n + 1) : f[k] \in 1..n /\ d.users[f[k]].email = <<Slug[p], k>>
    BY <1>1, <2>1 DEF HasEmail
  <2>3. f \in [1..(n + 1) -> 1..n]
    BY <2>2
  <2> HIDE DEF f, S, n
  <2>4. /\ IsFiniteSet(1..(n + 1)) /\ IsFiniteSet(1..n)
        /\ Cardinality(1..n) < Cardinality(1..(n + 1))
    <3>1. IsFiniteSet(1..n) /\ Cardinality(1..n) = n
      BY <1>1, FS_Interval
    <3>2. IsFiniteSet(1..(n + 1)) /\ Cardinality(1..(n + 1)) = n + 1
      BY <1>1, FS_Interval
    <3> QED
      BY <1>1, <3>1, <3>2
  <2>5. PICK x, y \in 1..(n + 1) : x # y /\ f[x] = f[y]
    BY <2>3, <2>4, FS_PigeonHole
  <2>6. <<Slug[p], x>> = <<Slug[p], y>>
    BY <2>2, <2>5
  <2> QED
    BY <2>5, <2>6
<1>3. \E k \in 1..(n + 1) : Free(k)
  <2>1. PICK m \in S : \A k \in S : m <= k
    <3>1. S \in SUBSET (1..(n + 1)) /\ n + 1 \in Nat
      BY <1>1
    <3> HIDE DEF S
    <3> QED
      BY <1>2, <3>1, LeastOf
  <2>2. \A j \in 1..(m - 1) : At(j) # {}
    <3>1. ASSUME NEW j \in 1..(m - 1) PROVE j \in 1..(n + 1) /\ ~(m <= j)
      BY <1>1
    <3> HIDE DEF At
    <3> QED
      BY <2>1, <3>1
  <2> QED
    BY <2>1, <2>2
<1>4. PICK k \in 1..(n + 1) : Free(k) /\ FreeEmail(d, p) = <<Slug[p], k>>
  <2> DEFINE k == CHOOSE k \in 1..(n + 1) : Free(k)
  <2>1. k \in 1..(n + 1) /\ Free(k)
    BY <1>3
  <2>2. FreeEmail(d, p) = <<Slug[p], k>>
    BY DEF FreeEmail
  <2> QED
    BY <2>1, <2>2
<1> QED
  BY <1>1, <1>4 DEF Emails

\* Of those who have a name one is best.
LEMMA BestOfName ==
    ASSUME NEW d \in Database, NEW p, NEW v \in DOMAIN d.users, d.users[v].name = p
    PROVE  ByName(d, p) # {}
<1> DEFINE n == Len(d.users)
           All == {u \in DOMAIN d.users : d.users[u].name = p}
           Enabled == {u \in All : ~d.users[u].disabled}
<1>1. n \in Nat /\ DOMAIN d.users = 1..n
  BY Rows
<1>2. CASE Enabled # {}
  <2>1. Enabled \in SUBSET (1..n)
    BY <1>1
  <2>2. PICK m \in Enabled : \A k \in Enabled : m <= k
    <3> HIDE DEF Enabled, n
    <3> QED
      BY <1>1, <1>2, <2>1, LeastOf
  <2>3. m \in ByName(d, p)
    <3>1. ASSUME NEW u \in DOMAIN d.users, d.users[u].name = p, u # m, ~d.users[u].disabled
          PROVE  u > m
      <4>1. u \in Enabled
        BY <3>1
      <4> QED
        BY <1>1, <2>2, <3>1, <4>1
    <3> QED
      BY <2>2, <3>1 DEF ByName
  <2> QED
    BY <2>3
<1>3. CASE Enabled = {}
  <2>1. All \in SUBSET (1..n) /\ All # {}
    BY <1>1
  <2>2. PICK m \in All : \A k \in All : m <= k
    <3> HIDE DEF All, n
    <3> QED
      BY <1>1, <2>1, LeastOf
  <2>3. m \in ByName(d, p)
    <3>1. ASSUME NEW u \in DOMAIN d.users, d.users[u].name = p, u # m
          PROVE  u > m /\ d.users[u].disabled
      <4>1. u \in All
        BY <3>1
      <4>2. d.users[u].disabled
        BY <1>3, <4>1
      <4> QED
        BY <1>1, <2>2, <3>1, <4>1, <4>2
    <3> QED
      BY <2>2, <3>1 DEF ByName
  <2> QED
    BY <2>3
<1> QED
  BY <1>2, <1>3

-----------------------------------------------------------------------------
(* The statements of a row                                                 *)

\* Whom a name means depends on the users only.
LEMMA KnownByUsers ==
    ASSUME NEW d, NEW e, NEW p, d.users = e.users
    PROVE  Known(d, p) = Known(e, p)
  BY DEF Known, HasEmail, ByName

\* Those who are known are users.
LEMMA KnownAreUsers ==
    ASSUME NEW d, NEW p
    PROVE  Known(d, p) \subseteq DOMAIN d.users
  BY DEF Known, HasEmail, ByName

\* A user is added at the end.
LEMMA UserAdded ==
    ASSUME NEW d \in Database, NEW w \in User, NEW e,
           e = [d EXCEPT !.users = Append(@, w)]
    PROVE  /\ e \in Database
           /\ e.members = d.members /\ e.statuses = d.statuses
           /\ e.issues = d.issues /\ e.gone = d.gone
           /\ DOMAIN d.users = 1..Len(d.users) /\ Len(d.users) \in Nat
           /\ DOMAIN e.users = 1..(Len(d.users) + 1)
           /\ \A u \in DOMAIN d.users : e.users[u] = d.users[u]
           /\ e.users[Len(d.users) + 1] = w
<1>1. e = [users |-> Append(d.users, w), members |-> d.members, statuses |-> d.statuses,
           issues |-> d.issues, gone |-> d.gone]
  BY DEF Database
<1>2. /\ Append(d.users, w) \in Seq(User) /\ Len(Append(d.users, w)) = Len(d.users) + 1
      /\ \A u \in 1..Len(d.users) : Append(d.users, w)[u] = d.users[u]
      /\ Append(d.users, w)[Len(d.users) + 1] = w
  BY Rows
<1>3. e \in Database
  BY <1>1, <1>2 DEF Database
<1> QED
  BY <1>1, <1>2, <1>3, Rows

\* The row of a person nobody is known as.
LEMMA NewUserType ==
    ASSUME NEW d \in Database, NEW p \in People, Known(d, p) = {}
    PROVE  /\ NewUser(d, p) \in User /\ HasEmail(d, NewUser(d, p).email) = {}
           /\ NewUser(d, p).disabled = TRUE /\ NewUser(d, p).by = "import"
           /\ p \in DOMAIN UserMap => NewUser(d, p).email = UserMap[p].email
           /\ p \notin DOMAIN UserMap => NewUser(d, p).name = p
<1>1. CASE p \in DOMAIN UserMap
  <2>1. NewUser(d, p) = [name |-> UserMap[p].display, email |-> UserMap[p].email,
                         disabled |-> TRUE, by |-> "import"]
    BY <1>1 DEF NewUser
  <2>2. HasEmail(d, UserMap[p].email) = {}
    BY <1>1 DEF Known
  <2>3. UserMap[p].display \in People /\ UserMap[p].email \in Emails
    BY <1>1, MapType
  <2> QED
    BY <1>1, <2>1, <2>2, <2>3 DEF User, Authors
<1>2. CASE p \notin DOMAIN UserMap
  <2>1. NewUser(d, p) = [name |-> p, email |-> FreeEmail(d, p), disabled |-> TRUE,
                         by |-> "import"]
    BY <1>2 DEF NewUser
  <2> QED
    BY <1>2, <2>1, FreeEmailIsFree DEF User, Authors
<1> QED
  BY <1>1, <1>2

\* ... is the one that is known afterwards.
LEMMA NewIsKnown ==
    ASSUME NEW d \in Database, NEW p \in People, Known(d, p) = {}, NEW e,
           e = [d EXCEPT !.users = Append(@, NewUser(d, p))]
    PROVE  Known(e, p) = {Len(d.users) + 1}
<1> DEFINE n == Len(d.users)
           w == NewUser(d, p)
<1>1. /\ e \in Database /\ n \in Nat
      /\ DOMAIN d.users = 1..n /\ DOMAIN e.users = 1..(n + 1)
      /\ \A u \in 1..n : e.users[u] = d.users[u]
      /\ e.users[n + 1] = w
  <2>1. w \in User
    BY NewUserType
  <2> HIDE DEF w
  <2>2. e = [d EXCEPT !.users = Append(@, w)]
    BY DEF w
  <2> QED
    BY <2>1, <2>2, UserAdded
<1>2. CASE p \in DOMAIN UserMap
  <2>1. \A u \in 1..n : d.users[u].email # UserMap[p].email
    BY <1>1, <1>2 DEF Known, HasEmail
  <2>2. w.email = UserMap[p].email
    BY <1>2, NewUserType
  <2> HIDE DEF w, n
  <2>3. HasEmail(e, UserMap[p].email) = {n + 1}
    BY <1>1, <2>1, <2>2 DEF HasEmail
  <2> QED
    BY <1>2, <2>3 DEF Known, n
<1>3. CASE p \notin DOMAIN UserMap
  <2>1. \A u \in 1..n : d.users[u].name # p
    BY <1>1, <1>3, BestOfName DEF Known
  <2>2. w.name = p
    BY <1>3, NewUserType
  <2> HIDE DEF w, n
  <2>3. ByName(e, p) = {n + 1}
    BY <1>1, <2>1, <2>2 DEF ByName
  <2> QED
    BY <1>3, <2>3 DEF Known, n
<1> QED
  BY <1>2, <1>3

\* Whoever is known stays so when a disabled user with a free address is added.
LEMMA KnownStays ==
    ASSUME NEW d \in Database, NEW w \in User, w.disabled, HasEmail(d, w.email) = {},
           NEW e, e = [d EXCEPT !.users = Append(@, w)], NEW p, Known(d, p) # {}
    PROVE  Known(e, p) = Known(d, p)
<1> DEFINE n == Len(d.users)
<1>1. /\ n \in Nat /\ DOMAIN d.users = 1..n /\ DOMAIN e.users = 1..(n + 1)
      /\ \A u \in 1..n : e.users[u] = d.users[u]
      /\ e.users[n + 1] = w
  BY UserAdded
<1> HIDE DEF n
<1>2. CASE p \in DOMAIN UserMap
  <2>1. w.email # UserMap[p].email
    BY <1>2 DEF Known
  <2>2. HasEmail(e, UserMap[p].email) = HasEmail(d, UserMap[p].email)
    BY <1>1, <2>1 DEF HasEmail
  <2> QED
    BY <1>2, <2>2 DEF Known
<1>3. CASE p \notin DOMAIN UserMap
  <2>1. PICK b \in 1..n : b \in ByName(d, p)
    BY <1>1, <1>3 DEF Known, ByName
  <2>2. d.users[b].name = p
    BY <2>1 DEF ByName
  <2>3. n + 1 \notin ByName(e, p)
    BY <1>1, <2>2 DEF ByName
  <2>4. ASSUME NEW u \in 1..n PROVE u \in ByName(e, p) <=> u \in ByName(d, p)
    <3>1. n + 1 > u
      BY <1>1
    <3> QED
      BY <1>1, <3>1 DEF ByName
  <2>5. ByName(e, p) \subseteq 1..(n + 1) /\ ByName(d, p) \subseteq 1..n
    BY <1>1 DEF ByName
  <2>6. \A u : u \in ByName(e, p) <=> u \in ByName(d, p)
    <3>1. \A u \in 1..(n + 1) : u \in 1..n \/ u = n + 1
      BY <1>1
    <3>2. n + 1 \notin 1..n
      BY <1>1
    <3> QED
      BY <2>3, <2>4, <2>5, <3>1, <3>2
  <2>7. ByName(e, p) = ByName(d, p)
    BY <2>6
  <2> QED
    BY <1>3, <2>7 DEF Known
<1> QED
  BY <1>2, <1>3

\* Nothing done is a change that may be.
LEMMA GrewSelf ==
    ASSUME NEW d \in Database, Consistent(d)
    PROVE  Grew(d, d)
  BY DEF Grew

\* One such change after another.
LEMMA GrewOn ==
    ASSUME NEW d, NEW e, NEW f, Grew(d, e), Grew(e, f)
    PROVE  Grew(d, f)
  BY DEF Grew

\* A person joins: as the user that is known, or as the only new one.
LEMMA PersonJoins ==
    ASSUME NEW d \in Database, Consistent(d), NEW p \in People, NEW e,
           e = WithPerson(d, p)
    PROVE  /\ Grew(d, e) /\ e.statuses = d.statuses
           /\ Known(e, p) # {} /\ Known(e, p) \subseteq e.members
           /\ \A u \in DOMAIN e.users \ DOMAIN d.users : Known(e, p) = {u}
           /\ \A q : Known(d, q) # {} => Known(e, q) = Known(d, q)
<1> DEFINE w == NewUser(d, p)
           k == IF Known(d, p) # {} THEN d ELSE [d EXCEPT !.users = Append(@, w)]
           n == Len(d.users)
<1>1. e = [k EXCEPT !.members = @ \cup Known(k, p)]
  BY DEF WithPerson
<1>2. /\ k \in Database /\ Consistent(k)
      /\ k.members = d.members /\ k.statuses = d.statuses
      /\ k.issues = d.issues /\ k.gone = d.gone
      /\ DOMAIN d.users \subseteq DOMAIN k.users
      /\ \A u \in DOMAIN d.users : k.users[u] = d.users[u]
      /\ Known(k, p) # {}
      /\ \A u \in DOMAIN k.users \ DOMAIN d.users : Known(k, p) = {u}
      /\ \A q : Known(d, q) # {} => Known(k, q) = Known(d, q)
  <2>1. CASE Known(d, p) # {}
    BY <2>1
  <2>2. CASE Known(d, p) = {}
    <3>1. k = [d EXCEPT !.users = Append(@, w)]
      BY <2>2
    <3>2. w \in User /\ HasEmail(d, w.email) = {} /\ w.disabled
      BY <2>2, NewUserType
    <3> HIDE DEF k, w
    <3>3. /\ k \in Database /\ k.members = d.members /\ k.statuses = d.statuses
          /\ k.issues = d.issues /\ k.gone = d.gone
          /\ DOMAIN d.users = 1..n /\ n \in Nat
          /\ DOMAIN k.users = 1..(n + 1)
          /\ \A u \in DOMAIN d.users : k.users[u] = d.users[u]
          /\ k.users[n + 1] = w
      BY <3>1, <3>2, UserAdded
    <3>4. Known(k, p) = {n + 1}
      BY <2>2, <3>1, NewIsKnown DEF w
    <3>5. \A q : Known(d, q) # {} => Known(k, q) = Known(d, q)
      BY <3>1, <3>2, KnownStays
    <3> HIDE DEF n
    <3>6. Consistent(k)
      <4>1. \A u \in 1..n : d.users[u].email # w.email
        BY <3>2, <3>3 DEF HasEmail
      <4> QED
        BY <3>3, <4>1 DEF Consistent, Storable
    <3> QED
      BY <3>3, <3>4, <3>5, <3>6
  <2> QED
    BY <2>1, <2>2
<1> HIDE DEF k, w, n
<1>3. /\ e \in Database /\ e.users = k.users /\ e.members = k.members \cup Known(k, p)
      /\ e.statuses = k.statuses /\ e.issues = k.issues /\ e.gone = k.gone
  <2>1. e = [users |-> k.users, members |-> k.members \cup Known(k, p),
             statuses |-> k.statuses, issues |-> k.issues, gone |-> k.gone]
    BY <1>1, <1>2, Rows
  <2>2. Known(k, p) \subseteq Nat
    BY <1>2, Rows, KnownAreUsers
  <2> QED
    BY <1>2, <2>1, <2>2 DEF Database
<1>4. \A q : Known(e, q) = Known(k, q)
  BY <1>3, KnownByUsers
<1>5. Known(k, p) \subseteq DOMAIN k.users
  BY KnownAreUsers
<1>6. Consistent(e)
  BY <1>2, <1>3, <1>5 DEF Consistent, Storable
<1> QED
  BY <1>2, <1>3, <1>4, <1>6 DEF Grew

\* The people of a row join: they are members, and nobody else is new.
LEMMA PeopleJoin ==
    ASSUME NEW d \in Database, Consistent(d), NEW line \in Line, line.opener # Blank,
           NEW e, e = WithPeople(d, line), NEW o, o = PersonOf(e, line.opener),
           NEW a, a = IF line.assignee = Blank THEN 0 ELSE PersonOf(e, line.assignee)
    PROVE  /\ Grew(d, e) /\ e.statuses = d.statuses
           /\ o \in Nat /\ a \in Nat /\ o \in e.members
           /\ a # 0 => a \in e.members
           /\ \A u \in DOMAIN e.users \ DOMAIN d.users : u \in {o, a}
<1> DEFINE f == WithPerson(d, line.opener)
<1>1. line.opener \in People /\ (line.assignee # Blank => line.assignee \in People)
  BY DEF Line
<1>2. /\ Grew(d, f) /\ f.statuses = d.statuses
      /\ Known(f, line.opener) # {} /\ Known(f, line.opener) \subseteq f.members
      /\ \A u \in DOMAIN f.users \ DOMAIN d.users : Known(f, line.opener) = {u}
  BY <1>1, PersonJoins
<1>3. f \in Database /\ Consistent(f)
  BY <1>2 DEF Grew
<1>4. CASE line.assignee = Blank
  <2>1. e = f /\ a = 0
    BY <1>4 DEF WithPeople
  <2>2. o \in Known(e, line.opener)
    BY <1>2, <2>1 DEF PersonOf
  <2> HIDE DEF f
  <2>3. e.members \subseteq Nat
    BY <1>3, <2>1, Rows
  <2> QED
    BY <1>2, <2>1, <2>2, <2>3
<1>5. CASE line.assignee # Blank
  <2>1. e = WithPerson(f, line.assignee) /\ a = PersonOf(e, line.assignee)
    BY <1>5 DEF WithPeople
  <2> HIDE DEF f
  <2>2. /\ Grew(f, e) /\ e.statuses = f.statuses
        /\ Known(e, line.assignee) # {} /\ Known(e, line.assignee) \subseteq e.members
        /\ \A u \in DOMAIN e.users \ DOMAIN f.users : Known(e, line.assignee) = {u}
        /\ Known(e, line.opener) = Known(f, line.opener)
    BY <1>1, <1>2, <1>3, <1>5, <2>1, PersonJoins
  <2>3. o \in Known(f, line.opener) /\ a \in Known(e, line.assignee)
    BY <1>2, <2>1, <2>2 DEF PersonOf
  <2>4. f.members \subseteq e.members
    BY <2>2 DEF Grew
  <2>5. e.members \subseteq Nat
    BY <2>2, Rows DEF Grew
  <2>6. o \in e.members /\ a \in e.members
    BY <1>2, <2>2, <2>3, <2>4
  <2>7. ASSUME NEW u \in DOMAIN e.users \ DOMAIN d.users PROVE u \in {o, a}
    <3>1. CASE u \in DOMAIN f.users
      BY <1>2, <2>3, <3>1
    <3>2. CASE u \notin DOMAIN f.users
      BY <2>2, <2>3, <3>2
    <3> QED
      BY <3>1, <3>2
  <2>8. Grew(d, e)
    BY <1>2, <2>2, GrewOn
  <2> QED
    BY <1>2, <2>2, <2>5, <2>6, <2>7, <2>8
<1> QED
  BY <1>4, <1>5

\* An archived status that is brought back.
LEMMA Unarchived ==
    ASSUME NEW x \in Status, NEW y, y = [x EXCEPT !.archived = FALSE]
    PROVE  y \in Status /\ y.name = x.name /\ y.by = x.by /\ y.archived = FALSE
  BY DEF Status

\* The status of a row is there and active, and no other is new.
LEMMA StatusFound ==
    ASSUME NEW d \in Database, Consistent(d), NEW label \in Labels \cup {Blank},
           NEW e, e = WithStatus(d, label), NEW s, s = StatusOf(e, label)
    PROVE  /\ Grew(d, e) /\ e.users = d.users /\ s \in Nat
           /\ HasDefault(d) => s \in DOMAIN e.statuses /\ ~e.statuses[s].archived
           /\ \A t \in DOMAIN e.statuses \ DOMAIN d.statuses : s = t
<1> DEFINE new == [name |-> label, archived |-> FALSE, by |-> "import"]
           n == Len(d.statuses)
<1>0. /\ DOMAIN d.statuses = 1..n /\ n \in Nat /\ d.statuses \in Seq(Status)
      /\ \A t \in 1..n : d.statuses[t] \in Status
  BY Rows
<1>1. CASE label = Blank
  <2>1. e = d /\ s = DefaultStatus
    BY <1>1 DEF WithStatus, StatusOf
  <2> QED
    BY <2>1, GrewSelf DEF HasDefault, DefaultStatus
<1>2. CASE label # Blank /\ Named(d, label) = {}
  <2>1. new \in Status /\ new.name = label /\ new.by = "import" /\ new.archived = FALSE
    BY <1>2 DEF Status, Authors
  <2>2. e = [d EXCEPT !.statuses = Append(@, new)]
    BY <1>2 DEF WithStatus
  <2> HIDE DEF new
  <2>3. e = [users |-> d.users, members |-> d.members, statuses |-> Append(d.statuses, new),
             issues |-> d.issues, gone |-> d.gone]
    BY <2>2 DEF Database
  <2>4. /\ Append(d.statuses, new) \in Seq(Status)
        /\ DOMAIN Append(d.statuses, new) = 1..(n + 1)
        /\ \A t \in 1..n : Append(d.statuses, new)[t] = d.statuses[t]
        /\ Append(d.statuses, new)[n + 1] = new
    BY <1>0, <2>1
  <2>5. e \in Database
    BY <2>3, <2>4 DEF Database
  <2> HIDE DEF n
  <2>6. Grew(d, e)
    BY <1>0, <2>3, <2>4, <2>5 DEF Grew, Consistent, Storable
  <2>7. Named(e, label) = {n + 1}
    <3>1. \A t \in 1..n : d.statuses[t].name # label
      BY <1>0, <1>2 DEF Named
    <3> QED
      BY <1>0, <2>1, <2>3, <2>4, <3>1 DEF Named
  <2>8. s = n + 1
    BY <1>2, <2>7 DEF StatusOf
  <2>9. e.users = d.users /\ e.statuses[s].archived = FALSE /\ s \in DOMAIN e.statuses
    BY <1>0, <2>1, <2>3, <2>4, <2>8
  <2>10. \A t \in DOMAIN e.statuses \ DOMAIN d.statuses : s = t
    BY <1>0, <2>3, <2>4, <2>8
  <2> QED
    BY <1>0, <2>6, <2>8, <2>9, <2>10
<1>3. CASE label # Blank /\ Named(d, label) # {}
  <2> DEFINE list == [t \in DOMAIN d.statuses |->
                        IF t \in Named(d, label)
                        THEN [d.statuses[t] EXCEPT !.archived = FALSE] ELSE d.statuses[t]]
  <2>1. e = [d EXCEPT !.statuses = list]
    BY <1>3 DEF WithStatus
  <2>2. ASSUME NEW t \in 1..n
        PROVE  /\ list[t] \in Status /\ list[t].name = d.statuses[t].name
               /\ list[t].by = d.statuses[t].by
               /\ list[t].archived = FALSE \/ list[t] = d.statuses[t]
               /\ t \in Named(d, label) => list[t].archived = FALSE
    <3>1. d.statuses[t] \in Status
      BY <1>0
    <3>2. CASE t \in Named(d, label)
      <4>1. list[t] = [d.statuses[t] EXCEPT !.archived = FALSE]
        BY <1>0, <3>2
      <4> HIDE DEF list
      <4> QED
        BY <3>1, <4>1, Unarchived
    <3>3. CASE t \notin Named(d, label)
      <4>1. list[t] = d.statuses[t]
        BY <1>0, <3>3
      <4> HIDE DEF list
      <4> QED
        BY <3>1, <3>3, <4>1
    <3> QED
      BY <3>2, <3>3
  <2>3. DOMAIN list = 1..n
    BY <1>0
  <2>4. list \in Seq(Status)
    <3>1. list \in [1..n -> Status]
      <4>1. list = [t \in 1..n |-> list[t]]
        BY <1>0
      <4> HIDE DEF list
      <4> QED
        BY <2>2, <4>1
    <3> HIDE DEF list, n
    <3> QED
      BY <1>0, <3>1
  <2>5. e = [users |-> d.users, members |-> d.members, statuses |-> list,
             issues |-> d.issues, gone |-> d.gone]
    <3> HIDE DEF list
    <3> QED
      BY <2>1 DEF Database
  <2> HIDE DEF list, n
  <2>6. /\ \A t \in 1..n : list[t].name = d.statuses[t].name
        /\ \A t \in 1..n : list[t].by = d.statuses[t].by
    BY <2>2
  <2>7. \A t \in 1..n : list[t].archived => d.statuses[t].archived
    BY <2>2
  <2>8. \A t \in Named(d, label) : t \in 1..n /\ ~list[t].archived
    BY <1>0, <2>2 DEF Named
  <2>9. e \in Database
    BY <2>4, <2>5 DEF Database
  <2>10. /\ e.users = d.users /\ e.members = d.members /\ e.statuses = list
         /\ e.issues = d.issues /\ e.gone = d.gone
    BY <2>5
  <2>11. Grew(d, e)
    <3>1. Consistent(e)
      BY <2>10 DEF Consistent, Storable
    <3> QED
      BY <1>0, <2>3, <2>6, <2>7, <2>9, <2>10, <3>1 DEF Grew
  <2>12. Named(e, label) = Named(d, label)
    BY <1>0, <2>3, <2>6, <2>10 DEF Named
  <2>13. s \in Named(d, label)
    BY <1>3, <2>12 DEF StatusOf
  <2>14. s \in 1..n /\ ~e.statuses[s].archived
    BY <2>8, <2>10, <2>13
  <2> QED
    BY <1>0, <2>3, <2>10, <2>11, <2>14
<1> QED
  BY <1>1, <1>2, <1>3

\* The issue is added at the end, and gets the place as its number.
LEMMA IssueAdded ==
    ASSUME NEW d \in Database, NEW made \in Issue, NEW e,
           e = [d EXCEPT !.issues = Append(@, made)]
    PROVE  /\ e \in Database
           /\ e.users = d.users /\ e.members = d.members /\ e.statuses = d.statuses
           /\ e.gone = d.gone
           /\ DOMAIN d.issues = 1..Len(d.issues) /\ Len(d.issues) \in Nat
           /\ Len(e.issues) = Len(d.issues) + 1
           /\ DOMAIN e.issues = 1..(Len(d.issues) + 1)
           /\ \A i \in DOMAIN d.issues : e.issues[i] = d.issues[i]
           /\ e.issues[Len(d.issues) + 1] = made
<1>1. e = [users |-> d.users, members |-> d.members, statuses |-> d.statuses,
           issues |-> Append(d.issues, made), gone |-> d.gone]
  BY DEF Database
<1>2. /\ Append(d.issues, made) \in Seq(Issue)
      /\ Len(Append(d.issues, made)) = Len(d.issues) + 1
      /\ \A i \in 1..Len(d.issues) : Append(d.issues, made)[i] = d.issues[i]
      /\ Append(d.issues, made)[Len(d.issues) + 1] = made
  BY Rows
<1>3. e \in Database
  BY <1>1, <1>2 DEF Database
<1> QED
  BY <1>1, <1>2, <1>3, Rows

\* What a row does before its issue.
LEMMA RowGrows ==
    ASSUME NEW b \in Database, Consistent(b), NEW line \in Line, line.opener # Blank
    PROVE  /\ Grew(b, Labelled(b, line)) /\ Grew(b, Peopled(b, line))
           /\ Resolved(b, line) \in [status : Nat, opener : Nat, assignee : Nat]
<1> DEFINE s == Labelled(b, line)
           d == Peopled(b, line)
<1>1. line.status \in Labels \cup {Blank}
  BY DEF Line
<1>2. Grew(b, s) /\ StatusOf(s, line.status) \in Nat
  BY <1>1, StatusFound DEF Labelled
<1> HIDE DEF s
<1>3. s \in Database /\ Consistent(s)
  BY <1>2 DEF Grew
<1>4. d = WithPeople(s, line)
  BY DEF Peopled, s
<1> HIDE DEF d
<1>5. /\ Grew(s, d) /\ PersonOf(d, line.opener) \in Nat
      /\ (IF line.assignee = Blank THEN 0 ELSE PersonOf(d, line.assignee)) \in Nat
  BY <1>3, <1>4, PeopleJoin
<1>6. Grew(b, d)
  BY <1>2, <1>5, GrewOn
<1>7. Resolved(b, line) \in [status : Nat, opener : Nat, assignee : Nat]
  BY <1>2, <1>5 DEF Resolved, s, d
<1> QED
  BY <1>2, <1>6, <1>7 DEF s, d

\* A row that is imported is one new issue, with all that was added for its sake.
LEMMA RowImports ==
    ASSUME NEW b \in Database, Consistent(b), HasDefault(b), NEW line \in Line,
           line.opener # Blank, NEW by \in Authors, NEW run \in Nat, NEW l \in Nat,
           NEW e, e = Imported(b, line, by, run, l)
    PROVE  /\ e \in Database /\ Consistent(e) /\ e.gone = b.gone /\ HasDefault(e)
           /\ \E made : /\ Brought(b, e, made)
                        /\ made.by = by /\ made.run = run /\ made.line = l
<1> DEFINE s == Labelled(b, line)
           d == Peopled(b, line)
           r == Resolved(b, line)
           made == [number |-> NextNumber(b), status |-> r.status, opener |-> r.opener,
                    assignee |-> r.assignee, by |-> by, run |-> run, line |-> l]
<1>1. /\ line.status \in Labels \cup {Blank}
      /\ r.status = StatusOf(s, line.status)
      /\ r.opener = PersonOf(d, line.opener)
      /\ r.assignee = IF line.assignee = Blank THEN 0 ELSE PersonOf(d, line.assignee)
  BY DEF Line, Resolved
<1>2. e = [d EXCEPT !.issues = Append(@, made)]
  BY DEF Imported, WithIssue
<1>3. Grew(b, s) /\ Grew(b, d) /\ r \in [status : Nat, opener : Nat, assignee : Nat]
  BY RowGrows
<1>4. d = WithPeople(s, line) /\ s = WithStatus(b, line.status)
  BY DEF Peopled, Labelled
<1> HIDE DEF s, d, r
<1>5. /\ s.users = b.users
      /\ r.status \in DOMAIN s.statuses /\ ~s.statuses[r.status].archived
      /\ \A t \in DOMAIN s.statuses \ DOMAIN b.statuses : r.status = t
  BY <1>1, <1>4, StatusFound
<1>6. s \in Database /\ Consistent(s) /\ d \in Database /\ Consistent(d)
  BY <1>3 DEF Grew
<1>7. /\ d.statuses = s.statuses
      /\ r.assignee # 0 => r.assignee \in d.members
      /\ \A u \in DOMAIN d.users \ DOMAIN s.users : u \in {r.opener, r.assignee}
  BY <1>1, <1>4, <1>6, PeopleJoin
<1>8. d.issues = b.issues /\ NextNumber(b) = Len(b.issues) + 1 /\ Len(b.issues) \in Nat
  BY <1>3, Rows DEF Grew, NextNumber
<1>9. made \in Issue
  BY <1>3, <1>8 DEF Issue
<1>10. /\ made.number = Len(b.issues) + 1 /\ made.status = r.status
       /\ made.opener = r.opener /\ made.assignee = r.assignee
       /\ made.by = by /\ made.run = run /\ made.line = l
  BY <1>8
<1> HIDE DEF made
<1>11. /\ e \in Database
       /\ e.users = d.users /\ e.members = d.members /\ e.statuses = d.statuses
       /\ e.gone = d.gone /\ e.issues = Append(b.issues, made)
  <2>1. e = [users |-> d.users, members |-> d.members, statuses |-> d.statuses,
             issues |-> Append(d.issues, made), gone |-> d.gone]
    BY <1>2, <1>6 DEF Database
  <2>2. e \in Database
    BY <1>2, <1>6, <1>9, IssueAdded
  <2> QED
    BY <1>8, <2>1, <2>2
<1>12. Consistent(e)
  BY <1>6, <1>11 DEF Consistent, Storable
<1>13. HasDefault(e) /\ e.gone = b.gone
  BY <1>3, <1>11 DEF HasDefault, Grew
<1>14. /\ b.members \subseteq e.members
       /\ DOMAIN b.users \subseteq DOMAIN e.users
       /\ \A u \in DOMAIN b.users : e.users[u] = b.users[u]
       /\ DOMAIN b.statuses \subseteq DOMAIN e.statuses
       /\ \A t \in DOMAIN b.statuses :
            /\ e.statuses[t].by = b.statuses[t].by
            /\ e.statuses[t].archived => b.statuses[t].archived
  BY <1>3, <1>11 DEF Grew
<1>15. /\ made.status \in DOMAIN e.statuses /\ ~e.statuses[made.status].archived
       /\ made.assignee # 0 => made.assignee \in e.members
  BY <1>5, <1>7, <1>10, <1>11
<1>16. \A u \in DOMAIN e.users \ DOMAIN b.users : u \in {made.opener, made.assignee}
  BY <1>5, <1>7, <1>10, <1>11
<1>17. \A t \in DOMAIN e.statuses \ DOMAIN b.statuses : t = made.status
  BY <1>5, <1>7, <1>10, <1>11
<1>18. Brought(b, e, made)
  BY <1>9, <1>10, <1>11, <1>14, <1>15, <1>16, <1>17 DEF Brought
<1> QED
  BY <1>10, <1>11, <1>12, <1>13, <1>18

\* The issues before the new one are as they were.
LEMMA IssuesBrought ==
    ASSUME NEW b \in Database, NEW e, NEW made, Brought(b, e, made),
           NEW n, n = Len(b.issues)
    PROVE  /\ n \in Nat /\ DOMAIN b.issues = 1..n
           /\ Len(e.issues) = n + 1 /\ DOMAIN e.issues = DOMAIN b.issues \cup {n + 1}
           /\ n + 1 \notin DOMAIN b.issues
           /\ \A i \in DOMAIN b.issues : e.issues[i] = b.issues[i]
           /\ e.issues[n + 1] = made /\ made.number = n + 1
<1>1. /\ b.issues \in Seq(Issue) /\ n \in Nat /\ DOMAIN b.issues = 1..n
      /\ e.issues = Append(b.issues, made) /\ made \in Issue /\ made.number = n + 1
  BY Rows DEF Brought
<1>2. /\ Len(e.issues) = n + 1 /\ DOMAIN e.issues = 1..(n + 1)
      /\ \A i \in 1..n : e.issues[i] = b.issues[i]
      /\ e.issues[n + 1] = made
  BY <1>1
<1> QED
  BY <1>1, <1>2

-----------------------------------------------------------------------------
(* What the steps have in common                                           *)

\* The line the importer is at.
LEMMA AtLine ==
    ASSUME ImportTypeOK
    PROVE  /\ csv \in Seq(Line) /\ Len(csv) \in Nat /\ DOMAIN csv = 1..Len(csv)
           /\ next \in Nat /\ next >= 1
           /\ next <= Len(csv) => next \in DOMAIN csv /\ csv[next] \in Line
<1>1. csv \in Seq(Line) /\ next \in 1..(Len(csv) + 1)
  BY ImportAssumption DEF ImportTypeOK
<1> QED
  BY <1>1

\* A line that is finished has its outcome, and the importer is at the next.
LEMMA Finished ==
    ASSUME ImportTypeOK, next <= Len(csv), NEW outcome \in Results, Finish(outcome)
    PROVE  /\ result' \in [DOMAIN csv -> Results]
           /\ next' = next + 1 /\ next' \in 1..(Len(csv) + 1)
           /\ step' = "between" /\ row' = NoRow
           /\ row' \in [status : Nat, opener : Nat, assignee : Nat]
           /\ result'[next] = outcome
           /\ \A l \in DOMAIN csv \ {next} : result'[l] = result[l]
<1>1. result \in [DOMAIN csv -> Results] /\ next \in DOMAIN csv
  BY AtLine DEF ImportTypeOK
<1> QED
  BY <1>1, AtLine DEF Finish, NoRow

\* The busy lines of a file are a finite set, which a line adds one to.
LEMMA BusyIsFinite ==
    ASSUME ImportTypeOK
    PROVE  IsFiniteSet(BusyLines) /\ Cardinality(BusyLines) \in Nat
<1>1. DOMAIN csv = 1..Len(csv) /\ Len(csv) \in Nat
  BY AtLine
<1>2. IsFiniteSet(1..Len(csv))
  BY <1>1, FS_Interval
<1>3. BusyLines \subseteq 1..Len(csv)
  BY <1>1 DEF BusyLines
<1>4. IsFiniteSet(BusyLines)
  BY <1>2, <1>3, FS_Subset
<1> QED
  BY <1>4, FS_CardinalityType

\* ... and only the line the importer finishes can be added.
LEMMA BusyGrows ==
    ASSUME ImportTypeOK, next \in DOMAIN csv, csv' = csv, result[next] # "busy",
           \A l \in DOMAIN csv \ {next} : result'[l] = result[l]
    PROVE  /\ result'[next] = "busy" => Cardinality(BusyLines') = Cardinality(BusyLines) + 1
           /\ result'[next] # "busy" => BusyLines' = BusyLines
<1>1. CASE result'[next] = "busy"
  <2>1. BusyLines' = BusyLines \cup {next} /\ next \notin BusyLines
    BY <1>1 DEF BusyLines
  <2>2. IsFiniteSet(BusyLines)
    BY BusyIsFinite
  <2>3. Cardinality(BusyLines \cup {next}) = Cardinality(BusyLines) + 1
    BY <2>1, <2>2, FS_AddElement
  <2> QED
    BY <1>1, <2>1, <2>3
<1>2. CASE result'[next] # "busy"
  BY <1>2 DEF BusyLines
<1> QED
  BY <1>1, <1>2

\* The database stays and no run begins: what is in it stays sound.
LEMMA SoundStays ==
    ASSUME ImportInv, committed' = committed, runs' = runs
    PROVE  Sound' /\ Justified' /\ \A l : Inserted(l)' = Inserted(l)
<1>1. Sound'
  BY DEF ImportInv, Sound, Consistent, Storable, HasDefault
<1>2. Justified'
  BY DEF ImportInv, Justified, Quoted, UsedBy
<1> QED
  BY <1>1, <1>2 DEF Inserted

\* ... and a creation with it.
LEMMA CreationStays ==
    ASSUME ImportInv, committed' = committed, creating' = creating
    PROVE  Creation'
  BY DEF ImportInv, Creation, NextNumber

\* The view stays consistent; a database that is gone stays so.
LEMMA ViewStays ==
    ASSUME ImportInv, view' = view, committed' = committed
    PROVE  Consistent(view)' /\ (view'.gone => committed'.gone)
  BY DEF ImportInv, InRow, Consistent, Storable

-----------------------------------------------------------------------------
(* The importer's steps                                                    *)

\* A new run begins: nothing is inserted by it, and no line has a result.
LEMMA StartKeepsInv ==
    ASSUME ImportInv, StartRun
    PROVE  ImportInv'
<1> USE DEF ImportInv
<1>1. /\ ~Running /\ runs < MaxRuns /\ ~committed.gone
      /\ mode' \in {"dry", "real"}
      /\ next' = 1 /\ step' = "between" /\ row' = NoRow
      /\ view' = committed /\ stale' = FALSE /\ locked' = FALSE
      /\ result' = [l \in DOMAIN csv |-> "none"]
      /\ meddled' = 0 /\ runs' = runs + 1
      /\ UNCHANGED <<committed, csv, creating, predicted, writes>>
  BY DEF StartRun
<1>2. runs \in Nat /\ MaxRuns \in Nat /\ writes \in Nat /\ Len(csv) \in Nat
  BY AtLine, ImportAssumption DEF ImportTypeOK
<1>3. ImportTypeOK'
  <2>1. result' \in [DOMAIN csv -> Results]
    BY <1>1 DEF Results
  <2>2. row' \in [status : Nat, opener : Nat, assignee : Nat]
    BY <1>1 DEF NoRow
  <2>3. /\ next' \in 1..(Len(csv) + 1) /\ meddled' \in 0..MaxWrites /\ runs' \in 0..MaxRuns
        /\ step' \in {"between", "begun", "labelled", "peopled"}
        /\ mode' \in {"off", "dry", "real", "previewed", "over", "killed"}
    BY <1>1, <1>2, ImportAssumption DEF ImportTypeOK
  <2> QED
    BY <1>1, <2>1, <2>2, <2>3 DEF ImportTypeOK
<1>4. ASSUME NEW i \in DOMAIN committed.issues
      PROVE  /\ committed.issues[i].run \in Nat /\ committed.issues[i].run <= runs
             /\ committed.issues[i].number = i /\ committed.issues[i].by # "dry"
  BY Rows DEF ImportTypeOK, Sound, Issue
<1>5. Sound'
  <2>1. \A i \in DOMAIN committed'.issues :
          /\ committed'.issues[i].number = i /\ committed'.issues[i].by # "dry"
          /\ committed'.issues[i].run <= runs'
    BY <1>1, <1>2, <1>4
  <2>2. Consistent(committed)'
    BY <1>1 DEF Sound, Consistent, Storable
  <2> QED
    BY <1>1, <2>1, <2>2 DEF Sound, HasDefault
<1>6. Justified'
  BY <1>1 DEF Justified, Quoted, UsedBy
<1>7. InRow'
  <2>1. Consistent(view)'
    BY <1>1 DEF Sound, Consistent, Storable
  <2> QED
    BY <1>1, <2>1 DEF InRow
<1>8. Locking'
  BY <1>1, <1>2 DEF Locking
<1>9. Creation'
  BY <1>1, CreationStays
<1>10. Entered'
  <2>1. \A l : Inserted(l)' = {}
    BY <1>1, <1>2, <1>4 DEF Inserted
  <2> QED
    BY <1>1, <2>1 DEF Entered
<1>11. Told'
  BY <1>1 DEF Told
<1>12. Paid'
  <2>1. BusyLines' = {}
    BY <1>1 DEF BusyLines
  <2> QED
    BY <1>1, <2>1, FS_EmptySet DEF Paid
<1> QED
  BY <1>3, <1>5, <1>6, <1>7, <1>8, <1>9, <1>10, <1>11, <1>12

\* A line that cannot be imported is missing.
LEMMA SkipKeepsInv ==
    ASSUME ImportInv, SkipLine
    PROVE  ImportInv'
<1> USE DEF ImportInv
<1>1. /\ Running /\ step = "between" /\ next <= Len(csv) /\ ~Usable(csv[next])
      /\ Finish("missing")
      /\ UNCHANGED <<committed, csv, mode, view, stale, locked, creating, predicted,
                     meddled, runs, writes>>
  BY DEF SkipLine
<1>2. /\ result' \in [DOMAIN csv -> Results]
      /\ next' = next + 1 /\ next' \in 1..(Len(csv) + 1)
      /\ step' = "between" /\ row' = NoRow
      /\ row' \in [status : Nat, opener : Nat, assignee : Nat]
      /\ result'[next] = "missing"
      /\ \A l \in DOMAIN csv \ {next} : result'[l] = result[l]
  BY <1>1, Finished DEF Results
<1>3. ImportTypeOK'
  BY <1>1, <1>2 DEF ImportTypeOK
<1>4. Sound' /\ Justified' /\ \A l : Inserted(l)' = Inserted(l)
  BY <1>1, SoundStays
<1>5. InRow'
  <2>1. Consistent(view)' /\ (view'.gone => committed'.gone)
    BY <1>1, ViewStays
  <2> QED
    BY <1>1, <1>2, <2>1 DEF InRow
<1>6. Locking'
  BY <1>1, <1>2 DEF Locking, Open, Running
<1>7. Creation'
  BY <1>1, CreationStays
<1>8. /\ next \in DOMAIN csv /\ DOMAIN csv = 1..Len(csv) /\ next \in Nat /\ Len(csv) \in Nat
      /\ result[next] = "none"
  BY <1>1, AtLine DEF Told
<1>9. Entered'
  <2>1. \A l \in DOMAIN csv : result'[l] = "imported" <=> result[l] = "imported"
    BY <1>2, <1>8
  <2> QED
    BY <1>1, <1>4, <2>1 DEF Entered
<1>10. Told'
  <2>1. \A l \in DOMAIN csv : l >= next' => l >= next /\ l # next
    BY <1>2, <1>8
  <2>2. Running' => \A l \in DOMAIN csv' : l >= next' => result'[l] = "none"
    BY <1>1, <1>2, <2>1 DEF Told
  <2> QED
    BY <1>1, <1>2, <2>2 DEF Told, Running, Usable, Dated
<1>11. Paid'
  <2>1. BusyLines' = BusyLines
    BY <1>1, <1>2, <1>8, BusyGrows
  <2> QED
    BY <1>1, <1>2, <2>1 DEF Paid
<1> QED
  BY <1>3, <1>4, <1>5, <1>6, <1>7, <1>9, <1>10, <1>11

\* A row begins with the database as it is, or as the rows of the dry run made it.
LEMMA BeginKeepsInv ==
    ASSUME ImportInv, BeginRow
    PROVE  ImportInv'
<1> USE DEF ImportInv
<1>1. /\ Running /\ step = "between" /\ next <= Len(csv) /\ Usable(csv[next])
      /\ step' = "begun"
      /\ mode = "dry" => UNCHANGED <<view, stale>>
      /\ mode # "dry" => view' = committed /\ stale' = FALSE
      /\ UNCHANGED <<committed, csv, mode, next, row, locked, result, creating, predicted,
                     meddled, runs, writes>>
  BY DEF BeginRow
<1>2. ImportTypeOK'
  BY <1>1 DEF ImportTypeOK
<1>3. Sound' /\ Justified' /\ \A l : Inserted(l)' = Inserted(l)
  BY <1>1, SoundStays
<1>4. InRow'
  <2>1. Consistent(view)' /\ (view'.gone => committed'.gone)
    <3>1. CASE mode = "dry"
      BY <1>1, <3>1, ViewStays
    <3>2. CASE mode # "dry"
      BY <1>1, <3>2 DEF Sound, Consistent, Storable
    <3> QED
      BY <3>1, <3>2
  <2>2. mode' = "real" => Applied(committed)'
    BY <1>1 DEF Applied, InRow
  <2>3. Usable(csv[next])' /\ Running' /\ next' <= Len(csv')
    BY <1>1 DEF Usable, Dated, Running
  <2> QED
    BY <1>1, <2>1, <2>2, <2>3 DEF InRow
<1>5. Locking'
  BY <1>1 DEF Locking, Open, Running
<1>6. Creation'
  BY <1>1, CreationStays
<1>7. Entered' /\ Told'
  BY <1>1, <1>3 DEF Entered, Told, Running, Usable, Dated
<1>8. Paid'
  <2>1. BusyLines' = BusyLines
    BY <1>1 DEF BusyLines
  <2> QED
    BY <1>1, <2>1 DEF Paid, Running
<1> QED
  BY <1>2, <1>3, <1>4, <1>5, <1>6, <1>7, <1>8

\* A row is undone: of its busy lines one more, for a commit nobody had paid for,
\* or refused, because the project is gone.
LEMMA FailedKeepsInv ==
    ASSUME ImportInv, Running, step # "between", NEW reason \in {"busy", "refused"},
           RowFails(reason), reason = "refused" => view.gone,
           reason = "busy" => ~locked /\ stale,
           UNCHANGED <<committed, csv, mode, stale, creating, predicted, meddled, runs,
                       writes>>
    PROVE  ImportInv'
<1> USE DEF ImportInv
<1>1. next <= Len(csv) /\ Usable(csv[next])
  BY DEF InRow
<1>2. /\ result' \in [DOMAIN csv -> Results]
      /\ next' = next + 1 /\ next' \in 1..(Len(csv) + 1)
      /\ step' = "between" /\ row' = NoRow
      /\ row' \in [status : Nat, opener : Nat, assignee : Nat]
      /\ result'[next] = reason
      /\ \A l \in DOMAIN csv \ {next} : result'[l] = result[l]
  <2>1. reason \in Results /\ Finish(reason)
    BY DEF Results, RowFails
  <2> QED
    BY <1>1, <2>1, Finished
<1>3. UNCHANGED <<view, locked>>
  BY DEF RowFails
<1>4. ImportTypeOK'
  BY <1>2, <1>3 DEF ImportTypeOK
<1>5. Sound' /\ Justified' /\ \A l : Inserted(l)' = Inserted(l)
  BY SoundStays
<1>6. InRow'
  <2>1. Consistent(view)' /\ (view'.gone => committed'.gone)
    BY <1>3, ViewStays
  <2> QED
    BY <1>2, <2>1 DEF InRow
<1>7. Locking'
  <2>1. mode = "real" => ~locked
    <3>1. reason = "busy" => ~locked
      OBVIOUS
    <3>2. reason = "refused" /\ mode = "real" /\ locked => FALSE
      BY DEF InRow, Applied, Locking
    <3> QED
      BY <3>1, <3>2
  <2> QED
    BY <1>2, <1>3, <2>1 DEF Locking, Open, Running
<1>8. Creation'
  BY CreationStays
<1>9. /\ next \in DOMAIN csv /\ DOMAIN csv = 1..Len(csv) /\ next \in Nat /\ Len(csv) \in Nat
      /\ result[next] = "none"
  BY <1>1, AtLine DEF Told
<1>10. Entered'
  <2>1. \A l \in DOMAIN csv : result'[l] = "imported" <=> result[l] = "imported"
    BY <1>2, <1>9
  <2> QED
    BY <1>5, <2>1 DEF Entered
<1>11. Told'
  <2>1. \A l \in DOMAIN csv : l >= next' => l >= next /\ l # next
    BY <1>2, <1>9
  <2>2. Running' => \A l \in DOMAIN csv' : l >= next' => result'[l] = "none"
    BY <1>2, <2>1 DEF Told
  <2>3. reason = "refused" => committed.gone
    BY DEF InRow
  <2>4. reason = "busy" => meddled > 0
    BY DEF Locking
  <2>5. \A l \in DOMAIN csv' : result'[l] = "missing" => ~Usable(csv'[l])
    BY <1>2 DEF Told, Usable, Dated
  <2> QED
    BY <1>2, <2>2, <2>3, <2>4, <2>5 DEF Told
<1>12. Paid'
  <2>1. Cardinality(BusyLines) \in Nat /\ meddled \in Nat
    BY BusyIsFinite DEF ImportTypeOK
  <2>2. CASE reason = "busy"
    <3>1. Cardinality(BusyLines') = Cardinality(BusyLines) + 1
      BY <1>2, <1>9, <2>2, BusyGrows
    <3> QED
      BY <1>2, <2>1, <2>2, <3>1 DEF Paid
  <2>3. CASE reason = "refused"
    <3>1. BusyLines' = BusyLines
      BY <1>2, <1>9, <2>3, BusyGrows
    <3> QED
      BY <1>2, <3>1 DEF Paid
  <2> QED
    BY <2>2, <2>3
<1> QED
  BY <1>4, <1>5, <1>6, <1>7, <1>8, <1>10, <1>11, <1>12

\* A statement of a row that is not its last sees d and notes r.
LEMMA SeenKeepsInv ==
    ASSUME ImportInv, Running, step \in {"begun", "labelled"}, NEW d \in Database,
           Consistent(d), d.gone = view.gone, Sees(d),
           row' \in [status : Nat, opener : Nat, assignee : Nat],
           step' \in {"labelled", "peopled"},
           mode = "real" /\ ~stale => Applied(committed)',
           UNCHANGED <<next, result, committed, csv, mode, stale, creating, predicted,
                       meddled, runs, writes>>
    PROVE  ImportInv'
<1> USE DEF ImportInv
<1>1. /\ view' = d
      /\ d = view \/ locked \/ ~stale
      /\ locked' = (locked \/ d # view)
  BY DEF Sees
<1>2. ImportTypeOK'
  <2>1. locked' \in BOOLEAN
    BY <1>1
  <2> QED
    BY <1>1, <2>1 DEF ImportTypeOK
<1>3. Sound' /\ Justified' /\ \A l : Inserted(l)' = Inserted(l)
  BY SoundStays
<1>4. InRow'
  <2>1. Consistent(view)'
    BY <1>1 DEF Consistent, Storable
  <2>2. view'.gone => committed'.gone
    BY <1>1 DEF InRow
  <2>3. next' <= Len(csv') /\ Usable(csv[next])' /\ Running'
    BY DEF InRow, Usable, Dated, Running
  <2> QED
    BY <2>1, <2>2, <2>3 DEF InRow
<1>5. Locking'
  <2>1. locked' => locked \/ ~stale
    BY <1>1
  <2>2. locked' => ~stale'
    BY <2>1 DEF Locking
  <2> QED
    BY <2>2 DEF Locking, Open, Running
<1>6. Creation'
  BY CreationStays
<1>7. Entered' /\ Told'
  BY <1>3 DEF Entered, Told, Running, Usable, Dated
<1>8. Paid'
  <2>1. BusyLines' = BusyLines
    BY DEF BusyLines
  <2> QED
    BY <2>1 DEF Paid
<1> QED
  BY <1>2, <1>3, <1>4, <1>5, <1>6, <1>7, <1>8

\* The status of a row.
LEMMA LabelKeepsInv ==
    ASSUME ImportInv, LabelRow
    PROVE  ImportInv'
<1> DEFINE line == csv[next]
           d == WithStatus(view, line.status)
<1> USE DEF ImportInv
<1>1. /\ Running /\ step = "begun"
      /\ UNCHANGED <<committed, csv, mode, stale, creating, predicted, meddled, runs, writes>>
      /\ \/ /\ ~view.gone /\ Sees(d)
            /\ row' = [row EXCEPT !.status = StatusOf(d, line.status)]
            /\ step' = "labelled"
            /\ UNCHANGED <<next, result>>
         \/ view.gone /\ RowFails("refused")
         \/ ~view.gone /\ Busy(d) /\ RowFails("busy")
  BY DEF LabelRow
<1>2. /\ line \in Line /\ line.status \in Labels \cup {Blank}
      /\ view \in Database /\ Consistent(view)
  BY <1>1, AtLine DEF InRow, ImportTypeOK, Line
<1>3. Grew(view, d) /\ StatusOf(d, line.status) \in Nat
  BY <1>2, StatusFound
<1>4. CASE /\ ~view.gone /\ Sees(d)
           /\ row' = [row EXCEPT !.status = StatusOf(d, line.status)]
           /\ step' = "labelled"
           /\ UNCHANGED <<next, result>>
  <2>1. d \in Database /\ Consistent(d) /\ d.gone = view.gone
    BY <1>3 DEF Grew
  <2>2. row' \in [status : Nat, opener : Nat, assignee : Nat]
    BY <1>3, <1>4 DEF ImportTypeOK
  <2>3. mode = "real" /\ ~stale => Applied(committed)'
    <3> SUFFICES ASSUME mode = "real", ~stale PROVE Applied(committed)'
      OBVIOUS
    <3>1. view = committed /\ row = NoRow
      BY <1>1 DEF InRow, Applied
    <3>2. d = Labelled(committed, line)
      BY <3>1 DEF Labelled
    <3>3. view' = Labelled(committed, line)
      BY <1>4, <3>2 DEF Sees
    <3>4. line' = line /\ committed' = committed
      BY <1>1, <1>4
    <3> QED
      BY <1>1, <1>4, <3>1, <3>2, <3>3, <3>4 DEF Applied
  <2> HIDE DEF d
  <2> QED
    BY <1>1, <1>4, <2>1, <2>2, <2>3, SeenKeepsInv
<1>5. CASE view.gone /\ RowFails("refused")
  BY <1>1, <1>5, FailedKeepsInv
<1>6. CASE Busy(d) /\ RowFails("busy")
  BY <1>1, <1>6, FailedKeepsInv DEF Busy
<1> QED
  BY <1>1, <1>4, <1>5, <1>6

\* The people of a row, which the constraint on their addresses never refuses.
LEMMA PeopleKeepsInv ==
    ASSUME ImportInv, PeopleRow
    PROVE  ImportInv'
<1> DEFINE line == csv[next]
           d == WithPeople(view, line)
           o == PersonOf(d, line.opener)
           a == IF line.assignee = Blank THEN 0 ELSE PersonOf(d, line.assignee)
<1> USE DEF ImportInv
<1>1. /\ Running /\ step = "labelled"
      /\ UNCHANGED <<committed, csv, mode, stale, creating, predicted, meddled, runs, writes>>
      /\ \/ /\ Sees(d) /\ Storable(d)
            /\ row' = [row EXCEPT !.opener = o, !.assignee = a]
            /\ step' = "peopled"
            /\ UNCHANGED <<next, result>>
         \/ ~Storable(d) /\ RowFails("refused")
         \/ Busy(d) /\ RowFails("busy")
  BY DEF PeopleRow
<1>2. /\ line \in Line /\ line.opener # Blank
      /\ view \in Database /\ Consistent(view)
  BY <1>1, AtLine DEF InRow, ImportTypeOK, Usable
<1>3. Grew(view, d) /\ o \in Nat /\ a \in Nat
  BY <1>2, PeopleJoin
<1>4. CASE /\ Sees(d)
           /\ row' = [row EXCEPT !.opener = o, !.assignee = a]
           /\ step' = "peopled"
           /\ UNCHANGED <<next, result>>
  <2>1. d \in Database /\ Consistent(d) /\ d.gone = view.gone
    BY <1>3 DEF Grew
  <2>2. row' \in [status : Nat, opener : Nat, assignee : Nat]
    <3> HIDE DEF o, a
    <3> QED
      BY <1>3, <1>4 DEF ImportTypeOK
  <2>3. mode = "real" /\ ~stale => Applied(committed)'
    <3> SUFFICES ASSUME mode = "real", ~stale PROVE Applied(committed)'
      OBVIOUS
    <3>1. /\ ~committed.gone /\ view = Labelled(committed, line)
          /\ row = [NoRow EXCEPT !.status = StatusOf(view, line.status)]
      BY <1>1 DEF InRow, Applied
    <3>2. d = Peopled(committed, line)
      BY <3>1 DEF Peopled
    <3>3. view' = d
      BY <1>4 DEF Sees
    <3>4. row' = [status |-> StatusOf(view, line.status), opener |-> o, assignee |-> a]
      <4> HIDE DEF o, a
      <4> QED
        BY <1>4, <3>1 DEF NoRow
    <3>5. row' = Resolved(committed, line)
      BY <3>1, <3>2, <3>4 DEF Resolved
    <3>6. committed' = committed /\ line' = line
      BY <1>1, <1>4
    <3> HIDE DEF d
    <3> QED
      BY <1>4, <3>1, <3>2, <3>3, <3>5, <3>6 DEF Applied
  <2> HIDE DEF d
  <2> QED
    BY <1>1, <1>4, <2>1, <2>2, <2>3, SeenKeepsInv
<1>5. CASE ~Storable(d) /\ RowFails("refused")
  BY <1>3, <1>5 DEF Grew, Consistent
<1>6. CASE Busy(d) /\ RowFails("busy")
  BY <1>1, <1>6, FailedKeepsInv DEF Busy
<1> QED
  BY <1>1, <1>4, <1>5, <1>6

\* The issue a commit adds to what the transaction sees.
LEMMA IssueOfRow ==
    ASSUME NEW b \in Database, Consistent(b),
           NEW r \in [status : Nat, opener : Nat, assignee : Nat],
           NEW by \in Authors, NEW run \in Nat, NEW l \in Nat,
           NEW e, e = WithIssue(b, NextNumber(b), r, by, run, l)
    PROVE  e \in Database /\ Consistent(e) /\ e.gone = b.gone /\ e # b
<1> DEFINE made == [number |-> NextNumber(b), status |-> r.status, opener |-> r.opener,
                    assignee |-> r.assignee, by |-> by, run |-> run, line |-> l]
<1>1. e = [b EXCEPT !.issues = Append(@, made)]
  BY DEF WithIssue
<1>2. made \in Issue
  BY Rows DEF Issue, NextNumber
<1> HIDE DEF made
<1>3. /\ e \in Database /\ e.users = b.users /\ e.members = b.members /\ e.gone = b.gone
      /\ Len(e.issues) = Len(b.issues) + 1 /\ Len(b.issues) \in Nat
  <2>1. [b EXCEPT !.issues = Append(@, made)] = e
    BY <1>1
  <2> QED
    BY <1>2, <2>1, IssueAdded
<1>4. Consistent(e)
  BY <1>3 DEF Consistent, Storable
<1>5. e # b
  BY <1>3
<1> QED
  BY <1>3, <1>4, <1>5

\* In a dry run the issue is in the importer's view only.
LEMMA PreviewedRowKeepsInv ==
    ASSUME ImportInv, mode = "dry", step = "peopled", NEW d \in Database, Consistent(d),
           d.gone = view.gone, locked \/ ~stale,
           view' = d, locked' = TRUE, Finish("imported"),
           UNCHANGED <<committed, creating, csv, mode, stale, predicted, meddled, runs,
                       writes>>
    PROVE  ImportInv'
<1> USE DEF ImportInv
<1>1. next <= Len(csv) /\ Running
  BY DEF InRow, Running
<1>2. /\ result' \in [DOMAIN csv -> Results]
      /\ next' = next + 1 /\ next' \in 1..(Len(csv) + 1)
      /\ step' = "between" /\ row' = NoRow
      /\ row' \in [status : Nat, opener : Nat, assignee : Nat]
      /\ result'[next] = "imported"
      /\ \A l \in DOMAIN csv \ {next} : result'[l] = result[l]
  BY <1>1, Finished DEF Results
<1>3. ImportTypeOK'
  BY <1>2 DEF ImportTypeOK
<1>4. Sound' /\ Justified'
  BY SoundStays
<1>5. InRow'
  <2>1. Consistent(view)'
    BY DEF Consistent, Storable
  <2>2. view'.gone => committed'.gone
    BY DEF InRow
  <2> QED
    BY <1>2, <2>1, <2>2 DEF InRow
<1>6. Locking'
  BY DEF Locking, Open, Running
<1>7. Creation'
  BY CreationStays
<1>8. /\ next \in DOMAIN csv /\ DOMAIN csv = 1..Len(csv) /\ next \in Nat /\ Len(csv) \in Nat
      /\ result[next] = "none"
  BY <1>1, AtLine DEF Told
<1>9. Entered' /\ Paid'
  BY DEF Entered, Paid
<1>10. Told'
  <2>1. \A l \in DOMAIN csv : l >= next' => l >= next /\ l # next
    BY <1>2, <1>8
  <2>2. Running' => \A l \in DOMAIN csv' : l >= next' => result'[l] = "none"
    BY <1>1, <1>2, <2>1 DEF Told
  <2>3. \A l \in DOMAIN csv' : result'[l] = "missing" => ~Usable(csv'[l])
    BY <1>2 DEF Told, Usable, Dated
  <2> QED
    BY <1>2, <2>2, <2>3 DEF Told
<1> QED
  BY <1>3, <1>4, <1>5, <1>6, <1>7, <1>9, <1>10

\* In a real run the row is imported into the database as it is.
LEMMA RowOfView ==
    ASSUME ImportInv, mode = "real", step = "peopled", ~stale
    PROVE  /\ ~committed.gone /\ next <= Len(csv) /\ csv[next] \in Line
           /\ csv[next].opener # Blank
           /\ view = Peopled(committed, csv[next])
           /\ WithIssue(view, NextNumber(view), row, "import", runs, next)
                = Imported(committed, csv[next], "import", runs, next)
<1> USE DEF ImportInv
<1>1. /\ ~committed.gone /\ view = Peopled(committed, csv[next])
      /\ row = Resolved(committed, csv[next]) /\ next <= Len(csv) /\ Usable(csv[next])
  BY DEF InRow, Applied
<1>2. csv[next] \in Line /\ csv[next].opener # Blank
  BY <1>1, AtLine DEF Usable
<1>3. committed \in Database /\ Consistent(committed)
  BY DEF ImportTypeOK, Sound
<1>4. view.issues = committed.issues
  BY <1>1, <1>2, <1>3, RowGrows DEF Grew
<1>5. NextNumber(view) = NextNumber(committed)
  BY <1>4 DEF NextNumber
<1> QED
  BY <1>1, <1>2, <1>5 DEF Imported

\* In a real run it is committed, and stays so whatever comes after.
LEMMA CommittedRowKeepsInv ==
    ASSUME ImportInv, mode = "real", step = "peopled", ~stale,
           NEW d, d = Imported(committed, csv[next], "import", runs, next),
           view' = d, locked' = FALSE, committed' = d, Finish("imported"),
           creating' = IF ServerIdle THEN creating ELSE [creating EXCEPT !.stale = TRUE],
           UNCHANGED <<csv, mode, stale, predicted, meddled, runs, writes>>
    PROVE  ImportInv'
<1> USE DEF ImportInv
<1> DEFINE n == Len(committed.issues)
           line == csv[next]
<1>1. /\ ~committed.gone /\ next <= Len(csv) /\ Running
      /\ line \in Line /\ line.opener # Blank
  BY RowOfView DEF Running
<1>2. /\ result' \in [DOMAIN csv -> Results]
      /\ next' = next + 1 /\ next' \in 1..(Len(csv) + 1)
      /\ step' = "between" /\ row' = NoRow
      /\ row' \in [status : Nat, opener : Nat, assignee : Nat]
      /\ result'[next] = "imported"
      /\ \A l \in DOMAIN csv \ {next} : result'[l] = result[l]
  BY <1>1, Finished DEF Results
<1>3. /\ committed \in Database /\ Consistent(committed) /\ HasDefault(committed)
      /\ runs \in Nat /\ next \in Nat /\ "import" \in Authors /\ n = Len(committed.issues)
  BY <1>1, AtLine DEF ImportTypeOK, Sound, Authors
<1>4. /\ d \in Database /\ Consistent(d) /\ d.gone = committed.gone /\ HasDefault(d)
      /\ \E made : /\ Brought(committed, d, made)
                   /\ made.by = "import" /\ made.run = runs /\ made.line = next
  BY <1>1, <1>3, RowImports
<1>5. PICK made : /\ Brought(committed, d, made)
                  /\ made.by = "import" /\ made.run = runs /\ made.line = next
  BY <1>4
<1> HIDE DEF line, n
<1>6. /\ n \in Nat /\ DOMAIN d.issues = DOMAIN committed.issues \cup {n + 1}
      /\ n + 1 \notin DOMAIN committed.issues
      /\ \A i \in DOMAIN committed.issues : d.issues[i] = committed.issues[i]
      /\ d.issues[n + 1] = made
      /\ made.number = n + 1
  BY <1>3, <1>5, IssuesBrought
<1>7. ImportTypeOK'
  <2>1. creating' \in [status : Nat, assignee : Nat, number : Nat, stale : BOOLEAN]
    BY DEF ImportTypeOK
  <2> QED
    BY <1>2, <1>4, <2>1 DEF ImportTypeOK
<1>8. Sound'
  <2>1. \A i \in DOMAIN committed'.issues :
          /\ committed'.issues[i].number = i /\ committed'.issues[i].by # "dry"
          /\ committed'.issues[i].run <= runs'
    BY <1>3, <1>5, <1>6 DEF Sound
  <2>2. Consistent(committed)'
    BY <1>4 DEF Consistent, Storable
  <2>3. HasDefault(committed)'
    BY <1>4 DEF HasDefault
  <2> QED
    BY <2>1, <2>2, <2>3 DEF Sound
<1>9. Justified'
  <2>1. Quoted(d)
    <3> SUFFICES ASSUME NEW u \in DOMAIN d.users, d.users[u].by = "import"
                 PROVE  \E i \in DOMAIN d.issues :
                           u \in {d.issues[i].opener, d.issues[i].assignee}
      BY DEF Quoted
    <3>1. CASE u \in DOMAIN committed.users
      <4>1. PICK i \in DOMAIN committed.issues :
                   u \in {committed.issues[i].opener, committed.issues[i].assignee}
        BY <1>1, <1>5, <3>1 DEF Justified, Quoted, Brought
      <4> QED
        BY <1>6, <4>1
    <3>2. CASE u \notin DOMAIN committed.users
      BY <1>5, <1>6, <3>2 DEF Brought
    <3> QED
      BY <3>1, <3>2
  <2>2. UsedBy(d)
    <3> SUFFICES ASSUME NEW t \in DOMAIN d.statuses, d.statuses[t].by = "import"
                 PROVE  \E i \in DOMAIN d.issues : d.issues[i].status = t
      BY DEF UsedBy
    <3>1. CASE t \in DOMAIN committed.statuses
      <4>1. PICK i \in DOMAIN committed.issues : committed.issues[i].status = t
        BY <1>1, <1>5, <3>1 DEF Justified, UsedBy, Brought
      <4> QED
        BY <1>6, <4>1
    <3>2. CASE t \notin DOMAIN committed.statuses
      BY <1>5, <1>6, <3>2 DEF Brought
    <3> QED
      BY <3>1, <3>2
  <2> QED
    BY <2>1, <2>2 DEF Justified, Quoted, UsedBy
<1>10. InRow'
  <2>1. Consistent(view)'
    BY <1>4 DEF Consistent, Storable
  <2> QED
    BY <1>2, <2>1 DEF InRow
<1>11. Locking'
  BY <1>1, <1>4 DEF Locking, Open, Running
<1>12. Creation'
  <2>1. creating'.status = creating.status /\ creating'.assignee = creating.assignee
        /\ creating'.number = creating.number
    BY DEF ImportTypeOK
  <2>2. CASE ServerIdle
    BY <2>2 DEF ServerIdle, Creation, NoCreation
  <2>3. CASE ~ServerIdle
    <3>1. creating'.stale
      BY <2>3 DEF ImportTypeOK
    <3>2. creating.status # 0
      BY <2>3 DEF Creation, ServerIdle
    <3>3. /\ creating'.status \in DOMAIN committed'.statuses
          /\ ~committed'.statuses[creating'.status].archived
      BY <1>1, <1>5, <2>1, <3>2 DEF Creation, Brought
    <3>4. creating'.assignee # 0 =>
            /\ creating'.assignee \in committed'.members
            /\ ~committed'.users[creating'.assignee].disabled
      <4> SUFFICES ASSUME creating'.assignee # 0
                   PROVE  /\ creating'.assignee \in committed'.members
                          /\ ~committed'.users[creating'.assignee].disabled
        OBVIOUS
      <4>1. /\ creating.assignee \in committed.members
            /\ ~committed.users[creating.assignee].disabled
        BY <1>1, <2>1, <3>2 DEF Creation
      <4>2. creating.assignee \in DOMAIN committed.users
        BY <1>3, <4>1 DEF Consistent
      <4> QED
        BY <1>5, <2>1, <4>1, <4>2 DEF Brought
    <3>5. creating'.status # 0
      BY <2>1, <3>2
    <3> QED
      BY <3>1, <3>3, <3>4, <3>5 DEF Creation
  <2> QED
    BY <2>2, <2>3
<1>13. /\ next \in DOMAIN csv /\ DOMAIN csv = 1..Len(csv) /\ next \in Nat /\ Len(csv) \in Nat
       /\ result[next] = "none"
  BY <1>1, AtLine DEF Told
<1>14. Entered'
  <2>1. ASSUME NEW l, l = next PROVE Inserted(l)' = {n + 1}
    <3>1. Inserted(l) = {}
      BY <1>1, <1>13, <2>1 DEF Entered
    <3> QED
      BY <1>5, <1>6, <2>1, <3>1 DEF Inserted
  <2>2. ASSUME NEW l \in DOMAIN csv \ {next} PROVE Inserted(l)' = Inserted(l)
    BY <1>5, <1>6 DEF Inserted
  <2>3. ASSUME NEW l \in DOMAIN csv
        PROVE  IF result'[l] = "imported"
               THEN \E i \in DOMAIN committed'.issues : Inserted(l)' = {i}
               ELSE Inserted(l)' = {}
    <3>1. CASE l = next
      BY <1>2, <1>6, <2>1, <3>1
    <3>2. CASE l # next
      <4>1. IF result[l] = "imported" THEN \E i \in DOMAIN committed.issues : Inserted(l) = {i}
            ELSE Inserted(l) = {}
        BY <1>1 DEF Entered
      <4>2. \A i \in DOMAIN committed.issues : i \in DOMAIN committed'.issues
        BY <1>6
      <4> QED
        BY <1>2, <2>2, <3>2, <4>1, <4>2
    <3> QED
      BY <3>1, <3>2
  <2> QED
    BY <2>3 DEF Entered
<1>15. Told'
  <2>1. \A l \in DOMAIN csv : l >= next' => l >= next /\ l # next
    BY <1>2, <1>13
  <2>2. Running' => \A l \in DOMAIN csv' : l >= next' => result'[l] = "none"
    BY <1>1, <1>2, <2>1 DEF Told
  <2>3. \A l \in DOMAIN csv' : result'[l] = "missing" => ~Usable(csv'[l])
    BY <1>2 DEF Told, Usable, Dated
  <2>4. \A l \in DOMAIN csv' : result'[l] # "refused"
    BY <1>1, <1>2 DEF Told
  <2> QED
    BY <1>2, <2>2, <2>3, <2>4 DEF Told
<1>16. Paid'
  <2>1. BusyLines' = BusyLines
    BY <1>2, <1>13, BusyGrows
  <2> QED
    BY <1>2, <2>1 DEF Paid
<1> QED
  BY <1>7, <1>8, <1>9, <1>10, <1>11, <1>12, <1>14, <1>15, <1>16

\* The issue of a row and its commit.
LEMMA CommitKeepsInv ==
    ASSUME ImportInv, CommitRow
    PROVE  ImportInv'
<1> DEFINE by == IF mode = "dry" THEN "dry" ELSE "import"
           d == WithIssue(view, NextNumber(view), row, by, runs, next)
<1> USE DEF ImportInv
<1>1. /\ Running /\ step = "peopled"
      /\ UNCHANGED <<csv, mode, stale, predicted, meddled, runs, writes>>
      /\ \/ /\ locked \/ ~stale
            /\ view' = d
            /\ locked' = (mode = "dry")
            /\ committed' = IF mode = "real" THEN d ELSE committed
            /\ creating' = IF mode = "dry" \/ ServerIdle THEN creating
                           ELSE [creating EXCEPT !.stale = TRUE]
            /\ Finish("imported")
         \/ Busy(d) /\ RowFails("busy") /\ UNCHANGED <<committed, creating>>
  BY DEF CommitRow
<1>2. mode = "dry" \/ mode = "real"
  BY <1>1 DEF Running
<1>3. CASE Busy(d) /\ RowFails("busy") /\ UNCHANGED <<committed, creating>>
  BY <1>1, <1>3, FailedKeepsInv DEF Busy
<1>4. CASE /\ locked \/ ~stale
           /\ view' = d
           /\ locked' = (mode = "dry")
           /\ committed' = IF mode = "real" THEN d ELSE committed
           /\ creating' = IF mode = "dry" \/ ServerIdle THEN creating
                          ELSE [creating EXCEPT !.stale = TRUE]
           /\ Finish("imported")
  <2>1. CASE mode = "dry"
    <3> HIDE DEF by
    <3>1. /\ view \in Database /\ Consistent(view) /\ by \in Authors
          /\ row \in [status : Nat, opener : Nat, assignee : Nat] /\ runs \in Nat
          /\ next \in Nat
      BY AtLine DEF InRow, ImportTypeOK, Authors, by
    <3>2. d \in Database /\ Consistent(d) /\ d.gone = view.gone
      BY <3>1, IssueOfRow
    <3>3. view' = d /\ locked' = TRUE /\ UNCHANGED <<committed, creating>>
      BY <1>4, <2>1
    <3> HIDE DEF d
    <3> QED
      BY <1>1, <1>4, <2>1, <3>2, <3>3, PreviewedRowKeepsInv
  <2>2. CASE mode = "real"
    <3>1. ~stale
      BY <1>4 DEF Locking
    <3>2. d = Imported(committed, csv[next], "import", runs, next)
      BY <1>1, <2>2, <3>1, RowOfView
    <3>3. /\ view' = d /\ committed' = d /\ locked' = FALSE
          /\ creating' = IF ServerIdle THEN creating ELSE [creating EXCEPT !.stale = TRUE]
      BY <1>4, <2>2
    <3> HIDE DEF d
    <3> QED
      BY <1>1, <1>4, <2>2, <3>1, <3>2, <3>3, CommittedRowKeepsInv
  <2> QED
    BY <1>2, <2>1, <2>2
<1> QED
  BY <1>1, <1>3, <1>4

\* A run ends, and a dry one leaves what it saw as its forecast.
LEMMA EndKeepsInv ==
    ASSUME ImportInv, EndRun
    PROVE  ImportInv'
<1> USE DEF ImportInv
<1>1. /\ Running /\ step = "between" /\ next > Len(csv)
      /\ mode' = IF mode = "dry" THEN "previewed" ELSE "over"
      /\ predicted' = IF mode = "dry" /\ meddled = 0 THEN <<view>> ELSE NoForecast
      /\ locked' = FALSE /\ view' = committed
      /\ UNCHANGED <<committed, csv, next, step, row, stale, result, creating, meddled,
                     runs, writes>>
  BY DEF EndRun
<1>2. ~Running'
  BY <1>1 DEF Running
<1>3. ImportTypeOK'
  <2>1. predicted' \in Seq(Database) /\ Len(predicted') <= 1
    BY <1>1 DEF ImportTypeOK, NoForecast
  <2> QED
    BY <1>1, <2>1 DEF ImportTypeOK
<1>4. Sound' /\ Justified' /\ \A l : Inserted(l)' = Inserted(l)
  BY <1>1, SoundStays
<1>5. InRow'
  <2>1. Consistent(view)'
    BY <1>1 DEF Sound, Consistent, Storable
  <2> QED
    BY <1>1, <2>1 DEF InRow
<1>6. Locking'
  BY <1>1, <1>2 DEF Locking
<1>7. Creation'
  BY <1>1, CreationStays
<1>8. Entered'
  <2>1. mode' \in {"real", "over"} => mode = "real"
    BY <1>1 DEF Running
  <2> QED
    BY <1>1, <1>4, <2>1 DEF Entered
<1>9. Told'
  BY <1>1, <1>2 DEF Told, Usable, Dated
<1>10. Paid'
  BY <1>1 DEF Paid
<1> QED
  BY <1>3, <1>4, <1>5, <1>6, <1>7, <1>8, <1>9, <1>10

\* The process dies: what it had not committed is as if it had never been.
LEMMA KillKeepsInv ==
    ASSUME ImportInv, Kill
    PROVE  ImportInv'
<1> USE DEF ImportInv
<1>1. /\ mode' = "killed" /\ step' = "between" /\ row' = NoRow
      /\ locked' = FALSE /\ view' = committed /\ predicted' = NoForecast
      /\ UNCHANGED <<committed, csv, next, stale, result, creating, meddled, runs, writes>>
  BY DEF Kill
<1>2. ~Running'
  BY <1>1 DEF Running
<1>3. ImportTypeOK'
  <2>1. predicted' \in Seq(Database) /\ Len(predicted') <= 1
    BY <1>1 DEF NoForecast
  <2>2. row' \in [status : Nat, opener : Nat, assignee : Nat]
    BY <1>1 DEF NoRow
  <2> QED
    BY <1>1, <2>1, <2>2 DEF ImportTypeOK
<1>4. Sound' /\ Justified'
  BY <1>1, SoundStays
<1>5. InRow'
  <2>1. Consistent(view)'
    BY <1>1 DEF Sound, Consistent, Storable
  <2> QED
    BY <1>1, <2>1 DEF InRow
<1>6. Locking'
  BY <1>1, <1>2 DEF Locking
<1>7. Creation'
  BY <1>1, CreationStays
<1>8. Entered' /\ Paid'
  BY <1>1 DEF Entered, Paid
<1>9. Told'
  BY <1>1, <1>2 DEF Told, Usable, Dated
<1> QED
  BY <1>3, <1>4, <1>5, <1>6, <1>7, <1>8, <1>9

-----------------------------------------------------------------------------
(* The steps of the others                                                 *)

\* What a commit of another process may be: it takes nothing away that a row has
\* brought, unless the project goes, and its issues are nobody's line.
Follows(d) ==
    /\ d \in Database /\ Consistent(d) /\ (committed.gone => d.gone)
    /\ \A i \in DOMAIN d.issues :
         d.issues[i].number = i /\ d.issues[i].by # "dry" /\ d.issues[i].run <= runs
    /\ ~d.gone =>
         /\ HasDefault(d) /\ Quoted(d) /\ UsedBy(d)
         /\ DOMAIN committed.issues \subseteq DOMAIN d.issues
         /\ \A i \in DOMAIN committed.issues : d.issues[i] = committed.issues[i]
         /\ \A i \in DOMAIN d.issues \ DOMAIN committed.issues : d.issues[i].line = 0

\* It makes the view of an open transaction stale, and is counted.
LEMMA OthersKeepInv ==
    ASSUME ImportInv, NEW d, Commits(d), Follows(d), Creation',
           creating' \in [status : Nat, assignee : Nat, number : Nat, stale : BOOLEAN]
    PROVE  ImportInv'
<1> USE DEF ImportInv
<1>1. /\ ~locked /\ writes < MaxWrites
      /\ committed' = d
      /\ stale' = (stale \/ Open)
      /\ meddled' = IF Running THEN meddled + 1 ELSE meddled
      /\ predicted' = NoForecast
      /\ writes' = writes + 1
      /\ view' = IF Open THEN view ELSE d
      /\ UNCHANGED <<csv, mode, next, step, row, locked, result, runs>>
  BY DEF Commits
<1>2. writes \in Nat /\ MaxWrites \in Nat /\ meddled \in Nat /\ meddled <= writes
  BY ImportAssumption DEF ImportTypeOK, Locking
<1>3. Running' = Running /\ Open' = Open
  BY <1>1 DEF Running, Open
<1>4. ImportTypeOK'
  <2>1. predicted' \in Seq(Database) /\ Len(predicted') <= 1
    BY <1>1 DEF NoForecast
  <2>2. meddled' \in 0..MaxWrites /\ writes' \in 0..MaxWrites
    BY <1>1, <1>2
  <2>3. committed' \in Database /\ view' \in Database
    BY <1>1 DEF ImportTypeOK, Follows
  <2>4. stale' \in BOOLEAN
    BY <1>1
  <2> QED
    BY <1>1, <2>1, <2>2, <2>3, <2>4 DEF ImportTypeOK
<1>5. Sound'
  <2>1. Consistent(committed)'
    BY <1>1 DEF Follows, Consistent, Storable
  <2>2. ~committed'.gone => HasDefault(committed)'
    BY <1>1 DEF Follows, HasDefault
  <2> QED
    BY <1>1, <2>1, <2>2 DEF Sound, Follows
<1>6. Justified'
  BY <1>1 DEF Justified, Follows, Quoted, UsedBy
<1>7. InRow'
  <2>1. Consistent(view)'
    <3>1. CASE Open
      BY <1>1, <3>1 DEF InRow, Consistent, Storable
    <3>2. CASE ~Open
      BY <1>1, <3>2 DEF Follows, Consistent, Storable
    <3> QED
      BY <3>1, <3>2
  <2>2. view'.gone => committed'.gone
    BY <1>1 DEF InRow, Follows
  <2>3. mode' = "real" /\ step' # "between" => stale'
    BY <1>1 DEF Open
  <2>4. step' # "between" => Running' /\ next' <= Len(csv') /\ Usable(csv[next])'
    BY <1>1, <1>3 DEF InRow, Usable, Dated
  <2> QED
    BY <1>1, <2>1, <2>2, <2>3, <2>4 DEF InRow
<1>8. Locking'
  <2>1. ~locked'
    BY <1>1
  <2>2. Running' => meddled' > 0
    BY <1>1, <1>2, <1>3
  <2>3. meddled' <= writes'
    BY <1>1, <1>2
  <2> QED
    BY <2>1, <2>2, <2>3 DEF Locking
<1>9. Entered'
  <2> SUFFICES ASSUME mode' \in {"real", "over"}, ~committed'.gone, NEW l \in DOMAIN csv'
               PROVE  IF result'[l] = "imported"
                      THEN \E i \in DOMAIN committed'.issues : Inserted(l)' = {i}
                      ELSE Inserted(l)' = {}
    BY DEF Entered
  <2>1. l \in DOMAIN csv /\ l # 0
    BY <1>1, AtLine
  <2>2. Inserted(l)' = Inserted(l)
    BY <1>1, <2>1 DEF Inserted, Follows
  <2>3. IF result[l] = "imported" THEN \E i \in DOMAIN committed.issues : Inserted(l) = {i}
        ELSE Inserted(l) = {}
    BY <1>1, <2>1 DEF Entered, Follows
  <2>4. DOMAIN committed.issues \subseteq DOMAIN committed'.issues
    BY <1>1 DEF Follows
  <2> QED
    BY <1>1, <2>2, <2>3, <2>4
<1>10. Told'
  <2>1. Running' => \A l \in DOMAIN csv' : l >= next' => result'[l] = "none"
    BY <1>1, <1>3 DEF Told
  <2>2. \A l \in DOMAIN csv' : result'[l] = "missing" => ~Usable(csv'[l])
    BY <1>1 DEF Told, Usable, Dated
  <2>3. \A l \in DOMAIN csv' : result'[l] = "refused" => committed'.gone
    BY <1>1 DEF Told, Follows
  <2>4. \A l \in DOMAIN csv' : result'[l] = "busy" => meddled' > 0
    BY <1>1, <1>2 DEF Told
  <2> QED
    BY <2>1, <2>2, <2>3, <2>4 DEF Told
<1>11. Paid'
  <2>1. BusyLines' = BusyLines
    BY <1>1 DEF BusyLines
  <2>2. mode' = "real" => meddled' = meddled + 1
    BY <1>1 DEF Running
  <2>3. Cardinality(BusyLines) \in Nat
    BY BusyIsFinite
  <2> QED
    BY <1>1, <1>2, <2>1, <2>2, <2>3 DEF Paid
<1> QED
  BY <1>4, <1>5, <1>6, <1>7, <1>8, <1>9, <1>10, <1>11

\* A database of which one table is changed.
LEMMA TableChanged ==
    ASSUME NEW b \in Database, NEW x
    PROVE  /\ [b EXCEPT !.users = x] =
                [users |-> x, members |-> b.members, statuses |-> b.statuses,
                 issues |-> b.issues, gone |-> b.gone]
           /\ [b EXCEPT !.members = x] =
                [users |-> b.users, members |-> x, statuses |-> b.statuses,
                 issues |-> b.issues, gone |-> b.gone]
           /\ [b EXCEPT !.statuses = x] =
                [users |-> b.users, members |-> b.members, statuses |-> x,
                 issues |-> b.issues, gone |-> b.gone]
  BY DEF Database

\* A commit that leaves the issues alone.
LEMMA IssuesLeft ==
    ASSUME ImportInv, ~committed.gone, NEW d \in Database, d.issues = committed.issues,
           d.gone = committed.gone, Consistent(d), HasDefault(d),
           \A u \in DOMAIN d.users : d.users[u].by = "import" =>
              u \in DOMAIN committed.users /\ committed.users[u].by = "import",
           \A s \in DOMAIN d.statuses : d.statuses[s].by = "import" =>
              s \in DOMAIN committed.statuses /\ committed.statuses[s].by = "import"
    PROVE  Follows(d)
<1>1. Quoted(d) /\ UsedBy(d)
  BY DEF ImportInv, Justified, Quoted, UsedBy
<1> QED
  BY <1>1 DEF ImportInv, Sound, Follows

\* The server's handlers run while no creation does.
LEMMA HandlersKeepInv ==
    ASSUME ImportInv, NEW d, Handles(d), Follows(d)
    PROVE  ImportInv'
<1>1. creating = NoCreation /\ creating' = NoCreation /\ Commits(d)
  BY DEF Handles, ServerIdle
<1>2. Creation' /\ creating' \in [status : Nat, assignee : Nat, number : Nat, stale : BOOLEAN]
  BY <1>1 DEF Creation, NoCreation
<1> QED
  BY <1>1, <1>2, OthersKeepInv

\* A status that is archived is not the default.
LEMMA ArchiveKeepsInv ==
    ASSUME ImportInv, NEW s \in DOMAIN committed.statuses, ServerArchives(s)
    PROVE  ImportInv'
<1> DEFINE d == [committed EXCEPT !.statuses[s].archived = TRUE]
           b == committed
           n == Len(b.statuses)
<1>1. s # DefaultStatus /\ Handles(d) /\ ~b.gone
  BY DEF ServerArchives, Handles
<1>2. /\ b \in Database /\ Consistent(b) /\ HasDefault(b)
      /\ b.statuses \in Seq(Status) /\ n \in Nat /\ DOMAIN b.statuses = 1..n
      /\ b.statuses[s] \in Status
  <2>1. b \in Database /\ Consistent(b) /\ HasDefault(b)
    BY <1>1 DEF ImportInv, ImportTypeOK, Sound
  <2> QED
    BY <2>1, Rows
<1> DEFINE x == [b.statuses[s] EXCEPT !.archived = TRUE]
           list == [b.statuses EXCEPT ![s] = x]
<1>3. d = [users |-> b.users, members |-> b.members, statuses |-> list,
           issues |-> b.issues, gone |-> b.gone]
  BY <1>2, TableChanged
<1>4. x \in Status /\ x.by = b.statuses[s].by
  BY <1>2 DEF Status
<1> HIDE DEF x
<1>5. list \in Seq(Status) /\ DOMAIN list = 1..n /\ list[s] = x
      /\ \A t \in 1..n \ {s} : list[t] = b.statuses[t]
  BY <1>2, <1>4
<1>10. s \in 1..n
  BY <1>2
<1> HIDE DEF list, d, n, b
<1>6. d \in Database
  BY <1>2, <1>3, <1>5 DEF Database
<1>7. Consistent(d)
  BY <1>2, <1>3 DEF Consistent, Storable
<1>8. HasDefault(d)
  BY <1>1, <1>2, <1>3, <1>5 DEF HasDefault
<1>9. \A t \in DOMAIN d.statuses : d.statuses[t].by = b.statuses[t].by
  BY <1>3, <1>4, <1>5, <1>10
<1>11. Follows(d)
  BY <1>1, <1>2, <1>3, <1>5, <1>6, <1>7, <1>8, <1>9, IssuesLeft DEF b
<1> QED
  BY <1>1, <1>11, HandlersKeepInv

\* A member is removed, but the user stays.
LEMMA RemoveKeepsInv ==
    ASSUME ImportInv, NEW u \in DOMAIN committed.users, ServerRemoves(u)
    PROVE  ImportInv'
<1> DEFINE d == [committed EXCEPT !.members = @ \ {u}]
           b == committed
<1>1. Handles(d) /\ ~b.gone
  BY DEF ServerRemoves, Handles
<1>2. b \in Database /\ Consistent(b) /\ HasDefault(b)
  BY <1>1 DEF ImportInv, ImportTypeOK, Sound
<1>3. d = [users |-> b.users, members |-> b.members \ {u}, statuses |-> b.statuses,
           issues |-> b.issues, gone |-> b.gone]
  BY <1>2, TableChanged
<1> HIDE DEF d, b
<1>4. d \in Database
  BY <1>2, <1>3 DEF Database
<1>5. Consistent(d)
  BY <1>2, <1>3 DEF Consistent, Storable
<1>6. HasDefault(d)
  BY <1>2, <1>3 DEF HasDefault
<1>7. Follows(d)
  BY <1>1, <1>2, <1>3, <1>4, <1>5, <1>6, IssuesLeft DEF b
<1> QED
  BY <1>1, <1>7, HandlersKeepInv

\* A user is disabled, but known by the same address.
LEMMA DisableKeepsInv ==
    ASSUME ImportInv, NEW u \in DOMAIN committed.users, ServerDisables(u)
    PROVE  ImportInv'
<1> DEFINE d == [committed EXCEPT !.users[u].disabled = TRUE]
           b == committed
           n == Len(b.users)
<1>1. Handles(d) /\ ~b.gone
  BY DEF ServerDisables, Handles
<1>2. /\ b \in Database /\ Consistent(b) /\ HasDefault(b)
      /\ b.users \in Seq(User) /\ n \in Nat /\ DOMAIN b.users = 1..n
      /\ b.users[u] \in User
  <2>1. b \in Database /\ Consistent(b) /\ HasDefault(b)
    BY <1>1 DEF ImportInv, ImportTypeOK, Sound
  <2> QED
    BY <2>1, Rows
<1> DEFINE x == [b.users[u] EXCEPT !.disabled = TRUE]
           list == [b.users EXCEPT ![u] = x]
<1>3. d = [users |-> list, members |-> b.members, statuses |-> b.statuses,
           issues |-> b.issues, gone |-> b.gone]
  <2>1. d = [b EXCEPT !.users = list]
    OBVIOUS
  <2> HIDE DEF d, list
  <2> QED
    BY <1>2, <2>1, TableChanged
<1>4. x \in User /\ x.by = b.users[u].by /\ x.email = b.users[u].email
  BY <1>2 DEF User
<1> HIDE DEF x
<1>5. list \in Seq(User) /\ DOMAIN list = 1..n /\ list[u] = x
      /\ \A t \in 1..n \ {u} : list[t] = b.users[t]
  BY <1>2, <1>4
<1>10. u \in 1..n
  BY <1>2
<1> HIDE DEF list, d, n, b
<1>6. d \in Database
  BY <1>2, <1>3, <1>5 DEF Database
<1>7. \A t \in 1..n : list[t].by = b.users[t].by /\ list[t].email = b.users[t].email
  BY <1>4, <1>5, <1>10
<1>8. Consistent(d)
  BY <1>2, <1>3, <1>5, <1>7 DEF Consistent, Storable
<1>9. HasDefault(d)
  BY <1>2, <1>3 DEF HasDefault
<1>11. Follows(d)
  BY <1>1, <1>2, <1>3, <1>5, <1>6, <1>7, <1>8, <1>9, IssuesLeft DEF b
<1> QED
  BY <1>1, <1>11, HandlersKeepInv

\* A user is invited at an address nobody has.
LEMMA InviteKeepsInv ==
    ASSUME ImportInv, NEW p \in People, ServerInvites(p)
    PROVE  ImportInv'
<1> DEFINE w == [name |-> p, email |-> <<Slug[p], 1>>, disabled |-> FALSE, by |-> "server"]
           d == [committed EXCEPT !.users = Append(@, w)]
           b == committed
           n == Len(b.users)
<1>1. Handles(d) /\ ~b.gone /\ HasEmail(b, <<Slug[p], 1>>) = {}
  BY DEF ServerInvites, Handles
<1>2. b \in Database /\ Consistent(b) /\ HasDefault(b)
  BY <1>1 DEF ImportInv, ImportTypeOK, Sound
<1>3. w \in User /\ w.email = <<Slug[p], 1>> /\ w.by # "import"
  BY DEF User, Emails, Authors
<1> HIDE DEF w
<1>4. d = [b EXCEPT !.users = Append(@, w)]
  OBVIOUS
<1> HIDE DEF d, b
<1>5. /\ d \in Database
      /\ d.members = b.members /\ d.statuses = b.statuses
      /\ d.issues = b.issues /\ d.gone = b.gone
      /\ DOMAIN b.users = 1..n /\ n \in Nat
      /\ DOMAIN d.users = 1..(n + 1)
      /\ \A u \in DOMAIN b.users : d.users[u] = b.users[u]
      /\ d.users[n + 1] = w
  BY <1>2, <1>3, <1>4, UserAdded
<1> HIDE DEF n
<1>6. \A u \in 1..n : b.users[u].email # w.email
  BY <1>1, <1>3, <1>5 DEF HasEmail
<1>7. \A u \in 1..(n + 1) : u \in 1..n \/ u = n + 1
  BY <1>5
<1>8. Consistent(d)
  BY <1>2, <1>5, <1>6, <1>7 DEF Consistent, Storable
<1>9. HasDefault(d)
  BY <1>2, <1>5 DEF HasDefault
<1>10. \A u \in DOMAIN d.users : d.users[u].by = "import" =>
          u \in DOMAIN b.users /\ b.users[u].by = "import"
  BY <1>3, <1>5, <1>7
<1>11. Follows(d)
  BY <1>1, <1>5, <1>8, <1>9, <1>10, IssuesLeft DEF b
<1> QED
  BY <1>1, <1>11, HandlersKeepInv

\* A step of createIssue that commits nothing.
LEMMA CreatingKeepsInv ==
    ASSUME ImportInv, UNCHANGED <<committed, importer, predicted, meddled, writes>>,
           Creation',
           creating' \in [status : Nat, assignee : Nat, number : Nat, stale : BOOLEAN]
    PROVE  ImportInv'
<1> USE DEF ImportInv, importer
<1>1. ImportTypeOK'
  BY DEF ImportTypeOK
<1>2. Sound' /\ Justified' /\ \A l : Inserted(l)' = Inserted(l)
  BY SoundStays
<1>3. InRow'
  <2>1. Consistent(view)' /\ (view'.gone => committed'.gone)
    BY ViewStays
  <2>2. mode' = "real" /\ step' # "between" /\ ~stale' => Applied(committed)'
    BY DEF InRow, Applied
  <2> QED
    BY <2>1, <2>2 DEF InRow, Running, Usable, Dated
<1>4. Locking'
  BY DEF Locking, Open, Running
<1>5. Entered' /\ Told'
  BY <1>2 DEF Entered, Told, Running, Usable, Dated
<1>6. Paid'
  <2>1. BusyLines' = BusyLines
    BY DEF BusyLines
  <2> QED
    BY <2>1 DEF Paid
<1> QED
  BY <1>1, <1>2, <1>3, <1>4, <1>5, <1>6

\* createIssue finds a status that is active and an assignee who is a member.
LEMMA ResolveKeepsInv ==
    ASSUME ImportInv, NEW s \in DOMAIN committed.statuses,
           NEW a \in {0} \cup committed.members, ResolveCreation(s, a)
    PROVE  ImportInv'
<1>1. /\ ~committed.gone /\ ~committed.statuses[s].archived
      /\ a # 0 => a \in committed.members /\ ~committed.users[a].disabled
      /\ creating' = [NoCreation EXCEPT !.status = s, !.assignee = a]
      /\ UNCHANGED <<committed, importer, predicted, meddled, writes>>
  BY DEF ResolveCreation
<1>2. s \in Nat /\ s # 0 /\ a \in Nat
  <2>1. committed \in Database
    BY DEF ImportInv, ImportTypeOK
  <2>2. /\ DOMAIN committed.statuses = 1..Len(committed.statuses)
        /\ Len(committed.statuses) \in Nat /\ committed.members \subseteq Nat
    BY <2>1, Rows
  <2> QED
    BY <2>2
<1>3. /\ creating'.status = s /\ creating'.assignee = a /\ creating'.number = 0
      /\ creating' \in [status : Nat, assignee : Nat, number : Nat, stale : BOOLEAN]
  <2>1. creating' = [status |-> s, assignee |-> a, number |-> 0, stale |-> FALSE]
    BY <1>1 DEF NoCreation
  <2> QED
    BY <1>2, <2>1
<1>4. committed' = committed
  BY <1>1
<1>5. Creation'
  BY <1>1, <1>2, <1>3, <1>4 DEF Creation
<1>6. UNCHANGED <<committed, importer, predicted, meddled, writes>>
  BY <1>1
<1> QED
  BY <1>3, <1>5, <1>6, CreatingKeepsInv

\* ... and the next number.
LEMMA NumberKeepsInv ==
    ASSUME ImportInv, NumberCreation
    PROVE  ImportInv'
<1>1. /\ creating.status # 0
      /\ creating' = [creating EXCEPT !.number = NextNumber(committed), !.stale = FALSE]
      /\ UNCHANGED <<committed, importer, predicted, meddled, writes>>
  BY DEF NumberCreation
<1>2. /\ creating \in [status : Nat, assignee : Nat, number : Nat, stale : BOOLEAN]
      /\ NextNumber(committed) \in Nat
  BY Rows DEF ImportInv, ImportTypeOK, NextNumber
<1>3. /\ creating'.status = creating.status /\ creating'.assignee = creating.assignee
      /\ creating'.number = NextNumber(committed) /\ creating'.stale = FALSE
      /\ creating' \in [status : Nat, assignee : Nat, number : Nat, stale : BOOLEAN]
  BY <1>1, <1>2
<1>4. Creation'
  BY <1>1, <1>3 DEF ImportInv, Creation, NextNumber
<1> QED
  BY <1>1, <1>3, <1>4, CreatingKeepsInv

\* A creation that fails leaves nothing.
LEMMA FailKeepsInv ==
    ASSUME ImportInv, FailCreation
    PROVE  ImportInv'
<1>1. creating' = NoCreation /\ UNCHANGED <<committed, importer, predicted, meddled, writes>>
  BY DEF FailCreation
<1>2. Creation' /\ creating' \in [status : Nat, assignee : Nat, number : Nat, stale : BOOLEAN]
  BY <1>1 DEF Creation, NoCreation
<1> QED
  BY <1>1, <1>2, CreatingKeepsInv

\* What a creation commits.
LEMMA CreationAdds ==
    ASSUME ImportInv, CommitCreation
    PROVE  \E made :
             /\ made \in Issue
             /\ made.number = Len(committed.issues) + 1
             /\ made.by = "server" /\ made.run = 0 /\ made.line = 0
             /\ made.status = creating.status /\ made.assignee = creating.assignee
             /\ Commits([committed EXCEPT !.issues = Append(@, made)])
             /\ ~committed.gone /\ creating.status # 0
<1>1. /\ creating.number # 0 /\ ~creating.stale /\ ~committed.gone
      /\ Commits(WithIssue(committed, creating.number,
                           [status |-> creating.status, opener |-> Reporter,
                            assignee |-> creating.assignee], "server", 0, 0))
  BY DEF CommitCreation
<1> DEFINE made == [number |-> creating.number, status |-> creating.status,
                    opener |-> Reporter, assignee |-> creating.assignee,
                    by |-> "server", run |-> 0, line |-> 0]
<1>2. Commits([committed EXCEPT !.issues = Append(@, made)])
  BY <1>1 DEF WithIssue
<1>3. creating.number = Len(committed.issues) + 1 /\ creating.status # 0
  BY <1>1 DEF ImportInv, Creation, NextNumber, NoCreation
<1>4. made \in Issue
  BY DEF ImportInv, ImportTypeOK, Issue, Authors, Reporter
<1>5. /\ made.number = Len(committed.issues) + 1
      /\ made.by = "server" /\ made.run = 0 /\ made.line = 0
      /\ made.status = creating.status /\ made.assignee = creating.assignee
  BY <1>3
<1> HIDE DEF made
<1> QED
  BY <1>1, <1>2, <1>3, <1>4, <1>5

\* The commit of a creation.
LEMMA CreateKeepsInv ==
    ASSUME ImportInv, CommitCreation
    PROVE  ImportInv'
<1>1. PICK made :
        /\ made \in Issue
        /\ made.number = Len(committed.issues) + 1
        /\ made.by = "server" /\ made.run = 0 /\ made.line = 0
        /\ Commits([committed EXCEPT !.issues = Append(@, made)])
        /\ ~committed.gone
  BY CreationAdds
<1> DEFINE b == committed
           d == [committed EXCEPT !.issues = Append(@, made)]
           n == Len(b.issues)
<1>2. b \in Database /\ Consistent(b) /\ HasDefault(b) /\ runs \in Nat
  BY <1>1 DEF ImportInv, ImportTypeOK, Sound
<1>3. n = Len(b.issues) /\ d = [b EXCEPT !.issues = Append(@, made)]
      /\ made.number = n + 1 /\ Commits(d) /\ b = committed
  BY <1>1
<1> HIDE DEF b, d, n
<1>4. /\ d \in Database
      /\ d.users = b.users /\ d.members = b.members /\ d.statuses = b.statuses
      /\ d.gone = b.gone
      /\ DOMAIN b.issues = 1..n /\ n \in Nat
      /\ DOMAIN d.issues = 1..(n + 1)
      /\ \A i \in DOMAIN b.issues : d.issues[i] = b.issues[i]
      /\ d.issues[n + 1] = made
  BY <1>1, <1>2, <1>3, IssueAdded
<1>5. /\ DOMAIN d.issues = DOMAIN b.issues \cup {n + 1} /\ n + 1 \notin DOMAIN b.issues
  BY <1>4
<1>6. Consistent(d)
  BY <1>2, <1>4 DEF Consistent, Storable
<1>7. HasDefault(d)
  BY <1>2, <1>4 DEF HasDefault
<1>8. \A i \in DOMAIN d.issues :
         d.issues[i].number = i /\ d.issues[i].by # "dry" /\ d.issues[i].run <= runs
  BY <1>1, <1>2, <1>3, <1>4, <1>5 DEF ImportInv, Sound, b
<1>9. Quoted(d)
  <2>1. Quoted(b)
    BY <1>1 DEF ImportInv, Justified, b
  <2> QED
    BY <1>4, <1>5, <2>1 DEF Quoted
<1>10. UsedBy(d)
  <2>1. UsedBy(b)
    BY <1>1 DEF ImportInv, Justified, b
  <2> QED
    BY <1>4, <1>5, <2>1 DEF UsedBy
<1>11. Follows(d)
  BY <1>1, <1>3, <1>4, <1>5, <1>6, <1>7, <1>8, <1>9, <1>10 DEF Follows
<1>12. creating' = NoCreation
  BY DEF CommitCreation
<1>13. Creation' /\ creating' \in [status : Nat, assignee : Nat, number : Nat, stale : BOOLEAN]
  BY <1>12 DEF Creation, NoCreation
<1> QED
  BY <1>3, <1>11, <1>13, OthersKeepInv

\* The project is deleted, with all that was its own.
Deleted(d) ==
    [d EXCEPT !.gone = TRUE, !.issues = <<>>, !.statuses = <<>>, !.members = {}]

LEMMA ProjectDeleted ==
    ASSUME NEW b \in Database, NEW d, d = Deleted(b)
    PROVE  /\ d \in Database /\ d.users = b.users /\ d.gone = TRUE
           /\ DOMAIN d.issues = {} /\ d.members = {}
<1>1. PICK i \in Seq(Issue), s \in Seq(Status) : i = <<>> /\ s = <<>>
  <2>1. <<>> \in Seq(Issue) /\ <<>> \in Seq(Status)
    OBVIOUS
  <2> QED
    BY <2>1, Zenon
<1> DEFINE b1 == [b EXCEPT !.gone = TRUE]
           b2 == [b1 EXCEPT !.issues = i]
           b3 == [b2 EXCEPT !.statuses = s]
           b4 == [b3 EXCEPT !.members = {}]
<1>2. d = [b EXCEPT !.gone = TRUE, !.issues = i, !.statuses = s, !.members = {}]
  BY <1>1 DEF Deleted
<1>3. d = b4
  BY <1>2
<1>4. b1 \in Database
  BY DEF Database
<1> HIDE DEF b1
<1>5. b2 \in Database
  BY <1>4 DEF Database
<1> HIDE DEF b2
<1>6. b3 \in Database
  BY <1>5 DEF Database
<1> HIDE DEF b3
<1>7. b4 \in Database
  BY <1>6 DEF Database
<1>8. d.users = b.users /\ d.gone = TRUE /\ d.issues = i /\ d.members = {}
  BY <1>2 DEF Database
<1>9. DOMAIN i = {}
  BY <1>1
<1> QED
  BY <1>3, <1>7, <1>8, <1>9

\* The deletion of a project keeps the invariant.
LEMMA DeleteKeepsInv ==
    ASSUME ImportInv, DeleteProject
    PROVE  ImportInv'
<1> DEFINE b == committed
           d == Deleted(b)
<1>1. /\ Commits(d)
      /\ creating' = IF ServerIdle THEN creating ELSE [creating EXCEPT !.stale = TRUE]
  BY DEF DeleteProject, Deleted
<1>2. b \in Database /\ Consistent(b)
  BY DEF ImportInv, ImportTypeOK, Sound
<1>3. /\ d \in Database /\ d.users = b.users /\ d.gone = TRUE
      /\ DOMAIN d.issues = {} /\ d.members = {}
  BY <1>2, ProjectDeleted
<1> HIDE DEF d
<1>4. d.gone
  BY <1>3
<1>5. Consistent(d)
  BY <1>2, <1>3 DEF Consistent, Storable
<1>6. Follows(d)
  BY <1>3, <1>4, <1>5 DEF Follows
<1>7. committed'.gone
  BY <1>1, <1>4 DEF Commits
<1>8. /\ creating' \in [status : Nat, assignee : Nat, number : Nat, stale : BOOLEAN]
      /\ creating'.status = creating.status
  BY <1>1 DEF ImportInv, ImportTypeOK
<1>9. Creation'
  <2>1. creating.status = 0 => creating' = NoCreation
    BY <1>1 DEF ImportInv, Creation, ServerIdle
  <2> QED
    BY <1>7, <1>8, <2>1 DEF Creation
<1> QED
  BY <1>1, <1>6, <1>8, <1>9, OthersKeepInv

\* Nothing happens.
LEMMA StutterKeepsInv ==
    ASSUME ImportInv, UNCHANGED importVars
    PROVE  ImportInv'
<1>1. /\ UNCHANGED <<committed, importer, predicted, meddled, writes>>
      /\ creating' = creating
  BY DEF importVars
<1>2. Creation'
  BY <1>1, CreationStays
<1>3. creating' \in [status : Nat, assignee : Nat, number : Nat, stale : BOOLEAN]
  BY <1>1 DEF ImportInv, ImportTypeOK
<1> QED
  BY <1>1, <1>2, <1>3, CreatingKeepsInv

-----------------------------------------------------------------------------
(* The invariant of the importer                                           *)

\* The invariant holds of a database that exists before the importer runs,
LEMMA ImportInvStart ==
    ASSUME ImportInit
    PROVE  ImportInv
<1> USE DEF ImportInit
<1>1. InitialDb \in Database /\ csv \in Seq(Line)
  BY ImportAssumption
<1>2. ImportTypeOK
  <2>1. result \in [DOMAIN csv -> Results]
    BY DEF Results
  <2>2. row \in [status : Nat, opener : Nat, assignee : Nat]
    BY DEF NoRow
  <2>3. creating \in [status : Nat, assignee : Nat, number : Nat, stale : BOOLEAN]
    BY DEF NoCreation
  <2>4. predicted \in Seq(Database) /\ Len(predicted) <= 1
    BY DEF NoForecast
  <2>5. Len(csv) \in Nat /\ 0 <= MaxRuns /\ 0 <= MaxWrites
    BY <1>1, ImportAssumption
  <2>6. next \in 1..(Len(csv) + 1) /\ meddled \in 0..MaxWrites /\ runs \in 0..MaxRuns
        /\ writes \in 0..MaxWrites
    BY <2>5, ImportAssumption
  <2> QED
    BY <1>1, <2>1, <2>2, <2>3, <2>4, <2>6 DEF ImportTypeOK
<1>3. Sound
  <2>1. Consistent(committed)
    BY InitialAssumption DEF Consistent
  <2>2. \A i \in DOMAIN committed.issues :
          /\ committed.issues[i].number = i /\ committed.issues[i].by # "dry"
          /\ committed.issues[i].run <= runs
    BY InitialAssumption
  <2>3. ~committed.gone => HasDefault(committed)
    BY InitialAssumption DEF HasDefault
  <2> QED
    BY <2>1, <2>2, <2>3 DEF Sound
<1>4. Justified
  BY InitialAssumption DEF Justified, Quoted, UsedBy
<1>5. InRow
  BY InitialAssumption DEF InRow, Consistent
<1>6. Locking
  BY DEF Locking, Running
<1>7. Creation
  BY DEF Creation, NoCreation
<1>8. Entered /\ Told /\ Paid
  BY DEF Entered, Told, Paid, Running
<1> QED
  BY <1>2, <1>3, <1>4, <1>5, <1>6, <1>7, <1>8 DEF ImportInv

\* and every step keeps it.
LEMMA ImportInvStep ==
    ASSUME ImportInv, [ImportNext]_importVars
    PROVE  ImportInv'
<1>1. CASE StartRun
  BY <1>1, StartKeepsInv
<1>2. CASE SkipLine
  BY <1>2, SkipKeepsInv
<1>3. CASE BeginRow
  BY <1>3, BeginKeepsInv
<1>4. CASE LabelRow
  BY <1>4, LabelKeepsInv
<1>5. CASE PeopleRow
  BY <1>5, PeopleKeepsInv
<1>6. CASE CommitRow
  BY <1>6, CommitKeepsInv
<1>7. CASE EndRun
  BY <1>7, EndKeepsInv
<1>8. CASE Kill
  BY <1>8, KillKeepsInv
<1>9. CASE \E s \in DOMAIN committed.statuses : ServerArchives(s)
  BY <1>9, ArchiveKeepsInv
<1>10. CASE \E u \in DOMAIN committed.users : ServerRemoves(u) \/ ServerDisables(u)
  BY <1>10, RemoveKeepsInv, DisableKeepsInv
<1>11. CASE \E p \in People : ServerInvites(p)
  BY <1>11, InviteKeepsInv
<1>12. CASE \E s \in DOMAIN committed.statuses, a \in {0} \cup committed.members :
              ResolveCreation(s, a)
  BY <1>12, ResolveKeepsInv
<1>13. CASE NumberCreation
  BY <1>13, NumberKeepsInv
<1>14. CASE CommitCreation
  BY <1>14, CreateKeepsInv
<1>15. CASE FailCreation
  BY <1>15, FailKeepsInv
<1>16. CASE DeleteProject
  BY <1>16, DeleteKeepsInv
<1>17. CASE UNCHANGED importVars
  BY <1>17, StutterKeepsInv
<1> QED
  BY <1>1, <1>2, <1>3, <1>4, <1>5, <1>6, <1>7, <1>8, <1>9, <1>10, <1>11, <1>12, <1>13,
     <1>14, <1>15, <1>16, <1>17 DEF ImportNext

\* The invariant of the importer and of the server that runs beside it.
THEOREM ImportInvariance == ImportSpec => []ImportInv
<1>1. ImportInit => ImportInv
  BY ImportInvStart
<1>2. ImportInv /\ [ImportNext]_importVars => ImportInv'
  BY ImportInvStep
<1> QED
  BY <1>1, <1>2, PTL DEF ImportSpec

\* Whenever the importer stops, what it added for the sake of an issue is there
\* with that issue or not at all (importIssue's transaction).
THEOREM NothingIsLeftBehind == ImportSpec => []NothingLeftBehind
<1>1. ImportInv => NothingLeftBehind
  BY DEF ImportInv, Sound, Justified, Quoted, UsedBy, NothingLeftBehind
<1> QED
  BY <1>1, ImportInvariance, PTL

\* The summary of importIssues tells what is in the database, whoever else wrote to
\* it during the run, and issues are numbered without a gap.
THEOREM SummaryHolds == ImportSpec => []SummaryIsTrue
<1>1. ImportInv => SummaryIsTrue
  <2> SUFFICES ASSUME ImportInv PROVE SummaryIsTrue
    OBVIOUS
  <2>1. ASSUME mode \in {"real", "over"}, ~committed.gone, NEW l \in DOMAIN csv
        PROVE  Cardinality(Inserted(l)) = IF result[l] = "imported" THEN 1 ELSE 0
    <3>1. IF result[l] = "imported" THEN \E i \in DOMAIN committed.issues : Inserted(l) = {i}
          ELSE Inserted(l) = {}
      BY <2>1 DEF ImportInv, Entered
    <3>2. CASE result[l] = "imported"
      <4>1. PICK i : Inserted(l) = {i}
        BY <3>1, <3>2
      <4>2. Cardinality({i}) = 1
        BY FS_Singleton
      <4> QED
        BY <3>2, <4>1, <4>2
    <3>3. CASE result[l] # "imported"
      BY <3>1, <3>3, FS_EmptySet
    <3> QED
      BY <3>2, <3>3
  <2>2. \A l \in DOMAIN csv : result[l] = "missing" => ~Usable(csv[l])
    BY DEF ImportInv, Told
  <2>3. (\E l \in DOMAIN csv : result[l] = "refused") => committed.gone
    BY DEF ImportInv, Told
  <2>4. mode = "real" => Cardinality({l \in DOMAIN csv : result[l] = "busy"}) <= meddled
    BY DEF ImportInv, Paid, BusyLines
  <2>5. (\E l \in DOMAIN csv : result[l] = "busy") => meddled > 0
    BY DEF ImportInv, Told
  <2>6. \A i \in DOMAIN committed.issues : committed.issues[i].number = i
    BY DEF ImportInv, Sound
  <2> QED
    BY <2>1, <2>2, <2>3, <2>4, <2>5, <2>6 DEF SummaryIsTrue
<1> QED
  BY <1>1, ImportInvariance, PTL

\* What comes into being with a commit of the server, or of a row.
LEMMA CreatesStep == ImportInv /\ [ImportNext]_importVars => [CreatesSoundly]_importVars
<1> SUFFICES ASSUME ImportInv, ImportNext PROVE CreatesSoundly
  BY DEF importVars
<1> USE DEF ImportInv
<1>1. ASSUME committed' = committed PROVE CreatesSoundly
  BY <1>1 DEF CreatesSoundly
<1>2. ASSUME NEW d, Handles(d), d.issues = committed.issues PROVE CreatesSoundly
  BY <1>2 DEF CreatesSoundly, Handles, Commits
<1>3. committed \in Database
  BY DEF ImportTypeOK
<1>4. CASE StartRun \/ SkipLine \/ BeginRow \/ LabelRow \/ PeopleRow \/ EndRun \/ Kill
  BY <1>1, <1>4 DEF StartRun, SkipLine, BeginRow, LabelRow, PeopleRow, EndRun, Kill
<1>5. CASE CommitRow
  <2>1. CASE committed' = committed
    BY <1>1, <2>1
  <2>2. CASE committed' # committed
    <3>1. /\ mode = "real" /\ step = "peopled" /\ (locked \/ ~stale)
          /\ committed' = WithIssue(view, NextNumber(view), row, "import", runs, next)
      BY <1>5, <2>2 DEF CommitRow
    <3>2. ~stale
      BY <3>1 DEF Locking
    <3>3. /\ committed' = Imported(committed, csv[next], "import", runs, next)
          /\ csv[next] \in Line /\ csv[next].opener # Blank /\ ~committed.gone
      BY <3>1, <3>2, RowOfView
    <3>4. /\ Consistent(committed) /\ HasDefault(committed) /\ runs \in Nat /\ next \in Nat
          /\ "import" \in Authors
      BY <3>3, AtLine DEF Sound, ImportTypeOK, Authors
    <3>5. PICK made : Brought(committed, committed', made) /\ made.by = "import"
      BY <1>3, <3>3, <3>4, RowImports
    <3> DEFINE n == Len(committed.issues)
    <3>6. n = Len(committed.issues)
      OBVIOUS
    <3> HIDE DEF n
    <3>7. /\ DOMAIN committed'.issues = DOMAIN committed.issues \cup {n + 1}
          /\ \A i \in DOMAIN committed.issues : committed'.issues[i] = committed.issues[i]
          /\ committed'.issues[n + 1] = made
      BY <1>3, <3>5, <3>6, IssuesBrought
    <3>8. /\ ~committed'.statuses[made.status].archived
          /\ made.assignee # 0 => made.assignee \in committed'.members
      BY <3>5 DEF Brought
    <3>9. \A i \in DOMAIN committed'.issues \ DOMAIN committed.issues :
             committed'.issues[i] = made
      BY <3>7
    <3> QED
      BY <3>5, <3>7, <3>8, <3>9 DEF CreatesSoundly
  <2> QED
    BY <2>1, <2>2
<1>6. CASE \E s \in DOMAIN committed.statuses : ServerArchives(s)
  <2>1. PICK s \in DOMAIN committed.statuses :
          Handles([committed EXCEPT !.statuses[s].archived = TRUE])
    BY <1>6 DEF ServerArchives
  <2>2. [committed EXCEPT !.statuses[s].archived = TRUE].issues = committed.issues
    BY <1>3 DEF Database
  <2> QED
    BY <1>2, <2>1, <2>2
<1>7. CASE \E u \in DOMAIN committed.users : ServerRemoves(u)
  <2>1. PICK u \in DOMAIN committed.users :
          Handles([committed EXCEPT !.members = @ \ {u}])
    BY <1>7 DEF ServerRemoves
  <2>2. [committed EXCEPT !.members = @ \ {u}].issues = committed.issues
    BY <1>3 DEF Database
  <2> QED
    BY <1>2, <2>1, <2>2
<1>8. CASE \E u \in DOMAIN committed.users : ServerDisables(u)
  <2>1. PICK u \in DOMAIN committed.users :
          Handles([committed EXCEPT !.users[u].disabled = TRUE])
    BY <1>8 DEF ServerDisables
  <2>2. [committed EXCEPT !.users[u].disabled = TRUE].issues = committed.issues
    BY <1>3 DEF Database
  <2> QED
    BY <1>2, <2>1, <2>2
<1>9. CASE \E p \in People : ServerInvites(p)
  <2>1. PICK w : Handles([committed EXCEPT !.users = Append(@, w)])
    BY <1>9 DEF ServerInvites
  <2>2. [committed EXCEPT !.users = Append(@, w)].issues = committed.issues
    BY <1>3 DEF Database
  <2> QED
    BY <1>2, <2>1, <2>2
<1>10. CASE (\E s \in DOMAIN committed.statuses, a \in {0} \cup committed.members :
               ResolveCreation(s, a)) \/ NumberCreation \/ FailCreation
  BY <1>1, <1>10 DEF ResolveCreation, NumberCreation, FailCreation
<1>11. CASE CommitCreation
  <2>1. PICK made :
          /\ made \in Issue
          /\ made.status = creating.status /\ made.assignee = creating.assignee
          /\ Commits([committed EXCEPT !.issues = Append(@, made)])
          /\ ~committed.gone /\ creating.status # 0
    BY <1>11, CreationAdds
  <2> DEFINE n == Len(committed.issues)
  <2>2. n = Len(committed.issues)
    OBVIOUS
  <2>3. committed' = [committed EXCEPT !.issues = Append(@, made)]
    BY <2>1 DEF Commits
  <2> HIDE DEF n
  <2>4. /\ committed'.members = committed.members /\ committed'.users = committed.users
        /\ committed'.statuses = committed.statuses
        /\ DOMAIN committed.issues = 1..n /\ n \in Nat
        /\ DOMAIN committed'.issues = 1..(n + 1)
        /\ \A i \in DOMAIN committed.issues : committed'.issues[i] = committed.issues[i]
        /\ committed'.issues[n + 1] = made
    BY <1>3, <2>1, <2>2, <2>3, IssueAdded
  <2>5. /\ DOMAIN committed'.issues = DOMAIN committed.issues \cup {n + 1}
        /\ \A i \in DOMAIN committed'.issues \ DOMAIN committed.issues :
             committed'.issues[i] = made
    BY <2>4
  <2>6. /\ ~committed'.statuses[made.status].archived
        /\ made.assignee # 0 => made.assignee \in committed'.members
    BY <2>1, <2>4 DEF Creation
  <2>7. made.assignee # 0 => ~committed'.users[made.assignee].disabled
    BY <2>1, <2>4 DEF Creation
  <2> QED
    BY <2>4, <2>5, <2>6, <2>7 DEF CreatesSoundly
<1>12. CASE DeleteProject
  <2>1. committed' = Deleted(committed)
    BY <1>12 DEF DeleteProject, Commits, Deleted
  <2>2. committed'.gone = TRUE /\ DOMAIN committed'.issues = {}
    BY <1>3, <2>1, ProjectDeleted
  <2> QED
    BY <2>2 DEF CreatesSoundly
<1> QED
  BY <1>4, <1>5, <1>6, <1>7, <1>8, <1>9, <1>10, <1>11, <1>12 DEF ImportNext

\* Every issue comes into being with an active status and a member for assignee, and
\* no commit of the importer or of createIssue loses one of the other.
THEOREM IssuesComeSoundly == ImportSpec => CreatedSoundly
  BY ImportInvariance, CreatesStep, PTL DEF CreatedSoundly, ImportSpec

-----------------------------------------------------------------------------
(* What a dry run foresees                                                 *)

\* The tables a row reads and writes before its issue.
Alike(d, f) == d.users = f.users /\ d.members = f.members /\ d.statuses = f.statuses

\* With the issues that is all there is to a database.
LEMMA SameTables ==
    ASSUME NEW d \in Database, NEW f \in Database, Alike(d, f), d.issues = f.issues,
           d.gone = f.gone
    PROVE  d = f
  BY DEF Database, Alike

\* Two sequences of issues that agree.
LEMMA SameIssues ==
    ASSUME NEW x \in Seq(Issue), NEW y \in Seq(Issue), DOMAIN x = DOMAIN y,
           \A i \in DOMAIN x : x[i] = y[i]
    PROVE  x = y
  OBVIOUS

\* What the importer makes of a status depends on the statuses only.
LEMMA StatusAlike ==
    ASSUME NEW d \in Database, NEW f \in Database, Alike(d, f), NEW label
    PROVE  /\ Alike(WithStatus(d, label), WithStatus(f, label))
           /\ StatusOf(WithStatus(d, label), label) = StatusOf(WithStatus(f, label), label)
<1> DEFINE new == [name |-> label, archived |-> FALSE, by |-> "import"]
           list == [s \in DOMAIN d.statuses |->
                      IF s \in Named(d, label) THEN [d.statuses[s] EXCEPT !.archived = FALSE]
                      ELSE d.statuses[s]]
<1>1. Named(d, label) = Named(f, label)
  BY DEF Named, Alike
<1>2. CASE label = Blank
  BY <1>2 DEF WithStatus, StatusOf, Alike
<1>3. CASE label # Blank /\ Named(d, label) = {}
  <2>1. /\ WithStatus(d, label) = [d EXCEPT !.statuses = Append(d.statuses, new)]
        /\ WithStatus(f, label) = [f EXCEPT !.statuses = Append(d.statuses, new)]
    BY <1>1, <1>3 DEF WithStatus, Alike
  <2> HIDE DEF new
  <2>2. Alike(WithStatus(d, label), WithStatus(f, label))
    BY <2>1 DEF Database, Alike
  <2> QED
    BY <1>3, <2>2 DEF StatusOf, Named, Alike
<1>4. CASE label # Blank /\ Named(d, label) # {}
  <2>1. /\ WithStatus(d, label) = [d EXCEPT !.statuses = list]
        /\ WithStatus(f, label) = [f EXCEPT !.statuses = list]
    BY <1>1, <1>4 DEF WithStatus, Alike
  <2> HIDE DEF list
  <2>2. Alike(WithStatus(d, label), WithStatus(f, label))
    BY <2>1 DEF Database, Alike
  <2> QED
    BY <1>4, <2>2 DEF StatusOf, Named, Alike
<1> QED
  BY <1>2, <1>3, <1>4

\* ... and of a person, on the users.
LEMMA PersonAlike ==
    ASSUME NEW d \in Database, NEW f \in Database, Alike(d, f), NEW p
    PROVE  Alike(WithPerson(d, p), WithPerson(f, p))
<1> DEFINE w == NewUser(d, p)
           k == IF Known(d, p) # {} THEN d ELSE [d EXCEPT !.users = Append(@, w)]
           j == IF Known(d, p) # {} THEN f ELSE [f EXCEPT !.users = Append(@, w)]
<1>1. Known(d, p) = Known(f, p)
  BY KnownByUsers DEF Alike
<1>2. NewUser(f, p) = w
  BY DEF NewUser, FreeEmail, HasEmail, Alike
<1>3. WithPerson(d, p) = [k EXCEPT !.members = @ \cup Known(k, p)]
  BY DEF WithPerson
<1>4. WithPerson(f, p) = [j EXCEPT !.members = @ \cup Known(j, p)]
  BY <1>1, <1>2 DEF WithPerson
<1> HIDE DEF w
<1>5. /\ k.users = j.users /\ k.members = j.members /\ k.statuses = j.statuses
      /\ k = [users |-> k.users, members |-> d.members, statuses |-> d.statuses,
              issues |-> d.issues, gone |-> d.gone]
      /\ j = [users |-> j.users, members |-> f.members, statuses |-> f.statuses,
              issues |-> f.issues, gone |-> f.gone]
  <2>1. CASE Known(d, p) # {}
    BY <2>1 DEF Database, Alike
  <2>2. CASE Known(d, p) = {}
    <3>1. /\ k = [d EXCEPT !.users = Append(d.users, w)]
          /\ j = [f EXCEPT !.users = Append(d.users, w)]
      BY <2>2 DEF Alike
    <3> HIDE DEF k, j
    <3>2. k = [users |-> Append(d.users, w), members |-> d.members,
               statuses |-> d.statuses, issues |-> d.issues, gone |-> d.gone]
      BY <3>1, TableChanged
    <3>3. j = [users |-> Append(d.users, w), members |-> f.members,
               statuses |-> f.statuses, issues |-> f.issues, gone |-> f.gone]
      BY <3>1, TableChanged
    <3> QED
      BY <3>2, <3>3 DEF Alike
  <2> QED
    BY <2>1, <2>2
<1> HIDE DEF k, j
<1>6. Known(k, p) = Known(j, p)
  BY <1>5, KnownByUsers
<1> DEFINE m == k.members \cup Known(k, p)
<1>7. /\ WithPerson(d, p) = [k EXCEPT !.members = m]
      /\ WithPerson(f, p) = [j EXCEPT !.members = m]
  BY <1>3, <1>4, <1>5, <1>6
<1> HIDE DEF m
<1> QED
  BY <1>5, <1>7 DEF Alike

\* What a row makes of a database does not depend on the issues.
LEMMA RowAlike ==
    ASSUME NEW d \in Database, NEW f \in Database, Alike(d, f), Consistent(d), Consistent(f),
           NEW line \in Line, line.opener # Blank
    PROVE  Alike(Peopled(d, line), Peopled(f, line)) /\ Resolved(d, line) = Resolved(f, line)
<1> DEFINE s == Labelled(d, line)
           t == Labelled(f, line)
           o == WithPerson(s, line.opener)
           q == WithPerson(t, line.opener)
<1>1. Alike(s, t) /\ StatusOf(s, line.status) = StatusOf(t, line.status)
  BY StatusAlike DEF Labelled
<1>2. /\ s \in Database /\ Consistent(s) /\ t \in Database /\ Consistent(t)
      /\ line.opener \in People
  BY RowGrows DEF Grew, Line
<1> HIDE DEF s, t
<1>3. Alike(o, q)
  BY <1>1, <1>2, PersonAlike
<1>4. o \in Database /\ q \in Database
  BY <1>2, PersonJoins DEF Grew
<1>5. /\ Peopled(d, line) = IF line.assignee = Blank THEN o ELSE WithPerson(o, line.assignee)
      /\ Peopled(f, line) = IF line.assignee = Blank THEN q ELSE WithPerson(q, line.assignee)
  BY DEF Peopled, WithPeople, s, t
<1> HIDE DEF o, q
<1>6. Alike(Peopled(d, line), Peopled(f, line))
  BY <1>3, <1>4, <1>5, PersonAlike
<1>7. \A p : PersonOf(Peopled(d, line), p) = PersonOf(Peopled(f, line), p)
  <2>1. \A p : Known(Peopled(d, line), p) = Known(Peopled(f, line), p)
    BY <1>6, KnownByUsers DEF Alike
  <2> QED
    BY <2>1 DEF PersonOf
<1>8. Resolved(d, line) = Resolved(f, line)
  BY <1>1, <1>7 DEF Resolved, s, t
<1> QED
  BY <1>6, <1>8

\* A forecast is a database with the same tables, whose issues are foreseen.
LEMMA ForecastTables ==
    ASSUME NEW d \in Database
    PROVE  /\ Forecast(d) \in Database /\ Alike(d, Forecast(d)) /\ Forecast(d).gone = d.gone
           /\ DOMAIN Forecast(d).issues = DOMAIN d.issues
           /\ Len(Forecast(d).issues) = Len(d.issues)
           /\ \A i \in DOMAIN d.issues : Forecast(d).issues[i] = Foreseen(d.issues[i])
<1> DEFINE list == [i \in DOMAIN d.issues |-> Foreseen(d.issues[i])]
           n == Len(d.issues)
<1>1. /\ n \in Nat /\ DOMAIN d.issues = 1..n /\ d.issues \in Seq(Issue)
      /\ \A i \in 1..n : d.issues[i] \in Issue
  BY Rows
<1>2. ASSUME NEW i \in 1..n PROVE Foreseen(d.issues[i]) \in Issue
  BY <1>1 DEF Foreseen, Issue, Authors
<1>3. list \in [1..n -> Issue] /\ DOMAIN list = 1..n
  BY <1>1, <1>2
<1>4. Forecast(d) = [d EXCEPT !.issues = list]
  BY DEF Forecast
<1>5. \A i \in 1..n : list[i] = Foreseen(d.issues[i])
  BY <1>1
<1> HIDE DEF list, n
<1>6. list \in Seq(Issue) /\ Len(list) = n
  BY <1>1, <1>3
<1>7. Forecast(d) \in Database /\ Forecast(d).issues = list
  BY <1>4, <1>6 DEF Database
<1>8. Alike(d, Forecast(d)) /\ Forecast(d).gone = d.gone
  BY <1>4 DEF Database, Alike
<1> QED
  BY <1>1, <1>3, <1>5, <1>6, <1>7, <1>8 DEF n

\* A row is foreseen: its forecast is what the row makes of the forecast before.
LEMMA RowForeseen ==
    ASSUME NEW b \in Database, Consistent(b), HasDefault(b), NEW line \in Line,
           line.opener # Blank, NEW by \in {"dry", "import"}, NEW run \in Nat, NEW l \in Nat,
           NEW e, e = Imported(b, line, by, run, l)
    PROVE  Forecast(e) = Imported(Forecast(b), line, "import", 0, l)
<1> DEFINE f == Forecast(b)
           g == Imported(f, line, "import", 0, l)
           r == Resolved(b, line)
           d == Peopled(b, line)
           h == Peopled(f, line)
           n == Len(b.issues)
           made == [number |-> n + 1, status |-> r.status, opener |-> r.opener,
                    assignee |-> r.assignee, by |-> by, run |-> run, line |-> l]
           seen == [number |-> n + 1, status |-> r.status, opener |-> r.opener,
                    assignee |-> r.assignee, by |-> "import", run |-> 0, line |-> l]
<1>1. /\ f \in Database /\ Alike(b, f) /\ f.gone = b.gone
      /\ DOMAIN f.issues = DOMAIN b.issues /\ Len(f.issues) = n
      /\ \A i \in DOMAIN b.issues : f.issues[i] = Foreseen(b.issues[i])
  BY ForecastTables
<1> HIDE DEF f
<1>2. Consistent(f)
  BY <1>1 DEF Consistent, Storable, Alike
<1>3. Alike(d, h) /\ Resolved(f, line) = r
  BY <1>1, <1>2, RowAlike
<1>4. /\ d \in Database /\ d.issues = b.issues /\ d.gone = b.gone
      /\ h \in Database /\ h.issues = f.issues /\ h.gone = f.gone
      /\ r \in [status : Nat, opener : Nat, assignee : Nat] /\ n \in Nat
      /\ DOMAIN b.issues = 1..n
  BY <1>1, <1>2, RowGrows, Rows DEF Grew
<1>5. e = [d EXCEPT !.issues = Append(@, made)]
  BY DEF Imported, WithIssue, NextNumber
<1>6. g = [h EXCEPT !.issues = Append(@, seen)]
  BY <1>1, <1>3 DEF Imported, WithIssue, NextNumber
<1>7. made \in Issue /\ seen \in Issue /\ Foreseen(made) = seen
  <2>1. made \in Issue /\ seen \in Issue
    BY <1>4 DEF Issue, Authors
  <2>2. made.by # "server"
    OBVIOUS
  <2>3. Foreseen(made) = [[made EXCEPT !.by = "import"] EXCEPT !.run = 0]
    <3> HIDE DEF made
    <3> QED
      BY <2>2 DEF Foreseen
  <2>4. [made EXCEPT !.by = "import"] =
           [number |-> n + 1, status |-> r.status, opener |-> r.opener,
            assignee |-> r.assignee, by |-> "import", run |-> run, line |-> l]
    OBVIOUS
  <2> QED
    BY <2>1, <2>3, <2>4
<1> HIDE DEF made, seen, r, d, h, n, g
<1>8. /\ e \in Database /\ Alike(e, d) /\ e.gone = d.gone
      /\ DOMAIN e.issues = 1..(n + 1)
      /\ \A i \in 1..n : e.issues[i] = b.issues[i]
      /\ e.issues[n + 1] = made
  <2>1. Len(d.issues) = n /\ DOMAIN d.issues = 1..n
    BY <1>4 DEF n
  <2> QED
    BY <1>4, <1>5, <1>7, <2>1, IssueAdded DEF Alike
<1>9. /\ g \in Database /\ Alike(g, h) /\ g.gone = h.gone
      /\ DOMAIN g.issues = 1..(n + 1)
      /\ \A i \in 1..n : g.issues[i] = f.issues[i]
      /\ g.issues[n + 1] = seen
  <2>1. Len(h.issues) = n /\ DOMAIN h.issues = 1..n
    BY <1>1, <1>4
  <2> QED
    BY <1>4, <1>6, <1>7, <2>1, IssueAdded DEF Alike
<1>10. /\ Forecast(e) \in Database /\ Alike(e, Forecast(e)) /\ Forecast(e).gone = e.gone
       /\ DOMAIN Forecast(e).issues = 1..(n + 1)
       /\ \A i \in 1..(n + 1) : Forecast(e).issues[i] = Foreseen(e.issues[i])
  BY <1>8, ForecastTables
<1>11. Forecast(e).issues = g.issues
  <2>1. \A i \in 1..(n + 1) : i \in 1..n \/ i = n + 1
    BY <1>4
  <2>2. n + 1 \in 1..(n + 1) /\ \A i \in 1..n : i \in 1..(n + 1)
    BY <1>4
  <2>3. ASSUME NEW i \in 1..n PROVE Forecast(e).issues[i] = g.issues[i]
    <3>1. e.issues[i] = b.issues[i] /\ g.issues[i] = f.issues[i]
      BY <1>8, <1>9
    <3>2. f.issues[i] = Foreseen(b.issues[i])
      BY <1>1, <1>4
    <3>3. Forecast(e).issues[i] = Foreseen(e.issues[i])
      BY <1>10, <2>2
    <3> QED
      BY <3>1, <3>2, <3>3
  <2>4. Forecast(e).issues[n + 1] = g.issues[n + 1]
    BY <1>7, <1>8, <1>9, <1>10, <2>2
  <2>5. \A i \in 1..(n + 1) : Forecast(e).issues[i] = g.issues[i]
    BY <2>1, <2>3, <2>4
  <2>6. Forecast(e).issues \in Seq(Issue) /\ g.issues \in Seq(Issue)
    BY <1>9, <1>10, Rows
  <2> QED
    BY <1>9, <1>10, <2>5, <2>6, SameIssues
<1>12. Alike(Forecast(e), g) /\ Forecast(e).gone = g.gone
  BY <1>1, <1>3, <1>4, <1>8, <1>9, <1>10 DEF Alike
<1> QED
  BY <1>9, <1>10, <1>11, <1>12, SameTables DEF g, f

\* What the l-th line makes of a database, and the course the lines take from T[0].
Effect(d, l) == IF Usable(csv[l]) THEN Imported(d, csv[l], "import", 0, l) ELSE d

Course(T, n) == \A l \in 1..n : T[l] = Effect(T[l - 1], l)

\* A dry run nobody has disturbed is on the course that begins at the database, with
\* b the one its rows so far have made.
Preview(b, T) ==
    /\ Consistent(b) /\ HasDefault(b) /\ ~b.gone
    /\ step = "between" => view = b
    /\ Applied(b)
    /\ Course(T, next - 1) /\ T[0] = Forecast(committed) /\ T[next - 1] = Forecast(b)

Previewing == mode = "dry" /\ meddled = 0 => \E b \in Database : \E T : Preview(b, T)

\* The forecast is where the course that begins at the database ends.
Foreseeing ==
    predicted # NoForecast /\ mode # "real" =>
      \E T : /\ Course(T, Len(csv)) /\ T[0] = Forecast(committed)
             /\ T[Len(csv)] = Forecast(predicted[1])

\* The real run after it is on that course.
Fulfilling ==
    predicted # NoForecast /\ mode = "real" =>
      /\ meddled = 0
      /\ \E T : /\ Course(T, Len(csv)) /\ T[next - 1] = Forecast(committed)
                /\ T[Len(csv)] = Forecast(predicted[1])

Foretold == Previewing /\ Foreseeing /\ Fulfilling

\* The course depends on the file only.
LEMMA CourseStays ==
    ASSUME csv' = csv
    PROVE  \A T, n : Course(T, n)' = Course(T, n)
<1>1. \A d, l : Effect(d, l)' = Effect(d, l)
  BY DEF Effect, Usable, Dated
<1> QED
  BY <1>1 DEF Course

\* It can be taken on by a line.
LEMMA CourseGrows ==
    ASSUME NEW n \in Nat, NEW T, Course(T, n)
    PROVE  \E S : Course(S, n + 1) /\ S[0] = T[0] /\ S[n + 1] = Effect(T[n], n + 1)
<1> DEFINE S == [i \in 0..(n + 1) |-> IF i = n + 1 THEN Effect(T[n], n + 1) ELSE T[i]]
<1>1. \A i \in 0..n : S[i] = T[i]
  OBVIOUS
<1>2. S[n + 1] = Effect(T[n], n + 1)
  OBVIOUS
<1> HIDE DEF S
<1>3. ASSUME NEW l \in 1..(n + 1) PROVE S[l] = Effect(S[l - 1], l)
  <2>1. CASE l \in 1..n
    <3>1. T[l] = Effect(T[l - 1], l)
      BY <2>1 DEF Course
    <3>2. S[l] = T[l] /\ S[l - 1] = T[l - 1]
      BY <1>1, <2>1
    <3> QED
      BY <3>1, <3>2
  <2>2. CASE l = n + 1
    <3>1. S[n] = T[n] /\ l - 1 = n
      BY <1>1, <2>2
    <3> QED
      BY <1>2, <2>2, <3>1
  <2> QED
    BY <2>1, <2>2
<1>4. 0 \in 0..n
  OBVIOUS
<1>5. Course(S, n + 1) /\ S[0] = T[0]
  BY <1>1, <1>3, <1>4 DEF Course
<1> QED
  BY <1>2, <1>5

\* Nothing disturbs a run in which nobody else commits.
LEMMA Undisturbed ==
    ASSUME ImportInv, Running, meddled = 0
    PROVE  ~stale /\ ~committed.gone /\ ~view.gone
  BY DEF ImportInv, Locking, InRow

\* A row that is undisturbed gets its status, its people and its issue.
LEMMA LabelSucceeds ==
    ASSUME ImportInv, LabelRow, meddled = 0
    PROVE  LET d == WithStatus(view, csv[next].status)
           IN  /\ view' = d /\ row' = [row EXCEPT !.status = StatusOf(d, csv[next].status)]
               /\ step' = "labelled" /\ step = "begun" /\ next' = next
<1>1. ~stale /\ ~view.gone
  BY Undisturbed DEF LabelRow
<1> QED
  BY <1>1 DEF LabelRow, Busy, Sees

\* ... its people, ...
LEMMA PeopleSucceeds ==
    ASSUME ImportInv, PeopleRow, meddled = 0
    PROVE  LET line == csv[next]
               d == WithPeople(view, line)
           IN  /\ view' = d
               /\ row' = [row EXCEPT
                     !.opener = PersonOf(d, line.opener),
                     !.assignee = IF line.assignee = Blank THEN 0
                                  ELSE PersonOf(d, line.assignee)]
               /\ step' = "peopled" /\ step = "labelled" /\ next' = next
<1> DEFINE line == csv[next]
           d == WithPeople(view, line)
<1>1. ~stale /\ step = "labelled"
  BY Undisturbed DEF PeopleRow
<1>2. /\ line \in Line /\ line.opener # Blank
      /\ view \in Database /\ Consistent(view)
  BY <1>1, AtLine DEF ImportInv, InRow, ImportTypeOK, Usable
<1>3. Storable(d)
  BY <1>2, PeopleJoin DEF Grew, Consistent
<1> HIDE DEF d
<1> QED
  BY <1>1, <1>3 DEF PeopleRow, Busy, Sees, d

\* ... and its issue.
LEMMA CommitSucceeds ==
    ASSUME ImportInv, CommitRow, meddled = 0
    PROVE  LET by == IF mode = "dry" THEN "dry" ELSE "import"
               d == WithIssue(view, NextNumber(view), row, by, runs, next)
           IN  /\ view' = d /\ step = "peopled" /\ Running
               /\ committed' = IF mode = "real" THEN d ELSE committed
               /\ step' = "between" /\ row' = NoRow /\ next' = next + 1
<1>1. ~stale
  BY Undisturbed DEF CommitRow
<1> QED
  BY <1>1 DEF CommitRow, Busy, Finish

\* The statements of a row apply to the same database.
LEMMA LabelApplies ==
    ASSUME NEW b, Applied(b), ~b.gone, step = "begun", csv' = csv, next' = next,
           view' = WithStatus(view, csv[next].status), step' = "labelled",
           row' = [row EXCEPT !.status =
                     StatusOf(WithStatus(view, csv[next].status), csv[next].status)]
    PROVE  Applied(b)'
<1>1. view = b /\ row = NoRow
  BY DEF Applied
<1>2. view' = Labelled(b, csv[next])
  BY <1>1 DEF Labelled
<1> QED
  BY <1>1, <1>2 DEF Applied, Labelled

\* ... and so do those of its people.
LEMMA PeopleApply ==
    ASSUME NEW b, Applied(b), step = "labelled", csv' = csv, next' = next,
           view' = WithPeople(view, csv[next]), step' = "peopled",
           row' = [row EXCEPT
                     !.opener = PersonOf(WithPeople(view, csv[next]), csv[next].opener),
                     !.assignee = IF csv[next].assignee = Blank THEN 0
                                  ELSE PersonOf(WithPeople(view, csv[next]),
                                                csv[next].assignee)]
    PROVE  Applied(b)'
<1> DEFINE line == csv[next]
           o == PersonOf(WithPeople(view, line), line.opener)
           a == IF line.assignee = Blank THEN 0
                ELSE PersonOf(WithPeople(view, line), line.assignee)
<1>1. /\ ~b.gone /\ view = Labelled(b, line)
      /\ row = [NoRow EXCEPT !.status = StatusOf(view, line.status)]
  BY DEF Applied
<1>2. WithPeople(view, line) = Peopled(b, line)
  BY <1>1 DEF Peopled
<1>3. row' = [status |-> StatusOf(view, line.status), opener |-> o, assignee |-> a]
  <2>1. row' = [row EXCEPT !.opener = o, !.assignee = a]
    OBVIOUS
  <2> HIDE DEF o, a
  <2> QED
    BY <1>1, <2>1 DEF NoRow
<1>4. row' = Resolved(b, line)
  BY <1>1, <1>2, <1>3 DEF Resolved
<1> QED
  BY <1>1, <1>2, <1>4 DEF Applied

\* A row of a dry run is previewed.
LEMMA RowPreviewed ==
    ASSUME ImportInv, NEW b \in Database, Consistent(b), HasDefault(b), ~b.gone,
           Applied(b), step = "peopled", NEW by \in {"dry", "import"}, NEW e,
           e = WithIssue(view, NextNumber(view), row, by, runs, next)
    PROVE  /\ e \in Database /\ Consistent(e) /\ HasDefault(e) /\ e.gone = b.gone
           /\ Forecast(e) = Effect(Forecast(b), next)
<1>1. /\ view = Peopled(b, csv[next]) /\ row = Resolved(b, csv[next])
      /\ next <= Len(csv) /\ Usable(csv[next]) /\ runs \in Nat /\ next \in Nat
  BY AtLine DEF ImportInv, ImportTypeOK, InRow, Applied
<1>2. csv[next] \in Line /\ csv[next].opener # Blank
  BY <1>1, AtLine DEF ImportInv, Usable
<1>3. view.issues = b.issues
  BY <1>1, <1>2, RowGrows DEF Grew
<1>4. NextNumber(view) = NextNumber(b)
  BY <1>3 DEF NextNumber
<1>5. e = Imported(b, csv[next], by, runs, next)
  BY <1>1, <1>4 DEF Imported
<1>6. by \in Authors
  BY DEF Authors
<1>7. e \in Database /\ Consistent(e) /\ HasDefault(e) /\ e.gone = b.gone
  BY <1>1, <1>2, <1>5, <1>6, RowImports
<1>8. Forecast(e) = Imported(Forecast(b), csv[next], "import", 0, next)
  BY <1>1, <1>2, <1>5, RowForeseen
<1>9. Effect(Forecast(b), next) = Imported(Forecast(b), csv[next], "import", 0, next)
  BY <1>1 DEF Effect
<1> QED
  BY <1>7, <1>8, <1>9

\* A commit of another process, which takes the forecast back.
LEMMA OthersForetell ==
    ASSUME ImportInv, Foretold, NEW d, Commits(d)
    PROVE  Foretold'
<1>1. /\ predicted' = NoForecast /\ mode' = mode
      /\ meddled' = IF Running THEN meddled + 1 ELSE meddled
      /\ meddled \in Nat
  BY ImportAssumption DEF Commits, ImportInv, ImportTypeOK
<1>2. mode' = "dry" => meddled' # 0
  BY <1>1 DEF Running
<1> QED
  BY <1>1, <1>2 DEF Foretold, Previewing, Foreseeing, Fulfilling

\* A step that leaves the run, the database and the forecast as they are.
LEMMA NothingForetold ==
    ASSUME Foretold, UNCHANGED <<committed, csv, mode, next, step, row, view, meddled,
                                 predicted>>
    PROVE  Foretold'
<1>1. \A T, n : Course(T, n)' = Course(T, n)
  BY CourseStays
<1>2. \A b : Applied(b)' = Applied(b)
  BY DEF Applied
<1>3. \A b, T : Preview(b, T)' = Preview(b, T)
  BY <1>1, <1>2 DEF Preview
<1>4. Previewing'
  BY <1>3 DEF Foretold, Previewing
<1>5. Foreseeing' /\ Fulfilling'
  BY <1>1 DEF Foretold, Foreseeing, Fulfilling
<1> QED
  BY <1>4, <1>5 DEF Foretold

\* A dry run begins at the database, and a real one at the beginning of its forecast.
LEMMA StartForetells ==
    ASSUME ImportInv, Foretold, StartRun
    PROVE  Foretold'
<1>1. /\ mode \notin {"dry", "real"} /\ ~committed.gone
      /\ next' = 1 /\ step' = "between" /\ row' = NoRow /\ view' = committed
      /\ meddled' = 0 /\ UNCHANGED <<committed, csv, predicted>>
  BY DEF StartRun, Running
<1>2. \A T, n : Course(T, n)' = Course(T, n)
  BY <1>1, CourseStays
<1>3. Previewing'
  <2>1. committed \in Database /\ Consistent(committed) /\ HasDefault(committed)
    BY <1>1 DEF ImportInv, ImportTypeOK, Sound
  <2>2. PICK T : T[0] = Forecast(committed)
    <3> [i \in {0} |-> Forecast(committed)][0] = Forecast(committed)
      OBVIOUS
    <3> QED
      OBVIOUS
  <2>3. Course(T, 0)
    BY DEF Course
  <2>4. next' - 1 = 0
    BY <1>1
  <2>5. ASSUME NEW b, b = committed PROVE Preview(b, T)'
    <3>1. Consistent(b) /\ HasDefault(b) /\ ~b.gone
      BY <1>1, <2>1, <2>5
    <3>2. Course(T, next - 1)'
      BY <1>1, <1>2, <2>3, <2>4
    <3>3. view' = b /\ Applied(b)'
      BY <1>1, <2>5 DEF Applied
    <3>4. T[0] = Forecast(committed') /\ T[next' - 1] = Forecast(b)
      BY <1>1, <2>2, <2>4, <2>5
    <3> QED
      BY <3>1, <3>2, <3>3, <3>4 DEF Preview
  <2> QED
    BY <2>1, <2>5 DEF Previewing
<1>4. Foreseeing'
  BY <1>1, <1>2 DEF Foretold, Foreseeing
<1>5. Fulfilling'
  <2> SUFFICES ASSUME predicted' # NoForecast
               PROVE  \E T : /\ Course(T, Len(csv))' /\ T[next' - 1] = Forecast(committed')
                             /\ T[Len(csv')] = Forecast(predicted'[1])
    BY <1>1 DEF Fulfilling
  <2>1. PICK T : /\ Course(T, Len(csv)) /\ T[0] = Forecast(committed)
                 /\ T[Len(csv)] = Forecast(predicted[1])
    BY <1>1 DEF Foretold, Foreseeing
  <2>2. next' - 1 = 0
    BY <1>1
  <2> QED
    BY <1>1, <1>2, <2>1, <2>2
<1> QED
  BY <1>3, <1>4, <1>5 DEF Foretold

\* The course goes on by a line, from b to e.
LEMMA LineForetells ==
    ASSUME ImportInv, Foretold, next <= Len(csv),
           csv' = csv, mode' = mode, meddled' = meddled, predicted' = predicted,
           step' = "between", next' = next + 1,
           mode # "real" => committed' = committed,
           mode = "dry" /\ meddled = 0 =>
             \A b \in Database : \A T : Preview(b, T) =>
               /\ view' \in Database /\ Consistent(view') /\ HasDefault(view')
               /\ ~view'.gone /\ Forecast(view') = Effect(Forecast(b), next),
           mode = "real" /\ meddled = 0 =>
             Forecast(committed') = Effect(Forecast(committed), next)
    PROVE  Foretold'
<1>1. \A T, n : Course(T, n)' = Course(T, n)
  BY CourseStays
<1>2. next \in Nat /\ next >= 1 /\ Len(csv) \in Nat
  BY AtLine DEF ImportInv
<1>3. Previewing'
  <2> SUFFICES ASSUME mode = "dry", meddled = 0
               PROVE  \E b \in Database : \E T : Preview(b, T)'
    BY DEF Previewing
  <2>1. PICK b, T : b \in Database /\ Preview(b, T)
    BY DEF Foretold, Previewing
  <2> DEFINE n == next - 1
  <2>2. n \in Nat /\ n + 1 = next /\ next' - 1 = next
    BY <1>2
  <2>3. Course(T, n) /\ T[0] = Forecast(committed) /\ T[n] = Forecast(b)
    BY <2>1 DEF Preview
  <2> HIDE DEF n
  <2>4. PICK S : Course(S, n + 1) /\ S[0] = T[0] /\ S[n + 1] = Effect(T[n], n + 1)
    BY <2>2, <2>3, CourseGrows
  <2>5. /\ view' \in Database /\ Consistent(view') /\ HasDefault(view')
        /\ ~view'.gone /\ Forecast(view') = Effect(Forecast(b), next)
    BY <2>1
  <2>6. ASSUME NEW e, e = view' PROVE Preview(e, S)'
    <3>1. Consistent(e) /\ HasDefault(e) /\ ~e.gone /\ Applied(e)'
      BY <2>5, <2>6 DEF Applied
    <3>2. Course(S, next - 1)'
      BY <1>1, <2>2, <2>4
    <3>3. S[0] = Forecast(committed') /\ S[next' - 1] = Forecast(e)
      BY <2>2, <2>3, <2>4, <2>5, <2>6
    <3> QED
      BY <2>6, <3>1, <3>2, <3>3 DEF Preview
  <2> QED
    BY <2>5, <2>6
<1>4. Foreseeing'
  BY <1>1 DEF Foretold, Foreseeing
<1>5. Fulfilling'
  <2> SUFFICES ASSUME predicted # NoForecast, mode = "real"
               PROVE  /\ meddled = 0
                      /\ \E T : /\ Course(T, Len(csv)) /\ T[next' - 1] = Forecast(committed')
                                /\ T[Len(csv)] = Forecast(predicted[1])
    BY <1>1 DEF Fulfilling
  <2>1. PICK T : /\ Course(T, Len(csv)) /\ T[next - 1] = Forecast(committed)
                 /\ T[Len(csv)] = Forecast(predicted[1])
    BY DEF Foretold, Fulfilling
  <2>2. meddled = 0
    BY DEF Foretold, Fulfilling
  <2>3. T[next] = Effect(T[next - 1], next)
    BY <1>2, <2>1 DEF Course
  <2>4. next' - 1 = next
    BY <1>2
  <2> QED
    BY <2>1, <2>2, <2>3, <2>4
<1> QED
  BY <1>3, <1>4, <1>5 DEF Foretold

\* A line that cannot be imported is a line of the course all the same.
LEMMA SkipForetells ==
    ASSUME ImportInv, Foretold, SkipLine
    PROVE  Foretold'
<1>1. /\ step = "between" /\ next <= Len(csv) /\ ~Usable(csv[next])
      /\ step' = "between" /\ next' = next + 1
      /\ UNCHANGED <<committed, csv, mode, view, predicted, meddled>>
  BY DEF SkipLine, Finish
<1>2. \A d : Effect(d, next) = d
  BY <1>1 DEF Effect
<1>3. ASSUME NEW b \in Database, NEW T, Preview(b, T)
      PROVE  /\ view' \in Database /\ Consistent(view') /\ HasDefault(view')
             /\ ~view'.gone /\ Forecast(view') = Effect(Forecast(b), next)
  <2>1. view' = b
    BY <1>1, <1>3 DEF Preview
  <2> QED
    BY <1>2, <1>3, <2>1 DEF Preview
<1> QED
  BY <1>1, <1>2, <1>3, LineForetells

\* The issue of a row takes the course on by its line.
LEMMA CommitForetells ==
    ASSUME ImportInv, Foretold, CommitRow
    PROVE  Foretold'
<1>1. /\ UNCHANGED <<csv, mode, predicted, meddled>>
      /\ step' = "between" /\ next' = next + 1 /\ next <= Len(csv)
      /\ step = "peopled" /\ (mode = "dry" => committed' = committed)
      /\ Running
  BY DEF CommitRow, RowFails, Finish, ImportInv, InRow, Running
<1>2. ASSUME mode = "dry", meddled = 0, NEW b \in Database, NEW T, Preview(b, T)
      PROVE  /\ view' \in Database /\ Consistent(view') /\ HasDefault(view')
             /\ ~view'.gone /\ Forecast(view') = Effect(Forecast(b), next)
  <2>1. view' = WithIssue(view, NextNumber(view), row, "dry", runs, next)
    BY <1>2, CommitSucceeds
  <2>2. Consistent(b) /\ HasDefault(b) /\ ~b.gone /\ Applied(b)
    BY <1>2 DEF Preview
  <2>3. PICK e : e = WithIssue(view, NextNumber(view), row, "dry", runs, next)
    OBVIOUS
  <2>4. /\ e \in Database /\ Consistent(e) /\ HasDefault(e) /\ e.gone = b.gone
        /\ Forecast(e) = Effect(Forecast(b), next)
    BY <1>1, <2>2, <2>3, RowPreviewed
  <2> QED
    BY <2>1, <2>2, <2>3, <2>4
<1>3. ASSUME mode = "real", meddled = 0
      PROVE  Forecast(committed') = Effect(Forecast(committed), next)
  <2>1. committed' = WithIssue(view, NextNumber(view), row, "import", runs, next)
    BY <1>3, CommitSucceeds
  <2>2. ~stale /\ ~committed.gone
    BY <1>1, <1>3, Undisturbed
  <2>3. /\ committed \in Database /\ Consistent(committed) /\ HasDefault(committed)
        /\ Applied(committed)
    BY <1>1, <1>3, <2>2 DEF ImportInv, ImportTypeOK, Sound, InRow
  <2>4. PICK e : e = WithIssue(view, NextNumber(view), row, "import", runs, next)
    OBVIOUS
  <2>5. Forecast(e) = Effect(Forecast(committed), next)
    BY <1>1, <2>2, <2>3, <2>4, RowPreviewed
  <2> QED
    BY <2>1, <2>4, <2>5
<1> QED
  BY <1>1, <1>2, <1>3, LineForetells DEF Running

\* A step within a row leaves the database and the line as they are.
LEMMA WithinForetells ==
    ASSUME Foretold, UNCHANGED <<committed, csv, mode, meddled, predicted>>,
           meddled = 0 => next' = next /\ step' # "between",
           mode = "dry" /\ meddled = 0 =>
             \A b \in Database : \A T : Preview(b, T) => Applied(b)'
    PROVE  Foretold'
<1>1. \A T, n : Course(T, n)' = Course(T, n)
  BY CourseStays
<1>2. Previewing'
  <2> SUFFICES ASSUME mode = "dry", meddled = 0
               PROVE  \E b \in Database : \E T : Preview(b, T)'
    BY DEF Previewing
  <2>1. PICK b, T : b \in Database /\ Preview(b, T)
    BY DEF Foretold, Previewing
  <2>2. Preview(b, T)'
    BY <1>1, <2>1 DEF Preview
  <2> QED
    BY <2>1, <2>2
<1>3. Foreseeing' /\ Fulfilling'
  BY <1>1 DEF Foretold, Foreseeing, Fulfilling
<1> QED
  BY <1>2, <1>3 DEF Foretold

\* The statements before it do not, and neither does a row that is undone, which
\* there is only where somebody has disturbed the run.
LEMMA RowForetells ==
    ASSUME ImportInv, Foretold, BeginRow \/ LabelRow \/ PeopleRow
    PROVE  Foretold'
<1>1. UNCHANGED <<committed, csv, mode, meddled, predicted>>
  BY DEF BeginRow, LabelRow, PeopleRow
<1>2. CASE BeginRow
  <2>1. /\ step = "between" /\ step' = "begun" /\ next' = next /\ row' = row
        /\ mode = "dry" => view' = view
    BY <1>2 DEF BeginRow
  <2>2. row = NoRow
    BY <2>1 DEF ImportInv, InRow
  <2>3. ASSUME mode = "dry", NEW b, NEW T, Preview(b, T) PROVE Applied(b)'
    BY <2>1, <2>2, <2>3 DEF Preview, Applied
  <2> QED
    BY <1>1, <2>1, <2>3, WithinForetells
<1>3. CASE LabelRow
  <2>1. ASSUME meddled = 0
        PROVE  /\ next' = next /\ step' = "labelled" /\ step = "begun"
               /\ view' = WithStatus(view, csv[next].status)
               /\ row' = [row EXCEPT !.status =
                     StatusOf(WithStatus(view, csv[next].status), csv[next].status)]
    BY <1>3, <2>1, LabelSucceeds
  <2>2. ASSUME meddled = 0, NEW b, NEW T, Preview(b, T) PROVE Applied(b)'
    BY <1>1, <2>1, <2>2, LabelApplies DEF Preview
  <2> QED
    BY <1>1, <2>1, <2>2, WithinForetells
<1>4. CASE PeopleRow
  <2>1. ASSUME meddled = 0
        PROVE  /\ next' = next /\ step' = "peopled" /\ step = "labelled"
               /\ view' = WithPeople(view, csv[next])
               /\ row' = [row EXCEPT
                     !.opener = PersonOf(WithPeople(view, csv[next]), csv[next].opener),
                     !.assignee = IF csv[next].assignee = Blank THEN 0
                                  ELSE PersonOf(WithPeople(view, csv[next]),
                                                csv[next].assignee)]
    BY <1>4, <2>1, PeopleSucceeds
  <2>2. ASSUME meddled = 0, NEW b, NEW T, Preview(b, T) PROVE Applied(b)'
    BY <1>1, <2>1, <2>2, PeopleApply DEF Preview
  <2> QED
    BY <1>1, <2>1, <2>2, WithinForetells
<1> QED
  BY <1>2, <1>3, <1>4

\* A dry run that ends undisturbed has come to the end of its course.
LEMMA EndForetells ==
    ASSUME ImportInv, Foretold, EndRun
    PROVE  Foretold'
<1>1. /\ Running /\ step = "between" /\ next > Len(csv)
      /\ mode' = IF mode = "dry" THEN "previewed" ELSE "over"
      /\ predicted' = IF mode = "dry" /\ meddled = 0 THEN <<view>> ELSE NoForecast
      /\ UNCHANGED <<committed, csv, meddled>>
  BY DEF EndRun
<1>2. \A T, n : Course(T, n)' = Course(T, n)
  BY <1>1, CourseStays
<1>3. next - 1 = Len(csv)
  <2>1. next \in 1..(Len(csv) + 1) /\ Len(csv) \in Nat
    BY AtLine DEF ImportInv, ImportTypeOK
  <2> QED
    BY <1>1, <2>1
<1>4. Previewing' /\ Fulfilling'
  BY <1>1 DEF Previewing, Fulfilling
<1>5. Foreseeing'
  <2> SUFFICES ASSUME predicted' # NoForecast
               PROVE  \E T : /\ Course(T, Len(csv)) /\ T[0] = Forecast(committed)
                             /\ T[Len(csv)] = Forecast(predicted'[1])
    BY <1>1, <1>2 DEF Foreseeing
  <2>1. mode = "dry" /\ meddled = 0 /\ predicted'[1] = view
    BY <1>1
  <2>2. PICK b, T : b \in Database /\ Preview(b, T)
    BY <2>1 DEF Foretold, Previewing
  <2> QED
    BY <1>1, <1>3, <2>1, <2>2 DEF Preview
<1> QED
  BY <1>4, <1>5 DEF Foretold

\* A run that is killed leaves no forecast.
LEMMA KillForetells ==
    ASSUME Kill
    PROVE  Foretold'
  BY DEF Kill, Foretold, Previewing, Foreseeing, Fulfilling

\* The steps together.
LEMMA ForetoldStep ==
    ASSUME ImportInv, Foretold, [ImportNext]_importVars
    PROVE  Foretold'
<1>1. CASE StartRun
  BY <1>1, StartForetells
<1>2. CASE SkipLine
  BY <1>2, SkipForetells
<1>3. CASE BeginRow \/ LabelRow \/ PeopleRow
  BY <1>3, RowForetells
<1>4. CASE CommitRow
  BY <1>4, CommitForetells
<1>5. CASE EndRun \/ Kill
  BY <1>5, EndForetells, KillForetells
<1>6. CASE \/ \E s \in DOMAIN committed.statuses : ServerArchives(s)
           \/ \E u \in DOMAIN committed.users : ServerRemoves(u) \/ ServerDisables(u)
           \/ \E p \in People : ServerInvites(p)
  <2>1. PICK d : Handles(d)
    BY <1>6 DEF ServerArchives, ServerRemoves, ServerDisables, ServerInvites
  <2> QED
    BY <2>1, OthersForetell DEF Handles
<1>7. CASE CommitCreation \/ DeleteProject
  <2>1. PICK d : Commits(d)
    BY <1>7 DEF CommitCreation, DeleteProject
  <2> QED
    BY <2>1, OthersForetell
<1>8. CASE \/ \E s \in DOMAIN committed.statuses, a \in {0} \cup committed.members :
                ResolveCreation(s, a)
           \/ NumberCreation \/ FailCreation
           \/ UNCHANGED importVars
  BY <1>8, NothingForetold DEF ResolveCreation, NumberCreation, FailCreation, importer,
     importVars
<1> QED
  BY <1>1, <1>2, <1>3, <1>4, <1>5, <1>6, <1>7, <1>8 DEF ImportNext

\* The real run ends where its forecast did.
LEMMA EndsStep ==
    ImportInv /\ Foretold /\ [ImportNext]_importVars => [EndsAsPredicted]_importVars
<1> SUFFICES ASSUME ImportInv, Foretold, ImportNext, mode = "real", mode' = "over",
                    predicted # NoForecast
             PROVE  Forecast(committed') = Forecast(predicted[1])
  BY DEF importVars, EndsAsPredicted
<1>1. EndRun
  BY DEF ImportNext, StartRun, SkipLine, BeginRow, LabelRow, PeopleRow, CommitRow, Kill,
     ServerArchives, ServerRemoves, ServerDisables, ServerInvites, Handles, Commits,
     ResolveCreation, NumberCreation, CommitCreation, FailCreation, DeleteProject, importer
<1>2. committed' = committed /\ next > Len(csv)
  BY <1>1 DEF EndRun
<1>3. next - 1 = Len(csv)
  <2>1. next \in 1..(Len(csv) + 1) /\ Len(csv) \in Nat
    BY AtLine DEF ImportInv, ImportTypeOK
  <2> QED
    BY <1>2, <2>1
<1> QED
  BY <1>2, <1>3 DEF Foretold, Fulfilling

\* "preview without writing": a real run that nobody disturbs since the dry run began
\* makes of the database what the dry run did before it rolled back.
THEOREM PreviewsComeTrue == ImportSpec => DryRunPredicts
<1>1. ImportInit => Foretold
  BY DEF ImportInit, Foretold, Previewing, Foreseeing, Fulfilling
<1>2. ImportInv /\ Foretold /\ [ImportNext]_importVars => Foretold'
  BY ForetoldStep
<1> QED
  BY <1>1, <1>2, EndsStep, ImportInvariance, PTL DEF ImportSpec, DryRunPredicts

=============================================================================
