------------------------------ MODULE BootGate ------------------------------
(***************************************************************************)
(* How the database comes into service and stays restorable: the container *)
(* entrypoint with its restore gate (docker-entrypoint.sh), the migrations *)
(* (server/db/migrate.js, scripts/migrate.js), the daily snapshots         *)
(* (scripts/backup.js) and the way back from one (scripts/restore.js).     *)
(*                                                                         *)
(* One machine with one volume.  It may stop between any two steps and is  *)
(* started again.  Litestream is external: `restore -if-replica-exists`    *)
(* brings back the replica, or succeeds without one; `replicate` copies    *)
(* the database some time later.  A database is told by its line: a fresh  *)
(* one starts a new line, a restored one continues the line it is from.    *)
(* The storage credentials are there (without them there is no gate).      *)
(***************************************************************************)
EXTENDS Naturals, FiniteSets

CONSTANTS
    Retention,     \* BACKUP_SNAPSHOT_RETENTION_DAYS; 0 disables pruning
    MaxImage,      \* bound: releases, each with one migration more
    MaxLines,      \* bound: fresh databases
    MaxDay,        \* bound: days
    MaxCrashes,    \* bound: stops of the machine
    MaxLosses,     \* bound: volumes lost or replaced by an empty one
    MaxFaults      \* bound: failing or timed out calls to the storage

ASSUME BootAssumption ==
    /\ {Retention, MaxDay, MaxCrashes, MaxLosses, MaxFaults} \subseteq Nat
    /\ {MaxImage, MaxLines} \subseteq Nat \ {0}

VARIABLES
    pc,          \* where the entrypoint is
    image,       \* the release installed: migrations 1..image
    db,          \* the database on the volume
    sentinel,    \* /data/.allow-restore exists
    replica,     \* what Litestream restores
    migrating,   \* runMigrations of the boot and of an operator's script
    backup,      \* backup.js
    late,        \* snapshot uploads given up and still on their way
    snapshots,   \* objects under snapshots/
    fetching,    \* the snapshot restore.js downloads
    day,
    lines, armings, heals, slips, chosen, crashes, losses, faults

volume == <<db, sentinel>>
storage == <<late, snapshots>>
asked == <<lines, armings, heals, slips, chosen>>
counts == <<crashes, losses, faults>>
vars == <<pc, image, volume, replica, migrating, backup, storage, fetching, day, asked, counts>>

-----------------------------------------------------------------------------
\* A line, the migrations whose tables it has, those _migrations records.
Contents == [line : 0..MaxLines, schema : 0..MaxImage, logged : 0..MaxImage]

None == [line |-> 0, schema |-> 0, logged |-> 0]

Exists(d) == d.line # 0

Snapshot == [day : 0..MaxDay, of : Contents]

NoSnapshot == [day |-> 0, of |-> None]

Migrators == {"boot", "script"}

Booting == {"gate", "restoring", "alerting", "disarm", "migrate", "applying"}

Init ==
    /\ pc = "off" /\ image = 1
    /\ db = None /\ sentinel = FALSE /\ replica = None
    /\ migrating = [m \in Migrators |-> [on |-> FALSE, at |-> 0]]
    /\ backup = [step |-> "idle", copy |-> NoSnapshot, todo |-> {}]
    /\ late = {} /\ snapshots = {}
    /\ fetching = NoSnapshot
    /\ day = 0
    /\ lines = 0 /\ armings = 0 /\ heals = 0 /\ slips = 0 /\ chosen = {}
    /\ crashes = 0 /\ losses = 0 /\ faults = 0

Fault == faults < MaxFaults /\ faults' = faults + 1 /\ UNCHANGED <<crashes, losses>>

-----------------------------------------------------------------------------
(* docker-entrypoint.sh                                                    *)

Beside == UNCHANGED <<image, replica, backup, storage, fetching, day>>

\* The machine starts, with a newer release if one was deployed.
Start ==
    /\ pc = "off" /\ pc' = "gate"
    /\ image' \in {image} \cup {i \in {image + 1} : i <= MaxImage}
    /\ UNCHANGED <<volume, replica, migrating, backup, storage, fetching, day, asked, counts>>

\* A database, or a human's permission; else the container sleeps.
Gate ==
    /\ pc = "gate"
    /\ pc' = IF Exists(db) THEN "migrate" ELSE IF sentinel THEN "restoring" ELSE "held"
    /\ UNCHANGED <<volume, migrating, asked, counts>> /\ Beside

\* litestream restore -if-replica-exists.
Restore ==
    /\ pc = "restoring"
    /\ db' = replica
    /\ pc' = IF Exists(replica) THEN "alerting" ELSE "disarm"
    /\ heals' = IF Exists(replica) THEN heals + 1 ELSE heals
    /\ UNCHANGED <<sentinel, migrating, lines, armings, slips, chosen, counts>> /\ Beside

\* Mutant of RestoreFails: the script goes on (no set -e).
RestoreFailsOpen ==
    /\ pc = "restoring" /\ Fault
    /\ pc' = "disarm"
    /\ UNCHANGED <<volume, migrating, asked>> /\ Beside

\* The restore fails, and set -e ends the script.
RestoreFails ==
    /\ pc = "restoring" /\ Fault
    /\ pc' = "off"
    /\ UNCHANGED <<volume, migrating, asked>> /\ Beside

\* alert-email.js restore-complete: up to 15 s, and never an error.
Alert ==
    /\ pc = "alerting" /\ pc' = "disarm"
    /\ UNCHANGED <<volume, migrating, asked, counts>> /\ Beside

\* Mutant of Disarm: the sentinel stays.
DisarmNot ==
    /\ pc = "disarm" /\ pc' = "migrate"
    /\ UNCHANGED <<volume, migrating, asked, counts>> /\ Beside

\* rm -f of the sentinel.
Disarm ==
    /\ pc = "disarm" /\ pc' = "migrate"
    /\ sentinel' = FALSE
    /\ UNCHANGED <<db, migrating, asked, counts>> /\ Beside

-----------------------------------------------------------------------------
(* runMigrations                                                           *)

\* Mutant of OpenAndRead: every file is applied, whatever _migrations says.
OpenAndReadNothing ==
    /\ pc = "migrate"
    /\ db' = IF Exists(db) THEN db ELSE [None EXCEPT !.line = lines + 1]
    /\ lines' = IF Exists(db) THEN lines ELSE lines + 1
    /\ heals' = IF Exists(db) THEN heals ELSE heals + 1
    /\ migrating' = [migrating EXCEPT !["boot"] = [on |-> TRUE, at |-> 1]]
    /\ pc' = "applying"
    /\ UNCHANGED <<sentinel, armings, slips, chosen, counts>> /\ Beside

\* openConnection creates a missing file; then _migrations is made and read.
OpenAndRead ==
    /\ pc = "migrate"
    /\ db' = IF Exists(db) THEN db ELSE [None EXCEPT !.line = lines + 1]
    /\ lines' = IF Exists(db) THEN lines ELSE lines + 1
    /\ heals' = IF Exists(db) THEN heals ELSE heals + 1
    /\ migrating' = [migrating EXCEPT !["boot"] = [on |-> TRUE, at |-> db.logged + 1]]
    /\ pc' = "applying"
    /\ UNCHANGED <<sentinel, armings, slips, chosen, counts>> /\ Beside

\* A script that migrates as it opens the database, beside the boot or later.
\* Run before there is a database it would make one, past the gate.
ScriptReads ==
    /\ pc \in {"applying", "running"} /\ ~migrating["script"].on
    /\ migrating' = [migrating EXCEPT !["script"] = [on |-> TRUE, at |-> db.logged + 1]]
    /\ UNCHANGED <<pc, volume, asked, counts>> /\ Beside

\* The tables of a file exist already, or its name in _migrations does.
Clashes(m) == migrating[m].at <= db.schema \/ migrating[m].at <= db.logged

AllStopped == [m \in Migrators |-> [on |-> FALSE, at |-> 0]]

Stopped(m) == [migrating EXCEPT ![m] = [on |-> FALSE, at |-> 0]]

\* One file with its name in one transaction; or the error ends the process.
Apply(m) ==
    /\ migrating[m].on /\ migrating[m].at <= image
    /\ \/ /\ ~Clashes(m)
          /\ db' = [db EXCEPT !.schema = migrating[m].at, !.logged = migrating[m].at]
          /\ migrating' = [migrating EXCEPT ![m].at = @ + 1]
          /\ UNCHANGED pc
       \/ /\ Clashes(m)
          /\ migrating' = IF m = "boot" THEN AllStopped ELSE Stopped(m)
          /\ pc' = IF m = "boot" THEN "off" ELSE pc
          /\ UNCHANGED db
    /\ UNCHANGED <<sentinel, asked, counts>> /\ Beside

\* No file is left: the script goes on, the boot starts Litestream and Node.
Migrated(m) ==
    /\ migrating[m].on /\ migrating[m].at > image
    /\ migrating' = Stopped(m)
    /\ pc' = IF m = "boot" THEN "running" ELSE pc
    /\ UNCHANGED <<volume, asked, counts>> /\ Beside

-----------------------------------------------------------------------------
(* backup.js and restore.js                                                *)

Elsewhere == UNCHANGED <<pc, image, sentinel, migrating, day>>

\* VACUUM INTO a copy of the database as it is.
BackupCopies ==
    /\ pc = "running" /\ backup.step = "idle"
    /\ backup' = [backup EXCEPT !.step = "put", !.copy = [day |-> day, of |-> db]]
    /\ UNCHANGED <<db, replica, storage, fetching, asked, counts>> /\ Elsewhere

\* pruneOldSnapshots: older than the cutoff of this run.
Expired(b) ==
    IF Retention = 0 THEN {} ELSE {s \in snapshots : s.day + Retention < b.copy.day}

\* putSnapshot, and then the list of what to prune; or it fails, or is given up
\* after 15 s and may arrive all the same.
BackupPuts ==
    /\ backup.step = "put"
    /\ \/ /\ snapshots' = snapshots \cup {[backup.copy EXCEPT !.day = day]}
          /\ backup' = [backup EXCEPT !.step = "prune", !.todo = Expired(backup)]
          /\ UNCHANGED <<late, counts>>
       \/ /\ Fault
          /\ late' \in {late, late \cup {backup.copy.of}}
          /\ backup' = [backup EXCEPT !.step = "idle", !.copy = NoSnapshot]
          /\ UNCHANGED snapshots
    /\ UNCHANGED <<db, replica, fetching, asked>> /\ Elsewhere

\* deleteSnapshot of one; a failure is logged.
BackupPrunes ==
    /\ backup.step = "prune"
    /\ \E s \in backup.todo :
         /\ \/ snapshots' = snapshots \ {s} /\ UNCHANGED counts
            \/ Fault /\ UNCHANGED snapshots
         /\ backup' = [backup EXCEPT !.todo = @ \ {s}]
    /\ UNCHANGED <<db, replica, late, fetching, asked>> /\ Elsewhere

BackupEnds ==
    /\ backup.step = "prune" /\ backup.todo = {}
    /\ backup' = [step |-> "idle", copy |-> NoSnapshot, todo |-> {}]
    /\ UNCHANGED <<db, replica, storage, fetching, asked, counts>> /\ Elsewhere

\* An upload given up arrives, under the date of its arrival.
LateArrives(d) ==
    /\ late' = late \ {d}
    /\ snapshots' = snapshots \cup {[day |-> day, of |-> d]}
    /\ UNCHANGED <<db, replica, backup, fetching, asked, counts>> /\ Elsewhere

\* restore.js --out=<the database>, where there is none: the download goes to a
\* .partial file.
Fetch(s) ==
    /\ pc = "held" /\ ~Exists(db) /\ fetching = NoSnapshot
    /\ fetching' = s
    /\ UNCHANGED <<db, replica, backup, storage, asked, counts>> /\ Elsewhere

\* ... which is renamed when it is complete.
Fetched ==
    /\ fetching # NoSnapshot
    /\ db' = fetching.of
    /\ chosen' = chosen \cup {fetching.of.line}
    /\ fetching' = NoSnapshot
    /\ UNCHANGED <<replica, backup, storage, lines, armings, heals, slips, counts>>
    /\ Elsewhere

-----------------------------------------------------------------------------
(* The machine, the operator, Litestream                                   *)

\* Whatever ran on the machine ends, an upload may have been complete.
Down ==
    /\ pc' = "off"
    /\ migrating' = AllStopped
    /\ backup' = [step |-> "idle", copy |-> NoSnapshot, todo |-> {}]
    /\ fetching' = NoSnapshot
    /\ UNCHANGED <<image, volume, replica, storage, day, lines, armings, heals, chosen,
                   losses, faults>>

\* At any moment.  A stop after the restore and before rm leaves the sentinel.
Crash ==
    /\ pc # "off" /\ crashes < MaxCrashes
    /\ crashes' = crashes + 1
    /\ slips' = IF pc \in {"alerting", "disarm"} /\ Exists(db) THEN slips + 1 ELSE slips
    /\ Down

\* fly machine restart, a deployment, or the machine stopped for want of requests.
Restart ==
    /\ pc \in {"held", "running"}
    /\ UNCHANGED <<slips, crashes>>
    /\ Down

\* The volume is lost, or another one is mounted.
LoseVolume ==
    /\ pc = "off" /\ losses < MaxLosses /\ lines < MaxLines
    /\ Exists(db)
    /\ db' = None /\ sentinel' = FALSE
    /\ losses' = losses + 1
    /\ UNCHANGED <<pc, image, replica, migrating, backup, storage, fetching, day, asked,
                   crashes, faults>>

\* The database file alone is removed.
LoseDatabase ==
    /\ pc = "off" /\ losses < MaxLosses /\ lines < MaxLines
    /\ Exists(db)
    /\ db' = None
    /\ losses' = losses + 1
    /\ UNCHANGED <<pc, image, sentinel, replica, migrating, backup, storage, fetching, day,
                   asked, crashes, faults>>

\* touch /data/.allow-restore, by an operator who sees that the gate holds.
Arm ==
    /\ pc = "held" /\ ~sentinel /\ ~Exists(db)
    /\ sentinel' = TRUE
    /\ armings' = armings + 1
    /\ UNCHANGED <<pc, image, db, replica, migrating, backup, storage, fetching, day,
                   lines, heals, slips, chosen, counts>>

\* litestream replicate, some time after.
Replicate ==
    /\ pc = "running" /\ replica # db
    /\ replica' = db
    /\ UNCHANGED <<pc, image, volume, migrating, backup, storage, fetching, day, asked, counts>>

Tick ==
    /\ day < MaxDay
    /\ day' = day + 1
    /\ UNCHANGED <<pc, image, volume, replica, migrating, backup, storage, fetching, asked,
                   counts>>

-----------------------------------------------------------------------------
BootStep ==
    \/ Start \/ Gate \/ Restore \/ RestoreFails \/ Alert \/ Disarm \/ OpenAndRead
    \/ Apply("boot") \/ Migrated("boot")

Next ==
    \/ BootStep
    \/ ScriptReads \/ Apply("script") \/ Migrated("script")
    \/ BackupCopies \/ BackupPuts \/ BackupPrunes \/ BackupEnds
    \/ \E d \in late : LateArrives(d)
    \/ \E s \in snapshots : Fetch(s)
    \/ Fetched
    \/ Crash \/ Restart \/ LoseVolume \/ LoseDatabase \/ Arm \/ Replicate \/ Tick

Spec == Init /\ [][Next]_vars

\* The shell script runs on, and a machine that stopped is started again.
FairSpec == Spec /\ WF_vars(BootStep)

-----------------------------------------------------------------------------
(* Properties                                                              *)

TypeOK ==
    /\ pc \in Booting \cup {"off", "held", "running"}
    /\ image \in 1..MaxImage
    /\ db \in Contents /\ replica \in Contents
    /\ sentinel \in BOOLEAN
    /\ migrating \in [Migrators -> [on : BOOLEAN, at : 0..(MaxImage + 1)]]
    /\ backup \in [step : {"idle", "put", "prune"}, copy : Snapshot, todo : SUBSET Snapshot]
    /\ late \subseteq Contents /\ snapshots \subseteq Snapshot
    /\ fetching \in Snapshot
    /\ chosen \subseteq 1..MaxLines

\* Nobody but a human brings a database into being: each one that a boot
\* restores or creates answers an arming of its own, save when the machine stopped
\* after a restore and before the sentinel was removed.  And the server runs on a
\* database only when every migration of its release is in it and recorded.
GateHolds ==
    /\ TypeOK
    /\ heals <= armings + slips
    /\ sentinel /\ Exists(db) /\ pc \in {"migrate", "applying", "running"}
         => slips > 0 \/ armings > heals
    /\ db.schema = db.logged
    /\ pc = "running" => Exists(db) /\ db.logged >= image

\* What a restore needs is not lost on the way: Litestream never starts another
\* line on top of a replica unless the operator chose a snapshot of that line, and
\* a bucket that has a snapshot keeps having one, whichever calls of a backup fail,
\* arrive late or are cut off.
Keeps ==
    /\ Exists(replica) => replica'.line \in {replica.line} \cup chosen
    /\ snapshots # {} => snapshots' # {}

BackupsKept == [][Keeps]_vars

\* Every boot comes to an end: the server runs or the gate holds, whatever stopped
\* the boots before it and whoever migrates at the same time.
EveryBootSettles == pc \in Booting ~> pc \in {"held", "running"}
=============================================================================
