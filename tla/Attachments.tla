----------------------------- MODULE Attachments -----------------------------
(***************************************************************************)
(* Attachments: the upload route and finalizeUpload, the mirror in S3, the *)
(* sweep of partial files at boot, downloads and archiving, and the three  *)
(* operator scripts that touch the same files and rows, delete-project.js, *)
(* sync-attachments.js and restore-attachments.js.                         *)
(* (server/routes/attachments.js, server/services/attachments.js,          *)
(* server/services/backup.js.)                                             *)
(*                                                                         *)
(* The server is one thread: a step is what runs between two awaits, or    *)
(* one file operation of the thread pool.  The scripts are processes of    *)
(* their own; only a database transaction makes them wait for the server.  *)
(* The files of an upload are named by the upload, for their names hold a  *)
(* fresh UUID.  The walk of sync-attachments.js over the directory is one  *)
(* step.                                                                   *)
(***************************************************************************)
EXTENDS Naturals, Sequences, FiniteSets

CONSTANTS
    Uploads,       \* requests to POST .../attachments
    Projects,
    Nobody,        \* no project: an issue id without a row
    InitialOwner,  \* the project of each issue id at the start
    Interrupts,    \* what may befall a request: "hangup", "second_part"
    MaxCrashes,    \* bound: crashes of the server
    MaxFaults,     \* bound: failing operations and timeouts
    MaxScripts,    \* bound: runs of the operator scripts, one of each at most
    MaxArrivals    \* bound: issues created or archived, attachments archived

Issues == DOMAIN InitialOwner

ASSUME AttachmentsAssumption ==
    /\ InitialOwner \in Seq(Projects \cup {Nobody})
    /\ Nobody \notin Projects \cup Uploads
    /\ Interrupts \subseteq {"hangup", "second_part"}
    /\ MaxCrashes \in Nat /\ MaxFaults \in Nat /\ MaxArrivals \in Nat
    /\ MaxScripts \in 0..3

VARIABLES
    up,         \* the server runs
    sweep,      \* sweepPartialUploads: has it read .tmp, what has it to remove
    owner,      \* issues: the project of each id
    archived,   \* issues with archived_at set
    arrivals,   \* issues created or archived so far
    phase,      \* where the handler of each upload stands
    target,     \* issue and project of each upload, read at its start
    handled,    \* uploads whose `handled` flag is set
    cleaning,   \* uploads whose fail() waits for its unlink
    reply,      \* what each client was told: "none" yet, "gone" has hung up
    disk,       \* the files under ATTACHMENTS_DIR
    rows,       \* the attachments table
    shelved,    \* uploads whose row has archived_at set
    lost,       \* uploads whose file went with its volume
    s3,         \* the objects under attachments/
    putting,    \* PUTs on their way, and who sent them
    purge,      \* delete-project.js
    sync,       \* sync-attachments.js
    restore,    \* restore-attachments.js
    faults, crashes

requests == <<phase, target, handled, cleaning, reply>>
vars == <<up, sweep, owner, archived, arrivals, requests, disk, rows, shelved, lost, s3, putting,
          purge, sync, restore, faults, crashes>>

-----------------------------------------------------------------------------
\* .tmp/<id>.partial, and <project>/<issue>/<uuid>-<name>.
Partial(u) == <<u, "partial">>
Final(u) == <<u, "final">>
Files == Uploads \X {"partial", "final"}

Phases == {"idle", "receiving", "moving", "moved", "undoing", "mirroring", "putting",
           "done"}

Nowhere == [issue |-> 0, project |-> Nobody]

Quiet == [read |-> TRUE, todo |-> {}]

PurgeState == [step : {"idle", "disk", "s3", "done"}, todo : SUBSET Uploads,
               at : Uploads \cup {Nobody}, project : Projects \cup {Nobody}, failed : BOOLEAN]

SyncState == [step : {"idle", "list", "next", "await", "done"},
              local : SUBSET Files, todo : SUBSET Files, failed : BOOLEAN]

RestoreState == [step : {"idle", "next", "write", "done"}, found : SUBSET Files,
                 todo : SUBSET Files, at : Files \cup {Nobody}, failed : BOOLEAN]

TypeOK ==
    /\ up \in BOOLEAN
    /\ sweep \in [read : BOOLEAN, todo : SUBSET Uploads]
    /\ owner \in [Issues -> Projects \cup {Nobody}]
    /\ archived \subseteq Issues
    /\ arrivals \in 0..MaxArrivals
    /\ phase \in [Uploads -> Phases]
    /\ target \in [Uploads -> [issue : Issues, project : Projects] \cup {Nowhere}]
    /\ handled \subseteq Uploads /\ cleaning \subseteq handled
    /\ reply \in [Uploads -> {"none", "stored", "refused", "gone"}]
    /\ disk \subseteq Files /\ s3 \subseteq Files
    /\ rows \subseteq [upload : Uploads, issue : Issues]
    /\ shelved \subseteq Uploads /\ lost \subseteq Uploads
    /\ putting \subseteq Files \X {"server", "script"}
    /\ purge \in PurgeState
    /\ sync \in SyncState
    /\ restore \in RestoreState
    /\ faults \in 0..MaxFaults
    /\ crashes \in 0..MaxCrashes

Init ==
    /\ up = TRUE
    /\ sweep = Quiet
    /\ owner = InitialOwner
    /\ archived = {} /\ arrivals = 0
    /\ phase = [u \in Uploads |-> "idle"]
    /\ target = [u \in Uploads |-> Nowhere]
    /\ handled = {} /\ cleaning = {}
    /\ reply = [u \in Uploads |-> "none"]
    /\ disk = {} /\ rows = {} /\ s3 = {} /\ putting = {}
    /\ shelved = {} /\ lost = {}
    /\ purge = [step |-> "idle", todo |-> {}, at |-> Nobody, project |-> Nobody, failed |-> FALSE]
    /\ sync = [step |-> "idle", local |-> {}, todo |-> {}, failed |-> FALSE]
    /\ restore = [step |-> "idle", found |-> {}, todo |-> {}, at |-> Nobody, failed |-> FALSE]
    /\ faults = 0 /\ crashes = 0

-----------------------------------------------------------------------------
Goto(u, p) == phase' = [phase EXCEPT ![u] = p]

\* An operation that fails or times out, and one that does not.
Fault == faults < MaxFaults /\ faults' = faults + 1
Fine == UNCHANGED faults

Tell(u, answer) ==
    reply' = IF reply[u] = "none" THEN [reply EXCEPT ![u] = answer] ELSE reply

\* fail(): the first one wins; it answers when the partial file is unlinked.
Fail(u) ==
    /\ handled' = handled \cup {u}
    /\ cleaning' = IF u \in handled THEN cleaning ELSE cleaning \cup {u}

Volume == UNCHANGED <<shelved, lost>>
Scripts == UNCHANGED <<purge, sync, restore>> /\ Volume
Server == UNCHANGED <<up, sweep, crashes>>

-----------------------------------------------------------------------------
(* The request                                                             *)

\* The checks of the route, of an issue read once, and the first bytes.
Begin(u, i) ==
    /\ up /\ phase[u] = "idle"
    /\ owner[i] # Nobody /\ i \notin archived
    /\ Goto(u, "receiving")
    /\ target' = [target EXCEPT ![u] = [issue |-> i, project |-> owner[i]]]
    /\ disk' = disk \cup {Partial(u)}
    /\ Fine /\ Scripts /\ Server
    /\ UNCHANGED <<owner, archived, arrivals, handled, cleaning, reply, rows, s3, putting>>

\* A second file part (filesLimit) or the client hanging up (aborted), at any
\* time while the request is open.  It stops the receiving; a finalizeUpload
\* under way goes on.
Interrupt(u, why) ==
    /\ up /\ phase[u] \notin {"idle", "done"}
    /\ u \notin handled
    /\ Fail(u)
    /\ IF why = "hangup" THEN Tell(u, "gone") ELSE UNCHANGED reply
    /\ IF phase[u] = "receiving" THEN Goto(u, "done") ELSE UNCHANGED phase
    /\ Fine /\ Scripts /\ Server
    /\ UNCHANGED <<owner, archived, arrivals, target, disk, rows, s3, putting>>

\* writeStream's 'close' with content that is refused: too large, empty, not
\* of its type.
Reject(u) ==
    /\ up /\ phase[u] = "receiving"
    /\ Goto(u, "done")
    /\ Fail(u)
    /\ Fine /\ Scripts /\ Server
    /\ UNCHANGED <<owner, archived, arrivals, target, reply, disk, rows, s3, putting>>

\* writeStream's 'close': finalizeUpload begins, with mkdir.
Received(u) ==
    /\ up /\ phase[u] = "receiving"
    /\ Goto(u, "moving")
    /\ Fine /\ Scripts /\ Server
    /\ UNCHANGED <<owner, archived, arrivals, target, handled, cleaning, reply, disk, rows, s3,
                   putting>>

\* fsp.rename
Move(u) ==
    /\ up /\ phase[u] = "moving"
    /\ Partial(u) \in disk
    /\ disk' = (disk \ {Partial(u)}) \cup {Final(u)}
    /\ Goto(u, "moved")
    /\ Fine /\ Scripts /\ Server
    /\ UNCHANGED <<owner, archived, arrivals, target, handled, cleaning, reply, rows, s3, putting>>

\* removeEmptyProjectDir has been at the directory that mkdir made.
DirectoryGone(u) == purge.step = "done" /\ purge.project = target[u].project

\* The partial file was removed by fail() or by the sweep, the directory by
\* delete-project.js, or mkdir or rename fails.
MoveFails(u) ==
    /\ up /\ phase[u] = "moving"
    /\ IF Partial(u) \in disk /\ ~DirectoryGone(u) THEN Fault ELSE Fine
    /\ Goto(u, "done")
    /\ Fail(u)
    /\ Scripts /\ Server
    /\ UNCHANGED <<owner, archived, arrivals, target, reply, disk, rows, s3, putting>>

\* The INSERT, with the issue id read at the start.
Insert(u) ==
    /\ up /\ phase[u] = "moved"
    /\ owner[target[u].issue] # Nobody
    /\ rows' = rows \cup {[upload |-> u, issue |-> target[u].issue]}
    /\ Goto(u, "mirroring")
    /\ Fine /\ Scripts /\ Server
    /\ UNCHANGED <<owner, archived, arrivals, target, handled, cleaning, reply, disk, s3, putting>>

\* Mutant of InsertFails: the file is not unlinked.
InsertFailsKeepsFile(u) ==
    /\ up /\ phase[u] = "moved"
    /\ IF owner[target[u].issue] # Nobody THEN Fault ELSE Fine
    /\ Goto(u, "done")
    /\ Fail(u)
    /\ Scripts /\ Server
    /\ UNCHANGED <<owner, archived, arrivals, target, reply, disk, rows, s3, putting>>

\* The issue is gone (foreign key), or the database is busy.
InsertFails(u) ==
    /\ up /\ phase[u] = "moved"
    /\ IF owner[target[u].issue] # Nobody THEN Fault ELSE Fine
    /\ Goto(u, "undoing")
    /\ Scripts /\ Server
    /\ UNCHANGED <<owner, archived, arrivals, target, handled, cleaning, reply, disk, rows, s3,
                   putting>>

\* unlink of the final file, whose own failure is ignored.
Undo(u) ==
    /\ up /\ phase[u] = "undoing"
    /\ \/ Fine /\ disk' = disk \ {Final(u)}
       \/ Fault /\ UNCHANGED disk
    /\ Goto(u, "done")
    /\ Fail(u)
    /\ Scripts /\ Server
    /\ UNCHANGED <<owner, archived, arrivals, target, reply, rows, s3, putting>>

\* putAttachment sends the file.
PutStarts(u) ==
    /\ up /\ phase[u] = "mirroring"
    /\ Final(u) \in disk
    /\ putting' = putting \cup {<<Final(u), "server">>}
    /\ Goto(u, "putting")
    /\ Fine /\ Scripts /\ Server
    /\ UNCHANGED <<owner, archived, arrivals, target, handled, cleaning, reply, disk, rows, s3>>

\* Mutant of Answer: a timeout of the PUT fails the upload.
AnswerFailing(u) ==
    /\ up
    /\ \/ phase[u] = "mirroring" /\ Final(u) \notin disk /\ Fine
       \/ phase[u] = "putting" /\ IF <<Final(u), "server">> \in putting THEN Fault ELSE Fine
    /\ Goto(u, "done")
    /\ IF <<Final(u), "server">> \in putting
         THEN Fail(u) /\ UNCHANGED reply
         ELSE handled' = handled \cup {u} /\ Tell(u, "stored") /\ UNCHANGED cleaning
    /\ Scripts /\ Server
    /\ UNCHANGED <<owner, archived, arrivals, target, disk, rows, s3, putting>>

\* The PUT has ended well or badly, the file was gone, or 15 s are over while
\* the PUT is on its way: 201, unless fail() has answered.
Answer(u) ==
    /\ up
    /\ \/ phase[u] = "mirroring" /\ Final(u) \notin disk /\ Fine
       \/ phase[u] = "putting" /\ IF <<Final(u), "server">> \in putting THEN Fault ELSE Fine
    /\ Goto(u, "done")
    /\ handled' = handled \cup {u}
    /\ Tell(u, "stored")
    /\ Scripts /\ Server
    /\ UNCHANGED <<owner, archived, arrivals, target, cleaning, disk, rows, s3, putting>>

\* The unlink of fail() is over.
Cleaned(u) ==
    /\ up /\ u \in cleaning
    /\ cleaning' = cleaning \ {u}
    /\ disk' = disk \ {Partial(u)}
    /\ Tell(u, "refused")
    /\ Fine /\ Scripts /\ Server
    /\ UNCHANGED <<owner, archived, arrivals, phase, target, handled, rows, s3, putting>>

\* The object store accepts an object, or does not.
PutLands(f, who) ==
    /\ <<f, who>> \in putting
    /\ putting' = putting \ {<<f, who>>}
    /\ s3' = s3 \cup {f}
    /\ Fine /\ Scripts /\ Server
    /\ UNCHANGED <<owner, archived, arrivals, requests, disk, rows>>

PutLost(f, who) ==
    /\ <<f, who>> \in putting
    /\ putting' = putting \ {<<f, who>>}
    /\ IF who = "server" /\ ~up THEN Fine ELSE Fault
    /\ sync' = IF who = "script" /\ sync.step = "await"
                 THEN [sync EXCEPT !.failed = TRUE] ELSE sync
    /\ Server
    /\ Volume
    /\ UNCHANGED <<owner, archived, arrivals, requests, disk, rows, s3, purge, restore>>

-----------------------------------------------------------------------------
(* The server                                                              *)

Crash ==
    /\ up /\ crashes < MaxCrashes
    /\ up' = FALSE /\ crashes' = crashes + 1
    /\ sweep' = Quiet
    /\ phase' = [u \in Uploads |-> IF phase[u] = "idle" THEN "idle" ELSE "done"]
    /\ reply' = [u \in Uploads |->
                   IF phase[u] # "idle" /\ reply[u] = "none" THEN "gone" ELSE reply[u]]
    /\ cleaning' = {}
    /\ Fine /\ Scripts
    /\ UNCHANGED <<owner, archived, arrivals, target, handled, disk, rows, s3, putting>>

\* Mutant of Boot: nothing is swept.
BootUnswept ==
    /\ ~up /\ up' = TRUE
    /\ sweep' = Quiet
    /\ Fine /\ Scripts
    /\ UNCHANGED <<owner, archived, arrivals, requests, disk, rows, s3, putting, crashes>>

\* The server listens, then sweeps.
Boot ==
    /\ ~up /\ up' = TRUE
    /\ sweep' = [read |-> FALSE, todo |-> {}]
    /\ Fine /\ Scripts
    /\ UNCHANGED <<owner, archived, arrivals, requests, disk, rows, s3, putting, crashes>>

SweepRead ==
    /\ up /\ ~sweep.read
    /\ sweep' = [read |-> TRUE, todo |-> {u \in Uploads : Partial(u) \in disk}]
    /\ Fine /\ Scripts
    /\ UNCHANGED <<up, owner, archived, arrivals, requests, disk, rows, s3, putting, crashes>>

\* Whose partial file it is, of a dead upload or of a new one, is not asked.
SweepOne(u) ==
    /\ up /\ u \in sweep.todo
    /\ sweep' = [sweep EXCEPT !.todo = @ \ {u}]
    /\ disk' = disk \ {Partial(u)}
    /\ Fine /\ Scripts
    /\ UNCHANGED <<up, owner, archived, arrivals, requests, rows, s3, putting, crashes>>

\* The rowid of a new issue is one more than the largest in the table.
CreateIssue(p) ==
    /\ up /\ arrivals < MaxArrivals
    /\ p # purge.project
    /\ \E i \in Issues :
         /\ owner[i] = Nobody
         /\ \A j \in Issues : owner[j] # Nobody <=> j < i
         /\ owner' = [owner EXCEPT ![i] = p]
    /\ arrivals' = arrivals + 1
    /\ Fine /\ Scripts /\ Server
    /\ UNCHANGED <<archived, requests, disk, rows, s3, putting>>

\* archiveIssue
ArchiveIssue(i) ==
    /\ up /\ owner[i] # Nobody /\ arrivals < MaxArrivals
    /\ archived' = archived \cup {i}
    /\ arrivals' = arrivals + 1
    /\ Fine /\ Scripts /\ Server
    /\ UNCHANGED <<owner, requests, disk, rows, s3, putting>>

\* The machine's volume is replaced while no script runs there: the database
\* comes back from its replica (BootGate), the files do not.
LoseFiles ==
    /\ ~up
    /\ {purge.step, sync.step, restore.step} \subseteq {"idle", "done"}
    /\ restore.step = "idle"
    /\ Fault
    /\ disk' = {}
    /\ lost' = lost \cup {u \in Uploads : Final(u) \in disk}
    /\ Server
    /\ UNCHANGED <<owner, archived, arrivals, requests, rows, shelved, s3, putting, purge, sync,
                   restore>>

-----------------------------------------------------------------------------
(* Requests on attachments                                                 *)

\* What a user is to an attachment; a super admin counts as a developer.
Readers == {"stranger", "member", "uploader", "developer"}

\* getWithProject: a row, joined to its issue.
Found(u) == \E r \in rows : r.upload = u /\ owner[r.issue] # Nobody

\* getAccessibleAttachment: members only, and of an archived attachment the
\* uploader and the developers.
Accessible(u, who) ==
    /\ Found(u)
    /\ who # "stranger"
    /\ u \in shelved => who \in {"uploader", "developer"}

\* openStream finds the file, or the answer is 410.
Streamed(u) == Final(u) \in disk

\* GET /api/attachments/:id
Download(u, who) ==
    IF ~Accessible(u, who) THEN "not_found" ELSE IF Streamed(u) THEN "streamed" ELSE "gone"

\* archiveAttachment: the uploader's and the developers'; the file stays.
MayArchive(u, who) == Found(u) /\ who \in {"uploader", "developer"}

\* POST /api/attachments/:id/archive
ArchiveAttachment(u, who) ==
    /\ up /\ arrivals < MaxArrivals
    /\ MayArchive(u, who)
    /\ shelved' = shelved \cup {u}
    /\ arrivals' = arrivals + 1
    /\ Fine /\ Server
    /\ UNCHANGED <<owner, archived, requests, disk, rows, lost, s3, putting, purge, sync,
                   restore>>

-----------------------------------------------------------------------------
(* delete-project.js                                                       *)

MayRunScript ==
    Cardinality({k \in 1..3 : <<purge.step, sync.step, restore.step>>[k] # "idle"})
        < MaxScripts

Script == UNCHANGED <<up, sweep, arrivals, requests, crashes>>

\* Mutant of PurgeRows: the paths are collected before the transaction, which
\* then fails and is only logged.
PurgeRowsLast(p) ==
    /\ purge.step = "idle" /\ MayRunScript
    /\ \E i \in Issues : owner[i] = p
    /\ purge' = [step |-> "disk", at |-> Nobody, project |-> p, failed |-> FALSE,
                 todo |-> {r.upload : r \in {q \in rows : owner[q.issue] = p}}]
    /\ Fine /\ Script
    /\ UNCHANGED <<owner, archived, rows, disk, s3, putting, sync, restore>> /\ Volume

\* hardDeleteProject: one transaction that also collects the paths.
PurgeRows(p) ==
    /\ purge.step = "idle" /\ MayRunScript
    /\ \E i \in Issues : owner[i] = p
    /\ LET doomed == {r \in rows : owner[r.issue] = p}
       IN  /\ rows' = rows \ doomed
           /\ purge' = [step |-> "disk", at |-> Nobody, project |-> p, failed |-> FALSE,
                        todo |-> {r.upload : r \in doomed}]
    /\ owner' = [i \in Issues |-> IF owner[i] = p THEN Nobody ELSE owner[i]]
    /\ archived' = {i \in archived : owner[i] # p}
    /\ Fine /\ Script
    /\ shelved' = shelved \ purge'.todo
    /\ UNCHANGED <<disk, lost, s3, putting, sync, restore>>

\* deleteBinaries, one path after the other: the file, then the object.
PurgeFile(u) ==
    /\ purge.step = "disk" /\ u \in purge.todo
    /\ \/ Fine /\ disk' = disk \ {Final(u)}
          /\ purge' = [purge EXCEPT !.step = "s3", !.at = u]
       \/ Fault /\ UNCHANGED disk
          /\ purge' = [purge EXCEPT !.step = "s3", !.at = u, !.failed = TRUE]
    /\ Script
    /\ UNCHANGED <<owner, archived, rows, s3, putting, sync, restore>> /\ Volume

PurgeObject(u) ==
    /\ purge.step = "s3" /\ u = purge.at
    /\ \/ Fine /\ s3' = s3 \ {Final(u)}
          /\ purge' = [purge EXCEPT !.step = "disk", !.at = Nobody, !.todo = @ \ {u}]
       \/ Fault /\ UNCHANGED s3
          /\ purge' = [purge EXCEPT !.step = "disk", !.at = Nobody, !.todo = @ \ {u},
                                   !.failed = TRUE]
    /\ Script
    /\ UNCHANGED <<owner, archived, rows, disk, putting, sync, restore>> /\ Volume

\* removeEmptyProjectDir, and the end.
PurgeEnds ==
    /\ purge.step = "disk" /\ purge.todo = {}
    /\ purge' = [purge EXCEPT !.step = "done"]
    /\ Fine /\ Script
    /\ UNCHANGED <<owner, archived, rows, disk, s3, putting, sync, restore>> /\ Volume

-----------------------------------------------------------------------------
(* sync-attachments.js                                                     *)

Outside == Script /\ Volume /\ UNCHANGED <<owner, archived, rows, disk, s3, purge, restore>>

\* listLocalFiles: every file below ATTACHMENTS_DIR.
SyncWalk ==
    /\ sync.step = "idle" /\ MayRunScript
    /\ sync' = [sync EXCEPT !.step = "list", !.local = disk]
    /\ Fine /\ Outside /\ UNCHANGED putting

\* listAttachmentKeys: what is missing is to be sent.
SyncList ==
    /\ sync.step = "list"
    /\ sync' = [sync EXCEPT !.step = "next", !.todo = sync.local \ s3]
    /\ Fine /\ Outside /\ UNCHANGED putting

\* Mutant of SyncPut: a file that is on its way already is skipped.
SyncPutSkipping(f) ==
    /\ sync.step = "next" /\ f \in sync.todo
    /\ IF f \in disk /\ <<f, "server">> \notin putting
         THEN /\ putting' = putting \cup {<<f, "script">>}
              /\ sync' = [sync EXCEPT !.step = "await", !.todo = @ \ {f}]
         ELSE /\ sync' = [sync EXCEPT !.todo = @ \ {f}, !.failed = @ \/ f \notin disk]
              /\ UNCHANGED putting
    /\ Fine /\ Outside

\* putAttachment of the next one; a file that has gone is a failure.
SyncPut(f) ==
    /\ sync.step = "next" /\ f \in sync.todo
    /\ IF f \in disk
         THEN /\ putting' = putting \cup {<<f, "script">>}
              /\ sync' = [sync EXCEPT !.step = "await", !.todo = @ \ {f}]
         ELSE /\ sync' = [sync EXCEPT !.todo = @ \ {f}, !.failed = TRUE]
              /\ UNCHANGED putting
    /\ Fine /\ Outside

\* The PUT has ended, or timed out: a failure.
SyncGoesOn ==
    /\ sync.step = "await"
    /\ IF \E f \in Files : <<f, "script">> \in putting
         THEN /\ Fault
              /\ sync' = [sync EXCEPT !.step = "next", !.failed = TRUE]
         ELSE /\ Fine
              /\ sync' = [sync EXCEPT !.step = "next"]
    /\ Outside /\ UNCHANGED putting

SyncEnds ==
    /\ sync.step = "next" /\ sync.todo = {}
    /\ sync' = [sync EXCEPT !.step = "done"]
    /\ Fine /\ Outside /\ UNCHANGED putting

-----------------------------------------------------------------------------
(* restore-attachments.js                                                  *)

Around == Script /\ UNCHANGED <<owner, archived, rows, shelved, s3, putting, purge, sync>>

\* listAttachmentKeys: everything in the bucket is to be written.
RestoreList ==
    /\ restore.step = "idle" /\ MayRunScript
    /\ restore' = [restore EXCEPT !.step = "next", !.found = s3, !.todo = s3]
    /\ Fine /\ Around /\ UNCHANGED <<disk, lost>>

\* getAttachment of the next one, which fails when the object has gone.
RestoreGet(f) ==
    /\ restore.step = "next" /\ f \in restore.todo
    /\ \/ /\ f \in s3 /\ Fine
          /\ restore' = [restore EXCEPT !.step = "write", !.at = f, !.todo = @ \ {f}]
       \/ /\ IF f \in s3 THEN Fault ELSE Fine
          /\ restore' = [restore EXCEPT !.todo = @ \ {f}, !.failed = TRUE]
    /\ Around /\ UNCHANGED <<disk, lost>>

\* writeFile and rename: whether the row still exists is not asked.
RestoreWrite ==
    /\ restore.step = "write"
    /\ \/ /\ Fine
          /\ disk' = disk \cup {restore.at}
          /\ lost' = {u \in lost : Final(u) # restore.at}
          /\ restore' = [restore EXCEPT !.step = "next", !.at = Nobody]
       \/ /\ Fault
          /\ restore' = [restore EXCEPT !.step = "next", !.at = Nobody, !.failed = TRUE]
          /\ UNCHANGED <<disk, lost>>
    /\ Around

RestoreEnds ==
    /\ restore.step = "next" /\ restore.todo = {}
    /\ restore' = [restore EXCEPT !.step = "done"]
    /\ Fine /\ Around /\ UNCHANGED <<disk, lost>>

-----------------------------------------------------------------------------
Request(u) ==
    \/ Move(u) \/ MoveFails(u) \/ Insert(u) \/ InsertFails(u) \/ Undo(u)
    \/ PutStarts(u) \/ Answer(u) \/ Cleaned(u)

Next ==
    \/ \E u \in Uploads :
         \/ \E i \in Issues : Begin(u, i)
         \/ \E why \in Interrupts : Interrupt(u, why)
         \/ Reject(u) \/ Received(u) \/ Request(u) \/ SweepOne(u)
         \/ PurgeFile(u) \/ PurgeObject(u)
    \/ \E f \in Files, who \in {"server", "script"} : PutLands(f, who) \/ PutLost(f, who)
    \/ Crash \/ Boot \/ SweepRead \/ LoseFiles
    \/ \E u \in Uploads, who \in Readers : ArchiveAttachment(u, who)
    \/ \E p \in Projects : CreateIssue(p) \/ PurgeRows(p)
    \/ \E i \in Issues : ArchiveIssue(i)
    \/ PurgeEnds
    \/ SyncWalk \/ SyncList \/ (\E f \in Files : SyncPut(f)) \/ SyncGoesOn \/ SyncEnds
    \/ RestoreList \/ (\E f \in Files : RestoreGet(f)) \/ RestoreWrite \/ RestoreEnds

Spec == Init /\ [][Next]_vars

\* Callbacks and file operations complete, a stopped server is started again
\* (fly.toml), the store answers or the timeout does.  Nothing obliges a client
\* to send the rest of its file.
FairSpec ==
    /\ Spec
    /\ \A u \in Uploads : WF_vars(Request(u)) /\ WF_vars(Cleaned(u)) /\ WF_vars(SweepOne(u))
    /\ WF_vars(Boot) /\ WF_vars(SweepRead)
    /\ \A u \in Uploads : WF_vars(PutLands(Final(u), "server"))

-----------------------------------------------------------------------------
(* Properties                                                              *)

\* Files of an upload that is being finalized or taken back.
InHand(u) == phase[u] \in {"moved", "undoing"}

\* Whatever crashes, is swept, purged, restored or interrupted, whoever downloads
\* an attachment they may see gets its file, never "410 gone"; only a file that
\* went with its volume and is not restored yet is missing.
RowHasFile ==
    /\ TypeOK
    /\ \A u \in Uploads, who \in Readers : Download(u, who) = "gone" => u \in lost

\* Without crashes and failing unlinks no file outlives its row and its
\* request, except while delete-project.js is at it: nobody would ever find it.
\* (restore-attachments.js brings back what the bucket has, wanted or not.)
NoOrphanFile ==
    crashes = 0 /\ faults = 0 /\ restore.step = "idle" =>
        \A u \in Uploads : Final(u) \in disk =>
            \/ InHand(u)
            \/ \E r \in rows : r.upload = u
            \/ u \in purge.todo

\* What the client was told is so.  A client that was told "201" has its
\* attachment in the table, unless the project has been deleted; one that was
\* told its upload failed finds nothing stored, so that sending it again stores
\* it once: finalizeUpload's "atomicity contract".  (Not so with a second file
\* part, whose refusal does not stop a finalizeUpload under way.)
AnswerIsTrue ==
    \A u \in Uploads :
        /\ reply[u] = "stored" =>
              (\E r \in rows : r.upload = u) \/ purge.project = target[u].project
        /\ reply[u] = "refused" /\ "second_part" \notin Interrupts =>
              ~\E r \in rows : r.upload = u

\* When sync-attachments.js ends without a failure, each attachment whose file
\* it found is in the bucket, and when restore-attachments.js does, each one it
\* found in the bucket has its file, whatever else goes on.  (An upload that was
\* refused meanwhile is no attachment: a file both scripts have handled may go.)
ScriptsReconcile ==
    \A r \in rows : LET u == r.upload IN
        /\ sync.step = "done" /\ ~sync.failed /\ Final(u) \in sync.local => Final(u) \in s3
        /\ restore.step = "done" /\ ~restore.failed /\ Final(u) \in restore.found =>
              Final(u) \in disk

\* What an upload leaves open is closed in the end.  A file received completely
\* is answered for, or the server crashes; a partial file goes, by the rename, by
\* fail() or, after a crash, by the sweep, unless its upload is still receiving.
\* (Partial files that sync-attachments.js mirrored come back with a restore.)
UploadsEnd ==
    \A u \in Uploads :
        /\ phase[u] = "moving" ~> reply[u] # "none"
        /\ Partial(u) \in disk ~> 
             Partial(u) \notin disk \/ phase[u] = "receiving" \/ restore.step # "idle"
=============================================================================
