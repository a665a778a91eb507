------------------------- MODULE NotificationDrain -------------------------
(***************************************************************************)
(* The outbox of issue notifications and the drain that mails it           *)
(* (server/services/notifications.js, server/db/notifications.js).         *)
(*                                                                         *)
(* The notifications table is the queue: a row is owed while its           *)
(* emailed_at is NULL.  There is no timer.  Every issue mutation, every    *)
(* feed fetch and every boot calls kickDrain, which queues a setImmediate  *)
(* callback unless a drain is running; the callback runs                   *)
(* drainNotifications, which lists batches of owed rows and awaits one     *)
(* SMTP send per row.                                                      *)
(*                                                                         *)
(* Node runs one callback at a time, so the code between two awaits is     *)
(* atomic for every other handler (the guard Yielded), but neither for a   *)
(* crash nor for scripts/delete-project.js, which is another process on    *)
(* the same database file: a statement is the unit it interleaves with.    *)
(***************************************************************************)
EXTENDS Naturals, Sequences, FiniteSets

CONSTANTS
    Users,        \* accounts that receive notifications
    Projects,     \* projects whose issues produce them
    Purgeable,    \* the projects an operator may hard-delete
    Rejecting,    \* accounts whose address the SMTP server always refuses
    Drains,       \* names for concurrent runs of drainNotifications
    BatchLimit,   \* batchLimit: rows per listUnsent
    MaxBatches,   \* maxBatches: batches per drain
    MaxNotices,   \* bound: notifications ever inserted
    MaxKicks,     \* bound: setImmediate callbacks that wait at once
    MaxFaults     \* bound: crashes, failed sends and database errors

ASSUME DrainAssumption ==
    /\ Purgeable \subseteq Projects
    /\ Rejecting \subseteq Users
    /\ BatchLimit \in Nat \ {0}
    /\ MaxBatches \in Nat \ {0}
    /\ MaxNotices \in Nat
    /\ MaxKicks \in Nat \ {0}
    /\ MaxFaults \in Nat

VARIABLES
    notices,      \* the table: [id, serial, user, project, owed]
    issued,       \* how many notifications were ever inserted
    projects,     \* the projects that exist
    disabled,     \* the accounts with is_disabled set
    up,           \* the server process is running
    kicks,        \* queued setImmediate callbacks
    isDraining,   \* the module-level flag of notifications.js
    drain,        \* the local state of each run of drainNotifications
    mailed,       \* how often the SMTP server accepted each notification
    skipped,      \* notifications marked emailed for a disabled account
    faults,       \* faults so far
    lastExit      \* how the last drain ended

vars == <<notices, issued, projects, disabled, up, kicks, isDraining, drain,
          mailed, skipped, faults, lastExit>>

-----------------------------------------------------------------------------
Serials == 1..MaxNotices

\* A row of the table.  `id` is the rowid SQLite assigns, `serial` tells apart
\* two notifications that had the same rowid one after the other.
Notice == [id : Nat, serial : Serials, user : Users, project : Projects,
           owed : BOOLEAN]

\* A row as listUnsent returned it, with is_disabled as it was at that time.
Listed == [id : Nat, serial : Serials, user : Users, off : BOOLEAN]

Idle == [pc |-> "idle", batch |-> 0, rows |-> <<>>, accepted |-> FALSE]

DrainState == [pc : {"idle", "list", "row", "sending"}, batch : 0..MaxBatches,
               rows : Seq(Listed), accepted : BOOLEAN]

TypeOK ==
    /\ notices \subseteq Notice
    /\ issued \in 0..MaxNotices
    /\ projects \subseteq Projects
    /\ disabled \subseteq Users
    /\ up \in BOOLEAN
    /\ kicks \in 0..MaxKicks
    /\ isDraining \in BOOLEAN
    /\ drain \in [Drains -> DrainState]
    /\ mailed \in [Serials -> Nat]
    /\ skipped \subseteq Serials
    /\ faults \in 0..MaxFaults
    /\ lastExit \in {"drained", "capped", "aborted", "threw"}

\* The server has just booted on an empty table: index.js has kicked a drain.
Init ==
    /\ notices = {}
    /\ issued = 0
    /\ projects = Projects
    /\ disabled = {}
    /\ up = TRUE
    /\ kicks = 1
    /\ isDraining = FALSE
    /\ drain = [d \in Drains |-> Idle]
    /\ mailed = [s \in Serials |-> 0]
    /\ skipped = {}
    /\ faults = 0
    /\ lastExit = "drained"

-----------------------------------------------------------------------------
(* The server's other handlers                                             *)

Active(d) == drain[d].pc # "idle"

\* No run of drainNotifications is between two awaits: the event loop is free.
Yielded == up /\ \A d \in Drains : drain[d].pc \in {"idle", "sending"}

\* kickDrain.  A callback more than MaxKicks would only find nothing to do.
Kick == kicks' = IF isDraining \/ kicks = MaxKicks THEN kicks ELSE kicks + 1

\* The largest rowid in use, 0 in an empty table (a set of one number).  The id
\* column is no AUTOINCREMENT: the next insert takes this rowid plus one.
LastId ==
    {i \in 0..MaxNotices :
        /\ \A n \in notices : n.id <= i
        /\ i = 0 \/ \E n \in notices : n.id = i}

\* The recipients of one issue event: distinct users, in the order their rows
\* are inserted.
Recipients ==
    {r \in UNION {[1..k -> Users] : k \in 0..Cardinality(Users)} :
        \A i, j \in DOMAIN r : r[i] = r[j] => i = j}

\* createIssue, updateIssue, commentIssue: the transaction inserts one row per
\* recipient; after it commits, kickDrain.
Mutate(p, r) ==
    /\ Yielded
    /\ p \in projects
    /\ issued + Len(r) <= MaxNotices
    /\ \E top \in LastId :
         notices' = notices \cup
            {[id |-> top + i, serial |-> issued + i, user |-> r[i],
              project |-> p, owed |-> TRUE] : i \in DOMAIN r}
    /\ issued' = issued + Len(r)
    /\ Kick
    /\ UNCHANGED <<projects, disabled, up, isDraining, drain, mailed, skipped,
                   faults, lastExit>>

\* Mutant of FeedFetch: the feed is fetched without kickDrain.
FeedFetchQuietly ==
    /\ Yielded
    /\ UNCHANGED vars

\* GET /api/me/notifications: "opportunistic recovery".
FeedFetch ==
    /\ Yielded
    /\ Kick
    /\ UNCHANGED <<notices, issued, projects, disabled, up, isDraining, drain,
                   mailed, skipped, faults, lastExit>>

\* A super admin disables or re-enables an account.
SetDisabled(u, off) ==
    /\ Yielded
    /\ disabled' = IF off THEN disabled \cup {u} ELSE disabled \ {u}
    /\ UNCHANGED <<notices, issued, projects, up, kicks, isDraining, drain,
                   mailed, skipped, faults, lastExit>>

-----------------------------------------------------------------------------
(* drainNotifications                                                      *)

\* Mutant of RunKick: the isDraining test is dropped.
RunKickUnlocked(d) ==
    /\ Yielded
    /\ kicks > 0
    /\ ~Active(d)
    /\ kicks' = kicks - 1
    /\ isDraining' = TRUE
    /\ drain' = [drain EXCEPT ![d] = [Idle EXCEPT !.pc = "list"]]
    /\ UNCHANGED <<notices, issued, projects, disabled, up, mailed, skipped,
                   faults, lastExit>>

\* The setImmediate callback: a second drain is skipped by isDraining.
RunKick(d) ==
    /\ Yielded
    /\ kicks > 0
    /\ ~Active(d)
    /\ kicks' = kicks - 1
    /\ IF isDraining
         THEN UNCHANGED <<isDraining, drain>>
         ELSE /\ isDraining' = TRUE
              /\ drain' = [drain EXCEPT ![d] = [Idle EXCEPT !.pc = "list"]]
    /\ UNCHANGED <<notices, issued, projects, disabled, up, mailed, skipped,
                   faults, lastExit>>

\* Leaving the try block, by whatever way: finally clears the flag.
Leave(d, how) ==
    /\ isDraining' = FALSE
    /\ drain' = [drain EXCEPT ![d] = Idle]
    /\ lastExit' = how

Owed == {n \in notices : n.owed}

\* Mutant of Unsent: the query without ORDER BY.
UnsentUnordered ==
    {b \in UNION {[1..k -> Owed] : k \in 0..BatchLimit} :
        /\ \A i, j \in DOMAIN b : b[i] = b[j] => i = j
        /\ Len(b) = BatchLimit \/ \A n \in Owed : \E i \in DOMAIN b : b[i] = n}

\* listUnsent: the BatchLimit owed rows with the smallest ids, in id order.
Unsent ==
    {b \in UNION {[1..k -> Owed] : k \in 0..BatchLimit} :
        /\ \A i, j \in DOMAIN b : i < j => b[i].id < b[j].id
        /\ \A n \in Owed : \/ \E i \in DOMAIN b : b[i] = n
                           \/ Len(b) = BatchLimit
                              /\ \A i \in DOMAIN b : b[i].id < n.id}

\* Mutant of ListBatch: the batch counter is tested with <= instead of <.
ListBatchOnceMore(d) ==
    /\ drain[d].pc = "list"
    /\ drain[d].batch <= MaxBatches
    /\ \E b \in Unsent :
         drain' = [drain EXCEPT ![d] =
            [pc |-> "row", batch |-> drain[d].batch + 1, accepted |-> FALSE,
             rows |-> [i \in DOMAIN b |->
                          [id |-> b[i].id, serial |-> b[i].serial,
                           user |-> b[i].user, off |-> b[i].user \in disabled]]]]
    /\ UNCHANGED <<notices, issued, projects, disabled, up, kicks, isDraining,
                   mailed, skipped, faults, lastExit>>

\* The head of the batch loop, when it lists rows to mail.
ListBatch(d) ==
    /\ drain[d].pc = "list"
    /\ drain[d].batch < MaxBatches
    /\ Owed # {}
    /\ \E b \in Unsent :
         drain' = [drain EXCEPT ![d] =
            [pc |-> "row", batch |-> drain[d].batch + 1, accepted |-> FALSE,
             rows |-> [i \in DOMAIN b |->
                          [id |-> b[i].id, serial |-> b[i].serial,
                           user |-> b[i].user, off |-> b[i].user \in disabled]]]]
    /\ UNCHANGED <<notices, issued, projects, disabled, up, kicks, isDraining,
                   mailed, skipped, faults, lastExit>>

\* The loop ends: nothing is owed any more, or maxBatches batches were mailed.
EndDrain(d) ==
    /\ drain[d].pc = "list"
    /\ drain[d].batch = MaxBatches \/ Owed = {}
    /\ Leave(d, IF drain[d].batch = MaxBatches THEN "capped" ELSE "drained")
    /\ UNCHANGED <<notices, issued, projects, disabled, up, kicks, mailed,
                   skipped, faults>>

\* markEmailed: an UPDATE by rowid, of whatever row has that rowid now.
MarkEmailed(id) ==
    notices' = {IF n.id = id THEN [n EXCEPT !.owed = FALSE] ELSE n : n \in notices}

\* A row whose account was disabled when the batch was listed.
SkipRow(d) ==
    /\ drain[d].pc = "row"
    /\ drain[d].rows # <<>>
    /\ Head(drain[d].rows).off
    /\ MarkEmailed(Head(drain[d].rows).id)
    /\ skipped' = skipped \cup {Head(drain[d].rows).serial}
    /\ drain' = [drain EXCEPT ![d].rows = Tail(@)]
    /\ UNCHANGED <<issued, projects, disabled, up, kicks, isDraining, mailed,
                   faults, lastExit>>

\* Mutant of StartSend: the row is marked before the send is awaited.
StartSendMarkFirst(d) ==
    /\ drain[d].pc = "row"
    /\ drain[d].rows # <<>>
    /\ ~Head(drain[d].rows).off
    /\ MarkEmailed(Head(drain[d].rows).id)
    /\ drain' = [drain EXCEPT ![d].pc = "sending"]
    /\ UNCHANGED <<issued, projects, disabled, up, kicks, isDraining, mailed,
                   skipped, faults, lastExit>>

\* await emailService.send: the run yields until the SMTP server answers.
StartSend(d) ==
    /\ drain[d].pc = "row"
    /\ drain[d].rows # <<>>
    /\ ~Head(drain[d].rows).off
    /\ drain' = [drain EXCEPT ![d].pc = "sending"]
    /\ UNCHANGED <<notices, issued, projects, disabled, up, kicks, isDraining,
                   mailed, skipped, faults, lastExit>>

EndBatch(d) ==
    /\ drain[d].pc = "row"
    /\ drain[d].rows = <<>>
    /\ drain' = [drain EXCEPT ![d].pc = "list"]
    /\ UNCHANGED <<notices, issued, projects, disabled, up, kicks, isDraining,
                   mailed, skipped, faults, lastExit>>

\* The SMTP server takes the message; the process does not know it yet.
Accept(d) ==
    /\ drain[d].pc = "sending"
    /\ ~drain[d].accepted
    /\ Head(drain[d].rows).user \notin Rejecting
    /\ mailed' = [mailed EXCEPT ![Head(drain[d].rows).serial] = @ + 1]
    /\ drain' = [drain EXCEPT ![d].accepted = TRUE]
    /\ UNCHANGED <<notices, issued, projects, disabled, up, kicks, isDraining,
                   skipped, faults, lastExit>>

\* Mutant of SendResolves: the loop does not go on to the next row.
SendResolvesAgain(d) ==
    /\ Yielded
    /\ drain[d].pc = "sending"
    /\ drain[d].accepted
    /\ MarkEmailed(Head(drain[d].rows).id)
    /\ drain' = [drain EXCEPT ![d].pc = "row", ![d].accepted = FALSE]
    /\ UNCHANGED <<issued, projects, disabled, up, kicks, isDraining, mailed,
                   skipped, faults, lastExit>>

\* The send resolves: markEmailed, then the next row.
SendResolves(d) ==
    /\ Yielded
    /\ drain[d].pc = "sending"
    /\ drain[d].accepted
    /\ MarkEmailed(Head(drain[d].rows).id)
    /\ drain' = [drain EXCEPT ![d].pc = "row", ![d].rows = Tail(@),
                              ![d].accepted = FALSE]
    /\ UNCHANGED <<issued, projects, disabled, up, kicks, isDraining, mailed,
                   skipped, faults, lastExit>>

\* Mutant of SendRefused: the refused row is marked, so that it is not retried.
SendRefusedForgets(d) ==
    /\ Yielded
    /\ drain[d].pc = "sending"
    /\ Head(drain[d].rows).user \in Rejecting
    /\ MarkEmailed(Head(drain[d].rows).id)
    /\ Leave(d, "aborted")
    /\ UNCHANGED <<issued, projects, disabled, up, kicks, mailed, skipped, faults>>

\* The SMTP server refuses the recipient: the first failure ends the drain and
\* leaves the row owed.
SendRefused(d) ==
    /\ Yielded
    /\ drain[d].pc = "sending"
    /\ Head(drain[d].rows).user \in Rejecting
    /\ Leave(d, "aborted")
    /\ UNCHANGED <<notices, issued, projects, disabled, up, kicks, mailed,
                   skipped, faults>>

\* The send rejects for another reason, before or after the server took the
\* message, or markEmailed throws after it: the same catch.
SendFails(d) ==
    /\ Yielded
    /\ faults < MaxFaults
    /\ drain[d].pc = "sending"
    /\ faults' = faults + 1
    /\ Leave(d, "aborted")
    /\ UNCHANGED <<notices, issued, projects, disabled, up, kicks, mailed,
                   skipped>>

\* listUnsent, or the markEmailed of a skipped row, throws (SQLITE_BUSY).
DrainThrows(d) ==
    /\ faults < MaxFaults
    /\ \/ drain[d].pc = "list"
       \/ drain[d].pc = "row" /\ drain[d].rows # <<>> /\ Head(drain[d].rows).off
    /\ faults' = faults + 1
    /\ Leave(d, "threw")
    /\ UNCHANGED <<notices, issued, projects, disabled, up, kicks, mailed,
                   skipped>>

-----------------------------------------------------------------------------
(* The process, and the operator beside it                                 *)

\* Everything in memory is lost: the flag, the queued callbacks, the batch.
Crash ==
    /\ up
    /\ faults < MaxFaults
    /\ faults' = faults + 1
    /\ up' = FALSE
    /\ kicks' = 0
    /\ isDraining' = FALSE
    /\ drain' = [d \in Drains |-> Idle]
    /\ UNCHANGED <<notices, issued, projects, disabled, mailed, skipped,
                   lastExit>>

\* Mutant of Boot: the listener does not kick a drain.
BootQuietly ==
    /\ ~up
    /\ up' = TRUE
    /\ UNCHANGED <<notices, issued, projects, disabled, kicks, isDraining,
                   drain, mailed, skipped, faults, lastExit>>

\* index.js: "flush any notifications left unsent by a prior crash".
Boot ==
    /\ ~up
    /\ up' = TRUE
    /\ kicks' = 1
    /\ UNCHANGED <<notices, issued, projects, disabled, isDraining, drain,
                   mailed, skipped, faults, lastExit>>

\* hardDeleteProject in scripts/delete-project.js: the rows go by cascade.
Purge(p) ==
    /\ p \in projects \cap Purgeable
    /\ projects' = projects \ {p}
    /\ notices' = {n \in notices : n.project # p}
    /\ UNCHANGED <<issued, disabled, up, kicks, isDraining, drain, mailed,
                   skipped, faults, lastExit>>

-----------------------------------------------------------------------------
DrainStep(d) ==
    \/ RunKick(d)
    \/ ListBatch(d)
    \/ EndDrain(d)
    \/ SkipRow(d)
    \/ StartSend(d)
    \/ EndBatch(d)
    \/ Accept(d)
    \/ SendResolves(d)
    \/ SendRefused(d)

Next ==
    \/ \E p \in Projects, r \in Recipients : Mutate(p, r)
    \/ FeedFetch
    \/ \E u \in Users, off \in BOOLEAN : SetDisabled(u, off)
    \/ \E d \in Drains : DrainStep(d) \/ SendFails(d) \/ DrainThrows(d)
    \/ Crash
    \/ Boot
    \/ \E p \in Projects : Purge(p)

Spec == Init /\ [][Next]_vars

\* Node runs every queued callback, the SMTP server answers, the platform
\* restarts a dead server, and now and then somebody opens the application
\* (the notification bell fetches the feed on every page).
Fairness ==
    /\ \A d \in Drains : WF_vars(DrainStep(d))
    /\ WF_vars(Boot)
    /\ WF_vars(FeedFetch)

FairSpec == Spec /\ Fairness

-----------------------------------------------------------------------------
(* Properties                                                              *)

\* isDraining is set exactly while one drain is running, on every way out of
\* drainNotifications, so that no two drains overlap (they would mail a row
\* twice) and none is locked out for ever.
OneDrain ==
    /\ isDraining <=> \E d \in Drains : Active(d)
    /\ \A d, e \in Drains : Active(d) /\ Active(e) => d = e

\* No lost wakeup: while the server runs, an owed row has a drain coming or
\* running, unless the last drain gave up after a failure or at maxBatches.
OwedIsCovered ==
    up /\ Owed # {} /\ kicks = 0 /\ ~isDraining
        => lastExit \in {"capped", "aborted", "threw"}

\* emailed_at is set only on a notification the SMTP server has accepted or
\* whose account was disabled: a crash anywhere loses no mail.  While no project
\* has been hard-deleted, that is: a purge beside a drain lets the next event
\* take the rowid that the drain is about to mark.
AllHandled ==
    \A n \in notices : ~n.owed => mailed[n.serial] > 0 \/ n.serial \in skipped
EmailedMeansHandled == projects = Projects => AllHandled

\* At least once, and more than once only after a fault between the SMTP
\* server's answer and emailed_at: every duplicate has its own fault.
DuplicatesNeedFaults == \A s \in Serials : mailed[s] <= 1 + faults

\* Mail leaves in the order of the events: while a row is owed, no later row
\* has been mailed (a failed send stops the drain instead of going on).
InOrder ==
    \A n, m \in notices : n.owed /\ n.id < m.id => mailed[m.serial] = 0

\* What the outbox is for: an owed row is mailed, skipped or deleted in the end,
\* unless it stands behind a row whose address is refused, at which every drain
\* gives up.
OwedFor(s) == \E n \in Owed : n.serial = s
BehindRefused(s) ==
    \E n, m \in Owed :
        m.serial = s /\ n.user \in Rejecting /\ n.id <= m.id
EveryNoticeSettled ==
    \A s \in Serials : OwedFor(s) ~> ~OwedFor(s) \/ BehindRefused(s)

\* The notices of Outbox are the serial numbers: those of the owed rows wait, and
\* those that have no row any more were dropped.
Waiting == {n.serial : n \in Owed}
Dropped == {s \in 1..issued : \A n \in notices : n.serial # s}

Promise == INSTANCE Outbox WITH
    posted <- issued, waiting <- Waiting, sent <- mailed, excused <- skipped,
    dropped <- Dropped, troubles <- faults

\* The outbox keeps its promise over crashes, failures and hard-deletes: what the
\* drain sends is the oldest notice that is owed, or one whose project was deleted;
\* it sends it again only after a trouble of its own, and marks as emailed only
\* what it has sent or what goes to a disabled account.
ImplementsOutbox == Promise!OutboxSpec
=============================================================================
