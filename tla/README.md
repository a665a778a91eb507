# basicbugs in TLA+

TLA+ models of basicbugs, an issue tracker (Node server over SQLite, browser client without a
framework, operator scripts), their model checking with TLC and proofs with TLAPS.  All paths are
those of the repository.

- `<Component>.tla` — a component: state, one action per handler or step, properties.
- `<Component>Proofs.tla` — theorems about it, for every value of its constants.  Two of these
  modules are about two components each, PagesProofs (IssueDetail and IssueList) and ScriptsProofs
  (BootGate and Import); so that both can be extended, the definitions of IssueList and Import have
  prefixed names (`ListSpec`, `ListTypeOK`, `ImportSpec`, `ImportTypeOK`).
- `MC<Component>.tla`, `<Component>*.cfg` — the instances TLC checks.
- `PROJECT.json` — components, runs, mutants, the lines each definition stands for, hazards,
  findings and theorems.

Run with `tlc -workers 2 -config X.cfg MCModule` and `tlapm ModuleProofs.tla`.

## 1. The system

### Processes and what they share

| process | state | runs |
|---|---|---|
| server (`server/index.js`) | SQLite file (WAL, foreign keys on, `busy_timeout` 5 s), `ATTACHMENTS_DIR`, one in-memory flag `isDraining`, one in-memory Map of rate-limit buckets | one thread; a handler is atomic between two awaits |
| browser page | the module state of one view; `localStorage` | one thread; `await` at every request |
| scripts (`scripts/*.js`) | the same SQLite file and directory, no lock but SQLite's | by hand, beside a running server |
| SMTP server, S3 store, litestream | outside the repository | whenever they like |

Most services are synchronous (`better-sqlite3`), so that a request is one step.  A handler gives up
the thread only to await **bcrypt** (login, reset, change of password), an **SMTP** send (the
drain), a **file operation** or an **S3 PUT** (uploads).  Tables have `INTEGER PRIMARY KEY` without
`AUTOINCREMENT`: SQLite gives the largest rowid away again once its row is gone, which several
models keep track of.

### Components, operations, what makes them correct

| component | state | operations | hard because | correct when |
|---|---|---|---|---|
| notification drain | `notifications.emailed_at`, `isDraining` | `kickDrain`, `drainNotifications` | awaits per row; kicks dropped while it runs; crash between SMTP and UPDATE; rows purged by another process | one drain at a time, no lost wakeup, at least once, in order, in the end |
| recording of notices | `notifications`, `watchers`, preferences | `recordFor*`, watch, prefs | watchers and assignees leave, are disabled, opt out | told are those, and only those, concerned |
| issues and history | `issues`, `issue_history*` | create, update, comment, archive | roles, metadata and names change between edits; a patch mixes roles | history replays to the issue, in the names of its time; triage by developers |
| project metadata | statuses, categories, priorities | create, PATCH, archive, reset, copy, import | names compare in lower case in code and exactly in the schema | one active default; names unique; reset restores |
| attachments | files, rows, S3 objects | upload, mirror, sweep, download, archive, delete-project, sync, restore | three stores without a common transaction; crashes; hang-ups; lost volumes | a row one may see has its file; no orphan; the answer is true; the scripts do what they report |
| sign-in | `auth_tokens`, `sessions`, `users` | login, links, resets, invitations, change, revoke, disable | state read before bcrypt is awaited | tokens once; the latest link only; old passwords gone |
| rate limiter | Map of buckets | `take`, `prune` | lazy refill, pruning, LRU overflow, a clock set back | is a token bucket per subject |
| issue page | snapshot, pending patch, busy flags | save, comment, watch, archive, upload, refetch | overlapping requests, answers out of order; a toggle without a number | never shows older state of the issue; saves revert nothing; shows its own writes |
| issue list page | filters, page, URL, storage, request counter | filter, sort, page, reload, leave | debounce, overlapping requests, vanishing pages | settled list is the list asked for |
| importer | writes issues, people, metadata | `import-issues.js`, dry or real | snapshots overtaken by other processes; killed between statements | rows all or nothing; summary true; dry run foretells |
| boot gate, migrations, backups | database file, restore sentinel, `_migrations`, replica, snapshots | `docker-entrypoint.sh`, `migrate.js`, `backup.js`, `restore.js` | stops between steps; two migrators; uploads that arrive late | no database without a human; backups stay; boots end |
| admin console, audit, error log | `admin_audit`, `errors` | the changes of accounts, members and projects; single INSERTs | — | the changes are in Auth and IssueTracker, the logs are not modelled |
| notification bell, other views | counters, forms | single requests | late answers (bell) | not modelled |

The interplay: an issue mutation (IssueTracker) inserts notices in its own transaction and then
calls `kickDrain`; NotificationDrain begins with that insert and abstracts from who is told.
`delete-project.js` removes issues, notices and attachments at once and appears in
NotificationDrain (`Purge`), Attachments (`PurgeRows` ... `PurgeEnds`) and Import (`DeleteProject`).
The importer shares Metadata's `findOrCreateMetadata` (`ImportName` there, `WithStatus` in Import),
and BootGate's lost volume is what makes Attachments lose files (`LoseFiles`).  `createIssue` falls back
on the default of Metadata.  IssueDetail and IssueList have a server of their own that keeps what
their requests can tell apart.

## 2. The modules

Inputs come from small sets; every bound has a name (`Max...`) and appears only in guards.  Clocks
are ticks.  `Mutant of X` operators beside a definition X are plausible bugs in it: exchanged for X,
each makes TLC refute the property it is listed with in `PROJECT.json`.

**NotificationDrain** (`services/notifications.js`, `db/notifications.js`).  `notices` is the table
with rowids given as SQLite gives them; `kicks` the queued `setImmediate` callbacks; `drains` the
running invocations with their program counter, batch and position.  One action per stretch between
awaits: `RunKick`, `ListBatch`, `SkipRow`, `StartSend`, `SendResolves` (marks and goes on),
`SendRefused` (one error: returns), `SendFails` and `DrainThrows` (the `finally`), `EndBatch`, `EndDrain`.  The SMTP
server accepts in a step of its own (`Accept`), so that a `Crash` may fall between it and
`emailed_at`.  `Purge` is another process and needs no yield of the server.  `mailed` and `skipped` count, by
the serial number of an event's notice, what happened to it; serial numbers are never used again.

**Outbox** is what NotificationDrain promises to those who are told of an event, with no table, no
rowids, no batches, no flag and no process: notices wait, are sent in their turn, and are struck off
when they were sent or are excused (a disabled account).  `Turn` allows to send or strike only what
no earlier waiting notice precedes, `Send` only what was not sent more often than there was trouble.
By the mapping, the owed rows wait, and a serial number without a row was dropped.  `Strike` states
the one exception that a hard delete beside the drain makes (section 5): a dropped notice that is
struck off may take a later one with it, namely the one that has got its rowid.

**Metadata** (`services/metadata.js`, `db/metadata.js`, the routes, `findOrCreateMetadata`).  One
kind: no operation relates the three.  `items` is the table in the order of ids; `Key` maps a name
to its lower case.  `Before` is the order of `list`, by `sort_order` and then id, in which
copies are appended; `FoundBy` is the item that a Map built in this order finds for a name.

**IssueTracker** (`services/issues.js`, `watches.js`, `projectMembers.js`, half of
`notifications.js`).  One action per request.  `name` stands for the free texts, `status` for the
three metadata references, `assignee` for itself; mentions are an input.  A super admin acts as a
developer without being a member.  `RecordCreation`, `RecordChange` and `RecordComment` are the
`recordFor*` functions, who watches first and who is told of it then.  An issue holds ids, and `Diff`
compares ids; a row of the history holds what they are called at that moment (`Log`, `Display`).
`names` has these names: those of statuses differ, two users may share one, and `RenameStatus` and
`RenameUser` change them.  Observed only are `actor` (who made the last request), `mentioned` (whom
its text mentions) and `trace` (for each event the issue it left, by ids, and the names of the time):
the properties compare rows and notices with them, and no action reads them.

**Attachments** (`routes/attachments.js`, `services/attachments.js`, `services/backup.js`,
`delete-project.js`, `sync-attachments.js`, `restore-attachments.js`).  `phase` is where the handler of each upload stands;
`disk`, `rows`, `s3`, `putting` are the three stores and the PUTs on their way.  `Fail` is the
route's `fail()` with its `handled` flag, `Cleaned` the end of its unlink.  `Answer` lets a PUT be
given up after its timeout while it stays in `putting` and may land later.  `Download` is what a
GET answers to whom.  The scripts are state machines beside the
server that wait for it only at a transaction.

**Auth** (`routes/auth.js`, `services/auth.js`, `sessions.js`, `users.js`, the accounts of
`routes/me.js` and `routes/admin.js`).  A handler that awaits
bcrypt is a record in `calls` of what it read before; `...Begins` and `...Ends` are its two halves.
`late` and `kept` on a session remember that its login was under way when the password changed, and
that it is the session which changed it.

**Import** (`scripts/import-issues.js` against `createIssue` and `delete-project.js`).  One step per
group of statements that begins with a read and ends with a write.  `view` is the snapshot of the importer's
transaction, `stale` that somebody committed since, `locked` that it holds SQLite's write lock: a
first write succeeds only on a snapshot that is not stale (else `SQLITE_BUSY`, at once), and others
commit only while it is not locked.  A dry run is one such transaction around all rows.  `predicted` keeps what it had
made of the database before it rolled back, as long as nobody else writes.  The server's own
`createIssue` is three steps (`ResolveCreation`, `NumberCreation`, `CommitCreation`), between which
only other processes run.

**BootGate** (`docker-entrypoint.sh`, `server/db/migrate.js`, `scripts/backup.js`, `restore.js`).
`pc` is the line of the shell script.  A database is a `line` (a fresh file begins one, a restore
continues one), the migrations whose tables it has (`schema`) and those that `_migrations` records
(`logged`).  `Restore` and `Replicate` stand for litestream as the entrypoint calls it.  `armings`
counts the sentinels a human made, `heals` the databases a boot brought into being, `slips` the
stops between the restore and the removal of the sentinel, `chosen` the lines of the snapshots an operator fetched.

**IssueDetail** (`views/issueDetail.js`) and **IssueList** (`views/issueList.js`, `lib/filters.js`,
`lib/debounce.js`).  Requests are records that the server serves and the page takes up in separate
steps, in any order.  `Current` and `Newest` are the pages' sequence numbers.  `Render` rebuilds the
issue page and loses what the old nodes held.  A snapshot counts in `rev` the states of the issue and in
`wrev` those of the watch, which a toggle, a save and a comment set; `Toggled` is the answer to a
toggle, which takes no sequence number, and `crossing` (observed only) has the handlers that were under
way together with a toggle.  `GhostAnswered` is the answer to a view that was left.
In IssueList `Serialized`, `Parsed`, `Listed` and `Resolved` are the client's filters between URL,
storage and defaults; `Admitted` and `Matching` are the server's reading of the query.  `status`
stands for the three lists of metadata and the search text; `assignee` is apart because its values,
the members, come and go: `offered` is the list of them that the page was entered with, and `gone`,
a history variable, holds those who were no members at some time.

**RateLimit** (`middleware/rateLimit.js`) and **TokenBucket**, what it promises.  Tokens are counted
in units of 1/`RefillMs`: one millisecond adds `Capacity` units, and the code's division is exact.
(The code's floating point is not modelled.)  `real` is the time that passes, `now` what
`Date.now()` says, which may be set back: the Map then implements `SetBack` of TokenBucket, a bucket
that loses what had flowed in since.  The specification says the same of a bucket dropped for want
of room (`forgotten`): it is full again.  A JavaScript Map iterates in the order in which its keys were
set, and `take` deletes a key before it sets it: `older` holds the pairs of a key and a later one, and
`prune` drops the keys that have `MAX_BUCKETS` or more after them.

## 3. What is checked

All runs end with the state space exhausted.

| run | properties | shows |
|---|---|---|
| `drain` | `TypeOK` `OneDrain` `OwedIsCovered` `EmailedMeansHandled` `DuplicatesNeedFaults` `InOrder` `EveryNoticeSettled` `ImplementsOutbox` | `isDraining` is exact on every way out; an owed row has a drain coming unless the last one gave up or hit `maxBatches`; nothing is marked that was not mailed or skipped; every duplicate has its own fault; a later row is never mailed before an owed one; every row is settled unless it stands behind a refused address; and, over crashes and hard deletes, every step is one of Outbox or none |
| `metadata` | `OneActiveDefault` `NamesUnique` `ResetRestores` | no order of requests on two projects leaves a project without an active default or trips over the UNIQUE constraint |
| `tracker` | `HistoryReplays` `TriageNeedsDeveloper` `RightPeopleAreTold` | the history is the issue, in the names of its time; who may change, create and comment; and told of it are those whom it concerns and nobody else, for their highest reason; while memberships, accounts, statuses, names and preferences change |
| `attachments` | `RowHasFile` `NoOrphanFile` `AnswerIsTrue` `ScriptsReconcile` | two uploads, downloads, a hang-up, a crash, a fault or a lost volume, and one script, in every order; what a script found and reports as done is done, of every row there is |
| `attachments_live` | `UploadsEnd` | under fairness every received file is answered for and every partial file goes |
| `auth` | `TokenUsedOnce` `OldPasswordsGone` `LatestLinkOnly` | two handlers that await bcrypt at once, among links, invitations, revocations and disabling |
| `detail` | `BusyEnds` `ShownNeverGoesBack` `NothingReverted` `SettledShowsOwnWrites` | overlapping saves, comments, toggles and uploads with their refetches; the watch button goes back only when a handler ends that was under way together with a toggle |
| `list` | `SettledListIsCurrent` `PageExists` `ReloadRestores` `LoadingEnds` | debounce, overlapping requests, vanishing pages, reloads, filters that name somebody who left; what settles is the list of the view's own filters, but that the default choice of statuses restricts nothing |
| `rate` | `ImplementsBuckets` `NoBurst` `ForgetsLeastRecent` | RateLimit implements TokenBucket by the mapping "a bucket that is not in the Map is full", with a clock set back and more subjects than `MAX_BUCKETS`; so the window bound holds of every subject never forgotten, and forgotten are only the least recently used |
| `import` | `NothingLeftBehind` `SummaryIsTrue` `DryRunPredicts` `CreatedSoundly` | two runs of the importer, dry or real, killed or not, beside creating, archiving, removing, disabling, inviting and deleting |
| `boot` | `GateHolds` `BackupsKept` `EveryBootSettles` | every database answers an arming; the replica is never overwritten by another line unless a human chose its snapshot; a bucket with a snapshot keeps one; every boot ends in the server or at the gate |
| `detail_files` | `CommentFilesAreSent` | refuted: section 5 |

The first state invariant of a run begins with `TypeOK` of its module where `TypeOK` is not listed.

### Bounds, and why they are enough

- `drain`: two notices make one order and fill one batch of two; `MaxBatches` 2 and
  `MaxKicks` 2 allow a second callback while a drain runs; two drains would be needed to overlap;
  two faults allow a failed send and then a crash (or two crashes); `u2`'s address is always
  refused; `p1` may be purged and its rowid taken by an event of `p2`.
- `metadata`: five items are the two seeded ones in one project and three in the other, or four
  after additions; three names include two spellings of one; the bodies include one whose last
  write is refused after the first was done.  The projects are interchangeable (symmetry).
- `tracker`: three events are a creation and two edits, enough for a history with an old value to
  meet; one change of membership, role, account, status, name or preference, or an archiving of the
  project, falls anywhere between.  Three names for two statuses let one be renamed; two display names,
  of which both users have the first at the start, are the case of one name for two.
- `attachments`: two uploads to one issue of `p`; `q` may take an issue id.  The three scripts are
  not run in one behaviour (`MaxScripts` 1); uploads are interchangeable.  In `attachments_live`
  no script runs, and a second file part may come.
- `auth`: two of everything that can race, a clock of two instants with token lifetimes of one and
  sessions that outlive them; one account is disabled or enabled once.
- `detail`: two handlers at a time, one change by another user, one failed request.  `list`: one
  issue per status and a page of one, so that pages appear and vanish; one member, whose the open
  issues are, who may leave or join.
- `rate`: the clock runs for almost two refill times and is set back by one tick; three subjects
  share two buckets.
- `import`: the two files meet a new and an archived status, two new people with one slug, a
  mapped name, a row that builds on an earlier one and a row that cannot be imported; two runs are
  a dry run and the real one, or a run and its repetition; two commits of others are a creation and
  one more, or a change before the first write of each of two rows.
- `boot`: two releases have a migration to apply on an existing database; two lines are what the
  replica holds and what must not replace it; retention of one day in a clock of three; one
  stop, two losses and one failing call of the storage.

### Deadlock

Checked where something is always possible (`drain`, `metadata`, `tracker`).
Elsewhere the system rests when the user does, the uploads or the runs of the importer have ended,
the bounded clock stops or the gate waits for a human; those configurations say `CHECK_DEADLOCK FALSE`.

### Fairness, and why

Weak fairness only.  Of `DrainStep(d)`: the event loop runs queued callbacks and a send resolves or
fails (nodemailer's timeouts).  Of `Boot`: the container restarts.  Of `FeedFetch`: the
application goes on being used — the bell fetches the feed on every page load and route change, and
`routes/me.js:119` relies on it to "flush rows the previous attempt left behind"; there is no timer,
so without any use a failed mail waits.  Of an upload's handler, the
sweep, and the PUT's landing: file operations and S3 calls end (`withTimeout`).  Of the steps of a
boot (`BootStep`): the shell script runs on and `fly.toml` starts a machine that stopped.  Of
an issue page's call and of the list page's answers: `fetch` settles.  Users, crashes, faults,
scripts and other users' changes have no fairness.

## 4. What is proved

For every value of the constants, under the named assumptions of the modules: `DrainAssumption`,
`MetadataAssumption`, `TrackerAssumption`, `AuthAssumption`, `BootAssumption`,
`AttachmentsAssumption`, `RateAssumption` (the limits and the pruning interval are positive, as the
literals in `rateLimit.js` are), `DetailAssumption` with `NoneAssumption` (None, the code's
`null`, is neither a snapshot of an issue nor a handler), `ListAssumption` with `AbsentAssumption`,
and `ImportAssumption` with `InitialAssumption` (what is in the database before the first run was
made by the server: its issues are numbered 1, 2, ..., its addresses are distinct, its members are
users, and its default status is active).

**NotificationDrainProofs.** `TypeCorrect` (`[]TypeOK`) by `Typed`: TypeOK and that a drain which
sends has a row to send.  `OneDrainAlways` and `NoLostWakeup` by `Covered`: Typed, OneDrain, that a
drain which is not running holds nothing, and OwedIsCovered.  OwedIsCovered alone is not inductive:
the step that ends a drain needs to know that it is the only one (else `isDraining` would be cleared
under another), and OneDrain needs what an inactive drain is.  `NoMailLost`
(`[]EmailedMeansHandled`) by `Kept`, which says of each running drain that the row it has at hand is
a row of the table with its own serial number, that a send accepted has been counted, and that
rowids identify notices.  It holds while no project is purged, and `projects = Projects` can only
become false.

`AlwaysInOrder` and `DuplicatesAlwaysNeedFaults` by `OrderInvariance` of Covered, Ordered and
Counted.  Unlike `NoMailLost` they need no exception for hard deletes, which give the rowids a drain
still holds to new rows: what the invariant says, it says of serial numbers, which are never used
again.  A batch row that is still in the table has the rowid it was listed with (`BatchApart`), and
what is owed before it stands before it in the batch (`AheadInBatch`), so that the row at hand is
the first that is owed.  What may be mailed again (an owed row, a row of a batch) was mailed at most
once per fault, but for the one whose answer has just come (`AgainByFault`).

`IsAnOutbox` (`ImplementsOutbox`): the initial states are initial states of Outbox, and every step is
a step of Outbox or a stutter (`PromiseStep`: one lemma per kind of step).  It needs more than
`InOrder`, which is of rows of the table: Outbox says that it is the turn also of a row that was
purged while the drain held it, and that nothing is marked that was not sent.  So `Turns` adds to
`OrderInvariance` that rowids and serial numbers ascend together although rowids are given again
(`SameOrder`), that of everything a batch holds, purged or not, what is owed earlier is before it in
the batch (`InTurn`), and that an answered row was counted (`AnsweredIsSent`, of purged rows too).  A
mark goes by rowid: `MarkStrikes` shows that it strikes off the notice at hand, or, when this was
dropped, one that waits or none at all.

**MetadataProofs.** `Invariance`, `TypeCorrect`, `AlwaysOneActiveDefault`.  The inductive invariant
says of every project that exists that one of its items is its default, active, and the only
default; and that no item belongs to a project that does not exist (`createProject` seeds a default
and must find no other).  Every operation but `setDefault` and `createProject` only `Extends` the
table: old items keep their flag, an active default stays active, new items are no defaults.  A
reset or copy of any length is one extension (`ConcatExtends`), which spares an induction over the
items, and the up to four writes of a PATCH compose (`SameFlagsTransitive`).

`AlwaysNamesUnique` (no two items of a project share a key) is inductive by itself: an operation
either keeps project and name of every item (`SameNames`) or appends items whose names are new to
the project and to each other (`Appended`), and a rename is refused when the name is taken.
`AlwaysResetRestores` (after a reset every default name is usable, and of the old items only their
archiving has changed) rests on it, since a reset looks its items up by name; the last of them in
the order of the list is found by a well-founded order on subsets (`LastListed`), not by induction
over data.

**IssueTrackerProofs.** `HistoryAlwaysReplays` is inductive with one more fact, that events are of
issues that exist (`Attributed`; else a new issue would begin with a history).  A step logs at most
one event, and what was logged is as it was (`Unwritten`): so `ChronicleGrows` asks of a request only
that its event is the last of its issue, that it left the issue as it is now, and that its rows are the
difference to the event before it.  That one left the issue as it was before the request, which is where
the last clause of `HistoryReplays` is needed; and the rows of a save are that difference, in the names
of the moment (`WrittenIs`).  `TriageAlwaysNeedsDeveloper` and `RightPeopleAreAlwaysTold` are proved of
every step from the types that invariant holds: the first since every key of a patch passes `MaySet` and
a save writes only its keys (`PatchedIs`), and from the role each request asks for.  The second in two
halves: of the candidates of a user the highest survives (`HighestReason`), and no notice was of the
event before it was logged, so that the notices of an event are those of its candidates (`Telling`);
and each `recordFor*` offers a user one candidate for each reason the event concerns them
(`ConcernedByCreation`, `ConcernedByUpdate`, `ConcernedByComment`), but that a new assignee, who watches
by then, is offered the lower reason as well (`Matches`).

**AuthProofs.** `AlwaysTokenUsedOnce`, `AlwaysLatestLink` and `AlwaysOldPasswordsGone` by
`Invariance` of TypeOK, `TokensSound` and `PasswordsSound`.  TokensSound: every row of auth_tokens
is the last minted for its user and purpose, what was minted last is a row, a token was accepted at
most once and then its row says so, and an awaiting reset knows the row id of its token unless that
row is gone.  The last clause is what lets a recycled id (section 5) do no harm to a newer token's
own count. PasswordsSound: an awaiting login verified the present password or is marked late,
without which the session it opens would break OldPasswordsGone.

**AttachmentsProofs.** `RowAlwaysHasFile`, `NeverOrphanFile`, `AnswerIsAlwaysTrue` and
`ScriptsAlwaysReconcile`, each by a part of one invariant that also says where the requests and the
scripts stand, since three stores change in an order of their own:

- `Begun`: a stopped server has nothing under way, and the issue of a request is its project's until
  a project is deleted.
- `Filed`: a row has its file because the handlers that could unlink it are past that point (the
  phases `Late`), and what `delete-project.js` has on its list has no row any more.
- `Tidy`: a file has its row, a request or `delete-project.js` that still holds it.
- `Answering`: between the INSERT and the answer only `delete-project.js` removes a row, and an
  upload that refuses is over and has none.
- `Mirrored`, `Restored`: what a script has ticked off is where it belongs, or in the very step that
  puts it there.

The attempt to prove `ScriptsReconcile` showed that it was once stated too strongly, and held in the
run only because the two scripts do not both run there: of an upload that is refused after both have
handled its file the file goes, as it should.  It now speaks of attachments, the rows of the table.

**RateLimitProofs.** `IsABucket` (the refinement, `Spec => ImplementsBuckets`): one lemma per
operator says what it does to the units a subject has.  Pruning an idle bucket changes no level,
since an absent bucket counts as full; `take` adds what has flowed in and takes a token; a tick
fills every level as TokenBucket says, and a clock set back takes out no more than the time it
undoes (`AtMoves`).  `NeverBurst` (`[]NoBurst`) by `Balance`, an account of every unit: what was
taken since the i-th time and what is left was in a full bucket or has flowed in since, of every
subject whose bucket was never forgotten.  `ForgetsOldest` by `InOrder`: `older` is a total order of
the keys, and that of their last uses while the clock was not set back; a key that stays has fewer
keys after it than one that goes, so it is later. (That needs the finite cardinality of the Map,
from `FiniteSetTheorems`.)

**PagesProofs**, of IssueDetail. `SettledAlwaysShowsOwnWrites`, `NeverGoesBack` and `NeverReverted`, of any
number of handlers, fields and values.  The first two are about the answer that comes last of
several, and the page drops answers; so the invariant counts the GETs.  `Ahead`: no two under way
have the same number, and the one that has the page's was answered after what is shown was.  `Own`:
what was acknowledged is shown, or the newest GET brings it, or uploads are under way that a GET
follows.  A handler that goes on takes the next number, so `Own` changes hands with it; a handler
that ends was the newest, or leaves it to the one that is (`GoOnKeeps`, `EndKeeps`).  Of the watch
button `NeverGoesBack` needs a second invariant, `Watched`: a toggle and what is under way beside it
cross (`Apart`), and of what crosses nothing the answers are no older than the watch state on show
(`Fresh`), which only a toggle beside it could have overtaken.
`Alone` (no two handlers share a flag) is what lets the end of one clear its flag.  `NeverReverted`
needs `Patches`: a patch holds what its user typed.

**PagesProofs**, of IssueList. `SettledIsCurrent`, `PageThere` and
`ReloadRestoresChosen`.  What settles is an answer, and the filters and the page may have changed
since it was asked for: so `Wanted` says that the newest request asks for what is wanted now unless
a debounced fetch is due, `Truthful` that an answer says what its query asked for and that only a
filter with somebody who left is refused, and `OnShow` and `InError` follow when the newest request
ends.  `Turn` and `Show` correct the page, and a page that is corrected to is at least 1 since there is
a page when there is an issue (`Pages`).  `ReloadRestoresChosen` rests on `RoundTrip`: a query string
parses to the filters it was made of, and has no filter key only if these are the defaults, which is
when storage has to know them (`Restorable`).  A handler that clears storage chooses the defaults.

**ScriptsProofs**, of BootGate. `GateAlwaysHolds` by an account (`Accounts`): what armings and slips allow,
heals have used up.  A sentinel is worth one restore until it is spent (in "alerting" and "disarm"
it is spent already; a stop there is a slip), and a boot past the gate without a database is worth
one too, and has then neither replica nor sentinel.  That the server never runs on a partly migrated
database needs `Recorded` (every copy, replica and snapshot carries the names of the migrations it
has) and `Migrations` (a boot that applies them has not skipped any).  `BackupsAlwaysKept` needs
`Lines` (the line of the database is the replica's or was chosen) and `Kept` (of the snapshots a
backup removes one by one there is always one outside its list).

**ScriptsProofs**, of Import. `ImportInvariance` of `ImportInv`, which TLC checked before it was
proved, and from it `NothingIsLeftBehind`, `SummaryHolds` and `IssuesComeSoundly`.  None of the three
is inductive, since a row reads from a snapshot in one step what it relies on two steps later:

- `InRow` says what the importer knows between two statements: in a real run whose snapshot nobody
  has overtaken, what it sees and has resolved is what the statements so far make of the database
  (`Applied`).  `Locking`: once it holds the lock nobody can overtake it, and a stale snapshot has a
  commit of another process.  `Creation`: what `createIssue` has resolved is still so, since no other
  handler runs, and its number is still free unless its snapshot is stale too.
- `Sound` and `Justified` are of the database alone: addresses are unique, members are users, issues
  are numbered by their place and not by the dry run; what is the importer's has an issue.
- `Entered`, `Told` and `Paid` relate the results of the lines to the database: an imported line is one
  issue, any other none; every busy line has a commit of another process of its own, and a stale
  snapshot one more that no line has paid for.

A row that commits adds one issue and only what that issue needs (`Brought`, by `RowImports` from the
lemmas on each table: `StatusFound`, `PersonJoins`, `IssueAdded`).  That a placeholder's address is
never refused (`PeopleKeepsInv`) is a pigeonhole: of one suffix more than there are users one is free
(`FreeEmailIsFree`).  What another process commits is one of a kind of change (`OthersKeepInv`), for
which each request is an instance.

`PreviewsComeTrue` (`DryRunPredicts`) needs a second invariant, `Foretold`, since the forecast of a
dry run is compared with a database that is made later, row by row, by other transactions.  A
`Course` is the sequence of forecasts that the lines of the file lead through, each by its `Effect`.  An
undisturbed dry run is on the course that begins at the database (`Previewing`), its forecast is
where this ends (`Foreseeing`), and the real run is on the same course (`Fulfilling`).  For that the
effect of a line on the forecast must be the forecast of its effect on the database
(`RowForeseen`): what a row makes of a status or a person depends on their tables and not on the
issues (`StatusAlike`, `PersonAlike`), and the issues of a forecast differ in who made them only.  A course is a function that
exists, which spares an induction over the lines.

The attempt to prove `CreatedSoundly` showed an error of an earlier model, in which every row that was
imported marked the snapshot of a creation as stale even when there was none, so that no handler of
the server ran after the first imported row of a real run.  The run now reaches those states too.

Not proved, model-checked only:

- liveness (`EveryNoticeSettled`, `UploadsEnd`, `BusyEnds`, `LoadingEnds`, `EveryBootSettles`),
  since it rests on fairness and ENABLED.

No module declares a RECURSIVE operator.

## 5. Disagreements between the code and what the repository says of it

One has a run that refutes the sentence:

- `detail_files` — `postComment` renders before it asks the dropzone for its files, and the render
  has replaced the dropzone (`issueDetail.js:435`), while `AttachmentDropzone.js:49-50` describes
  uploads after the parent action succeeds.

The others are visible in the models and bound what the properties say:

| code | says | model |
|---|---|---|
| `notifications.js:224`: `kickDrain` does nothing while a drain runs, and the drain stops after `maxBatches`: rows of mutations made meanwhile stay owed with no drain coming, until the next kick of any kind | `0003_notifications.sql:5-7` "after each issue mutation, on boot, and on feed-fetch" (`DEVELOPMENT.md:237` plans a 30-second interval; the code has no timer) | the exception in `OwedIsCovered` |
| `notifications.js:213`: the drain returns at the first failed send and begins with the oldest row, so one refused address stops the mail of all | `DEVELOPMENT.md:237` "sends each unsent row" | `BehindRefused` in `EveryNoticeSettled` |
| `db/notifications.js:84`: after a hard delete the awaited rowid may be another notice's | `0003_notifications.sql:7` "still owed" | `projects = Projects` in `EmailedMeansHandled` |
| `issues.js:237`: a note with an empty patch needs no role, so a viewer writes history | `DEVELOPMENT.md:104` "viewer: read only." | the exception in `TriageNeedsDeveloper` |
| `issues.js:276`, `:305`: rows hold names while edits compare ids, so that a rename between two edits leaves an old name that no row has as its new one, and an issue that goes from one user to another of that name gets a row whose names are the same | `0001_initial.sql:109-110` "display strings, not FKs, so renaming" corrupts no old history | `HistoryReplays` is in the names of each row's time |
| `routes/attachments.js:178`: a second file part is refused while the first is stored | `services/attachments.js:160-166` atomicity contract | `second_part` in `AnswerIsTrue` |
| `delete-project.js:124`: an object whose PUT is under way lands after the purge | `:2-3` deletes binaries in S3 | `PutLands` after `PurgeEnds` |
| `services/attachments.js:199`: the issue id read before the upload may belong to another project by the INSERT | `DEVELOPMENT.md:208` path | `target` against `owner` |
| `routes/attachments.js:68`: an issue archived meanwhile takes the file | `test/routes-attachments.test.js:159` | `ArchiveIssue` during `receiving` |
| `sync-attachments.js:50`: partial files are mirrored too, and `restore-attachments.js` brings them back | `restore-attachments.js:4-6` names the files of the app | `SyncWalk`, `RestoreList` |
| `restore-attachments.js:30`: files of attachments that no row knows any more are restored | — | exception in `NoOrphanFile` |
| `routes/auth.js:194`: a reset that awaited while its row id was given away marks the newer token | `test/auth.test.js:368` "cannot be consumed twice" | exception in `TokenUsedOnce` |
| `routes/auth.js:71`: a login under way survives a reset | `test/auth.test.js:282` "revokes sessions" | `late` in `OldPasswordsGone` |
| `routes/auth.js:71`, `:129`: a login under way or a link opens a session for an account disabled meanwhile; its requests are refused until the account is enabled again | `test/routes-admin-users.test.js:286` | `LoginEnds`, `VerifyLink` |
| `sessions.js:37`: `touch` does not move `expires_at` | `OPERATIONS.md:114` "refreshed" | `Visit` |
| `docker-entrypoint.sh:59-74`: a stop between the restore and `rm` leaves the sentinel, and with it one more restore that nobody asked for | `docker-entrypoint.sh:72-73`, `BACKUPS.md:37` "single-use" | `slips` in `GateHolds` |
| `scripts/import-issues.js:469`: a script started where the database is missing creates one and migrates it, past the gate | `docker-entrypoint.sh:9` | outside `ScriptReads`, which begins beside a boot that has passed the gate |
| `import-issues.js:487`: a dry run whose snapshot is overtaken reports this row and every later one that writes as skipped (`SQLITE_BUSY`), a real run one row per commit | header, "preview without writing" | `mode = "real"` in `SummaryIsTrue` |
| `import-issues.js:375`: a run repeated after it was killed inserts the rows again that it had committed | — | `run` in `Inserted` |
| `issueDetail.js:409`: a save empties edits committed while it was under way | `DEVELOPMENT.md:175` "accumulate" | `Written` |
| `issueDetail.js:380`, `:233`: a refetch sets `isWatching` to what its GET saw, and a toggle takes no number of `requestSeq`, so that an answer from before the toggle takes the button back, and nothing corrects it | `e2e/notifications.spec.js:18` the toggle "survives a round-trip" | `crossing`, the exception in `ShownNeverGoesBack` |
| `issueList.js:156`, `filters.js:52`: a filter at its default is left out of the request, and `server/db/issues.js:156` takes no status for no restriction, so that the default list has the closed issues too | `DEVELOPMENT.md:138` "open, non-closed statuses" | the exception in `SettledListIsCurrent` |
| `issueList.js:347`, `:179`: filters from storage and a corrected page do not reach the URL | `DEVELOPMENT.md:144` "share URL" | `Resolved`, `Show` |
| `FilterBar.js:12`: the bar's copy of the filters forgets a sort by header | `DEVELOPMENT.md:134` "single object" | `bar` in `FilterChange` |
| `services/issues.js:475`: a filter by assignee, stored or in a link, that names somebody who left is refused at every load until it is cleared, while the filter bar does not show him selected | `DEVELOPMENT.md:144` | `ShowRefusal`, the exception in `SettledListIsCurrent` |
| `issueList.js:144`: a view that was left writes its filters into the URL of the next | `DEVELOPMENT.md:144` | `ghost` in `ReloadRestores` |

## 6. Not modelled

- What messages say, HTML, layout, validation of lengths and formats, the parsing of the CSV, logging,
  CSRF headers, SMTP and S3 themselves: no property here is about them.
- The floating point of `rateLimit.js`.
- Changes of name or e-mail in Auth (IssueTracker has what users are called) and the session an
  administrator acts with; `storeUpload`, which only tests call, and an unconfigured bucket
  (Attachments); renaming projects.  IssueTracker renames statuses, which stand for categories and
  priorities there too.
- More than one browser tab, history tabs and field editors of the issue page.
- The audit log and the error log (single INSERTs after the fact), the notification feed and its bell
  (single UPDATEs by their owner, and a counter that the next fetch corrects), the forms of the other
  views, `reset-db.js`, seeds and benchmarks.  litestream, the object store and the mail server are
  external: modelled by how the code uses them.

## 7. Plan

All of it is done.

1. NotificationDrain: safety, liveness, proofs of type, one drain, no lost wakeup, no lost mail.
2. Metadata: safety, proof of the one active default.
3. IssueTracker.  4. Attachments.  5. Auth.  6. IssueDetail.  7. IssueList.
8. RateLimit as an implementation of TokenBucket.  9. The window bound of the buckets.
10. Import: numbering beside a running server, the dry run's rollback.
11. BootGate: restore, sentinel, backups and migrations over crashes.
12. Members and archiving of projects in IssueTracker; downloads, archiving and restores in
    Attachments; accounts, invitations and revocations in Auth; a clock set back in RateLimit.
13. Proofs: `NamesUnique` and `ResetRestores`; `TokenUsedOnce`, `LatestLinkOnly` and `OldPasswordsGone`;
    `InOrder` and `DuplicatesNeedFaults`; `HistoryReplays`, `TriageNeedsDeveloper` and
    `RightPeopleAreTold`; `GateHolds` and `BackupsKept`.
14. Proofs: RateLimit implements TokenBucket, and with it `NoBurst` for every value;
    `ForgetsLeastRecent`.
15. Proofs: the four of Attachments; `SettledShowsOwnWrites`, `ShownNeverGoesBack` and
    `NothingReverted` of IssueDetail.
16. Proofs: `SettledListIsCurrent`, `PageExists` and `ReloadRestores` of IssueList.
17. Proofs: `NothingLeftBehind`, `SummaryIsTrue`, `CreatedSoundly` and `DryRunPredicts` of Import.
18. An abstract Outbox that NotificationDrain implements, checked and proved.
19. Names of statuses and users in IssueTracker, and who exactly is told; the watch button of
    IssueDetail; the default filters of IssueList.
