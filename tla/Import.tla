------------------------------- MODULE Import -------------------------------
(***************************************************************************)
(* The importer (scripts/import-issues.js) beside a running server and     *)
(* scripts/delete-project.js: three processes on one SQLite file.          *)
(*                                                                         *)
(* Each row of the CSV is a transaction of several statements, a dry run   *)
(* one savepoint around them all.  A transaction is deferred: its view is  *)
(* fixed by its first read, its first write takes the write lock and fails *)
(* with SQLITE_BUSY when another process has committed since (WAL).  The   *)
(* importer may be killed between any two statements and run again.        *)
(*                                                                         *)
(* `status` stands for the three metadata references of a row; names are   *)
(* those that are equal under COLLATE NOCASE.  Rows of users, statuses and *)
(* issues are numbered by their place, as rowids are.                      *)
(***************************************************************************)
EXTENDS Naturals, Sequences, FiniteSets

CONSTANTS
    Blank,           \* an empty cell; also "nobody" and "no email"
    People,          \* names of people
    Labels,          \* names of statuses
    Slug,            \* emailSlug: people -> slugs
    Specs,           \* the --map arguments: [name, email, display]
    Csvs,            \* the files: sequences of Line
    InitialDb,       \* the database at the start
    MaxRuns,         \* bound: runs of the importer
    MaxWrites        \* bound: commits of the other processes

\* parseUserMap: of two arguments for one name the last counts; without a display
\* name the user is called as in the file.
UserMap ==
    [p \in {Specs[k].name : k \in DOMAIN Specs} |->
        LET k == CHOOSE j \in DOMAIN Specs :
                     /\ Specs[j].name = p
                     /\ \A i \in DOMAIN Specs : Specs[i].name = p => i <= j
        IN  [email |-> Specs[k].email,
             display |-> IF Specs[k].display = Blank THEN p ELSE Specs[k].display]]

\* <slug>@imported.local, the same with a suffix, and those that are mapped to.
Emails == ({Slug[p] : p \in People} \X Nat)
          \cup {UserMap[p].email : p \in DOMAIN UserMap}

\* A row of the file: `subject` tells whether it has one, `created` whether
\* its date is one.
Line == [subject : BOOLEAN, created : BOOLEAN, status : Labels \cup {Blank},
         opener : People \cup {Blank}, assignee : People \cup {Blank}]

\* parseExportDate
Dated(line) == line.created

Usable(line) == line.subject /\ line.opener # Blank /\ Dated(line)

Authors == {"server", "import", "dry"}

\* Results of a line: to come, inserted, or in `skipped` for a reason.
Results == {"none", "imported", "missing", "busy", "refused"}

VARIABLES
    committed,  \* the database: users, members, statuses, issues, gone
    csv,        \* the file of this run
    mode,       \* "off", "dry", "real", "previewed", "over" or "killed"
    next,       \* the line the importer is at
    step,       \* "between", "begun", "labelled" or "peopled"
    row,        \* what the row has resolved: its status, opener, assignee
    view,       \* the database as the importer's transaction sees it
    stale,      \* another process committed since the view was fixed
    locked,     \* the importer's transaction holds the write lock
    result,     \* line -> Results
    creating,   \* createIssue between its reads and its commit
    predicted,  \* what a dry run made of the database, while nobody has written
                \* since it began, or NoForecast
    meddled,    \* commits of others during this run
    runs,       \* runs begun
    writes      \* commits of others so far

importer == <<csv, mode, next, step, row, view, stale, locked, result, runs>>
importVars == <<committed, importer, creating, predicted, meddled, writes>>

-----------------------------------------------------------------------------
User == [name : People, email : Emails, disabled : BOOLEAN, by : Authors]
Status == [name : Labels, archived : BOOLEAN, by : Authors]
Issue == [number : Nat, status : Nat, opener : Nat, assignee : Nat,
          by : Authors, run : Nat, line : Nat]
Database == [users : Seq(User), members : SUBSET Nat, statuses : Seq(Status),
             issues : Seq(Issue), gone : BOOLEAN]

ASSUME ImportAssumption ==
    /\ Blank \notin People \cup Labels
    /\ DOMAIN Specs = 1..Len(Specs) /\ Len(Specs) \in Nat
    /\ \A k \in DOMAIN Specs :
         Specs[k].name \in People /\ Specs[k].display \in People \cup {Blank}
    /\ Csvs \subseteq Seq(Line) /\ InitialDb \in Database
    /\ MaxRuns \in Nat /\ MaxWrites \in Nat

NoRow == [status |-> 0, opener |-> 0, assignee |-> 0]
NoForecast == <<>>
NoCreation == [status |-> 0, assignee |-> 0, number |-> 0, stale |-> FALSE]

ImportTypeOK ==
    /\ committed \in Database /\ view \in Database
    /\ csv \in Csvs
    /\ mode \in {"off", "dry", "real", "previewed", "over", "killed"}
    /\ next \in 1..(Len(csv) + 1)
    /\ step \in {"between", "begun", "labelled", "peopled"}
    /\ row \in [status : Nat, opener : Nat, assignee : Nat]
    /\ stale \in BOOLEAN /\ locked \in BOOLEAN
    /\ result \in [DOMAIN csv -> Results]
    /\ creating \in [status : Nat, assignee : Nat, number : Nat, stale : BOOLEAN]
    /\ Len(predicted) <= 1 /\ predicted \in Seq(Database)
    /\ meddled \in 0..MaxWrites /\ runs \in 0..MaxRuns /\ writes \in 0..MaxWrites

ImportInit ==
    /\ committed = InitialDb /\ view = InitialDb
    /\ csv \in Csvs
    /\ mode = "off" /\ next = 1 /\ step = "between" /\ row = NoRow
    /\ stale = FALSE /\ locked = FALSE
    /\ result = [l \in DOMAIN csv |-> "none"]
    /\ creating = NoCreation
    /\ predicted = NoForecast
    /\ meddled = 0 /\ runs = 0 /\ writes = 0

-----------------------------------------------------------------------------
(* Statements on a database                                                *)

\* A row of issue_statuses; the default is the first and is never archived
\* (Metadata: the default of a kind is always active).
DefaultStatus == 1

Named(d, label) == {s \in DOMAIN d.statuses : d.statuses[s].name = label}

\* findOrCreateMetadata: an archived status is brought back.
WithStatus(d, label) ==
    IF label = Blank THEN d
    ELSE IF Named(d, label) = {}
      THEN [d EXCEPT !.statuses =
                Append(@, [name |-> label, archived |-> FALSE, by |-> "import"])]
    ELSE [d EXCEPT !.statuses =
              [s \in DOMAIN @ |-> IF s \in Named(d, label)
                                    THEN [@[s] EXCEPT !.archived = FALSE] ELSE @[s]]]

StatusOf(d, label) ==
    IF label = Blank THEN DefaultStatus ELSE CHOOSE s \in Named(d, label) : TRUE

HasEmail(d, e) == {u \in DOMAIN d.users : d.users[u].email = e}

\* findUserByName: an enabled user before a disabled one, then the oldest.
ByName(d, p) ==
    {u \in DOMAIN d.users :
        /\ d.users[u].name = p
        /\ \A v \in DOMAIN d.users :
             d.users[v].name = p =>
                \/ v = u
                \/ d.users[v].disabled /\ ~d.users[u].disabled
                \/ v > u /\ (d.users[v].disabled \/ ~d.users[u].disabled)}

\* Mutant of FreeEmail: the suffix is never tried.
FreeEmailFirst(d, p) == <<Slug[p], 1>>

\* The first of <slug>@, <slug>-2@, <slug>-3@ imported.local nobody has.
FreeEmail(d, p) ==
    LET k == CHOOSE k \in 1..(Len(d.users) + 1) :
                /\ HasEmail(d, <<Slug[p], k>>) = {}
                /\ \A j \in 1..(k - 1) : HasEmail(d, <<Slug[p], j>>) # {}
    IN  <<Slug[p], k>>

\* findOrCreateMappedUser and findOrCreatePlaceholderUser: whom a name means.
Known(d, p) ==
    IF p \in DOMAIN UserMap THEN HasEmail(d, UserMap[p].email) ELSE ByName(d, p)

\* A user made for the name, disabled.
NewUser(d, p) ==
    IF p \in DOMAIN UserMap
      THEN [name |-> UserMap[p].display, email |-> UserMap[p].email,
            disabled |-> TRUE, by |-> "import"]
      ELSE [name |-> p, email |-> FreeEmail(d, p), disabled |-> TRUE, by |-> "import"]

\* ... who is a user of the table and a member of the project afterwards.
WithPerson(d, p) ==
    LET known == IF Known(d, p) # {} THEN d
                 ELSE [d EXCEPT !.users = Append(@, NewUser(d, p))]
    IN  [known EXCEPT !.members = @ \cup Known(known, p)]

PersonOf(d, p) == CHOOSE u \in Known(d, p) : TRUE

\* The opener of a line, then its assignee, who may be the same new person.
WithPeople(d, line) ==
    LET opened == WithPerson(d, line.opener)
    IN  IF line.assignee = Blank THEN opened ELSE WithPerson(opened, line.assignee)

\* The constraint on users.email.
Storable(d) == \A u, v \in DOMAIN d.users : d.users[u].email = d.users[v].email => u = v

\* The server has made what there is at the start, and nothing of it is the importer's.
ASSUME InitialAssumption ==
    /\ Storable(InitialDb) /\ InitialDb.members \subseteq DOMAIN InitialDb.users
    /\ \A u \in DOMAIN InitialDb.users : InitialDb.users[u].by = "server"
    /\ \A s \in DOMAIN InitialDb.statuses : InitialDb.statuses[s].by = "server"
    /\ \A i \in DOMAIN InitialDb.issues :
         LET made == InitialDb.issues[i]
         IN  made.number = i /\ made.by = "server" /\ made.run = 0
    /\ ~InitialDb.gone =>
         /\ DefaultStatus \in DOMAIN InitialDb.statuses
         /\ ~InitialDb.statuses[DefaultStatus].archived

NextNumber(d) == Len(d.issues) + 1

WithIssue(d, number, r, by, run, line) ==
    [d EXCEPT !.issues =
        Append(@, [number |-> number, status |-> r.status, opener |-> r.opener,
                   assignee |-> r.assignee, by |-> by, run |-> run, line |-> line])]

-----------------------------------------------------------------------------
(* The importer                                                            *)

Running == mode \in {"dry", "real"}

\* A transaction of the importer has a view.
Open == mode = "dry" \/ (mode = "real" /\ step # "between")

\* Mutant of ServerIdle: handlers run between the statements of createIssue.
ServerIdleAlways == TRUE

\* The handlers are synchronous: none runs while createIssue does.
ServerIdle == creating = NoCreation

\* A run, against a project that exists.  SAVEPOINT opens the transaction of a
\* dry run and importIssues makes its first read.
StartRun ==
    /\ ~Running /\ runs < MaxRuns
    /\ ~committed.gone
    /\ mode' \in {"dry", "real"}
    /\ next' = 1 /\ step' = "between" /\ row' = NoRow
    /\ view' = committed /\ stale' = FALSE /\ locked' = FALSE
    /\ result' = [l \in DOMAIN csv |-> "none"]
    /\ meddled' = 0
    /\ runs' = runs + 1
    /\ UNCHANGED <<committed, csv, creating, predicted, writes>>

Finish(outcome) ==
    /\ result' = [result EXCEPT ![next] = outcome]
    /\ next' = next + 1
    /\ step' = "between"
    /\ row' = NoRow

\* No subject, no opener, or a created date that cannot be read.
SkipLine ==
    /\ Running /\ step = "between" /\ next <= Len(csv)
    /\ ~Usable(csv[next])
    /\ Finish("missing")
    /\ UNCHANGED <<committed, csv, mode, view, stale, locked, creating, predicted,
                   meddled, runs, writes>>

\* Mutant of BeginRow: a dry run undoes each row, so the next does not see it.
BeginRowAfresh ==
    /\ Running /\ step = "between" /\ next <= Len(csv)
    /\ Usable(csv[next])
    /\ step' = "begun"
    /\ view' = committed
    /\ stale' = IF mode = "dry" THEN stale ELSE FALSE
    /\ UNCHANGED <<committed, csv, mode, next, row, locked, result, creating, predicted,
                   meddled, runs, writes>>

\* BEGIN and the first read; nested in the savepoint of a dry run.
BeginRow ==
    /\ Running /\ step = "between" /\ next <= Len(csv)
    /\ Usable(csv[next])
    /\ step' = "begun"
    /\ IF mode = "dry" THEN UNCHANGED <<view, stale>>
       ELSE view' = committed /\ stale' = FALSE
    /\ UNCHANGED <<committed, csv, mode, next, row, locked, result, creating, predicted,
                   meddled, runs, writes>>

\* The row is undone: ROLLBACK, or ROLLBACK TO the savepoint of the row.  Every
\* failing write of the importer is the first of its transaction or row.
RowFails(reason) ==
    /\ Finish(reason)
    /\ UNCHANGED <<view, locked>>

\* The transaction comes to see d.  A first write takes the lock.
Sees(d) ==
    /\ d = view \/ locked \/ ~stale
    /\ view' = d
    /\ locked' = (locked \/ d # view)

Busy(d) == d # view /\ ~locked /\ stale

\* Mutant of LabelRow: the status is saved on its own, not with the row.
LabelRowApart ==
    /\ Running /\ step = "begun"
    /\ LET d == WithStatus(view, csv[next].status)
       IN  \/ /\ ~view.gone /\ Sees(d)
              /\ committed' = IF mode = "real" /\ d # view THEN d ELSE committed
              /\ row' = [row EXCEPT !.status = StatusOf(d, csv[next].status)]
              /\ step' = "labelled"
              /\ UNCHANGED <<next, result>>
           \/ /\ view.gone /\ RowFails("refused") /\ UNCHANGED committed
           \/ /\ ~view.gone /\ Busy(d) /\ RowFails("busy") /\ UNCHANGED committed
    /\ UNCHANGED <<csv, mode, stale, creating, predicted, meddled, runs, writes>>

\* The status, or the default.  A project deleted meanwhile has no default and
\* cannot get a status.
LabelRow ==
    /\ Running /\ step = "begun"
    /\ LET d == WithStatus(view, csv[next].status)
       IN  \/ /\ ~view.gone /\ Sees(d)
              /\ row' = [row EXCEPT !.status = StatusOf(d, csv[next].status)]
              /\ step' = "labelled"
              /\ UNCHANGED <<next, result>>
           \/ view.gone /\ RowFails("refused")
           \/ ~view.gone /\ Busy(d) /\ RowFails("busy")
    /\ UNCHANGED <<committed, csv, mode, stale, creating, predicted, meddled, runs, writes>>

\* The opener and the assignee.
PeopleRow ==
    /\ Running /\ step = "labelled"
    /\ LET line == csv[next]
           d == WithPeople(view, line)
       IN  \/ /\ Sees(d) /\ Storable(d)
              /\ row' = [row EXCEPT
                    !.opener = PersonOf(d, line.opener),
                    !.assignee = IF line.assignee = Blank THEN 0
                                 ELSE PersonOf(d, line.assignee)]
              /\ step' = "peopled"
              /\ UNCHANGED <<next, result>>
           \/ ~Storable(d) /\ RowFails("refused")
           \/ Busy(d) /\ RowFails("busy")
    /\ UNCHANGED <<committed, csv, mode, stale, creating, predicted, meddled, runs, writes>>

\* The number, the issue, its creation event and COMMIT.
CommitRow ==
    /\ Running /\ step = "peopled"
    /\ LET by == IF mode = "dry" THEN "dry" ELSE "import"
           d == WithIssue(view, NextNumber(view), row, by, runs, next)
       IN  \/ /\ locked \/ ~stale
              /\ view' = d
              /\ locked' = (mode = "dry")
              /\ committed' = IF mode = "real" THEN d ELSE committed
              /\ creating' = IF mode = "dry" \/ ServerIdle THEN creating
                             ELSE [creating EXCEPT !.stale = TRUE]
              /\ Finish("imported")
           \/ Busy(d) /\ RowFails("busy") /\ UNCHANGED <<committed, creating>>
    /\ UNCHANGED <<csv, mode, stale, predicted, meddled, runs, writes>>

\* A dry run rolls back to its savepoint and releases it; the summary is logged.
EndRun ==
    /\ Running /\ step = "between" /\ next > Len(csv)
    /\ mode' = IF mode = "dry" THEN "previewed" ELSE "over"
    /\ predicted' = IF mode = "dry" /\ meddled = 0 THEN <<view>> ELSE NoForecast
    /\ locked' = FALSE /\ view' = committed
    /\ UNCHANGED <<committed, csv, next, step, row, stale, result, creating, meddled, runs,
                   writes>>

\* The process dies between two statements: SQLite drops what it had not committed.
Kill ==
    /\ Running
    /\ mode' = "killed"
    /\ step' = "between" /\ row' = NoRow
    /\ locked' = FALSE /\ view' = committed
    /\ predicted' = NoForecast
    /\ UNCHANGED <<committed, csv, next, stale, result, creating, meddled, runs, writes>>

-----------------------------------------------------------------------------
(* The other processes                                                     *)

\* Another process commits d: not while the importer holds the lock, for which
\* it would wait.
Commits(d) ==
    /\ ~locked /\ writes < MaxWrites
    /\ d # committed
    /\ committed' = d
    /\ stale' = (stale \/ Open)
    /\ meddled' = IF Running THEN meddled + 1 ELSE meddled
    /\ predicted' = NoForecast
    /\ writes' = writes + 1
    /\ view' = IF Open THEN view ELSE d
    /\ UNCHANGED <<csv, mode, next, step, row, locked, result, runs>>

\* The member who reports issues through the server.
Reporter == 1

Handles(d) == ServerIdle /\ ~committed.gone /\ Commits(d) /\ UNCHANGED creating

\* archiveItem; the default is refused.
ServerArchives(s) ==
    /\ s \in DOMAIN committed.statuses \ {DefaultStatus}
    /\ Handles([committed EXCEPT !.statuses[s].archived = TRUE])

\* removeMember
ServerRemoves(u) ==
    u \in committed.members /\ Handles([committed EXCEPT !.members = @ \ {u}])

\* setDisabled
ServerDisables(u) ==
    u \in DOMAIN committed.users /\ Handles([committed EXCEPT !.users[u].disabled = TRUE])

\* inviteUser, without a project.
ServerInvites(p) ==
    /\ HasEmail(committed, <<Slug[p], 1>>) = {}
    /\ Handles([committed EXCEPT !.users =
           Append(@, [name |-> p, email |-> <<Slug[p], 1>>, disabled |-> FALSE,
                      by |-> "server"])])

\* createIssue reads its status and its assignee, before its transaction.
ResolveCreation(s, a) ==
    /\ ServerIdle /\ ~committed.gone
    /\ s \in DOMAIN committed.statuses /\ ~committed.statuses[s].archived
    /\ a # 0 => a \in committed.members /\ ~committed.users[a].disabled
    /\ creating' = [NoCreation EXCEPT !.status = s, !.assignee = a]
    /\ UNCHANGED <<committed, importer, predicted, meddled, writes>>

\* BEGIN and nextNumber.
NumberCreation ==
    /\ creating.status # 0 /\ creating.number = 0
    /\ creating' = [creating EXCEPT !.number = NextNumber(committed), !.stale = FALSE]
    /\ UNCHANGED <<committed, importer, predicted, meddled, writes>>

\* The inserts and COMMIT, when nobody committed since nextNumber.
CommitCreation ==
    /\ creating.number # 0
    /\ ~creating.stale /\ ~committed.gone
    /\ Commits(WithIssue(committed, creating.number,
                         [status |-> creating.status, opener |-> Reporter,
                          assignee |-> creating.assignee], "server", 0, 0))
    /\ creating' = NoCreation

\* Answered 500: the snapshot is old, the project gone, or the lock held for
\* longer than busy_timeout.
FailCreation ==
    /\ creating.number # 0
    /\ creating.stale \/ committed.gone \/ locked
    /\ creating' = NoCreation
    /\ UNCHANGED <<committed, importer, predicted, meddled, writes>>

\* hardDeleteProject; users stay.
DeleteProject ==
    /\ ~committed.gone
    /\ Commits([committed EXCEPT !.gone = TRUE, !.issues = <<>>, !.statuses = <<>>,
                          !.members = {}])
    /\ creating' = IF ServerIdle THEN creating ELSE [creating EXCEPT !.stale = TRUE]

-----------------------------------------------------------------------------
ImportNext ==
    \/ StartRun \/ SkipLine \/ BeginRow \/ LabelRow \/ PeopleRow \/ CommitRow
    \/ EndRun \/ Kill
    \/ \E s \in DOMAIN committed.statuses : ServerArchives(s)
    \/ \E u \in DOMAIN committed.users : ServerRemoves(u) \/ ServerDisables(u)
    \/ \E p \in People : ServerInvites(p)
    \/ \E s \in DOMAIN committed.statuses, a \in {0} \cup committed.members :
         ResolveCreation(s, a)
    \/ NumberCreation \/ CommitCreation \/ FailCreation
    \/ DeleteProject

ImportSpec == ImportInit /\ [][ImportNext]_importVars

-----------------------------------------------------------------------------
(* Properties                                                              *)

Inserted(l) ==
    {i \in DOMAIN committed.issues :
        committed.issues[i].run = runs /\ committed.issues[i].line = l}

\* Whenever the importer stops, and however the rows before it ended, what it
\* added for the sake of an issue is there with that issue or not at all: no
\* placeholder nobody is quoted by, no status no issue has, nothing of a dry run.
NothingLeftBehind ==
    /\ ImportTypeOK
    /\ \A i \in DOMAIN committed.issues : committed.issues[i].by # "dry"
    /\ ~committed.gone =>
         /\ \A u \in DOMAIN committed.users : committed.users[u].by = "import" =>
              \E i \in DOMAIN committed.issues :
                 u \in {committed.issues[i].opener, committed.issues[i].assignee}
         /\ \A s \in DOMAIN committed.statuses : committed.statuses[s].by = "import" =>
              \E i \in DOMAIN committed.issues : committed.issues[i].status = s

\* The summary of a run tells what is in the database: every line it counts is
\* one issue, every line it skips is none, and a skipped line has a reason, which
\* is the line itself, the project gone, or a commit of another process; in a
\* real run each such commit costs one row at most.  Issues are numbered 1, 2, ...
\* without a gap whoever made them.
SummaryIsTrue ==
    /\ mode \in {"real", "over"} /\ ~committed.gone =>
         \A l \in DOMAIN csv :
            Cardinality(Inserted(l)) = IF result[l] = "imported" THEN 1 ELSE 0
    /\ \A l \in DOMAIN csv : result[l] = "missing" => ~Usable(csv[l])
    /\ (\E l \in DOMAIN csv : result[l] = "refused") => committed.gone
    /\ mode = "real" =>
         Cardinality({l \in DOMAIN csv : result[l] = "busy"}) <= meddled
    /\ (\E l \in DOMAIN csv : result[l] = "busy") => meddled > 0
    /\ \A i \in DOMAIN committed.issues : committed.issues[i].number = i

\* An issue, whether a dry or the real run, and the how manieth, has made it.
Foreseen(made) ==
    IF made.by = "server" THEN made ELSE [made EXCEPT !.by = "import", !.run = 0]

Forecast(d) == [d EXCEPT !.issues = [i \in DOMAIN @ |-> Foreseen(@[i])]]

\* "preview without writing": when nobody writes from the start of a dry run to
\* the end of the real run after it, the real run makes of the database just what
\* the dry run did before it rolled back: the same people, statuses and issues.
EndsAsPredicted ==
    mode = "real" /\ mode' = "over" /\ predicted # NoForecast
      => Forecast(committed') = Forecast(predicted[1])

DryRunPredicts == [][EndsAsPredicted]_importVars

\* Every issue that comes into being, through the server or the importer, has a
\* status that is active and an assignee who is a member at the moment it does,
\* although both look them up before, and no commit loses an issue of another
\* process: only deleting the project takes issues away.
CreatesSoundly ==
    /\ \A i \in DOMAIN committed'.issues \ DOMAIN committed.issues :
         LET made == committed'.issues[i]
         IN  /\ ~committed'.statuses[made.status].archived
             /\ made.assignee # 0 =>
                  /\ made.assignee \in committed'.members
                  /\ made.by = "server" => ~committed'.users[made.assignee].disabled
    /\ ~committed'.gone =>
         \A i \in DOMAIN committed.issues :
            i \in DOMAIN committed'.issues /\ committed'.issues[i] = committed.issues[i]

CreatedSoundly == [][CreatesSoundly]_importVars
=============================================================================
