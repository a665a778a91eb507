---------------------------- MODULE IssueTracker ----------------------------
(***************************************************************************)
(* The issues of one project: who may change what, what the history        *)
(* records, who watches and who is notified (server/services/issues.js,    *)
(* watches.js, projectMembers.js and the recordFor* half of                *)
(* notifications.js).                                                      *)
(*                                                                         *)
(* Every handler is synchronous and writes in one transaction: one request *)
(* is one step.  Of the fields of an issue, `name` stands for the two free *)
(* texts (name, description: role user), `status` for the three metadata   *)
(* references (status, category, priority: role developer) and `assignee`  *)
(* for itself.  Mentioned members are an input: which text mentions whom   *)
(* is services/mentions.js.                                                *)
(*                                                                         *)
(* An issue holds the ids of its status and its assignee; the rows of      *)
(* issue_history_changes hold what these were called when the row was      *)
(* written.  Names change: `names` has those of the moment, of which the   *)
(* statuses of a project have each its own, and two users may share one.   *)
(***************************************************************************)
EXTENDS Naturals, Sequences, FiniteSets

CONSTANTS
    Users,
    SuperAdmins,     \* act with role developer in every project
    Names,           \* issue names
    Statuses,
    DefaultStatus,   \* never archived: theorem AlwaysOneActiveDefault
    Nobody,          \* no assignee
    Keep,            \* a key a patch does not have
    InitialRole,     \* project_members at the start
    StatusNames,     \* what statuses are called
    DisplayNames,    \* what users are called: their name or their email
    InitialNames,    \* what both are called at the start
    Drafts,          \* the contents clients create issues with
    Patches,         \* the patches clients send
    Mentionings,     \* the sets of users texts mention
    Optional,        \* the preferences users switch on and off
    MaxIssues,       \* bound: issues
    MaxEvents,       \* bound: history events
    MaxChanges       \* bound: administrative, name and preference changes

Roles == {"none", "viewer", "user", "developer"}

\* KIND_PRIORITY of notifications.js, the highest reason first.
KindPriority ==
    <<"assigned_to_me", "mentioned", "watched_status_change", "watched_any_change">>

Kinds == {KindPriority[k] : k \in DOMAIN KindPriority}

Content == [name : Names, status : Statuses, assignee : Users \cup {Nobody}]

Patch == [name : Names \cup {Keep}, status : Statuses \cup {Keep},
          assignee : Users \cup {Nobody, Keep}]

Naming == [status : [Statuses -> StatusNames], user : [Users -> DisplayNames]]

ASSUME TrackerAssumption ==
    /\ SuperAdmins \subseteq Users
    /\ DefaultStatus \in Statuses
    /\ Nobody \notin Users
    /\ Keep \notin Users \cup {Nobody} \cup Statuses \cup Names
    /\ InitialRole \in [Users -> Roles]
    /\ Nobody \notin DisplayNames
    /\ InitialNames \in Naming
    /\ \A s, t \in Statuses : s # t => InitialNames.status[s] # InitialNames.status[t]
    /\ Drafts \subseteq Content
    /\ Patches \subseteq Patch
    /\ Mentionings \subseteq SUBSET Users
    /\ Optional \subseteq Users \X Kinds
    /\ MaxIssues \in Nat /\ MaxEvents \in Nat /\ MaxChanges \in Nat

VARIABLES
    role,         \* project_members: "none" is no row
    shelved,      \* whether the project has archived_at set
    disabled,     \* users with is_disabled set
    retired,      \* statuses with archived_at set
    names,        \* statuses.name, and users.name or users.email
    issues,       \* the issues; numbers are 1, 2, ... as rowids are
    history,      \* issue_history with its changes, in the order of ids
    watchers,     \* issue_watchers
    optedOut,     \* notification_prefs rows with enabled = 0
    notices,      \* notifications
    changes,      \* administrative, name and preference changes so far
    actor,        \* observed: who made the last request
    mentioned,    \* observed: whom the text of the last event mentions
    trace         \* observed: for each event, the issue it left and the names of the time

vars == <<role, shelved, disabled, retired, names, issues, history, watchers, optedOut,
          notices, changes, actor, mentioned, trace>>

-----------------------------------------------------------------------------
Fields == {"name", "status", "assignee"}

Issue == [now : Content, archived : BOOLEAN]

\* A row of issue_history_changes; null stands for nobody.
Change == [field : Fields, old : Names \cup StatusNames \cup DisplayNames \cup {Nobody},
           new : Names \cup StatusNames \cup DisplayNames \cup {Nobody}]

Event == [issue : Nat, author : Users, kind : {"creation", "change", "comment"},
          note : BOOLEAN, changes : SUBSET Change]

TypeOK ==
    /\ role \in [Users -> Roles]
    /\ shelved \in BOOLEAN
    /\ disabled \subseteq Users
    /\ retired \subseteq Statuses \ {DefaultStatus}
    /\ names \in Naming
    /\ issues \in Seq(Issue)
    /\ history \in Seq(Event)
    /\ watchers \subseteq (DOMAIN issues) \X Users
    /\ optedOut \subseteq Users \X Kinds
    /\ notices \subseteq [event : DOMAIN history, user : Users, kind : Kinds]
    /\ changes \in 0..MaxChanges
    /\ actor \in Users \cup {Nobody}
    /\ mentioned \subseteq Users
    /\ trace \in Seq([content : Content, names : Naming])

Init ==
    /\ role = InitialRole
    /\ shelved = FALSE
    /\ disabled = {}
    /\ retired = {}
    /\ names = InitialNames
    /\ issues = <<>>
    /\ history = <<>>
    /\ watchers = {}
    /\ optedOut = {}
    /\ notices = {}
    /\ changes = 0
    /\ actor = Nobody
    /\ mentioned = {}
    /\ trace = <<>>

-----------------------------------------------------------------------------
(* Permissions                                                             *)

Rank(r) == CASE r = "none" -> 0 [] r = "viewer" -> 1 [] r = "user" -> 2
             [] r = "developer" -> 3

\* requireProjectRole: the role a request acts with.
ActingRole(u) == IF u \in SuperAdmins THEN "developer" ELSE role[u]

May(u, minimum) == Rank(ActingRole(u)) >= Rank(minimum)

\* A request that passed requireUser and requireProjectViewer.
Request(u) ==
    /\ u \notin disabled
    /\ May(u, "viewer")
    /\ actor' = u

\* Mutant of MaySet: every key needs role user only.
MaySetLoosely(u, patch) ==
    \A f \in Fields : patch[f] # Keep => May(u, "user")

\* FIELD_ROLE, for every key the patch has, changed or not.
MaySet(u, patch) ==
    /\ patch.name # Keep \/ patch.assignee # Keep => May(u, "user")
    /\ patch.status # Keep => May(u, "developer")

\* resolveAssignee: an enabled member.
Assignable(u) == u # Nobody => u \notin disabled /\ role[u] # "none"

-----------------------------------------------------------------------------
(* Notifications                                                           *)

\* combineCandidates: of the pairs <<user, kind>>, the best kind of each user.
Top(candidates) ==
    {c \in candidates : \A d \in candidates :
        c[1] = d[1] => \E k, l \in DOMAIN KindPriority :
            k <= l /\ c[2] = KindPriority[k] /\ d[2] = KindPriority[l]}

\* persistNotifications: not for the author, not for those who left the
\* project, and not for those who switched off the kind that was chosen.
Persist(e, author, candidates) ==
    notices' = notices \cup
        {[event |-> e, user |-> c[1], kind |-> c[2]] :
            c \in {d \in Top(candidates) : d[1] # author /\ role[d[1]] # "none"}
                  \ optedOut}

\* watcherIds, of the watchers w.
Hearing(i, w, author) ==
    {u \in Users \ (disabled \cup {author}) : <<i, u>> \in w /\ role[u] # "none"}

Watched(us, kind) == us \X {kind}

Assigned(a, author, kind) == IF a \in {Nobody, author} THEN {} ELSE {<<a, kind>>}

\* resolveMentions finds members only.
Mentioned == {m \cap {u \in Users : role[u] # "none"} : m \in Mentionings}

\* recordForCreation of the event being logged: author and assignee watch.
RecordCreation(i, u, content, mentions) ==
    /\ mentioned' = mentions
    /\ watchers' = watchers \cup {<<i, w>> : w \in {u, content.assignee} \ {Nobody}}
    /\ Persist(Len(history) + 1, u,
               Assigned(content.assignee, u, "assigned_to_me")
               \cup Watched(mentions, "mentioned"))

\* recordForChange: the author and a new assignee watch before those who watch
\* are told.
RecordChange(i, u, diff, mentions) ==
    LET assigned == {c.new : c \in {d \in diff : d.field = "assignee"}}
        kind == IF \E c \in diff : c.field = "status"
                  THEN "watched_status_change" ELSE "watched_any_change"
    IN  /\ mentioned' = mentions
        /\ watchers' = watchers \cup {<<i, w>> : w \in ({u} \cup assigned) \ {Nobody}}
        /\ Persist(Len(history) + 1, u,
                   (UNION {Assigned(a, u, "assigned_to_me") : a \in assigned})
                   \cup Watched(Hearing(i, watchers', u), kind)
                   \cup Watched(mentions, "mentioned"))

\* Mutant of RecordComment: only the watchers and the mentioned are told.
RecordCommentWatchersOnly(i, u, mentions) ==
    /\ mentioned' = mentions
    /\ watchers' = watchers \cup {<<i, u>>}
    /\ Persist(Len(history) + 1, u,
               Watched(Hearing(i, watchers', u), "watched_any_change")
               \cup Watched(mentions, "mentioned"))

\* recordForComment: the assignee is told even when not watching.
RecordComment(i, u, mentions) ==
    /\ mentioned' = mentions
    /\ watchers' = watchers \cup {<<i, u>>}
    /\ Persist(Len(history) + 1, u,
               Assigned(issues[i].now.assignee, u, "watched_any_change")
               \cup Watched(Hearing(i, watchers', u), "watched_any_change")
               \cup Watched(mentions, "mentioned"))

-----------------------------------------------------------------------------
(* Requests on issues                                                      *)

\* What a change row says of the value v of field f: the name of a status, the
\* userDisplay of an assignee, a text as it is.
Display(naming, f, v) ==
    CASE f = "status" -> naming.status[v]
      [] f = "assignee" /\ v # Nobody -> naming.user[v]
      [] OTHER -> v

\* Mutant of Log: the names are looked up once, when the server starts.
LogCached(i, u, kind, note, diff) ==
    /\ history' = Append(history,
         [issue |-> i, author |-> u, kind |-> kind, note |-> note,
          changes |-> {[field |-> c.field, old |-> Display(InitialNames, c.field, c.old),
                        new |-> Display(InitialNames, c.field, c.new)] : c \in diff}])
    /\ trace' = Append(trace, [content |-> issues'[i].now, names |-> names])

\* One row of issue_history, and one of issue_history_changes per change.
Log(i, u, kind, note, diff) ==
    /\ history' = Append(history,
         [issue |-> i, author |-> u, kind |-> kind, note |-> note,
          changes |-> {[field |-> c.field, old |-> Display(names, c.field, c.old),
                        new |-> Display(names, c.field, c.new)] : c \in diff}])
    /\ trace' = Append(trace, [content |-> issues'[i].now, names |-> names])

\* createIssue, with the default status or an active one.
CreateIssue(u, content, mentions) ==
    /\ Request(u)
    /\ Len(issues) < MaxIssues /\ Len(history) < MaxEvents
    /\ May(u, "user")
    /\ content.status \notin retired
    /\ Assignable(content.assignee)
    /\ issues' = Append(issues, [now |-> content, archived |-> FALSE])
    /\ Log(Len(issues) + 1, u, "creation", FALSE, {})
    /\ RecordCreation(Len(issues) + 1, u, content, mentions)
    /\ UNCHANGED <<role, shelved, disabled, retired, names, optedOut, changes>>

\* The fields whose new value differs from the current one, compared as they
\* are stored: texts as texts, statuses and assignees by id.
Diff(i, patch) ==
    {[field |-> f, old |-> issues[i].now[f], new |-> patch[f]] :
        f \in {g \in Fields : patch[g] \notin {Keep, issues[i].now[g]}}}

\* Changed values are validated, kept ones are not: a retired status and an
\* assignee who left stay where they are.
Valid(diff) ==
    \A c \in diff :
        /\ c.field = "status" => c.new \notin retired
        /\ c.field = "assignee" => Assignable(c.new)

Touches(diff, f) == \E c \in diff : c.field = f

ChangeOf(diff, f) == CHOOSE c \in diff : c.field = f

Patched(content, diff) ==
    [f \in Fields |-> IF Touches(diff, f) THEN ChangeOf(diff, f).new ELSE content[f]]

\* updateIssue: nothing to save is a no-op, otherwise the row, one event with
\* one change per field, the watchers and the notices.
UpdateIssue(u, i, patch, note, mentions) ==
    /\ Request(u)
    /\ i \in DOMAIN issues /\ Len(history) < MaxEvents
    /\ MaySet(u, patch)
    /\ LET diff == Diff(i, patch)
       IN  /\ Valid(diff)
           /\ diff # {} \/ note
           /\ issues' = [issues EXCEPT ![i].now = Patched(@, diff)]
           /\ Log(i, u, "change", note, diff)
           /\ RecordChange(i, u, diff, IF note THEN mentions ELSE {})
    /\ UNCHANGED <<role, shelved, disabled, retired, names, optedOut, changes>>

\* commentIssue: the issue itself stays as it is.
CommentIssue(u, i, mentions) ==
    /\ Request(u)
    /\ i \in DOMAIN issues /\ Len(history) < MaxEvents
    /\ May(u, "user")
    /\ UNCHANGED <<role, shelved, disabled, retired, names, issues, optedOut, changes>>
    /\ Log(i, u, "comment", TRUE, {})
    /\ RecordComment(i, u, mentions)

\* archiveIssue and unarchiveIssue: no history, no notice.
SetArchived(u, i, archived) ==
    /\ Request(u)
    /\ i \in DOMAIN issues
    /\ May(u, "developer")
    /\ issues' = [issues EXCEPT ![i].archived = archived]
    /\ UNCHANGED <<role, shelved, disabled, retired, names, history, watchers, optedOut,
                   notices, changes, mentioned, trace>>

\* watch and unwatch: for members, so not for a super admin who is none.
Watch(u, i, on) ==
    /\ Request(u)
    /\ i \in DOMAIN issues
    /\ role[u] # "none"
    /\ watchers' = IF on THEN watchers \cup {<<i, u>>} ELSE watchers \ {<<i, u>>}
    /\ UNCHANGED <<role, shelved, disabled, retired, names, issues, history, optedOut,
                   notices, changes, mentioned, trace>>

-----------------------------------------------------------------------------
(* Requests around them                                                    *)

Around == UNCHANGED <<issues, history, watchers, notices, actor, mentioned, trace>>

Counted == changes < MaxChanges /\ changes' = changes + 1

\* addMember: a new row, and none in an archived project.
CanJoin(u) == ~shelved /\ role[u] = "none"

AddMember(u, r) ==
    /\ Counted
    /\ CanJoin(u) /\ r # "none"
    /\ role' = [role EXCEPT ![u] = r]
    /\ UNCHANGED <<shelved, disabled, retired, names, optedOut>> /\ Around

\* changeRole and removeMember find a row; watches and assignments stay.
Joined(u) == role[u] # "none"

ChangeRole(u, r) ==
    /\ Counted
    /\ Joined(u) /\ r # "none"
    /\ role' = [role EXCEPT ![u] = r]
    /\ UNCHANGED <<shelved, disabled, retired, names, optedOut>> /\ Around

RemoveMember(u) ==
    /\ Counted
    /\ Joined(u)
    /\ role' = [role EXCEPT ![u] = "none"]
    /\ UNCHANGED <<shelved, disabled, retired, names, optedOut>> /\ Around

\* archiveProject and unarchiveProject: the issues of an archived project go on
\* being written, only members no longer join.
ArchiveProject ==
    /\ Counted
    /\ ~shelved /\ shelved' = TRUE
    /\ UNCHANGED <<role, disabled, retired, names, optedOut>> /\ Around

UnarchiveProject ==
    /\ shelved /\ shelved' = FALSE
    /\ UNCHANGED <<role, disabled, retired, names, optedOut, changes>> /\ Around

\* setDisabled of services/users.js; the super admin cannot be disabled.
SetDisabled(u, off) ==
    /\ Counted
    /\ u \notin SuperAdmins
    /\ disabled' = IF off THEN disabled \cup {u} ELSE disabled \ {u}
    /\ UNCHANGED <<role, shelved, retired, names, optedOut>> /\ Around

\* archiveItem, and a reset that brings the status back.
SetRetired(s, off) ==
    /\ Counted
    /\ s # DefaultStatus
    /\ retired' = IF off THEN retired \cup {s} ELSE retired \ {s}
    /\ UNCHANGED <<role, shelved, disabled, names, optedOut>> /\ Around

\* renameItem of services/metadata.js: UNIQUE (project_id, name) refuses a name
\* another status has.
RenameStatus(s, name) ==
    /\ Counted
    /\ \A t \in Statuses \ {s} : names.status[t] # name
    /\ names' = [names EXCEPT !.status[s] = name]
    /\ UNCHANGED <<role, shelved, disabled, retired, optedOut>> /\ Around

\* updateProfile of services/users.js, by an administrator or the user: the
\* name of another user will do.
RenameUser(u, name) ==
    /\ Counted
    /\ names' = [names EXCEPT !.user[u] = name]
    /\ UNCHANGED <<role, shelved, disabled, retired, optedOut>> /\ Around

\* PATCH /api/me/notification-prefs.
SetPref(p, on) ==
    /\ Counted
    /\ optedOut' = IF on THEN optedOut \ {p} ELSE optedOut \cup {p}
    /\ UNCHANGED <<role, shelved, disabled, retired, names>> /\ Around

-----------------------------------------------------------------------------
Next ==
    \/ \E u \in Users :
         \/ \E c \in Drafts, m \in Mentioned : CreateIssue(u, c, m)
         \/ \E i \in 1..MaxIssues :
              \/ \E p \in Patches, note \in BOOLEAN, m \in Mentioned :
                   UpdateIssue(u, i, p, note, m)
              \/ \E m \in Mentioned : CommentIssue(u, i, m)
              \/ \E b \in BOOLEAN : SetArchived(u, i, b) \/ Watch(u, i, b)
    \/ \E u \in Users :
         \/ \E r \in Roles : AddMember(u, r) \/ ChangeRole(u, r)
         \/ RemoveMember(u)
    \/ ArchiveProject \/ UnarchiveProject
    \/ \E u \in Users, off \in BOOLEAN : SetDisabled(u, off)
    \/ \E s \in Statuses, off \in BOOLEAN : SetRetired(s, off)
    \/ \E s \in Statuses, name \in StatusNames : RenameStatus(s, name)
    \/ \E u \in Users, name \in DisplayNames : RenameUser(u, name)
    \/ \E p \in Optional, on \in BOOLEAN : SetPref(p, on)

Spec == Init /\ [][Next]_vars

-----------------------------------------------------------------------------
(* Properties                                                              *)

\* Event e is the next one of its issue after event d.
Follows(d, e) ==
    /\ d < e /\ history[d].issue = history[e].issue
    /\ \A c \in DOMAIN history : history[c].issue = history[e].issue => c <= d \/ e <= c

\* One row for each field in which the contents differ, and no other: what the
\* value was called and what the new one is called.
Rows(naming, before, after) ==
    {[field |-> f, old |-> Display(naming, f, before[f]), new |-> Display(naming, f, after[f])] :
        f \in {g \in Fields : before[g] # after[g]}}

\* The rows of an event are the difference to the event before it, in the names
\* of its own time.
Tells(e) ==
    /\ \A d \in DOMAIN history :
         Follows(d, e) =>
           history[e].changes = Rows(trace[e].names, trace[d].content, trace[e].content)
    /\ (\A d \in DOMAIN history : ~Follows(d, e)) =>
         history[e].kind = "creation" /\ history[e].changes = {}

\* The history is the issue: nothing happens to an issue between two of its
\* events, each event says all that it did and nothing else, and the last one left
\* the issue as it is.  What a row calls a status or a user is what it was called
\* when the row was written, whatever it is called since; so the old name of a
\* row is the new name of the row before it unless that name changed in between,
\* and both names of a row are the same when an issue goes from one user to another
\* of that name.
HistoryReplays ==
    /\ TypeOK
    /\ DOMAIN trace = DOMAIN history
    /\ \A e \in DOMAIN history : Tells(e)
    /\ \A i \in DOMAIN issues : \E e \in DOMAIN history :
         /\ history[e].issue = i /\ trace[e].content = issues[i].now
         /\ \A d \in DOMAIN history : history[d].issue = i => d <= e

NewEvent == Len(history') > Len(history)
Latest == history'[Len(history')]

Authorised ==
    /\ \A i \in DOMAIN issues :
         /\ issues'[i].now.status # issues[i].now.status
            \/ issues'[i].archived # issues[i].archived => May(actor', "developer")
         /\ issues'[i].now # issues[i].now => May(actor', "user")
    /\ NewEvent =>
         /\ Latest.author = actor' /\ May(actor', "viewer")
         /\ May(actor', "user") \/ (Latest.kind = "change" /\ Latest.changes = {})

\* Whatever the patch, a status changes only by the hand of a developer, a name
\* or an assignee only by that of a user; and a user it takes to create or to
\* comment.  Only a save with a note and no change is a viewer's too: updateIssue
\* asks for a role key by key, and such a patch has none.
TriageNeedsDeveloper == [][Authorised]_vars

ToldNow(u) == {n.kind : n \in {m \in notices' : m.event = Len(history') /\ m.user = u}}

Altered(f) ==
    Latest.kind = "change" /\ issues'[Latest.issue].now[f] # issues[Latest.issue].now[f]

\* Whether the event just logged concerns u for reason k: u is its new assignee,
\* its text mentions u, or u watched the issue before, or is the assignee of an
\* issue commented on.
Concern(u, k) ==
    LET watched == <<Latest.issue, u>> \in watchers /\ u \notin disabled
    IN  CASE k = "assigned_to_me" ->
               /\ issues'[Latest.issue].now.assignee = u
               /\ Latest.kind = "creation" \/ Altered("assignee")
          [] k = "mentioned" -> u \in mentioned'
          [] k = "watched_status_change" -> watched /\ Altered("status")
          [] k = "watched_any_change" ->
               \/ Latest.kind = "change" /\ watched /\ ~Altered("status")
               \/ /\ Latest.kind = "comment"
                  /\ watched \/ issues[Latest.issue].now.assignee = u

\* The highest of the reasons for which the event concerns u.
Foremost(u, k) ==
    /\ Concern(u, k)
    /\ \A p \in DOMAIN KindPriority :
         k = KindPriority[p] => \A q \in 1..(p - 1) : ~Concern(u, KindPriority[q])

ConcernedAreTold ==
    /\ \A n \in notices' \ notices : NewEvent /\ n.event = Len(history')
    /\ NewEvent =>
         \A u \in Users :
            /\ ToldNow(u) =
                 {k \in Kinds : /\ u # Latest.author /\ role[u] # "none"
                               /\ <<u, k>> \notin optedOut /\ Foremost(u, k)}
            /\ (u = Latest.author \/ Concern(u, "assigned_to_me"))
                 => <<Latest.issue, u>> \in watchers'

\* Told are those, and only those, whom an event concerns, each once and for the
\* highest of the reasons: of a creation the assignee and the mentioned, of a
\* change the new assignee, the mentioned and who watched before, of a comment the
\* mentioned, who watched and the assignee.  Not told are the author, who left
\* the project however long ago they watched or were assigned, and who switched
\* off that very reason, another one of theirs notwithstanding.
RightPeopleAreTold == [][ConcernedAreTold]_vars
=============================================================================
