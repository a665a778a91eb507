------------------------------ MODULE IssueList ------------------------------
(***************************************************************************)
(* The issue list of the browser client: public/views/issueList.js with    *)
(* the filters of lib/filters.js, the debounce of lib/debounce.js and the  *)
(* copy of the filters that components/FilterBar.js keeps, against the     *)
(* list query of the server (services/issues.js, db/issues.js).            *)
(*                                                                         *)
(* Of the filters, `status` stands for the lists of metadata and the       *)
(* search text (it is the one whose default is not empty), `assignee` (but *)
(* for its choice "Unassigned", which is always valid) and `sort` for      *)
(* themselves.  The issues are counted by status, which also tells their   *)
(* assignee: others create, close and archive them, and leave or join the  *)
(* project, while the user filters, sorts, pages, reloads or comes back.   *)
(* The browser has one tab.                                                *)
(***************************************************************************)
EXTENDS Integers, FiniteSets

CONSTANTS
    Statuses,
    Open,           \* the statuses that are not closed
    Sorts,
    DefaultSort,    \* updated_desc
    Mates,          \* those who may be members
    Holder,         \* the assignee of the issues of each status
    Absent,         \* a key a query string does not have, no storage, no list
    Refused,        \* the answer 400 invalid_filter
    Links,          \* the filters of the links the user follows and had stored
    PageSize,
    MaxIssues,      \* bound: issues per status
    MaxActs,        \* bound: acts of the user
    MaxChanges,     \* bound: changes by others
    MaxFailures     \* bound: requests that fail

Filter == [status : SUBSET Statuses, assignee : SUBSET Mates, sort : Sorts]

ASSUME ListAssumption ==
    /\ IsFiniteSet(Statuses) /\ Open \subseteq Statuses /\ Open # {}
    /\ DefaultSort \in Sorts
    /\ Absent \notin Sorts /\ \A S \in (SUBSET Statuses) \cup (SUBSET Mates) : Absent # S
    /\ Refused # Absent
    /\ Holder \in [Statuses -> Mates \cup {Absent}]
    /\ Links \subseteq Filter
    /\ PageSize \in Nat \ {0}
    /\ {MaxIssues, MaxActs, MaxChanges, MaxFailures} \subseteq Nat

VARIABLES
    count,       \* the server's issues, by status
    members,     \* project_members
    gone,        \* those who were no members at some time
    filters,     \* what the list is fetched by
    bar,         \* `current` of the filter bar
    clearable,   \* the filter bar's "Clear filters" is enabled
    offered,     \* the members its assignee list offers
    page, url,   \* the page wanted; location.hash
    storage,     \* localStorage
    timer,       \* a debounced fetch is due
    pending,     \* "Loading issues"
    list,        \* the answer on show
    requests,    \* requests under way
    requestSeq,  \* requestSeq
    ghost,       \* the view that was left last: its timer and request live on
    applied,     \* the user has chosen filters in this view
    views,       \* how often the view was entered
    acts, changes, failures

serverVars == <<count, members, gone>>
barVars == <<bar, clearable, offered>>
listVars == <<serverVars, filters, barVars, page, url, storage, timer, pending, list,
              requests, requestSeq, ghost, applied, views, acts, changes, failures>>

-----------------------------------------------------------------------------
Defaults == [status |-> Open, assignee |-> {}, sort |-> DefaultSort]

\* A query string: the keys that differ from the defaults, and the page.
Query == [status : {Absent} \cup SUBSET Statuses, assignee : {Absent} \cup SUBSET Mates,
          sort : Sorts \cup {Absent}, page : Nat \ {0}]

\* An answer: the filters it was computed by, its page, the number of issues and
\* of pages.
Answer == [status : SUBSET Statuses, assignee : SUBSET Mates, sort : Sorts, page : Nat \ {0},
           total : Nat, pages : Nat]

\* A view that was left: `query` is its newest request, Absent when it is over.
Ghost == [filters : Filter, page : Nat \ {0}, timer : BOOLEAN, query : {Absent} \cup Query]

Request == [seq : Nat \ {0}, query : Query, answer : {Absent, Refused} \cup Answer]

\* What is absent or refused is none of these.
ASSUME AbsentAssumption ==
    Absent \notin Filter \cup Query \cup Answer \cup Ghost /\ Refused \notin Answer

ListTypeOK ==
    /\ count \in [Statuses -> 0..MaxIssues]
    /\ members \subseteq Mates /\ gone \subseteq Mates /\ Mates \ members \subseteq gone
    /\ filters \in Filter /\ bar \in Filter /\ clearable \in BOOLEAN
    /\ offered \subseteq Mates
    /\ page \in Nat \ {0} /\ url \in Query
    /\ storage \in {Absent} \cup Filter
    /\ timer \in BOOLEAN /\ pending \in BOOLEAN /\ applied \in BOOLEAN
    /\ list \in {Absent} \cup Answer
    /\ requestSeq \in Nat /\ requests \subseteq Request
    /\ \A r \in requests : r.seq <= requestSeq
    /\ ghost \in {Absent} \cup Ghost
    /\ acts \in 0..MaxActs /\ changes \in 0..MaxChanges /\ failures \in 0..MaxFailures

-----------------------------------------------------------------------------
(* Filters and query strings                                               *)

\* serializeToQuery, and the page beside it.
Serialized(f, p) ==
    [status |-> IF f.status = Open THEN Absent ELSE f.status,
     assignee |-> IF f.assignee = {} THEN Absent ELSE f.assignee,
     sort |-> IF f.sort = DefaultSort THEN Absent ELSE f.sort,
     page |-> p]

\* parseIdList, parseAssigneeList: a list that is not there is its default.
Listed(ids, fallback) == IF ids = Absent THEN fallback ELSE ids

\* parseFromQuery
Parsed(q) == [status |-> Listed(q.status, Open), assignee |-> Listed(q.assignee, {}),
              sort |-> Listed(q.sort, DefaultSort)]

\* loadFromStorage, or the defaults.
Stored(s) == IF s = Absent THEN Defaults ELSE s

HasAnyFilterKey(q) == q.status # Absent \/ q.assignee # Absent \/ q.sort # Absent

\* resolveInitial: the URL, then storage, then the defaults.
Resolved(q, stored) ==
    IF HasAnyFilterKey(q) THEN Parsed(q)
    ELSE IF q.page > 1 THEN Defaults
    ELSE Stored(stored)

\* parseFilters of the server: an assignee has to be a member; statuses stay
\* rows of the project.
Admitted(q) == Listed(q.assignee, {}) \subseteq members

\* The server: no status, or an empty list of them, is no restriction.
Effective(q) == IF Listed(q.status, {}) = {} THEN Statuses ELSE q.status

\* ... nor is an empty list of assignees.
Matching(q) ==
    {s \in Effective(q) : Listed(q.assignee, {}) = {} \/ Holder[s] \in q.assignee}

\* The issues of the statuses in S.
Issues(S) == {i \in S \X (1..MaxIssues) : i[2] <= count[i[1]]}

Answered(q) ==
    LET total == Cardinality(Issues(Matching(q)))
    IN  [status |-> Effective(q), assignee |-> Listed(q.assignee, {}), sort |-> Parsed(q).sort,
         page |-> q.page, total |-> total, pages |-> (total + PageSize - 1) \div PageSize]

-----------------------------------------------------------------------------
(* The view                                                                *)

\* fetchPage, with the filters f and the page p, in addition to the requests
\* rs: the list is gone at once.
Fetch(f, p, rs, n) ==
    /\ requestSeq' = n + 1
    /\ requests' = rs \cup {[seq |-> n + 1, query |-> Serialized(f, p), answer |-> Absent]}
    /\ pending' = TRUE
    /\ list' = Absent

NoFetch == UNCHANGED <<requestSeq, requests, pending, list>>

\* isDefault
IsDefault(f) == f = Defaults

BuildBar(f) == bar' = f /\ clearable' = ~IsDefault(f)

\* IssueList(): what entering the view with a URL does.
Entered(q, stored) ==
    LET f == Resolved(q, stored)
    IN  /\ filters = f /\ bar = f /\ clearable = ~IsDefault(f)
        /\ offered = members
        /\ page = q.page /\ url = q /\ storage = stored
        /\ timer = FALSE /\ pending = TRUE /\ list = Absent
        /\ requests = {[seq |-> 1, query |-> Serialized(f, q.page), answer |-> Absent]}
        /\ requestSeq = 1

ListInit ==
    /\ count \in [Statuses -> 0..MaxIssues]
    /\ members \in SUBSET Mates /\ gone = Mates \ members
    /\ \E f \in Links \cup {Defaults}, p \in 1..2, stored \in Links \cup {Absent} :
         Entered(Serialized(f, p), stored)
    /\ ghost = Absent /\ applied = FALSE /\ views = 1
    /\ acts = 0 /\ changes = 0 /\ failures = 0

Act == acts < MaxActs /\ acts' = acts + 1
ServerAlone == UNCHANGED <<serverVars, changes, failures>>
ViewStays == UNCHANGED <<views, ghost>>

SaveToStorage(f) == storage' = f
ClearStorage == storage' = Absent

\* What a change of one control makes of the bar's copy: of the assignees only
\* those that are offered can be selected.
Chosen(f) ==
    \/ \E S \in SUBSET Statuses \ {bar.status} : f = [bar EXCEPT !.status = S]
    \/ \E A \in SUBSET offered \ {bar.assignee \cap offered} : f = [bar EXCEPT !.assignee = A]

\* Mutant of FilterChange: the filters are not stored.
FilterChangeUnsaved(f) ==
    /\ Act /\ Chosen(f)
    /\ bar' = f /\ filters' = f /\ UNCHANGED <<clearable, offered>>
    /\ page' = 1 /\ url' = Serialized(f, 1) /\ UNCHANGED storage
    /\ timer' = TRUE /\ applied' = TRUE
    /\ NoFetch
    /\ ServerAlone /\ ViewStays

\* handleFilterChange: the bar emits its own copy, a fetch is due later.
FilterChange(f) ==
    /\ Act /\ Chosen(f)
    /\ bar' = f /\ filters' = f /\ UNCHANGED <<clearable, offered>>
    /\ page' = 1 /\ url' = Serialized(f, 1) /\ SaveToStorage(f)
    /\ timer' = TRUE /\ applied' = TRUE
    /\ NoFetch
    /\ ServerAlone /\ ViewStays

TableShown == ~pending /\ list # Absent /\ list.total > 0
EmptyShown == ~pending /\ list # Absent /\ list.total = 0

\* handleSortChange, from a column header: the bar is not told.
SortChange(s) ==
    /\ Act /\ TableShown /\ s # filters.sort
    /\ filters' = [filters EXCEPT !.sort = s] /\ UNCHANGED barVars
    /\ page' = 1 /\ url' = Serialized(filters', 1) /\ SaveToStorage(filters')
    /\ Fetch(filters', 1, requests, requestSeq)
    /\ applied' = TRUE
    /\ ServerAlone /\ ViewStays /\ UNCHANGED timer

ToDefaults ==
    /\ filters' = Defaults /\ BuildBar(Defaults) /\ UNCHANGED offered
    /\ page' = 1 /\ url' = Serialized(Defaults, 1)
    /\ Fetch(Defaults, 1, requests, requestSeq)
    /\ applied' = TRUE

\* handleClearFilters, from the bar or from the empty list.
Clear ==
    /\ Act /\ (clearable \/ (EmptyShown /\ ~IsDefault(filters)))
    /\ ToDefaults /\ SaveToStorage(Defaults)
    /\ ServerAlone /\ ViewStays /\ UNCHANGED timer

\* handleResetToDefaults
Reset ==
    /\ Act
    /\ ToDefaults /\ ClearStorage
    /\ ServerAlone /\ ViewStays /\ UNCHANGED timer

\* handlePageChange, from a button of the pager.
PageChange(n) ==
    /\ Act /\ TableShown /\ list.pages > 1
    /\ n \in 1..list.pages /\ n # list.page
    /\ n # page
    /\ page' = n /\ url' = Serialized(filters, n)
    /\ Fetch(filters, n, requests, requestSeq)
    /\ ServerAlone /\ ViewStays /\ UNCHANGED <<filters, barVars, storage, timer, applied>>

\* The debounced fetch.
TimerFires ==
    /\ timer /\ timer' = FALSE
    /\ Fetch(filters, page, requests, requestSeq)
    /\ ServerAlone /\ ViewStays
    /\ UNCHANGED <<filters, barVars, page, url, storage, applied, acts>>

\* The view is entered anew, with the members there are now (projectHome).
Enter(q) ==
    /\ Act
    /\ LET f == Resolved(q, storage)
       IN  /\ filters' = f /\ BuildBar(f) /\ offered' = members
           /\ page' = q.page
           /\ Fetch(f, q.page, {}, 0)
    /\ url' = q
    /\ timer' = FALSE /\ applied' = FALSE /\ views' = views + 1
    /\ ServerAlone /\ UNCHANGED storage

\* The page is loaded again: what was under way is lost.
Reload == Enter(url) /\ ghost' = Absent

\* A hashchange: startRouter puts a new view in the place of this one.
Leave(q) ==
    /\ Enter(q)
    /\ \E newest \in IF pending THEN {r.query : r \in {t \in requests : t.seq = requestSeq}}
                      ELSE {Absent} :
         ghost' = [filters |-> filters, page |-> page, timer |-> timer, query |-> newest]

-----------------------------------------------------------------------------
(* Answers                                                                 *)

\* listIssues: what the server answers to q now.
Reply(q) == IF Admitted(q) THEN Answered(q) ELSE Refused

\* The server answers, with the members and issues there are now.
Serve(r) ==
    /\ r.answer = Absent
    /\ requests' = (requests \ {r}) \cup {[r EXCEPT !.answer = Reply(r.query)]}
    /\ UNCHANGED <<serverVars, filters, barVars, page, url, storage, timer, pending, list,
                   requestSeq, ghost, applied, views, acts, changes, failures>>

\* Mutant of Newest: any answer is shown.
NewestAny(r) == TRUE

Newest(r) == r.seq = requestSeq

\* An answer that a later request has made stale.
Ignore(r) ==
    /\ r.answer # Absent /\ ~Newest(r)
    /\ requests' = requests \ {r}
    /\ UNCHANGED <<serverVars, filters, barVars, page, url, storage, timer, pending, list,
                   requestSeq, ghost, applied, views, acts, changes, failures>>

\* An answer with a list.
Listing(r) == r.answer \notin {Absent, Refused}

\* Mutant of Overshoots: the page is not compared with the pages there are.
OvershootsNever(a) == FALSE

\* The page wanted (now, not when it was asked for) does not exist.
Overshoots(a) == a.total > 0 /\ page > a.pages

\* Mutant of Turn: the last page is not fetched.
TurnOnly(r) ==
    /\ Listing(r) /\ Newest(r) /\ Overshoots(r.answer)
    /\ page' = r.answer.pages /\ url' = Serialized(filters, page')
    /\ requests' = requests \ {r} /\ UNCHANGED <<requestSeq, pending, list>>
    /\ ServerAlone /\ ViewStays
    /\ UNCHANGED <<filters, barVars, storage, timer, applied, acts>>

\* Go to the last page instead.
Turn(r) ==
    /\ Listing(r) /\ Newest(r) /\ Overshoots(r.answer)
    /\ page' = r.answer.pages /\ url' = Serialized(filters, page')
    /\ Fetch(filters, page', requests \ {r}, requestSeq)
    /\ ServerAlone /\ ViewStays
    /\ UNCHANGED <<filters, barVars, storage, timer, applied, acts>>

\* The answer is shown, and its page becomes the page wanted.
Show(r) ==
    /\ Listing(r) /\ Newest(r) /\ ~Overshoots(r.answer)
    /\ LET home == r.answer.total = 0 /\ page > 1
       IN  /\ page' = IF home THEN 1 ELSE r.answer.page
           /\ url' = IF home THEN Serialized(filters, 1) ELSE url
    /\ list' = [r.answer EXCEPT !.page = page']
    /\ pending' = FALSE
    /\ requests' = requests \ {r}
    /\ ServerAlone /\ ViewStays
    /\ UNCHANGED <<filters, barVars, storage, timer, requestSeq, applied, acts>>

\* The filters were refused: a toast and an error instead of the list.
ShowRefusal(r) ==
    /\ r.answer = Refused /\ Newest(r)
    /\ pending' = FALSE
    /\ requests' = requests \ {r}
    /\ ServerAlone /\ ViewStays
    /\ UNCHANGED <<filters, barVars, page, url, storage, timer, list, requestSeq, applied,
                   acts>>

\* The request fails: a toast and an error instead of the list.
Fail(r) ==
    /\ r.answer = Absent
    /\ failures < MaxFailures /\ failures' = failures + 1
    /\ requests' = requests \ {r}
    /\ pending' = (pending /\ ~Newest(r))
    /\ UNCHANGED <<serverVars, filters, barVars, page, url, storage, timer, list, requestSeq,
                   ghost, applied, views, acts, changes>>

\* The view that was left fetches, or handles its answer (which it may as well
\* never get): nobody sees its list, but updateUrl is everybody's.
GhostFetches ==
    /\ ghost # Absent /\ ghost.timer
    /\ ghost' = [ghost EXCEPT !.timer = FALSE, !.query = Serialized(ghost.filters, ghost.page)]
    /\ UNCHANGED <<serverVars, filters, barVars, page, url, storage, timer, pending, list,
                   requests, requestSeq, applied, views, acts, changes, failures>>

GhostAnswered ==
    /\ ghost # Absent /\ ghost.query # Absent
    /\ Admitted(ghost.query)
    /\ LET a == Answered(ghost.query)
           beyond == a.total > 0 /\ ghost.page > a.pages
           home == a.total = 0 /\ ghost.page > 1
           there == IF beyond THEN a.pages ELSE IF home THEN 1 ELSE a.page
       IN  /\ url' = IF beyond \/ home THEN Serialized(ghost.filters, there) ELSE url
           /\ ghost' = [ghost EXCEPT !.page = there,
                           !.query = IF beyond THEN Serialized(ghost.filters, there) ELSE Absent]
    /\ UNCHANGED <<serverVars, filters, barVars, page, storage, timer, pending, list, requests,
                   requestSeq, applied, views, acts, changes, failures>>

\* ... or its refusal.
GhostRefused ==
    /\ ghost # Absent /\ ghost.query # Absent
    /\ ~Admitted(ghost.query)
    /\ ghost' = [ghost EXCEPT !.query = Absent]
    /\ UNCHANGED <<serverVars, filters, barVars, page, url, storage, timer, pending, list,
                   requests, requestSeq, applied, views, acts, changes, failures>>

\* Others create, close, reopen or archive issues.
ChangeIssues(s, n) ==
    /\ changes < MaxChanges /\ changes' = changes + 1
    /\ count' = [count EXCEPT ![s] = n]
    /\ UNCHANGED <<members, gone, filters, barVars, page, url, storage, timer, pending, list,
                   requests, requestSeq, ghost, applied, views, acts, failures>>

\* Somebody is removed from the project, or added.
ChangeMembers(m) ==
    /\ changes < MaxChanges /\ changes' = changes + 1
    /\ members' = IF m \in members THEN members \ {m} ELSE members \cup {m}
    /\ gone' = gone \cup (members \ members')
    /\ UNCHANGED <<count, filters, barVars, page, url, storage, timer, pending, list, requests,
                   requestSeq, ghost, applied, views, acts, failures>>

-----------------------------------------------------------------------------
Progress == TimerFires \/ \E r \in requests : 
            Serve(r) \/ Ignore(r) \/ Turn(r) \/ Show(r) \/ ShowRefusal(r)

ListNext ==
    \/ \E f \in Filter : FilterChange(f)
    \/ \E s \in Sorts : SortChange(s)
    \/ Clear
    \/ Reset
    \/ \E n \in 1..(MaxIssues * Cardinality(Statuses)) : PageChange(n)
    \/ Reload
    \/ \E f \in Links \cup {Defaults} : Leave(Serialized(f, 1))
    \/ GhostFetches
    \/ GhostAnswered
    \/ GhostRefused
    \/ Progress
    \/ \E r \in requests : Fail(r)
    \/ \E s \in Statuses, n \in 0..MaxIssues : ChangeIssues(s, n)
    \/ \E m \in Mates : ChangeMembers(m)

ListSpec == ListInit /\ [][ListNext]_listVars

\* Timers fire and requests are answered.
FairListSpec == ListSpec /\ WF_listVars(Progress)

-----------------------------------------------------------------------------
(* Properties                                                              *)

Settled == ~pending /\ ~timer /\ list # Absent

\* Whatever was typed, sorted or paged while requests were under way, and in
\* whatever order they were answered: once the list has settled it is the list
\* of the filters and of the page that the view has now.  Two choices of statuses
\* restrict nothing: none, which is meant, and the default one, the open statuses,
\* which is not sent, so that the closed issues are listed too, against
\* DEVELOPMENT.md's "open, non-closed statuses".  An error stands in the list's
\* place only when a request failed or when those filters name somebody who was
\* not a member all the time: such a filter, stored or in a link, is refused at
\* every visit until the user clears it.
SettledListIsCurrent ==
    /\ Settled => /\ list.sort = filters.sort
                  /\ \/ list.status = filters.status
                     \/ filters.status \in {{}, Open} /\ list.status = Statuses
                  /\ list.assignee = filters.assignee
                  /\ list.page = page
    /\ ~pending /\ ~timer /\ list = Absent /\ failures = 0 => filters.assignee \cap gone # {}

\* The page on show exists, although issues may have gone since it was asked for.
PageExists == ListTypeOK /\ (Settled => page <= list.pages \/ (list.total = 0 /\ page = 1))

\* The URL, and storage where the URL says nothing, bring back the filters that
\* were chosen when the page is loaded again, in whatever state: DEVELOPMENT.md's
\* "apply a filter, reload, see it restored".  Not so when a view was left
\* before: its late answer may put its own filters into the URL.
ReloadRestores ==
    [][views' # views /\ ghost = Absent /\ ghost' = Absent /\ applied
         => filters' = filters]_listVars

\* The list is not "Loading issues" for ever.
LoadingEnds == pending ~> ~pending
=============================================================================
