------------------------- MODULE IssueTrackerProofs -------------------------
(***************************************************************************)
(* Theorems about IssueTracker, for every set of users, names, statuses,   *)
(* patches and drafts, and every bound.                                    *)
(*                                                                         *)
(* Every request writes at most one event, and an event is never changed:  *)
(* what the history says of the issues is as it was, but for the event     *)
(* just logged.  That event is the last of its issue, it follows the one   *)
(* that left the issue as it was before the request, and its rows are the  *)
(* difference the request made.                                            *)
(*                                                                         *)
(* The notices of an event are new, since no notice was of an event yet to *)
(* come; so that what an event tells can be read off its candidates, of    *)
(* which a user has one for each reason the event concerns them.           *)
(***************************************************************************)
EXTENDS IssueTracker, SequenceTheorems, TLAPS

\* Events are of issues that exist.
Attributed == \A e \in DOMAIN history : history[e].issue \in DOMAIN issues

IInv == HistoryReplays /\ Attributed

-----------------------------------------------------------------------------
(* What the history says                                                   *)

LEMMA Appending ==
    ASSUME NEW S, NEW s \in Seq(S), NEW x \in S
    PROVE  /\ Append(s, x) \in Seq(S)
           /\ Len(s) \in Nat /\ DOMAIN s = 1..Len(s)
           /\ DOMAIN Append(s, x) = DOMAIN s \cup {Len(s) + 1}
           /\ Len(s) + 1 \notin DOMAIN s
           /\ \A e \in DOMAIN s : e <= Len(s)
           /\ \A e \in DOMAIN s : Append(s, x)[e] = s[e]
           /\ Append(s, x)[Len(s) + 1] = x
<1>1. /\ Append(s, x) \in Seq(S) /\ Len(Append(s, x)) = Len(s) + 1
      /\ \A i \in 1..Len(s) : Append(s, x)[i] = s[i]
      /\ Append(s, x)[Len(s) + 1] = x
  BY AppendProperties
<1>2. Len(s) \in Nat /\ DOMAIN s = 1..Len(s) /\ DOMAIN Append(s, x) = 1..Len(s) + 1
  BY <1>1
<1> QED
  BY <1>1, <1>2

\* The events logged so far are as they were.
Unwritten ==
    /\ DOMAIN history \subseteq DOMAIN history'
    /\ \A e \in DOMAIN history : history'[e] = history[e]

\* HistoryReplays without the types.
Chronicle ==
    /\ DOMAIN trace = DOMAIN history
    /\ \A e \in DOMAIN history : Tells(e)
    /\ \A i \in DOMAIN issues : \E e \in DOMAIN history :
         /\ history[e].issue = i /\ trace[e].content = issues[i].now
         /\ \A d \in DOMAIN history : history[d].issue = i => d <= e

\* What a request does that logs event v, with w what it leaves behind.
Extends(v, w) ==
    /\ history' = Append(history, v) /\ trace' = Append(trace, w)
    /\ DOMAIN issues' = DOMAIN issues \cup {v.issue}
    /\ \A j \in DOMAIN issues : j # v.issue => issues'[j].now = issues[j].now
    /\ w.content = issues'[v.issue].now
    /\ v.issue \in DOMAIN issues =>
         v.changes = Rows(w.names, issues[v.issue].now, issues'[v.issue].now)
    /\ v.issue \notin DOMAIN issues => v.kind = "creation" /\ v.changes = {}

LEMMA ChronicleGrows ==
    ASSUME NEW T, history \in Seq(Event), trace \in Seq(T), Chronicle, Attributed,
           NEW v \in Event, NEW w \in T, Extends(v, w)
    PROVE  Chronicle' /\ Attributed'
<1>0. PICK n \in Nat : n = Len(history) + 1
  BY LenProperties
<1>1. /\ n \notin DOMAIN history /\ DOMAIN history' = DOMAIN history \cup {n}
      /\ \A e \in DOMAIN history : e \in Nat /\ e < n /\ history'[e] = history[e]
      /\ history'[n] = v
  <2>1. /\ DOMAIN history' = DOMAIN history \cup {n} /\ n \notin DOMAIN history
        /\ Len(history) \in Nat /\ DOMAIN history = 1..Len(history)
        /\ \A e \in DOMAIN history : e <= Len(history) /\ history'[e] = history[e]
        /\ history'[n] = v
    BY <1>0, Appending DEF Extends
  <2> QED
    BY <1>0, <2>1
<1>2. /\ DOMAIN trace = DOMAIN history /\ DOMAIN trace' = DOMAIN history'
      /\ \A e \in DOMAIN history : trace'[e] = trace[e]
      /\ trace'[n] = w
  <2>1. Len(history) \in Nat /\ DOMAIN history = 1..Len(history)
    BY LenProperties
  <2>2. /\ Len(trace) \in Nat /\ DOMAIN trace = 1..Len(trace)
        /\ DOMAIN trace' = DOMAIN trace \cup {Len(trace) + 1}
        /\ \A e \in DOMAIN trace : trace'[e] = trace[e]
        /\ trace'[Len(trace) + 1] = w
    BY Appending DEF Extends
  <2>3. DOMAIN trace = DOMAIN history
    BY DEF Chronicle
  <2>4. Len(trace) = Len(history)
    <3>1. ASSUME NEW a \in Nat, NEW b \in Nat, 1..a = 1..b, a < b PROVE FALSE
      <4>1. b \in 1..b /\ b \notin 1..a
        BY <3>1
      <4> QED
        BY <3>1, <4>1
    <3>2. 1..Len(trace) = 1..Len(history)
      BY <2>1, <2>2, <2>3
    <3>3. ~(Len(trace) < Len(history)) /\ ~(Len(history) < Len(trace))
      BY <2>1, <2>2, <3>1, <3>2
    <3>4. Len(trace) \in Nat /\ Len(history) \in Nat
      BY <2>1, <2>2
    <3> QED
      BY <3>3, <3>4
  <2> QED
    BY <1>0, <1>1, <2>2, <2>3, <2>4
<1>3. \A d, e \in DOMAIN history : Follows(d, e)' <=> Follows(d, e)
  <2> SUFFICES ASSUME NEW d \in DOMAIN history, NEW e \in DOMAIN history
               PROVE  Follows(d, e)' <=> Follows(d, e)
    OBVIOUS
  <2>1. e <= n
    BY <1>1
  <2>2. Follows(d, e)' => Follows(d, e)
    BY <1>1 DEF Follows
  <2>3. Follows(d, e) => Follows(d, e)'
    BY <1>1, <2>1 DEF Follows
  <2> QED
    BY <2>2, <2>3
<1>4. \A e \in DOMAIN history' : ~Follows(n, e)'
  BY <1>1 DEF Follows
<1>5. ASSUME NEW e \in DOMAIN history PROVE Tells(e)'
  <2>1. Tells(e)
    BY DEF Chronicle
  <2>2. ASSUME NEW d \in DOMAIN history', Follows(d, e)'
        PROVE  history'[e].changes = Rows(trace'[e].names, trace'[d].content, trace'[e].content)
    <3>1. d \in DOMAIN history /\ Follows(d, e)
      BY <1>1, <1>3, <1>4, <2>2
    <3>2. history[e].changes = Rows(trace[e].names, trace[d].content, trace[e].content)
      BY <2>1, <3>1 DEF Tells
    <3>3. history'[e] = history[e] /\ trace'[e] = trace[e] /\ trace'[d] = trace[d]
      BY <1>1, <1>2, <3>1
    <3> QED
      BY <3>2, <3>3
  <2>3. ASSUME \A d \in DOMAIN history' : ~Follows(d, e)'
        PROVE  history'[e].kind = "creation" /\ history'[e].changes = {}
    <3>1. \A d \in DOMAIN history : ~Follows(d, e)
      BY <1>1, <1>3, <2>3
    <3> QED
      BY <1>1, <2>1, <3>1 DEF Tells
  <2> QED
    BY <2>2, <2>3 DEF Tells
<1>6. ASSUME v.issue \in DOMAIN issues
      PROVE  \E e \in DOMAIN history :
               /\ Follows(e, n)' /\ trace[e].content = issues[v.issue].now
               /\ \A d \in DOMAIN history' : Follows(d, n)' => d = e
  <2>1. PICK e \in DOMAIN history :
             /\ history[e].issue = v.issue /\ trace[e].content = issues[v.issue].now
             /\ \A d \in DOMAIN history : history[d].issue = v.issue => d <= e
    BY <1>6 DEF Chronicle
  <2>2. Follows(e, n)'
    BY <1>1, <2>1 DEF Follows
  <2>3. ASSUME NEW d \in DOMAIN history', Follows(d, n)' PROVE d = e
    <3>1. d \in DOMAIN history /\ history[d].issue = v.issue
      BY <1>1, <2>3 DEF Follows
    <3>2. e <= d \/ n <= e
      BY <1>1, <2>1, <2>3 DEF Follows
    <3> QED
      BY <1>1, <2>1, <3>1, <3>2
  <2> QED
    BY <2>1, <2>2, <2>3
<1>7. Tells(n)'
  <2>1. ASSUME NEW d \in DOMAIN history', Follows(d, n)'
        PROVE  history'[n].changes = Rows(trace'[n].names, trace'[d].content, trace'[n].content)
    <3>1. v.issue \in DOMAIN issues
      BY <1>1, <2>1 DEF Follows, Attributed
    <3>2. d \in DOMAIN history /\ trace[d].content = issues[v.issue].now
      BY <1>6, <2>1, <3>1
    <3>3. trace'[d] = trace[d] /\ trace'[n] = w /\ history'[n] = v
      BY <1>1, <1>2, <3>2
    <3>4. v.changes = Rows(w.names, issues[v.issue].now, issues'[v.issue].now)
      BY <3>1 DEF Extends
    <3>5. w.content = issues'[v.issue].now
      BY DEF Extends
    <3> QED
      BY <3>2, <3>3, <3>4, <3>5
  <2>2. ASSUME \A d \in DOMAIN history' : ~Follows(d, n)'
        PROVE  history'[n].kind = "creation" /\ history'[n].changes = {}
    <3>1. v.issue \notin DOMAIN issues
      BY <1>1, <1>6, <2>2
    <3> QED
      BY <1>1, <3>1 DEF Extends
  <2> QED
    BY <2>1, <2>2 DEF Tells
<1>8. ASSUME NEW i \in DOMAIN issues'
      PROVE  \E e \in DOMAIN history' :
               /\ history'[e].issue = i /\ trace'[e].content = issues'[i].now
               /\ \A d \in DOMAIN history' : history'[d].issue = i => d <= e
  <2>1. CASE i = v.issue
    <3>1. \A d \in DOMAIN history' : d <= n
      BY <1>1
    <3>2. trace'[n].content = issues'[i].now /\ history'[n].issue = i
      BY <1>1, <1>2, <2>1 DEF Extends
    <3> QED
      BY <1>1, <3>1, <3>2
  <2>2. CASE i # v.issue
    <3>1. i \in DOMAIN issues /\ issues'[i].now = issues[i].now
      BY <2>2 DEF Extends
    <3>2. PICK e \in DOMAIN history :
             /\ history[e].issue = i /\ trace[e].content = issues[i].now
             /\ \A d \in DOMAIN history : history[d].issue = i => d <= e
      BY <3>1 DEF Chronicle
    <3>3. \A d \in DOMAIN history' : history'[d].issue = i => d <= e
      BY <1>1, <2>2, <3>2
    <3>4. e \in DOMAIN history' /\ history'[e].issue = i /\ trace'[e].content = issues'[i].now
      BY <1>1, <1>2, <3>1, <3>2
    <3> QED
      BY <3>3, <3>4
  <2> QED
    BY <2>1, <2>2
<1>9. Attributed'
  <2>1. DOMAIN issues' = DOMAIN issues \cup {v.issue}
    BY DEF Extends
  <2> QED
    BY <1>1, <2>1 DEF Attributed
<1>10. \A e \in DOMAIN history' : Tells(e)'
  BY <1>1, <1>5, <1>7
<1> QED
  BY <1>2, <1>8, <1>9, <1>10 DEF Chronicle
-----------------------------------------------------------------------------
(* Types                                                                   *)

LEMMA KindNames ==
    Kinds = {"assigned_to_me", "mentioned", "watched_status_change", "watched_any_change"}
<1>1. /\ DOMAIN KindPriority = {1, 2, 3, 4}
      /\ KindPriority[1] = "assigned_to_me" /\ KindPriority[2] = "mentioned"
      /\ KindPriority[3] = "watched_status_change" /\ KindPriority[4] = "watched_any_change"
  BY DEF KindPriority
<1> QED
  BY <1>1 DEF Kinds

LEMMA NoticesType ==
    ASSUME TypeOK, NEW e, NEW author, NEW candidates, candidates \subseteq Users \X Kinds,
           Persist(e, author, candidates),
           DOMAIN history \subseteq DOMAIN history', e \in DOMAIN history'
    PROVE  notices' \subseteq [event : DOMAIN history', user : Users, kind : Kinds]
<1>1. notices \subseteq [event : DOMAIN history, user : Users, kind : Kinds]
  BY DEF TypeOK
<1>2. notices \subseteq [event : DOMAIN history', user : Users, kind : Kinds]
  BY <1>1
<1>3. Top(candidates) \subseteq Users \X Kinds
  BY DEF Top
<1>4. \A c \in Users \X Kinds :
        [event |-> e, user |-> c[1], kind |-> c[2]]
          \in [event : DOMAIN history', user : Users, kind : Kinds]
  BY KindNames
<1> QED
  BY <1>2, <1>3, <1>4 DEF Persist

\* What an issue holds in field f.
ValuesOf(f) ==
    CASE f = "name" -> Names [] f = "status" -> Statuses
      [] f = "assignee" -> Users \cup {Nobody}

\* The rows a difference makes, in the names of the moment.
Written(diff) ==
    {[field |-> c.field, old |-> Display(names, c.field, c.old),
      new |-> Display(names, c.field, c.new)] : c \in diff}

Said == Names \cup StatusNames \cup DisplayNames \cup {Nobody}

LEMMA DisplayType ==
    ASSUME NEW naming \in Naming, NEW f \in Fields, NEW v \in ValuesOf(f)
    PROVE  Display(naming, f, v) \in Said
<1>1. /\ naming.status \in [Statuses -> StatusNames]
      /\ naming.user \in [Users -> DisplayNames]
  BY DEF Naming
<1>2. CASE f = "name"
  BY <1>2 DEF Display, ValuesOf, Said
<1>3. CASE f = "status"
  BY <1>1, <1>3 DEF Display, ValuesOf, Said
<1>4. CASE f = "assignee"
  BY <1>1, <1>4 DEF Display, ValuesOf, Said
<1> QED
  BY <1>2, <1>3, <1>4 DEF Fields

LEMMA DiffType ==
    ASSUME TypeOK, NEW i \in DOMAIN issues, NEW patch \in Patch
    PROVE  /\ issues[i] \in Issue /\ issues[i].now \in Content
           /\ \A c \in Diff(i, patch) :
                /\ c.field \in Fields /\ c.old = issues[i].now[c.field]
                /\ c.new = patch[c.field] /\ c.new # c.old /\ c.new # Keep
                /\ c.old \in ValuesOf(c.field) /\ c.new \in ValuesOf(c.field)
           /\ \A f \in Fields :
                Touches(Diff(i, patch), f) <=> patch[f] \notin {Keep, issues[i].now[f]}
<1>1. issues[i] \in Issue
  BY DEF TypeOK
<1>2. issues[i].now \in Content
  BY <1>1 DEF Issue
<1> DEFINE now == issues[i].now
           C(f) == [field |-> f, old |-> now[f], new |-> patch[f]]
<1>3. \A f \in Fields : now[f] \in ValuesOf(f) /\ patch[f] \in ValuesOf(f) \cup {Keep}
  BY <1>2 DEF Fields, Content, Patch, ValuesOf
<1>4. Diff(i, patch) = {C(f) : f \in {g \in Fields : patch[g] \notin {Keep, now[g]}}}
  BY Zenon DEF Diff
<1>5. \A f \in Fields : C(f).field = f /\ C(f).old = now[f] /\ C(f).new = patch[f]
  OBVIOUS
<1> HIDE DEF C, now
<1>6. \A c \in Diff(i, patch) :
        /\ c.field \in Fields /\ c.old = now[c.field]
        /\ c.new = patch[c.field] /\ c.new # c.old /\ c.new # Keep
  BY <1>4, <1>5
<1>7. \A f \in Fields : Touches(Diff(i, patch), f) <=> patch[f] \notin {Keep, now[f]}
  BY <1>4, <1>5 DEF Touches
<1>8. \A c \in Diff(i, patch) : c.old \in ValuesOf(c.field) /\ c.new \in ValuesOf(c.field)
  BY <1>3, <1>6
<1> QED
  BY <1>1, <1>2, <1>6, <1>7, <1>8 DEF now

\* What a save writes: every key the patch has, and nothing else.
LEMMA PatchedIs ==
    ASSUME TypeOK, NEW i \in DOMAIN issues, NEW patch \in Patch
    PROVE  /\ Patched(issues[i].now, Diff(i, patch)) \in Content
           /\ \A f \in Fields :
                Patched(issues[i].now, Diff(i, patch))[f] =
                  IF patch[f] = Keep THEN issues[i].now[f] ELSE patch[f]
           /\ \A f \in Fields :
                Touches(Diff(i, patch), f) =>
                  /\ ChangeOf(Diff(i, patch), f).old = issues[i].now[f]
                  /\ ChangeOf(Diff(i, patch), f).new = patch[f]
<1> DEFINE now == issues[i].now
           diff == Diff(i, patch)
           new == Patched(now, diff)
<1>1. /\ now \in Content
      /\ \A c \in diff : c.old = now[c.field] /\ c.new = patch[c.field]
      /\ \A f \in Fields : Touches(diff, f) <=> patch[f] \notin {Keep, now[f]}
  BY DiffType
<1>2. \A f \in Fields :
        Touches(diff, f) => ChangeOf(diff, f) \in diff /\ ChangeOf(diff, f).field = f
  BY Zenon DEF Touches, ChangeOf
<1>3. new = [f \in Fields |-> IF Touches(diff, f) THEN ChangeOf(diff, f).new ELSE now[f]]
  BY Zenon DEF Patched
<1> HIDE DEF now, diff, new
<1>4. \A f \in Fields :
        Touches(diff, f) => ChangeOf(diff, f).old = now[f] /\ ChangeOf(diff, f).new = patch[f]
  BY <1>1, <1>2
<1>5. \A f \in Fields : new[f] = IF patch[f] = Keep THEN now[f] ELSE patch[f]
  BY <1>1, <1>3, <1>4
<1>6. /\ DOMAIN new = {"name", "status", "assignee"}
      /\ new["name"] \in Names /\ new["status"] \in Statuses
      /\ new["assignee"] \in Users \cup {Nobody}
  <2>1. /\ now.name \in Names /\ now.status \in Statuses /\ now.assignee \in Users \cup {Nobody}
        /\ patch.name \in Names \cup {Keep} /\ patch.status \in Statuses \cup {Keep}
        /\ patch.assignee \in Users \cup {Nobody, Keep}
    BY <1>1 DEF Content, Patch
  <2>2. DOMAIN new = Fields
    BY <1>3
  <2> QED
    BY <1>5, <2>1, <2>2 DEF Fields
<1>7. new = [name |-> new["name"], status |-> new["status"], assignee |-> new["assignee"]]
  BY <1>3, <1>6 DEF Fields
<1>8. new \in Content
  BY <1>6, <1>7 DEF Content
<1> QED
  BY <1>4, <1>5, <1>8 DEF now, diff, new

\* The rows of a save are the difference it makes.
LEMMA WrittenIs ==
    ASSUME TypeOK, NEW i \in DOMAIN issues, NEW patch \in Patch
    PROVE  /\ Written(Diff(i, patch)) \in SUBSET Change
           /\ Written(Diff(i, patch)) =
                Rows(names, issues[i].now, Patched(issues[i].now, Diff(i, patch)))
<1> DEFINE now == issues[i].now
           diff == Diff(i, patch)
           new == Patched(now, diff)
           touched == {g \in Fields : patch[g] \notin {Keep, now[g]}}
           C(f) == [field |-> f, old |-> now[f], new |-> patch[f]]
           R(c) == [field |-> c.field, old |-> Display(names, c.field, c.old),
                    new |-> Display(names, c.field, c.new)]
           Q(f) == [field |-> f, old |-> Display(names, f, now[f]),
                    new |-> Display(names, f, new[f])]
<1>1. \A f \in Fields : new[f] = IF patch[f] = Keep THEN now[f] ELSE patch[f]
  BY PatchedIs
<1>2. \A c \in diff : /\ c.field \in Fields /\ c.old \in ValuesOf(c.field)
                      /\ c.new \in ValuesOf(c.field)
  BY DiffType
<1>3. diff = {C(f) : f \in touched}
  BY Zenon DEF Diff
<1>4. Written(diff) = {R(c) : c \in diff}
  BY Zenon DEF Written
<1>5. Rows(names, now, new) = {Q(f) : f \in {g \in Fields : now[g] # new[g]}}
  BY Zenon DEF Rows
<1>6. \A f \in touched : R(C(f)) = Q(f)
  <2> TAKE f \in touched
  <2>1. new[f] = patch[f]
    BY <1>1
  <2>2. C(f).field = f /\ C(f).old = now[f] /\ C(f).new = patch[f]
    OBVIOUS
  <2> HIDE DEF C, new, now
  <2> QED
    BY <2>1, <2>2
<1>7. {g \in Fields : now[g] # new[g]} = touched
  <2> HIDE DEF new, now
  <2> QED
    BY <1>1
<1>8. \A c \in diff : R(c) \in Change
  <2> TAKE c \in diff
  <2>1. c.field \in Fields
    BY <1>2
  <2>2. Display(names, c.field, c.old) \in Said /\ Display(names, c.field, c.new) \in Said
    BY <1>2, DisplayType DEF TypeOK
  <2> QED
    BY <2>1, <2>2 DEF Change, Said
<1> HIDE DEF diff, new, now, touched, C, R, Q
<1>9. Written(diff) \in SUBSET Change
  BY <1>4, <1>8
<1>10. Written(diff) = Rows(names, now, new)
  BY <1>3, <1>4, <1>5, <1>6, <1>7
<1> QED
  BY <1>9, <1>10 DEF diff, new, now
-----------------------------------------------------------------------------
(* Requests that log an event                                              *)

Left == [content : Content, names : Naming]

\* What Log appends.
EventOf(i, u, kind, note, diff) ==
    [issue |-> i, author |-> u, kind |-> kind, note |-> note, changes |-> Written(diff)]

LeftOf(i) == [content |-> issues'[i].now, names |-> names]

\* The event logged is the last, and the others are as they were.
LEMMA Logged ==
    ASSUME TypeOK, NEW i \in Nat, NEW u \in Users,
           NEW kind \in {"creation", "change", "comment"}, NEW note \in BOOLEAN,
           NEW diff, Written(diff) \in SUBSET Change, issues'[i].now \in Content,
           Log(i, u, kind, note, diff)
    PROVE  /\ history \in Seq(Event) /\ trace \in Seq(Left)
           /\ EventOf(i, u, kind, note, diff) \in Event /\ LeftOf(i) \in Left
           /\ history' = Append(history, EventOf(i, u, kind, note, diff))
           /\ trace' = Append(trace, LeftOf(i))
           /\ history' \in Seq(Event) /\ trace' \in Seq(Left) /\ Unwritten
           /\ Len(history') = Len(history) + 1 /\ Len(history) + 1 \notin DOMAIN history
           /\ DOMAIN history' = DOMAIN history \cup {Len(history) + 1}
           /\ history'[Len(history) + 1] = EventOf(i, u, kind, note, diff)
<1> DEFINE v == EventOf(i, u, kind, note, diff)
           w == LeftOf(i)
<1>1. v \in Event
  BY DEF Event, EventOf
<1>2. w \in Left
  BY DEF TypeOK, Left, LeftOf
<1>3. history \in Seq(Event) /\ trace \in Seq(Left)
  BY DEF TypeOK, Left
<1>4. history' = Append(history, v) /\ trace' = Append(trace, w)
  BY Zenon DEF Log, EventOf, LeftOf, Written
<1> HIDE DEF v, w
<1>5. /\ history' \in Seq(Event)
      /\ DOMAIN history' = DOMAIN history \cup {Len(history) + 1}
      /\ Len(history) + 1 \notin DOMAIN history
      /\ \A e \in DOMAIN history : history'[e] = history[e]
      /\ history'[Len(history) + 1] = v
  BY <1>1, <1>3, <1>4, Appending
<1>6. trace' \in Seq(Left)
  BY <1>2, <1>3, <1>4, Appending
<1>7. Len(history') = Len(history) + 1
  BY <1>1, <1>3, <1>4, AppendProperties
<1> QED
  BY <1>1, <1>2, <1>3, <1>4, <1>5, <1>6, <1>7 DEF Unwritten, v, w

LEMMA MentionedType ==
    ASSUME NEW m \in Mentioned
    PROVE  m \subseteq Users
  BY DEF Mentioned

\* A creation and a comment have no rows.
LEMMA NothingWritten == Written({}) = {}
  BY DEF Written

LEMMA CreateType ==
    ASSUME TypeOK, NEW u \in Users, NEW c \in Drafts, NEW m \in Mentioned,
           CreateIssue(u, c, m)
    PROVE  /\ TypeOK' /\ Unwritten
           /\ DOMAIN issues' = DOMAIN issues \cup {Len(issues) + 1}
           /\ Len(issues) + 1 \in Nat /\ Len(issues) + 1 \notin DOMAIN issues
           /\ \A i \in DOMAIN issues : issues'[i] = issues[i]
           /\ issues'[Len(issues) + 1].now = c /\ c \in Content
<1> DEFINE n == Len(issues) + 1
           x == [now |-> c, archived |-> FALSE]
<1>1. c \in Content
  BY TrackerAssumption
<1>2. x \in Issue /\ x.now = c
  BY <1>1 DEF Issue
<1>3. /\ issues \in Seq(Issue) /\ issues' = Append(issues, x)
      /\ Log(n, u, "creation", FALSE, {}) /\ RecordCreation(n, u, c, m)
      /\ UNCHANGED <<role, shelved, disabled, retired, names, optedOut, changes>> /\ actor' = u
  BY DEF CreateIssue, TypeOK, Request
<1> HIDE DEF x
<1>4. /\ issues' \in Seq(Issue) /\ n \in Nat /\ n \notin DOMAIN issues
      /\ DOMAIN issues' = DOMAIN issues \cup {n} /\ issues'[n] = x
      /\ \A i \in DOMAIN issues : issues'[i] = issues[i]
  <2>1. /\ issues' \in Seq(Issue) /\ Len(issues) \in Nat /\ n \notin DOMAIN issues
        /\ DOMAIN issues' = DOMAIN issues \cup {n} /\ issues'[n] = x
        /\ \A i \in DOMAIN issues : issues'[i] = issues[i]
    BY <1>2, <1>3, Appending
  <2> QED
    BY <2>1
<1> HIDE DEF n
<1>5. /\ history' \in Seq(Event) /\ trace' \in Seq(Left) /\ Unwritten
      /\ DOMAIN history' = DOMAIN history \cup {Len(history) + 1}
  <2>1. /\ "creation" \in {"creation", "change", "comment"} /\ FALSE \in BOOLEAN
        /\ Written({}) \in SUBSET Change
    BY NothingWritten
  <2>2. issues'[n].now \in Content
    BY <1>1, <1>2, <1>4
  <2> QED
    BY <1>3, <1>4, <2>1, <2>2, Logged, Zenon
<1>6. c.assignee \in Users \cup {Nobody}
  BY <1>1 DEF Content
<1>7. watchers' \subseteq (DOMAIN issues') \X Users
  <2>1. watchers' = watchers \cup {<<n, w>> : w \in {u, c.assignee} \ {Nobody}}
    BY <1>3 DEF RecordCreation
  <2> QED
    BY <2>1, <1>4, <1>6 DEF TypeOK
<1>8. notices' \subseteq [event : DOMAIN history', user : Users, kind : Kinds]
  <2> DEFINE told == Assigned(c.assignee, u, "assigned_to_me") \cup Watched(m, "mentioned")
  <2>1. told \subseteq Users \X Kinds
    BY <1>6, KindNames, MentionedType DEF Assigned, Watched
  <2>2. Persist(Len(history) + 1, u, told)
    BY <1>3 DEF RecordCreation
  <2>3. DOMAIN history \subseteq DOMAIN history' /\ Len(history) + 1 \in DOMAIN history'
    BY <1>5
  <2> HIDE DEF told
  <2> QED
    BY <2>1, <2>2, <2>3, NoticesType
<1>9. mentioned' \subseteq Users
  BY <1>3, MentionedType DEF RecordCreation
<1>10. TypeOK'
  BY <1>3, <1>4, <1>5, <1>7, <1>8, <1>9 DEF TypeOK, Left
<1> QED
  BY <1>1, <1>2, <1>4, <1>5, <1>10 DEF n

AssignedIn(diff) == {c.new : c \in {d \in diff : d.field = "assignee"}}

ChangeKind(diff) ==
    IF \E c \in diff : c.field = "status" THEN "watched_status_change" ELSE "watched_any_change"

\* The candidates recordForChange comes to, by its own watches.
ChangeTold(i, u, diff, mentions) ==
    (UNION {Assigned(a, u, "assigned_to_me") : a \in AssignedIn(diff)})
    \cup Watched(Hearing(i, watchers', u), ChangeKind(diff))
    \cup Watched(mentions, "mentioned")

LEMMA ChangeTells ==
    ASSUME TypeOK, NEW u \in Users, NEW i \in DOMAIN issues, NEW patch \in Patches,
           NEW mentions \in SUBSET Users, RecordChange(i, u, Diff(i, patch), mentions)
    PROVE  LET diff == Diff(i, patch)
           IN  /\ watchers' = watchers \cup
                     {<<i, w>> : w \in ({u} \cup AssignedIn(diff)) \ {Nobody}}
               /\ Persist(Len(history) + 1, u, ChangeTold(i, u, diff, mentions))
               /\ ChangeTold(i, u, diff, mentions) \subseteq Users \X Kinds
               /\ AssignedIn(diff) \subseteq Users \cup {Nobody}
<1> DEFINE diff == Diff(i, patch)
           given == UNION {Assigned(a, u, "assigned_to_me") : a \in AssignedIn(diff)}
           heard == Watched(Hearing(i, watchers', u), ChangeKind(diff))
           named == Watched(mentions, "mentioned")
           told == ChangeTold(i, u, diff, mentions)
<1>1. /\ watchers' = watchers \cup {<<i, w>> : w \in ({u} \cup AssignedIn(diff)) \ {Nobody}}
      /\ Persist(Len(history) + 1, u, told)
  <2> HIDE DEF diff
  <2> QED
    BY Zenon DEF RecordChange, ChangeTold, AssignedIn, ChangeKind, diff
<1>2. patch \in Patch
  BY TrackerAssumption
<1>3. \A c \in diff : c.field \in Fields /\ c.new = patch[c.field] /\ c.new # Keep
  BY <1>2, DiffType
<1> HIDE DEF diff
<1>4. AssignedIn(diff) \subseteq Users \cup {Nobody}
  BY <1>2, <1>3 DEF Patch, AssignedIn
<1>5. given \subseteq Users \X Kinds
  BY <1>4, KindNames DEF Assigned
<1>6. heard \subseteq Users \X Kinds
  BY KindNames DEF Watched, Hearing, ChangeKind
<1>7. named \subseteq Users \X Kinds
  BY KindNames DEF Watched
<1>8. told = given \cup heard \cup named
  BY Zenon DEF ChangeTold
<1> HIDE DEF given, heard, named, told
<1>9. told \subseteq Users \X Kinds
  BY <1>5, <1>6, <1>7, <1>8
<1> QED
  BY <1>1, <1>4, <1>9 DEF told, diff

LEMMA UpdateType ==
    ASSUME TypeOK, NEW u \in Users, NEW i \in DOMAIN issues, NEW patch \in Patches,
           NEW note \in BOOLEAN, NEW m \in Mentioned, UpdateIssue(u, i, patch, note, m)
    PROVE  /\ TypeOK' /\ DOMAIN issues' = DOMAIN issues
           /\ \A j \in DOMAIN issues : j # i => issues'[j] = issues[j]
           /\ issues'[i].archived = issues[i].archived
           /\ issues'[i].now = Patched(issues[i].now, Diff(i, patch))
           /\ issues'[i].now \in Content
<1> DEFINE diff == Diff(i, patch)
           new == Patched(issues[i].now, diff)
<1>1. patch \in Patch
  BY TrackerAssumption
<1>2. /\ issues[i] \in Issue /\ new \in Content /\ Written(diff) \in SUBSET Change
      /\ \A c \in diff : c.field \in Fields /\ c.new = patch[c.field] /\ c.new # Keep
  BY <1>1, DiffType, PatchedIs, WrittenIs
<1>3. /\ issues' = [issues EXCEPT ![i].now = new]
      /\ Log(i, u, "change", note, diff)
      /\ RecordChange(i, u, diff, IF note THEN m ELSE {})
      /\ UNCHANGED <<role, shelved, disabled, retired, names, optedOut, changes>> /\ actor' = u
  BY Zenon DEF UpdateIssue, Request
<1> HIDE DEF diff, new
<1>4. issues \in Seq(Issue) /\ history \in Seq(Event) /\ DOMAIN issues = 1..Len(issues)
      /\ Len(issues) \in Nat
  BY DEF TypeOK
<1>5. /\ issues' = [issues EXCEPT ![i] = [issues[i] EXCEPT !.now = new]]
      /\ [issues[i] EXCEPT !.now = new] \in Issue
  BY <1>2, <1>3 DEF Issue
<1>6. /\ issues' \in Seq(Issue) /\ DOMAIN issues' = DOMAIN issues
      /\ \A j \in DOMAIN issues : j # i => issues'[j] = issues[j]
      /\ issues'[i].archived = issues[i].archived
      /\ issues'[i].now = new
  BY <1>2, <1>4, <1>5 DEF Issue
<1>7. /\ history' \in Seq(Event) /\ trace' \in Seq(Left)
      /\ DOMAIN history' = DOMAIN history \cup {Len(history) + 1}
  <2>1. "change" \in {"creation", "change", "comment"} /\ i \in Nat
    BY <1>4
  <2>2. Written(diff) \in SUBSET Change /\ issues'[i].now \in Content
    BY <1>2, <1>6
  <2>3. Log(i, u, "change", note, diff)
    BY <1>3
  <2> QED
    BY <2>1, <2>2, <2>3, Logged, Zenon
<1> DEFINE mentions == IF note THEN m ELSE {}
           told == ChangeTold(i, u, diff, mentions)
<1>8. mentions \subseteq Users /\ RecordChange(i, u, diff, mentions)
  BY <1>3, MentionedType
<1>9. /\ watchers' = watchers \cup {<<i, w>> : w \in ({u} \cup AssignedIn(diff)) \ {Nobody}}
       /\ Persist(Len(history) + 1, u, told) /\ told \subseteq Users \X Kinds
       /\ AssignedIn(diff) \subseteq Users \cup {Nobody}
  <2> HIDE DEF mentions
  <2> QED
    BY <1>8, ChangeTells DEF diff
<1>10. notices' \subseteq [event : DOMAIN history', user : Users, kind : Kinds]
  <2>1. DOMAIN history \subseteq DOMAIN history' /\ Len(history) + 1 \in DOMAIN history'
    BY <1>7
  <2> HIDE DEF told
  <2> QED
    BY <1>9, <2>1, NoticesType
<1>11. watchers' \subseteq (DOMAIN issues') \X Users
  BY <1>6, <1>9 DEF TypeOK
<1>12. mentioned' \subseteq Users
  <2> HIDE DEF mentions
  <2> QED
    BY <1>8, Zenon DEF RecordChange
<1>13. TypeOK'
  BY <1>3, <1>6, <1>7, <1>10, <1>11, <1>12 DEF TypeOK, Left
<1> QED
  BY <1>2, <1>6, <1>13 DEF diff, new

LEMMA CommentType ==
    ASSUME TypeOK, NEW u \in Users, NEW i \in DOMAIN issues, NEW m \in Mentioned,
           CommentIssue(u, i, m)
    PROVE  TypeOK' /\ issues' = issues /\ issues[i].now \in Content /\ Unwritten
<1>0. issues[i].now \in Content
  <2>1. issues[i] \in Issue
    BY DEF TypeOK
  <2> QED
    BY <2>1 DEF Issue
<1>1. /\ issues' = issues /\ Log(i, u, "comment", TRUE, {}) /\ RecordComment(i, u, m)
      /\ UNCHANGED <<role, shelved, disabled, retired, names, optedOut, changes>> /\ actor' = u
  BY Zenon DEF CommentIssue, Request
<1>2. /\ history' \in Seq(Event) /\ trace' \in Seq(Left) /\ Unwritten
      /\ DOMAIN history' = DOMAIN history \cup {Len(history) + 1}
  <2>1. /\ "comment" \in {"creation", "change", "comment"} /\ TRUE \in BOOLEAN
        /\ Written({}) \in SUBSET Change
    BY NothingWritten
  <2>2. i \in Nat
    BY DEF TypeOK
  <2>3. issues'[i].now \in Content
    BY <1>0, <1>1
  <2> QED
    BY <1>1, <2>1, <2>2, <2>3, Logged, Zenon
<1>3. watchers' \subseteq (DOMAIN issues') \X Users
  BY <1>1 DEF RecordComment, TypeOK
<1>4. notices' \subseteq [event : DOMAIN history', user : Users, kind : Kinds]
  <2> DEFINE told == Assigned(issues[i].now.assignee, u, "watched_any_change")
                     \cup Watched(Hearing(i, watchers', u), "watched_any_change")
                     \cup Watched(m, "mentioned")
  <2>1. issues[i].now.assignee \in Users \cup {Nobody}
    BY <1>0 DEF Content
  <2>2. told \subseteq Users \X Kinds
    BY <2>1, KindNames, MentionedType DEF Assigned, Watched, Hearing
  <2>3. Persist(Len(history) + 1, u, told)
    BY <1>1, Zenon DEF RecordComment
  <2>4. DOMAIN history \subseteq DOMAIN history' /\ Len(history) + 1 \in DOMAIN history'
    BY <1>2
  <2> HIDE DEF told
  <2> QED
    BY <2>2, <2>3, <2>4, NoticesType
<1>5. mentioned' \subseteq Users
  BY <1>1, MentionedType, Zenon DEF RecordComment
<1>6. TypeOK'
  BY <1>1, <1>2, <1>3, <1>4, <1>5 DEF TypeOK, Left
<1> QED
  BY <1>0, <1>1, <1>2, <1>6
-----------------------------------------------------------------------------
(* The history is the issue                                                *)

\* A request that leaves contents and history as they are.
LEMMA Unrecorded ==
    ASSUME IInv, TypeOK', history' = history, trace' = trace,
           DOMAIN issues' = DOMAIN issues,
           \A j \in DOMAIN issues : issues'[j].now = issues[j].now
    PROVE  IInv'
<1>1. Chronicle /\ Attributed
  BY DEF IInv, HistoryReplays, Chronicle
<1>2. \A d, e : Follows(d, e)' <=> Follows(d, e)
  BY Zenon DEF Follows
<1>3. ASSUME NEW e \in DOMAIN history PROVE Tells(e)'
  <2>1. Tells(e)
    BY <1>1 DEF Chronicle
  <2>2. \A d \in DOMAIN history : Follows(d, e) =>
          history'[e].changes = Rows(trace'[e].names, trace'[d].content, trace'[e].content)
    BY <2>1, Zenon DEF Tells
  <2>3. (\A d \in DOMAIN history : ~Follows(d, e)) =>
          history'[e].kind = "creation" /\ history'[e].changes = {}
    BY <2>1, Zenon DEF Tells
  <2> QED
    BY <1>2, <2>2, <2>3, Zenon DEF Tells
<1>4. ASSUME NEW i \in DOMAIN issues
      PROVE  \E e \in DOMAIN history :
               /\ history[e].issue = i /\ trace[e].content = issues'[i].now
               /\ \A d \in DOMAIN history : history[d].issue = i => d <= e
  BY <1>1 DEF Chronicle
<1>5. DOMAIN trace' = DOMAIN history' /\ Attributed'
  BY <1>1 DEF Chronicle, Attributed
<1>6. Chronicle'
  BY <1>3, <1>4, <1>5 DEF Chronicle
<1> QED
  BY <1>5, <1>6 DEF IInv, HistoryReplays, Chronicle

\* A request that logs what it did.
LEMMA Recorded ==
    ASSUME IInv, TypeOK', NEW v \in Event, NEW w \in Left, Extends(v, w)
    PROVE  IInv'
<1>1. /\ history \in Seq(Event) /\ trace \in Seq(Left) /\ Chronicle /\ Attributed
  BY DEF IInv, HistoryReplays, Chronicle, TypeOK, Left
<1>2. Chronicle' /\ Attributed'
  BY <1>1, ChronicleGrows
<1> QED
  BY <1>2 DEF IInv, HistoryReplays, Chronicle

LEMMA CreateKeeps ==
    ASSUME IInv, NEW u \in Users, NEW c \in Drafts, NEW m \in Mentioned,
           CreateIssue(u, c, m)
    PROVE  IInv'
<1> DEFINE n == Len(issues) + 1
           v == EventOf(n, u, "creation", FALSE, {})
           w == LeftOf(n)
<1>1. /\ TypeOK /\ TypeOK' /\ DOMAIN issues' = DOMAIN issues \cup {n}
      /\ n \in Nat /\ n \notin DOMAIN issues /\ \A i \in DOMAIN issues : issues'[i] = issues[i]
      /\ issues'[n].now = c /\ c \in Content
  BY CreateType DEF IInv, HistoryReplays
<1>2. Log(n, u, "creation", FALSE, {})
  BY Zenon DEF CreateIssue
<1>3. /\ v \in Event /\ w \in Left
      /\ history' = Append(history, v) /\ trace' = Append(trace, w)
  <2>1. /\ "creation" \in {"creation", "change", "comment"} /\ FALSE \in BOOLEAN
        /\ Written({}) \in SUBSET Change /\ issues'[n].now \in Content
    BY <1>1, NothingWritten
  <2> HIDE DEF n
  <2> QED
    BY <1>1, <1>2, <2>1, Logged, Zenon
<1>4. /\ v.issue = n /\ v.kind = "creation" /\ v.changes = {} /\ w.content = issues'[n].now
  BY NothingWritten DEF EventOf, LeftOf
<1> HIDE DEF v, w, n
<1>5. Extends(v, w)
  BY <1>1, <1>3, <1>4 DEF Extends
<1> QED
  BY <1>1, <1>3, <1>5, Recorded

LEMMA UpdateKeeps ==
    ASSUME IInv, NEW u \in Users, NEW i \in DOMAIN issues, NEW patch \in Patches,
           NEW note \in BOOLEAN, NEW m \in Mentioned, UpdateIssue(u, i, patch, note, m)
    PROVE  IInv'
<1> DEFINE diff == Diff(i, patch)
           v == EventOf(i, u, "change", note, diff)
           w == LeftOf(i)
<1>1. /\ TypeOK /\ TypeOK' /\ DOMAIN issues' = DOMAIN issues
      /\ \A j \in DOMAIN issues : j # i => issues'[j] = issues[j]
      /\ issues'[i].now = Patched(issues[i].now, diff) /\ issues'[i].now \in Content
  BY UpdateType DEF IInv, HistoryReplays
<1>2. Log(i, u, "change", note, diff)
  BY Zenon DEF UpdateIssue
<1>3. /\ Written(diff) \in SUBSET Change
      /\ Written(diff) = Rows(names, issues[i].now, issues'[i].now)
  <2>1. patch \in Patch
    BY TrackerAssumption
  <2> QED
    BY <1>1, <2>1, WrittenIs
<1> HIDE DEF diff
<1>4. /\ v \in Event /\ w \in Left
      /\ history' = Append(history, v) /\ trace' = Append(trace, w)
  <2>1. "change" \in {"creation", "change", "comment"} /\ i \in Nat
    BY <1>1 DEF TypeOK
  <2> QED
    BY <1>1, <1>2, <1>3, <2>1, Logged, Zenon
<1>5. /\ v.issue = i /\ v.changes = Written(diff)
      /\ w.content = issues'[i].now /\ w.names = names
  BY DEF EventOf, LeftOf
<1> HIDE DEF v, w
<1>6. Extends(v, w)
  BY <1>1, <1>3, <1>4, <1>5 DEF Extends
<1> QED
  BY <1>1, <1>4, <1>6, Recorded

LEMMA CommentKeeps ==
    ASSUME IInv, NEW u \in Users, NEW i \in DOMAIN issues, NEW m \in Mentioned,
           CommentIssue(u, i, m)
    PROVE  IInv'
<1> DEFINE v == EventOf(i, u, "comment", TRUE, {})
           w == LeftOf(i)
<1>1. TypeOK /\ TypeOK' /\ issues' = issues /\ issues[i].now \in Content
  BY CommentType DEF IInv, HistoryReplays
<1>2. Log(i, u, "comment", TRUE, {})
  BY Zenon DEF CommentIssue
<1>3. /\ v \in Event /\ w \in Left
      /\ history' = Append(history, v) /\ trace' = Append(trace, w)
  <2>1. /\ "comment" \in {"creation", "change", "comment"} /\ TRUE \in BOOLEAN
        /\ Written({}) \in SUBSET Change
    BY NothingWritten
  <2>2. i \in Nat /\ issues'[i].now \in Content
    BY <1>1 DEF TypeOK
  <2> QED
    BY <1>1, <1>2, <2>1, <2>2, Logged, Zenon
<1>4. v.issue = i /\ v.changes = {} /\ w.content = issues'[i].now
  BY NothingWritten DEF EventOf, LeftOf
<1>5. Rows(w.names, issues[i].now, issues'[i].now) = {}
  BY <1>1 DEF Rows
<1> HIDE DEF v, w
<1>6. Extends(v, w)
  BY <1>1, <1>3, <1>4, <1>5 DEF Extends
<1> QED
  BY <1>1, <1>3, <1>6, Recorded
-----------------------------------------------------------------------------
(* The invariant                                                           *)

LEMMA ArchiveKeeps ==
    ASSUME IInv, NEW u \in Users, NEW i \in Nat, NEW b \in BOOLEAN, SetArchived(u, i, b)
    PROVE  IInv'
<1>1. /\ TypeOK /\ i \in DOMAIN issues /\ issues' = [issues EXCEPT ![i].archived = b]
      /\ UNCHANGED <<role, shelved, disabled, retired, names, history, watchers, optedOut,
                      notices, changes, mentioned, trace>> /\ actor' = u
  BY Zenon DEF SetArchived, Request, IInv, HistoryReplays
<1>2. issues \in Seq(Issue) /\ issues[i] \in Issue /\ DOMAIN issues = 1..Len(issues)
      /\ Len(issues) \in Nat
  BY <1>1 DEF TypeOK
<1>3. /\ issues' = [issues EXCEPT ![i] = [issues[i] EXCEPT !.archived = b]]
      /\ [issues[i] EXCEPT !.archived = b] \in Issue
      /\ [issues[i] EXCEPT !.archived = b].now = issues[i].now
  BY <1>1, <1>2 DEF Issue
<1>4. /\ issues' \in Seq(Issue) /\ DOMAIN issues' = DOMAIN issues
      /\ \A j \in DOMAIN issues : issues'[j].now = issues[j].now
  <2> DEFINE x == [issues[i] EXCEPT !.archived = b]
  <2>1. /\ issues' = [issues EXCEPT ![i] = x] /\ x \in Issue
        /\ x.now = issues[i].now
    BY <1>3
  <2> HIDE DEF x
  <2>2. issues' \in Seq(Issue) /\ DOMAIN issues' = DOMAIN issues
    BY <1>1, <1>2, <2>1
  <2>3. \A j \in DOMAIN issues : issues'[j] = IF j = i THEN x ELSE issues[j]
    BY <1>1, <2>1
  <2> QED
    BY <2>1, <2>2, <2>3
<1>5. TypeOK'
  BY <1>1, <1>4 DEF TypeOK
<1> QED
  BY <1>1, <1>4, <1>5, Unrecorded

\* The requests that leave the issues and their history alone.
LEMMA AroundKeeps ==
    ASSUME IInv, TypeOK', issues' = issues, history' = history, trace' = trace
    PROVE  IInv'
  BY Unrecorded

LEMMA WatchKeeps ==
    ASSUME IInv, NEW u \in Users, NEW i \in Nat, NEW b \in BOOLEAN, Watch(u, i, b)
    PROVE  IInv'
<1>1. /\ TypeOK /\ i \in DOMAIN issues
      /\ UNCHANGED <<role, shelved, disabled, retired, names, issues, history, optedOut,
                      notices, changes, mentioned, trace>> /\ actor' = u
      /\ watchers' = watchers \cup {<<i, u>>} \/ watchers' = watchers \ {<<i, u>>}
  BY DEF Watch, Request, IInv, HistoryReplays
<1>2. TypeOK'
  BY <1>1 DEF TypeOK
<1> QED
  BY <1>1, <1>2, AroundKeeps

LEMMA RenameType ==
    ASSUME names \in Naming
    PROVE  /\ \A s \in Statuses, name \in StatusNames :
                [names EXCEPT !.status[s] = name] \in Naming
           /\ \A u \in Users, name \in DisplayNames :
                [names EXCEPT !.user[u] = name] \in Naming
<1>1. /\ names = [status |-> names.status, user |-> names.user]
      /\ names.status \in [Statuses -> StatusNames] /\ names.user \in [Users -> DisplayNames]
  BY DEF Naming
<1>2. ASSUME NEW s \in Statuses, NEW name \in StatusNames
      PROVE  [names EXCEPT !.status[s] = name] \in Naming
  <2> DEFINE f == [names.status EXCEPT ![s] = name]
  <2>1. f \in [Statuses -> StatusNames]
    BY <1>1
  <2>2. [names EXCEPT !.status[s] = name] = [status |-> f, user |-> names.user]
    BY <1>1
  <2> HIDE DEF f
  <2> QED
    BY <1>1, <2>1, <2>2 DEF Naming
<1>3. ASSUME NEW u \in Users, NEW name \in DisplayNames
      PROVE  [names EXCEPT !.user[u] = name] \in Naming
  <2> DEFINE f == [names.user EXCEPT ![u] = name]
  <2>1. f \in [Users -> DisplayNames]
    BY <1>1
  <2>2. [names EXCEPT !.user[u] = name] = [status |-> names.status, user |-> f]
    BY <1>1
  <2> HIDE DEF f
  <2> QED
    BY <1>1, <2>1, <2>2 DEF Naming
<1> QED
  BY <1>2, <1>3

LEMMA OthersKeep ==
    ASSUME IInv,
           \/ \E u \in Users :
                \/ \E r \in Roles : AddMember(u, r) \/ ChangeRole(u, r)
                \/ RemoveMember(u)
           \/ ArchiveProject \/ UnarchiveProject
           \/ \E u \in Users, off \in BOOLEAN : SetDisabled(u, off)
           \/ \E s \in Statuses, off \in BOOLEAN : SetRetired(s, off)
           \/ \E s \in Statuses, name \in StatusNames : RenameStatus(s, name)
           \/ \E u \in Users, name \in DisplayNames : RenameUser(u, name)
           \/ \E p \in Optional, on \in BOOLEAN : SetPref(p, on)
    PROVE  IInv'
<1>1. TypeOK /\ UNCHANGED <<issues, history, watchers, notices, actor, mentioned, trace>>
  BY DEF IInv, HistoryReplays, AddMember, ChangeRole, RemoveMember, ArchiveProject,
         UnarchiveProject, SetDisabled, SetRetired, RenameStatus, RenameUser, SetPref, Around
<1>2. changes' \in 0..MaxChanges
  <2>1. changes' = changes \/ Counted
    BY DEF AddMember, ChangeRole, RemoveMember, ArchiveProject, UnarchiveProject,
           SetDisabled, SetRetired, RenameStatus, RenameUser, SetPref
  <2> QED
    BY <1>1, <2>1, TrackerAssumption DEF TypeOK, Counted
<1>3. /\ role' \in [Users -> Roles] /\ shelved' \in BOOLEAN /\ disabled' \subseteq Users
      /\ retired' \subseteq Statuses \ {DefaultStatus} /\ optedOut' \subseteq Users \X Kinds
      /\ names' \in Naming
  <2>1. CASE \E u \in Users, r \in Roles : AddMember(u, r) \/ ChangeRole(u, r)
    BY <1>1, <2>1 DEF AddMember, ChangeRole, TypeOK
  <2>2. CASE \E u \in Users : RemoveMember(u)
    BY <1>1, <2>2 DEF RemoveMember, TypeOK, Roles
  <2>3. CASE ArchiveProject \/ UnarchiveProject
    BY <1>1, <2>3 DEF ArchiveProject, UnarchiveProject, TypeOK
  <2>4. CASE \E u \in Users, off \in BOOLEAN : SetDisabled(u, off)
    BY <1>1, <2>4, Zenon DEF SetDisabled, TypeOK
  <2>5. CASE \E s \in Statuses, off \in BOOLEAN : SetRetired(s, off)
    BY <1>1, <2>5, Zenon DEF SetRetired, TypeOK
  <2>6. CASE \E p \in Optional, on \in BOOLEAN : SetPref(p, on)
    <3>1. Optional \subseteq Users \X Kinds
      BY TrackerAssumption
    <3> QED
      BY <1>1, <2>6, <3>1, Zenon DEF SetPref, TypeOK
  <2>7. CASE \E s \in Statuses, name \in StatusNames : RenameStatus(s, name)
    BY <1>1, <2>7, RenameType DEF RenameStatus, TypeOK
  <2>8. CASE \E u \in Users, name \in DisplayNames : RenameUser(u, name)
    BY <1>1, <2>8, RenameType DEF RenameUser, TypeOK
  <2> QED
    BY <2>1, <2>2, <2>3, <2>4, <2>5, <2>6, <2>7, <2>8
<1>4. TypeOK'
  BY <1>1, <1>2, <1>3, Zenon DEF TypeOK
<1> QED
  BY <1>1, <1>4, AroundKeeps

LEMMA InvStep == IInv /\ [Next]_vars => IInv'
<1> SUFFICES ASSUME IInv, [Next]_vars PROVE IInv'
  OBVIOUS
<1>0. MaxIssues \in Nat /\ 1..MaxIssues \subseteq Nat
  BY TrackerAssumption
<1>1. CASE UNCHANGED vars
  <2>1. TypeOK'
    BY <1>1 DEF vars, TypeOK, IInv, HistoryReplays
  <2> QED
    BY <1>1, <2>1, AroundKeeps DEF vars
<1>2. ASSUME NEW u \in Users, NEW c \in Drafts, NEW m \in Mentioned, CreateIssue(u, c, m)
      PROVE  IInv'
  BY <1>2, CreateKeeps
<1>3. ASSUME NEW u \in Users, NEW i \in 1..MaxIssues, NEW p \in Patches,
             NEW note \in BOOLEAN, NEW m \in Mentioned, UpdateIssue(u, i, p, note, m)
      PROVE  IInv'
  <2>1. i \in DOMAIN issues
    BY <1>3 DEF UpdateIssue
  <2> QED
    BY <1>3, <2>1, UpdateKeeps, Zenon
<1>4. ASSUME NEW u \in Users, NEW i \in 1..MaxIssues, NEW m \in Mentioned,
             CommentIssue(u, i, m)
      PROVE  IInv'
  <2>1. i \in DOMAIN issues
    BY <1>4 DEF CommentIssue
  <2> QED
    BY <1>4, <2>1, CommentKeeps
<1>5. ASSUME NEW u \in Users, NEW i \in 1..MaxIssues, NEW b \in BOOLEAN,
             SetArchived(u, i, b) \/ Watch(u, i, b)
      PROVE  IInv'
  <2>1. i \in Nat
    BY <1>0
  <2> QED
    BY <1>5, <2>1, ArchiveKeeps, WatchKeeps, Zenon
<1>6. CASE \/ \E u \in Users :
                \/ \E r \in Roles : AddMember(u, r) \/ ChangeRole(u, r)
                \/ RemoveMember(u)
           \/ ArchiveProject \/ UnarchiveProject
           \/ \E u \in Users, off \in BOOLEAN : SetDisabled(u, off)
           \/ \E s \in Statuses, off \in BOOLEAN : SetRetired(s, off)
           \/ \E s \in Statuses, name \in StatusNames : RenameStatus(s, name)
           \/ \E u \in Users, name \in DisplayNames : RenameUser(u, name)
           \/ \E p \in Optional, on \in BOOLEAN : SetPref(p, on)
  BY <1>6, OthersKeep
<1> QED
  BY <1>1, <1>2, <1>3, <1>4, <1>5, <1>6, Zenon DEF Next

LEMMA InvInit == Init => IInv
<1> SUFFICES ASSUME Init PROVE IInv
  OBVIOUS
<1>1. TypeOK
  <2>1. issues \in Seq(Issue) /\ history \in Seq(Event) /\ changes \in 0..MaxChanges
    BY TrackerAssumption DEF Init
  <2>2. trace \in Seq([content : Content, names : Naming])
    BY DEF Init
  <2> QED
    BY <2>1, <2>2, TrackerAssumption, Zenon DEF Init, TypeOK
<1>2. DOMAIN issues = {} /\ DOMAIN history = {} /\ DOMAIN trace = {}
  BY DEF Init
<1> QED
  BY <1>1, <1>2 DEF IInv, HistoryReplays, Attributed

\* The invariant of the tracker, for any project, members and requests.
THEOREM Invariance == Spec => []IInv
  BY InvInit, InvStep, PTL DEF Spec

\* However often an issue is edited, by whom, in whatever order and whatever is
\* renamed in between, the rows of each event are the difference to the event
\* before it, in the names of its own time, and the last event left the issue as
\* it is.
THEOREM HistoryAlwaysReplays == Spec => []HistoryReplays
<1>1. IInv => HistoryReplays
  BY DEF IInv
<1> QED
  BY <1>1, Invariance, PTL

-----------------------------------------------------------------------------
(* Who changed it                                                          *)

LEMMA Ranks ==
    ASSUME TypeOK, NEW u \in Users, May(u, "developer")
    PROVE  May(u, "user")
<1>1. ActingRole(u) \in Roles
  BY DEF ActingRole, Roles, TypeOK
<1>2. Rank("developer") = 3 /\ Rank("user") = 2 /\ Rank(ActingRole(u)) \in 0..3
  BY <1>1 DEF Rank, Roles
<1> QED
  BY <1>2 DEF May

\* The event a request has just logged.
LEMMA LatestIs ==
    ASSUME TypeOK, NEW i \in Nat, NEW u \in Users,
           NEW kind \in {"creation", "change", "comment"}, NEW note \in BOOLEAN,
           NEW diff, Written(diff) \in SUBSET Change, issues'[i].now \in Content,
           Log(i, u, kind, note, diff)
    PROVE  /\ NewEvent /\ Len(history') = Len(history) + 1
           /\ Len(history) + 1 \notin DOMAIN history
           /\ Latest.issue = i /\ Latest.author = u /\ Latest.kind = kind
           /\ Latest.changes = Written(diff)
<1> DEFINE v == EventOf(i, u, kind, note, diff)
<1>1. /\ history \in Seq(Event) /\ Len(history') = Len(history) + 1
      /\ Len(history) + 1 \notin DOMAIN history /\ history'[Len(history) + 1] = v
  BY Logged
<1>2. v.issue = i /\ v.author = u /\ v.kind = kind /\ v.changes = Written(diff)
  BY DEF EventOf
<1> HIDE DEF v
<1>3. Len(history) \in Nat
  BY <1>1, LenProperties
<1> QED
  BY <1>1, <1>2, <1>3 DEF Latest, NewEvent

LEMMA LatestCreation ==
    ASSUME TypeOK, NEW u \in Users, NEW c \in Drafts, NEW m \in Mentioned,
           CreateIssue(u, c, m)
    PROVE  /\ NewEvent /\ Len(history') = Len(history) + 1
           /\ Len(history) + 1 \notin DOMAIN history
           /\ Latest.issue = Len(issues) + 1 /\ Latest.author = u
           /\ Latest.kind = "creation" /\ Latest.changes = {}
<1> DEFINE n == Len(issues) + 1
<1>1. Log(n, u, "creation", FALSE, {})
  BY Zenon DEF CreateIssue
<1>2. n \in Nat /\ issues'[n].now \in Content
  BY CreateType
<1>3. /\ "creation" \in {"creation", "change", "comment"} /\ FALSE \in BOOLEAN
      /\ Written({}) \in SUBSET Change /\ Written({}) = {}
  BY NothingWritten
<1> HIDE DEF n
<1>4. /\ NewEvent /\ Len(history') = Len(history) + 1
      /\ Len(history) + 1 \notin DOMAIN history
      /\ Latest.issue = n /\ Latest.author = u
      /\ Latest.kind = "creation" /\ Latest.changes = Written({})
  BY <1>1, <1>2, <1>3, LatestIs, Zenon
<1> QED
  BY <1>3, <1>4 DEF n

LEMMA LatestChange ==
    ASSUME TypeOK, NEW u \in Users, NEW i \in DOMAIN issues, NEW patch \in Patches,
           NEW note \in BOOLEAN, NEW m \in Mentioned, UpdateIssue(u, i, patch, note, m)
    PROVE  /\ NewEvent /\ Len(history') = Len(history) + 1
           /\ Len(history) + 1 \notin DOMAIN history
           /\ Latest.issue = i /\ Latest.author = u
           /\ Latest.kind = "change" /\ Latest.changes = Written(Diff(i, patch))
<1> DEFINE diff == Diff(i, patch)
<1>1. Log(i, u, "change", note, diff)
  BY Zenon DEF UpdateIssue
<1>2. Written(diff) \in SUBSET Change
  <2>1. patch \in Patch
    BY TrackerAssumption
  <2> QED
    BY <2>1, WrittenIs
<1>3. issues'[i].now \in Content
  BY UpdateType
<1>4. "change" \in {"creation", "change", "comment"} /\ i \in Nat
  BY DEF TypeOK
<1> HIDE DEF diff
<1>5. /\ NewEvent /\ Len(history') = Len(history) + 1
      /\ Len(history) + 1 \notin DOMAIN history
      /\ Latest.issue = i /\ Latest.author = u
      /\ Latest.kind = "change" /\ Latest.changes = Written(diff)
  BY <1>1, <1>2, <1>3, <1>4, LatestIs
<1> QED
  BY <1>5 DEF diff

LEMMA LatestComment ==
    ASSUME TypeOK, NEW u \in Users, NEW i \in DOMAIN issues, NEW m \in Mentioned,
           CommentIssue(u, i, m)
    PROVE  /\ NewEvent /\ Len(history') = Len(history) + 1
           /\ Len(history) + 1 \notin DOMAIN history
           /\ Latest.issue = i /\ Latest.author = u /\ Latest.kind = "comment"
<1>1. Log(i, u, "comment", TRUE, {})
  BY Zenon DEF CommentIssue
<1>2. issues'[i].now \in Content
  BY CommentType
<1>3. /\ "comment" \in {"creation", "change", "comment"} /\ TRUE \in BOOLEAN
      /\ Written({}) \in SUBSET Change
  BY NothingWritten
<1>4. i \in Nat
  BY DEF TypeOK
<1> QED
  BY <1>1, <1>2, <1>3, <1>4, LatestIs, Zenon

\* A request that leaves the contents and the history alone.
LEMMA AuthorisedAround ==
    ASSUME IInv, issues' = issues, history' = history
    PROVE  Authorised
<1>1. history \in Seq(Event)
  BY DEF IInv, HistoryReplays, TypeOK
<1>2. ~NewEvent
  BY <1>1, LenProperties DEF NewEvent
<1> QED
  BY <1>2 DEF Authorised

LEMMA AuthorisedStep == IInv /\ [Next]_vars => [Authorised]_vars
<1> SUFFICES ASSUME IInv, Next PROVE Authorised
  BY DEF vars
<1>0. TypeOK /\ issues \in Seq(Issue) /\ Len(issues) \in Nat
  BY DEF IInv, HistoryReplays, TypeOK
<1>1. ASSUME NEW u \in Users, NEW c \in Drafts, NEW m \in Mentioned, CreateIssue(u, c, m)
      PROVE  Authorised
  <2>1. \A i \in DOMAIN issues : issues'[i] = issues[i]
    BY <1>0, <1>1, CreateType
  <2>2. /\ actor' = u /\ UNCHANGED role
        /\ May(u, "user") /\ May(u, "viewer")
    BY <1>1 DEF CreateIssue, Request
  <2>3. Latest.author = u
    BY <1>0, <1>1, LatestCreation
  <2> QED
    BY <2>1, <2>2, <2>3, Zenon DEF Authorised
<1>2. ASSUME NEW u \in Users, NEW i \in 1..MaxIssues, NEW p \in Patches,
             NEW note \in BOOLEAN, NEW m \in Mentioned, UpdateIssue(u, i, p, note, m)
      PROVE  Authorised
  <2>1. i \in DOMAIN issues /\ MaySet(u, p) /\ actor' = u /\ May(u, "viewer")
    BY <1>2, Zenon DEF UpdateIssue, Request
  <2>2. /\ TypeOK' /\ DOMAIN issues' = DOMAIN issues
        /\ \A j \in DOMAIN issues : j # i => issues'[j] = issues[j]
        /\ issues'[i].archived = issues[i].archived
        /\ issues'[i].now = Patched(issues[i].now, Diff(i, p))
    BY <1>0, <1>2, <2>1, UpdateType, Zenon
  <2>3. p \in Patch
    BY TrackerAssumption
  <2>4. /\ issues[i].now \in Content /\ issues'[i].now \in Content
        /\ \A f \in Fields : p[f] = Keep => issues'[i].now[f] = issues[i].now[f]
    BY <1>0, <2>1, <2>2, <2>3, DiffType, PatchedIs
  <2>5. issues'[i].now.status # issues[i].now.status => May(u, "developer")
    BY <2>1, <2>4 DEF MaySet, Fields
  <2>6. issues'[i].now # issues[i].now => May(u, "user")
    <3>1. ASSUME \A f \in Fields : issues'[i].now[f] = issues[i].now[f]
          PROVE  issues'[i].now = issues[i].now
      BY <2>4, <3>1 DEF Content, Fields
    <3>2. ASSUME NEW f \in Fields, issues'[i].now[f] # issues[i].now[f]
          PROVE  May(u, "user")
      <4>1. p[f] # Keep
        BY <2>4, <3>2
      <4>2. CASE f = "status"
        BY <1>0, <2>1, <4>1, <4>2, Ranks DEF MaySet
      <4>3. CASE f # "status"
        BY <2>1, <4>1, <4>3 DEF MaySet, Fields
      <4> QED
        BY <4>2, <4>3
    <3> QED
      BY <3>1, <3>2
  <2>7. Latest.author = u /\ Latest.kind = "change" /\ Latest.changes = Written(Diff(i, p))
    BY <1>0, <1>2, <2>1, LatestChange, Zenon
  <2>8. May(u, "user") \/ Latest.changes = {}
    <3>1. ASSUME NEW c \in Diff(i, p) PROVE May(u, "user")
      <4>1. c.field \in Fields /\ p[c.field] # Keep
        BY <1>0, <2>1, <2>3, DiffType
      <4>2. CASE c.field = "status"
        BY <1>0, <2>1, <4>1, <4>2, Ranks DEF MaySet
      <4>3. CASE c.field # "status"
        BY <2>1, <4>1, <4>3 DEF MaySet, Fields
      <4> QED
        BY <4>2, <4>3
    <3>2. Diff(i, p) = {} => Latest.changes = {}
      BY <2>7, NothingWritten
    <3> QED
      BY <3>1, <3>2
  <2>9. \A j \in DOMAIN issues :
          /\ issues'[j].now.status # issues[j].now.status
             \/ issues'[j].archived # issues[j].archived => May(u, "developer")
          /\ issues'[j].now # issues[j].now => May(u, "user")
    BY <2>2, <2>5, <2>6
  <2> QED
    BY <2>1, <2>7, <2>8, <2>9, Zenon DEF Authorised
<1>3. ASSUME NEW u \in Users, NEW i \in 1..MaxIssues, NEW m \in Mentioned,
             CommentIssue(u, i, m)
      PROVE  Authorised
  <2>1. /\ i \in DOMAIN issues /\ issues' = issues /\ actor' = u
        /\ May(u, "user") /\ May(u, "viewer")
    BY <1>3, Zenon DEF CommentIssue, Request
  <2>2. Latest.author = u
    BY <1>0, <1>3, <2>1, LatestComment
  <2> QED
    BY <2>1, <2>2, Zenon DEF Authorised
<1>4. ASSUME NEW u \in Users, NEW i \in 1..MaxIssues, NEW b \in BOOLEAN, SetArchived(u, i, b)
      PROVE  Authorised
  <2>1. /\ i \in DOMAIN issues /\ May(u, "developer") /\ actor' = u
        /\ issues' = [issues EXCEPT ![i].archived = b]
    BY <1>4, Zenon DEF SetArchived, Request
  <2>2. \A j \in DOMAIN issues : issues'[j].now = issues[j].now
    <3>1. issues[i] \in Issue
      BY <1>0, <2>1
    <3>2. [issues[i] EXCEPT !.archived = b].now = issues[i].now
      BY <3>1 DEF Issue
    <3>3. \A j \in DOMAIN issues :
            issues'[j] = IF j = i THEN [issues[i] EXCEPT !.archived = b] ELSE issues[j]
      BY <2>1
    <3> QED
      BY <3>2, <3>3
  <2>3. ~NewEvent
    <3>1. history \in Seq(Event) /\ history' = history
      BY <1>0, <1>4, Zenon DEF SetArchived, TypeOK
    <3> QED
      BY <3>1, LenProperties DEF NewEvent
  <2> QED
    BY <2>1, <2>2, <2>3 DEF Authorised
<1>5. ASSUME NEW u \in Users, NEW i \in 1..MaxIssues, NEW b \in BOOLEAN, Watch(u, i, b)
      PROVE  Authorised
  BY <1>5, AuthorisedAround DEF Watch
<1>6. ASSUME issues' = issues, history' = history PROVE Authorised
  BY <1>6, AuthorisedAround
<1>7. CASE \/ \E u \in Users :
                \/ \E r \in Roles : AddMember(u, r) \/ ChangeRole(u, r)
                \/ RemoveMember(u)
           \/ ArchiveProject \/ UnarchiveProject
           \/ \E u \in Users, off \in BOOLEAN : SetDisabled(u, off)
           \/ \E s \in Statuses, off \in BOOLEAN : SetRetired(s, off)
           \/ \E s \in Statuses, name \in StatusNames : RenameStatus(s, name)
           \/ \E u \in Users, name \in DisplayNames : RenameUser(u, name)
           \/ \E p \in Optional, on \in BOOLEAN : SetPref(p, on)
  <2>1. issues' = issues /\ history' = history
    BY <1>7 DEF AddMember, ChangeRole, RemoveMember, ArchiveProject, UnarchiveProject,
                SetDisabled, SetRetired, RenameStatus, RenameUser, SetPref, Around
  <2> QED
    BY <2>1, <1>6
<1> QED
  BY <1>1, <1>2, <1>3, <1>4, <1>5, <1>7, Zenon DEF Next

\* Who edits the status of an issue, or archives it, acts as a developer at
\* that moment; who edits anything else, creates an issue or comments on one acts
\* at least as a user, and who saves a mere note as a viewer: requireRole holds for
\* every key of a patch, whatever was changed meanwhile.
THEOREM TriageAlwaysNeedsDeveloper == Spec => TriageNeedsDeveloper
  BY Invariance, AuthorisedStep, PTL DEF TriageNeedsDeveloper, Spec
-----------------------------------------------------------------------------
(* Who is told                                                             *)

LEMMA Priorities ==
    /\ DOMAIN KindPriority = 1..4
    /\ \A k \in Kinds : \E i \in 1..4 : k = KindPriority[i]
    /\ \A i, j \in 1..4 : KindPriority[i] = KindPriority[j] => i = j
    /\ KindPriority[1] = "assigned_to_me"
    /\ \A i \in 1..4 : KindPriority[i] \in Kinds
<1>1. /\ DOMAIN KindPriority = 1..4
      /\ KindPriority[1] = "assigned_to_me" /\ KindPriority[2] = "mentioned"
      /\ KindPriority[3] = "watched_status_change" /\ KindPriority[4] = "watched_any_change"
  BY DEF KindPriority
<1>2. \A i \in 1..4 : i = 1 \/ i = 2 \/ i = 3 \/ i = 4
  OBVIOUS
<1> QED
  BY <1>1, <1>2 DEF Kinds

\* The candidates give a user one pair for each reason the event concerns them;
\* a new assignee, who watches already, may have one for watching as well.
Matches(u, candidates) ==
    \A k \in Kinds :
        /\ Concern(u, k) => <<u, k>> \in candidates
        /\ <<u, k>> \in candidates => Concern(u, k) \/ Concern(u, "assigned_to_me")

\* Of the reasons to tell a user the highest is chosen.
LEMMA HighestReason ==
    ASSUME NEW candidates, candidates \subseteq Users \X Kinds, NEW u \in Users,
           Matches(u, candidates), NEW k \in Kinds
    PROVE  <<u, k>> \in Top(candidates) <=> Foremost(u, k)
<1> DEFINE Has(i) == <<u, KindPriority[i]>> \in candidates
           For(i) == Concern(u, KindPriority[i])
<1>1. PICK i \in 1..4 : k = KindPriority[i]
  BY Priorities
<1>2. <<u, k>> \in Top(candidates) <=> Has(i) /\ \A j \in 1..4 : Has(j) => i <= j
  <2> DEFINE c == <<u, k>>
  <2>1. c[1] = u /\ c[2] = KindPriority[i]
    BY <1>1
  <2>2. ASSUME c \in Top(candidates), NEW j \in 1..4, Has(j)
        PROVE  i <= j
    <3> DEFINE d == <<u, KindPriority[j]>>
    <3>1. d \in candidates /\ d[1] = u /\ d[2] = KindPriority[j]
      BY <2>2
    <3>2. PICK p \in 1..4, l \in 1..4 : p <= l /\ c[2] = KindPriority[p] /\ d[2] = KindPriority[l]
      <4> HIDE DEF c, d
      <4> QED
        BY <2>1, <2>2, <3>1, Priorities DEF Top
    <3> QED
      BY <2>1, <3>1, <3>2, Priorities
  <2>3. ASSUME \A j \in 1..4 : Has(j) => i <= j, NEW d \in candidates, c[1] = d[1]
        PROVE  \E p, l \in DOMAIN KindPriority :
                 p <= l /\ c[2] = KindPriority[p] /\ d[2] = KindPriority[l]
    <3>1. d[1] \in Users /\ d[2] \in Kinds /\ d = <<d[1], d[2]>>
      OBVIOUS
    <3>2. PICK j \in 1..4 : d[2] = KindPriority[j]
      BY <3>1, Priorities
    <3>3. Has(j)
      BY <2>1, <2>3, <3>1, <3>2
    <3>4. i <= j
      BY <2>3, <3>3
    <3> QED
      BY <2>1, <3>2, <3>4, Priorities
  <2>4. c \in Top(candidates) => c \in candidates
    BY DEF Top
  <2>5. c \in candidates <=> Has(i)
    BY <1>1
  <2>6. c \in candidates /\ (\A j \in 1..4 : Has(j) => i <= j) => c \in Top(candidates)
    <3> HIDE DEF c, Has
    <3> QED
      BY <2>3, Zenon DEF Top
  <2> QED
    BY <2>2, <2>4, <2>5, <2>6
<1>3. Foremost(u, k) <=> For(i) /\ \A j \in 1..4 : For(j) => i <= j
  <2>1. Foremost(u, k) <=> Concern(u, k) /\ \A q \in 1..(i - 1) : ~For(q)
    <3>1. \A p \in 1..4 : k = KindPriority[p] <=> p = i
      BY <1>1, Priorities
    <3> HIDE DEF For
    <3>2. Foremost(u, k) <=>
            /\ Concern(u, k)
            /\ \A p \in 1..4 : k = KindPriority[p] => \A q \in 1..(p - 1) : ~For(q)
      BY Priorities DEF Foremost, For
    <3> QED
      BY <3>1, <3>2
  <2>2. Concern(u, k) <=> For(i)
    BY <1>1
  <2> HIDE DEF For
  <2>3. (\A q \in 1..(i - 1) : ~For(q)) <=> \A j \in 1..4 : For(j) => i <= j
    OBVIOUS
  <2> QED
    BY <2>1, <2>2, <2>3
<1>4. \A j \in 1..4 : (For(j) => Has(j)) /\ (Has(j) => For(j) \/ For(1))
  BY Priorities DEF Matches
<1> HIDE DEF Has, For
<1>5. CASE For(1)
  <2>1. 1 \in 1..4 /\ Has(1)
    BY <1>4, <1>5
  <2>2. (\A j \in 1..4 : Has(j) => i <= j) <=> i = 1
    BY <2>1
  <2>3. (\A j \in 1..4 : For(j) => i <= j) <=> i = 1
    BY <1>5, <2>1
  <2> QED
    BY <1>2, <1>3, <1>5, <2>1, <2>2, <2>3
<1>6. CASE ~For(1)
  <2>1. \A j \in 1..4 : For(j) <=> Has(j)
    BY <1>4, <1>6
  <2> QED
    BY <1>2, <1>3, <2>1
<1> QED
  BY <1>5, <1>6

\* What an event that is recorded with these candidates tells.
LEMMA Telling ==
    ASSUME TypeOK, Len(history') = Len(history) + 1, Len(history) + 1 \notin DOMAIN history,
           NEW author, NEW candidates, candidates \subseteq Users \X Kinds,
           Persist(Len(history) + 1, author, candidates)
    PROVE  /\ \A n \in notices' \ notices : n.event = Len(history')
           /\ \A u \in Users : ToldNow(u) =
                {k \in Kinds : /\ u # author /\ role[u] # "none"
                              /\ <<u, k>> \notin optedOut /\ <<u, k>> \in Top(candidates)}
<1> DEFINE e == Len(history')
           chosen == {d \in Top(candidates) : d[1] # author /\ role[d[1]] # "none"} \ optedOut
           N(c) == [event |-> e, user |-> c[1], kind |-> c[2]]
<1>1. notices' = notices \cup {N(c) : c \in chosen}
  BY Zenon DEF Persist
<1>2. chosen \subseteq Users \X Kinds
  BY DEF Top
<1>3. \A c \in chosen : /\ c \in Top(candidates) /\ c[1] \in Users /\ c[2] \in Kinds
                        /\ c = <<c[1], c[2]>> /\ c[1] # author /\ role[c[1]] # "none"
                        /\ c \notin optedOut
  BY <1>2
<1>4. \A c : N(c).event = e /\ N(c).user = c[1] /\ N(c).kind = c[2]
  OBVIOUS
<1>5. \A n \in notices : n.event # e
  BY DEF TypeOK
<1>6. ASSUME NEW u \in Users, NEW k \in Kinds, u # author, role[u] # "none",
             <<u, k>> \notin optedOut, <<u, k>> \in Top(candidates)
      PROVE  \E c \in chosen : c[1] = u /\ c[2] = k
  <2> DEFINE c == <<u, k>>
  <2>1. c[1] = u /\ c[2] = k
    OBVIOUS
  <2> HIDE DEF c
  <2>2. c \in chosen
    BY <1>6, <2>1 DEF c
  <2> QED
    BY <2>1, <2>2
<1> HIDE DEF chosen, N, e
<1>7. \A n \in notices' \ notices : n.event = e
  BY <1>1, <1>4
<1>8. ASSUME NEW u \in Users
      PROVE  ToldNow(u) =
               {k \in Kinds : /\ u # author /\ role[u] # "none"
                             /\ <<u, k>> \notin optedOut /\ <<u, k>> \in Top(candidates)}
  <2> DEFINE told == {k \in Kinds : /\ u # author /\ role[u] # "none"
                                   /\ <<u, k>> \notin optedOut /\ <<u, k>> \in Top(candidates)}
  <2>1. ToldNow(u) = {n.kind : n \in {m \in notices' : m.event = e /\ m.user = u}}
    BY Zenon DEF ToldNow, e
  <2>2. ASSUME NEW n \in notices', n.event = e, n.user = u PROVE n.kind \in told
    <3>1. PICK c \in chosen : n = N(c)
      BY <1>1, <1>5, <2>2
    <3>2. c[1] = u /\ n.kind = c[2]
      BY <1>4, <2>2, <3>1
    <3>3. c = <<u, n.kind>>
      BY <1>3, <3>2
    <3> QED
      BY <1>3, <3>2, <3>3
  <2>3. ASSUME NEW k \in told
        PROVE  \E n \in {m \in notices' : m.event = e /\ m.user = u} : n.kind = k
    <3>1. PICK c \in chosen : c[1] = u /\ c[2] = k
      BY <1>6, <2>3
    <3>2. N(c) \in notices'
      BY <1>1
    <3> QED
      BY <1>4, <3>1, <3>2
  <2> HIDE DEF told
  <2>4. ToldNow(u) = told
    BY <2>1, <2>2, <2>3
  <2> QED
    BY <2>4 DEF told
<1> QED
  BY <1>7, <1>8 DEF e

\* A request whose candidates match whom the event concerns.
LEMMA MatchesTell ==
    ASSUME TypeOK, NewEvent, Len(history') = Len(history) + 1,
           Len(history) + 1 \notin DOMAIN history,
           NEW author, Latest.author = author,
           NEW candidates, candidates \subseteq Users \X Kinds,
           Persist(Len(history) + 1, author, candidates),
           \A u \in Users \ {author} : role[u] # "none" => Matches(u, candidates),
           \A u \in Users :
               u = author \/ Concern(u, "assigned_to_me") => <<Latest.issue, u>> \in watchers'
    PROVE  ConcernedAreTold
<1>1. \A n \in notices' \ notices : NewEvent /\ n.event = Len(history')
  BY Telling
<1>2. ASSUME NEW u \in Users
      PROVE  ToldNow(u) =
               {k \in Kinds : /\ u # Latest.author /\ role[u] # "none"
                             /\ <<u, k>> \notin optedOut /\ Foremost(u, k)}
  <2>1. ToldNow(u) =
          {k \in Kinds : /\ u # author /\ role[u] # "none"
                        /\ <<u, k>> \notin optedOut /\ <<u, k>> \in Top(candidates)}
    BY Telling
  <2>2. CASE u = author \/ role[u] = "none"
    BY <2>1, <2>2
  <2>3. CASE u # author /\ role[u] # "none"
    <3>1. \A k \in Kinds : <<u, k>> \in Top(candidates) <=> Foremost(u, k)
      BY <2>3, HighestReason
    <3> QED
      BY <2>1, <3>1
  <2> QED
    BY <2>2, <2>3
<1> QED
  BY <1>1, <1>2, Zenon DEF ConcernedAreTold

LEMMA ConcernedByCreation ==
    ASSUME TypeOK, NEW u \in Users, NEW c \in Drafts, NEW m \in Mentioned,
           CreateIssue(u, c, m)
    PROVE  ConcernedAreTold
<1> DEFINE given == Assigned(c.assignee, u, "assigned_to_me")
           named == Watched(m, "mentioned")
           told == given \cup named
           i == Len(issues) + 1
<1>1. /\ Persist(Len(history) + 1, u, told) /\ mentioned' = m
      /\ watchers' = watchers \cup {<<i, w>> : w \in {u, c.assignee} \ {Nobody}}
  BY Zenon DEF CreateIssue, RecordCreation
<1>2. /\ NewEvent /\ Len(history') = Len(history) + 1 /\ Len(history) + 1 \notin DOMAIN history
      /\ Latest.issue = i /\ Latest.author = u /\ Latest.kind = "creation"
  BY LatestCreation
<1>3. issues'[i].now = c /\ c.assignee \in Users \cup {Nobody} /\ Nobody \notin Users
  BY CreateType, TrackerAssumption DEF Content
<1>4. told \subseteq Users \X Kinds
  BY <1>3, KindNames, MentionedType DEF Assigned, Watched
<1> HIDE DEF i
<1>5. \A v \in Users : Concern(v, "assigned_to_me") <=> c.assignee = v
  BY <1>2, <1>3 DEF Concern
<1>6. ASSUME NEW v \in Users \ {u}, NEW k \in Kinds
      PROVE  Concern(v, k) <=> <<v, k>> \in told
  <2>1. <<v, k>> \in given <=> k = "assigned_to_me" /\ c.assignee = v
    BY <1>3 DEF Assigned
  <2>2. <<v, k>> \in named <=> k = "mentioned" /\ v \in m
    BY DEF Watched
  <2>3. Concern(v, "mentioned") <=> v \in m
    BY <1>1 DEF Concern
  <2>4. ~Concern(v, "watched_status_change") /\ ~Concern(v, "watched_any_change")
    BY <1>2 DEF Concern, Altered
  <2> HIDE DEF given, named
  <2>5. k \in {"assigned_to_me", "mentioned", "watched_status_change", "watched_any_change"}
    BY KindNames
  <2>6. <<v, k>> \in told <=> <<v, k>> \in given \/ <<v, k>> \in named
    OBVIOUS
  <2> HIDE DEF told
  <2> QED
    BY <1>5, <2>1, <2>2, <2>3, <2>4, <2>5, <2>6
<1>7. \A v \in Users \ {u} : Matches(v, told)
  BY <1>6 DEF Matches
<1>8. ASSUME NEW v \in Users, v = u \/ Concern(v, "assigned_to_me")
      PROVE  <<Latest.issue, v>> \in watchers'
  BY <1>1, <1>2, <1>3, <1>5, <1>8
<1> HIDE DEF told
<1> QED
  BY <1>1, <1>2, <1>4, <1>7, <1>8, MatchesTell

LEMMA ConcernedByUpdate ==
    ASSUME TypeOK, NEW u \in Users, NEW i \in DOMAIN issues, NEW patch \in Patches,
           NEW note \in BOOLEAN, NEW m \in Mentioned, UpdateIssue(u, i, patch, note, m)
    PROVE  ConcernedAreTold
<1> DEFINE diff == Diff(i, patch)
           mentions == IF note THEN m ELSE {}
           assignee == issues'[i].now.assignee
           given == UNION {Assigned(a, u, "assigned_to_me") : a \in AssignedIn(diff)}
           heard == Watched(Hearing(i, watchers', u), ChangeKind(diff))
           named == Watched(mentions, "mentioned")
           told == ChangeTold(i, u, diff, mentions)
<1>1. /\ RecordChange(i, u, diff, mentions)
      /\ issues' = [issues EXCEPT ![i].now = Patched(@, diff)]
  BY Zenon DEF UpdateIssue
<1>2. mentions \in SUBSET Users
  BY MentionedType
<1>3. /\ NewEvent /\ Len(history') = Len(history) + 1 /\ Len(history) + 1 \notin DOMAIN history
      /\ Latest.issue = i /\ Latest.author = u /\ Latest.kind = "change"
  BY LatestChange
<1>4. patch \in Patch
  BY TrackerAssumption
<1>5. /\ issues'[i].now = Patched(issues[i].now, diff) /\ issues'[i].now \in Content
      /\ \A c \in diff : /\ c.field \in Fields /\ c.new = patch[c.field]
                         /\ c.new # c.old /\ c.new # Keep
      /\ \A f \in Fields : Touches(diff, f) <=> patch[f] \notin {Keep, issues[i].now[f]}
      /\ \A f \in Fields : issues'[i].now[f] = IF patch[f] = Keep THEN issues[i].now[f]
                                               ELSE patch[f]
  BY <1>4, UpdateType, DiffType, PatchedIs
<1>6. "assignee" \in Fields /\ "status" \in Fields
  BY DEF Fields
<1>7. \A f \in Fields : Altered(f) <=> Touches(diff, f)
  <2> TAKE f \in Fields
  <2>1. Altered(f) <=> issues'[i].now[f] # issues[i].now[f]
    BY <1>3 DEF Altered
  <2> QED
    BY <1>5, <2>1
<1> HIDE DEF mentions
<1>8. /\ watchers' = watchers \cup {<<i, w>> : w \in ({u} \cup AssignedIn(diff)) \ {Nobody}}
      /\ Persist(Len(history) + 1, u, told)
      /\ told \subseteq Users \X Kinds
  BY <1>1, <1>2, ChangeTells
<1>9. mentioned' = mentions
  <2> HIDE DEF diff
  <2> QED
    BY <1>1, Zenon DEF RecordChange
<1>10. told = given \cup heard \cup named
  BY Zenon DEF ChangeTold
<1> HIDE DEF diff, told
<1>11. assignee \in Users \cup {Nobody} /\ Nobody \notin Users
  BY <1>5, TrackerAssumption DEF Content
<1>12. \A a : a \in AssignedIn(diff) <=> Altered("assignee") /\ a = assignee
  <2> TAKE a
  <2>1. ASSUME a \in AssignedIn(diff) PROVE Altered("assignee") /\ a = assignee
    <3>1. PICK c \in diff : c.field = "assignee" /\ a = c.new
      BY <2>1, Zenon DEF AssignedIn
    <3>2. Touches(diff, "assignee")
      BY <3>1, Zenon DEF Touches
    <3>3. Altered("assignee")
      BY <1>6, <1>7, <3>2, Zenon
    <3>4. a = assignee
      BY <1>5, <1>6, <3>1
    <3> QED
      BY <3>3, <3>4
  <2>2. ASSUME Altered("assignee") PROVE assignee \in AssignedIn(diff)
    <3>1. Touches(diff, "assignee")
      BY <1>6, <1>7, <2>2, Zenon
    <3>2. PICK c \in diff : c.field = "assignee"
      BY <3>1, Zenon DEF Touches
    <3>3. c.new = assignee
      BY <1>5, <1>6, <3>2
    <3> QED
      BY <3>2, <3>3, Zenon DEF AssignedIn
  <2> QED
    BY <2>1, <2>2
<1>13. ChangeKind(diff) =
         IF Altered("status") THEN "watched_status_change" ELSE "watched_any_change"
  <2>1. Altered("status") <=> \E c \in diff : c.field = "status"
    BY <1>6, <1>7 DEF Touches
  <2> QED
    BY <2>1, Zenon DEF ChangeKind
<1>14. \A v \in Users : Concern(v, "assigned_to_me") <=> Altered("assignee") /\ assignee = v
  BY <1>3 DEF Concern
<1>15. ASSUME NEW v \in Users, NEW k \in Kinds, v # u
       PROVE  /\ <<v, k>> \in given <=> k = "assigned_to_me" /\ v \in AssignedIn(diff)
              /\ <<v, k>> \in named <=> k = "mentioned" /\ v \in mentions
              /\ <<v, k>> \in heard <=> /\ k = ChangeKind(diff) /\ v \notin disabled
                                        /\ <<i, v>> \in watchers' /\ role[v] # "none"
  <2>1. <<v, k>> \in given <=> k = "assigned_to_me" /\ v \in AssignedIn(diff)
    <3>1. \A a : <<v, k>> \in Assigned(a, u, "assigned_to_me")
                   <=> a = v /\ k = "assigned_to_me"
      BY <1>11, <1>15 DEF Assigned
    <3>2. <<v, k>> \in given
            <=> \E a \in AssignedIn(diff) : <<v, k>> \in Assigned(a, u, "assigned_to_me")
      OBVIOUS
    <3> HIDE DEF given
    <3> QED
      BY <3>1, <3>2
  <2>2. <<v, k>> \in named <=> k = "mentioned" /\ v \in mentions
    BY DEF Watched
  <2>3. <<v, k>> \in heard <=> v \in Hearing(i, watchers', u) /\ k = ChangeKind(diff)
    BY DEF Watched
  <2>4. v \in Hearing(i, watchers', u)
          <=> v \notin disabled /\ <<i, v>> \in watchers' /\ role[v] # "none"
    BY <1>15 DEF Hearing
  <2> HIDE DEF given, named, heard
  <2> QED
    BY <2>1, <2>2, <2>3, <2>4
<1>16. \A v \in Users \ {u} :
         <<i, v>> \in watchers' <=> <<i, v>> \in watchers \/ v \in AssignedIn(diff)
  BY <1>8, <1>11
<1> DEFINE watched(v) == <<i, v>> \in watchers /\ v \notin disabled
<1>17. \A v \in Users :
         /\ Concern(v, "mentioned") <=> v \in mentions
         /\ Concern(v, "watched_status_change") <=> watched(v) /\ Altered("status")
         /\ Concern(v, "watched_any_change") <=> watched(v) /\ ~Altered("status")
  BY <1>3, <1>9 DEF Concern
<1> HIDE DEF given, named, heard, assignee, watched
<1>18. ASSUME NEW v \in Users \ {u}, role[v] # "none", NEW k \in Kinds
       PROVE  /\ Concern(v, k) => <<v, k>> \in told
              /\ <<v, k>> \in told => Concern(v, k) \/ Concern(v, "assigned_to_me")
  <2>1. k \in {"assigned_to_me", "mentioned", "watched_status_change", "watched_any_change"}
    BY KindNames
  <2>2. Concern(v, "assigned_to_me") <=> v \in AssignedIn(diff)
    BY <1>12, <1>14
  <2>3. <<v, k>> \in told <=>
          \/ k = "assigned_to_me" /\ v \in AssignedIn(diff)
          \/ k = "mentioned" /\ v \in mentions
          \/ /\ k = ChangeKind(diff) /\ v \notin disabled
             /\ <<i, v>> \in watchers \/ v \in AssignedIn(diff)
    BY <1>10, <1>15, <1>16, <1>18
  <2>4. CASE k = "assigned_to_me"
    BY <1>13, <2>2, <2>3, <2>4
  <2>5. CASE k = "mentioned"
    BY <1>13, <1>17, <2>3, <2>5
  <2>6. CASE k = "watched_status_change"
    BY <1>13, <1>17, <2>2, <2>3, <2>6 DEF watched
  <2>7. CASE k = "watched_any_change"
    BY <1>13, <1>17, <2>2, <2>3, <2>7 DEF watched
  <2> QED
    BY <2>1, <2>4, <2>5, <2>6, <2>7
<1>19. \A v \in Users \ {u} : role[v] # "none" => Matches(v, told)
  BY <1>18 DEF Matches
<1>20. ASSUME NEW v \in Users, v = u \/ Concern(v, "assigned_to_me")
       PROVE  <<Latest.issue, v>> \in watchers'
  <2>1. v \in {u} \cup AssignedIn(diff) /\ v # Nobody
    BY <1>11, <1>12, <1>14, <1>20
  <2> QED
    BY <1>3, <1>8, <2>1
<1> QED
  BY <1>3, <1>8, <1>19, <1>20, MatchesTell

LEMMA ConcernedByComment ==
    ASSUME TypeOK, NEW u \in Users, NEW i \in DOMAIN issues, NEW m \in Mentioned,
           CommentIssue(u, i, m)
    PROVE  ConcernedAreTold
<1> DEFINE any == "watched_any_change"
           assignee == issues[i].now.assignee
           pulled == Assigned(assignee, u, any)
           heard == Watched(Hearing(i, watchers', u), any)
           named == Watched(m, "mentioned")
           told == pulled \cup heard \cup named
<1>1. /\ watchers' = watchers \cup {<<i, u>>} /\ mentioned' = m
      /\ Persist(Len(history) + 1, u, told)
  BY Zenon DEF CommentIssue, RecordComment
<1>2. /\ NewEvent /\ Len(history') = Len(history) + 1 /\ Len(history) + 1 \notin DOMAIN history
      /\ Latest.issue = i /\ Latest.author = u /\ Latest.kind = "comment"
  BY LatestComment
<1>3. assignee \in Users \cup {Nobody} /\ Nobody \notin Users
  BY CommentType, TrackerAssumption DEF Content
<1>4. told \subseteq Users \X Kinds
  BY <1>3, KindNames, MentionedType DEF Assigned, Watched, Hearing
<1>5. \A v \in Users : ~Concern(v, "assigned_to_me") /\ ~Concern(v, "watched_status_change")
  BY <1>2 DEF Concern, Altered
<1>6. \A v \in Users :
        /\ Concern(v, "mentioned") <=> v \in m
        /\ Concern(v, any) <=> (<<i, v>> \in watchers /\ v \notin disabled) \/ assignee = v
  BY <1>1, <1>2 DEF Concern
<1>7. ASSUME NEW v \in Users \ {u}, role[v] # "none", NEW k \in Kinds
      PROVE  Concern(v, k) <=> <<v, k>> \in told
  <2>1. <<v, k>> \in pulled <=> k = any /\ assignee = v
    BY <1>3 DEF Assigned
  <2>2. <<v, k>> \in named <=> k = "mentioned" /\ v \in m
    BY DEF Watched
  <2>3. <<v, k>> \in heard <=> v \in Hearing(i, watchers', u) /\ k = any
    BY DEF Watched
  <2>4. v \in Hearing(i, watchers', u) <=> <<i, v>> \in watchers /\ v \notin disabled
    BY <1>1, <1>7 DEF Hearing
  <2>5. k \in {"assigned_to_me", "mentioned", "watched_status_change", "watched_any_change"}
    BY KindNames
  <2> HIDE DEF pulled, named, heard
  <2>6. <<v, k>> \in told <=> <<v, k>> \in pulled \/ <<v, k>> \in heard \/ <<v, k>> \in named
    OBVIOUS
  <2> HIDE DEF told, assignee
  <2> QED
    BY <1>5, <1>6, <2>1, <2>2, <2>3, <2>4, <2>5, <2>6
<1>8. \A v \in Users \ {u} : role[v] # "none" => Matches(v, told)
  BY <1>7 DEF Matches
<1>9. \A v \in Users :
        v = u \/ Concern(v, "assigned_to_me") => <<Latest.issue, v>> \in watchers'
  BY <1>1, <1>2, <1>5
<1> HIDE DEF told
<1> QED
  BY <1>1, <1>2, <1>4, <1>8, <1>9, MatchesTell

LEMMA NobodyConcerned ==
    ASSUME TypeOK, history' = history, notices' = notices
    PROVE  ConcernedAreTold
<1>1. history \in Seq(Event)
  BY DEF TypeOK
<1>2. ~NewEvent
  BY <1>1, LenProperties DEF NewEvent
<1> QED
  BY <1>2 DEF ConcernedAreTold

LEMMA ConcernedStep == IInv /\ [Next]_vars => [ConcernedAreTold]_vars
<1> SUFFICES ASSUME TypeOK, Next PROVE ConcernedAreTold
  BY DEF vars, IInv, HistoryReplays
<1>1. ASSUME NEW u \in Users, NEW c \in Drafts, NEW m \in Mentioned, CreateIssue(u, c, m)
      PROVE  ConcernedAreTold
  BY <1>1, ConcernedByCreation
<1>2. ASSUME NEW u \in Users, NEW i \in 1..MaxIssues, NEW p \in Patches,
             NEW note \in BOOLEAN, NEW m \in Mentioned, UpdateIssue(u, i, p, note, m)
      PROVE  ConcernedAreTold
  <2>1. i \in DOMAIN issues
    BY <1>2 DEF UpdateIssue
  <2> QED
    BY <1>2, <2>1, ConcernedByUpdate, Zenon
<1>3. ASSUME NEW u \in Users, NEW i \in 1..MaxIssues, NEW m \in Mentioned,
             CommentIssue(u, i, m)
      PROVE  ConcernedAreTold
  <2>1. i \in DOMAIN issues
    BY <1>3 DEF CommentIssue
  <2> QED
    BY <1>3, <2>1, ConcernedByComment
<1>4. ASSUME NEW u \in Users, NEW i \in 1..MaxIssues, NEW b \in BOOLEAN,
             SetArchived(u, i, b) \/ Watch(u, i, b)
      PROVE  ConcernedAreTold
  BY <1>4, NobodyConcerned, Zenon DEF SetArchived, Watch
<1>5. CASE \/ \E u \in Users :
                \/ \E r \in Roles : AddMember(u, r) \/ ChangeRole(u, r)
                \/ RemoveMember(u)
           \/ ArchiveProject \/ UnarchiveProject
           \/ \E u \in Users, off \in BOOLEAN : SetDisabled(u, off)
           \/ \E s \in Statuses, off \in BOOLEAN : SetRetired(s, off)
           \/ \E s \in Statuses, name \in StatusNames : RenameStatus(s, name)
           \/ \E u \in Users, name \in DisplayNames : RenameUser(u, name)
           \/ \E p \in Optional, on \in BOOLEAN : SetPref(p, on)
  <2>1. history' = history /\ notices' = notices
    BY <1>5 DEF AddMember, ChangeRole, RemoveMember, ArchiveProject, UnarchiveProject,
                SetDisabled, SetRetired, RenameStatus, RenameUser, SetPref, Around
  <2> QED
    BY <2>1, NobodyConcerned
<1> QED
  BY <1>1, <1>2, <1>3, <1>4, <1>5, Zenon DEF Next

\* Told are those, and only those, whom an event concerns, each once and for the
\* highest reason of theirs: recordFor* offers a candidate for each reason,
\* combineCandidates takes the best, and persistNotifications leaves out the
\* author, those who left and those who switched that reason off.
THEOREM RightPeopleAreAlwaysTold == Spec => RightPeopleAreTold
  BY Invariance, ConcernedStep, PTL DEF RightPeopleAreTold, Spec
=============================================================================
