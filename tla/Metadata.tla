------------------------------ MODULE Metadata ------------------------------
(***************************************************************************)
(* The items of one metadata kind (statuses, categories or priorities) of  *)
(* every project: server/services/metadata.js over server/db/metadata.js,  *)
(* with the routes of server/routes/projects.js that call it and the       *)
(* importer's findOrCreateMetadata.                                        *)
(*                                                                         *)
(* The three kinds are three tables that no operation relates, so a        *)
(* behaviour of this module is that of one table.  Every handler here is   *)
(* synchronous: one request is one step.  The importer is another process, *)
(* but each of its rows is one transaction.                                *)
(***************************************************************************)
EXTENDS Integers, Sequences, FiniteSets

CONSTANTS
    Projects,
    Names,        \* item names, after normalizeName
    Key,          \* Key[n]: n in lower case
    Absent,       \* a field a PATCH body does not have
    HasClosed,    \* the kind is statuses, whose items have is_closed
    Defaults,     \* DEFAULTS_BY_KIND[kind]; the index is the sort_order
    Patches,      \* the PATCH bodies clients send
    MaxItems      \* bound: rows of the table

DefaultSpec == [name : Names, isDefault : BOOLEAN, closed : BOOLEAN]

Patch == [name : Names \cup {Absent}, order : Int \cup {Absent},
          isDefault : BOOLEAN, closed : BOOLEAN \cup {Absent}]

ASSUME MetadataAssumption ==
    /\ Absent \notin Names /\ Absent \notin Int /\ Absent \notin BOOLEAN
    /\ Key \in [Names -> Names]
    /\ HasClosed \in BOOLEAN
    /\ Defaults \in Seq(DefaultSpec)
    /\ \A k, l \in DOMAIN Defaults :
         Key[Defaults[k].name] = Key[Defaults[l].name] => k = l
    /\ \E k \in DOMAIN Defaults :
         \A l \in DOMAIN Defaults : Defaults[l].isDefault <=> l = k
    /\ \A l \in DOMAIN Defaults : Defaults[l].closed => HasClosed
    /\ Patches \subseteq Patch
    /\ MaxItems \in Nat

VARIABLES
    items,        \* the table; the rowid is the index
    created,      \* the projects that exist
    reply         \* the last request and whether it was refused

vars == <<items, created, reply>>

-----------------------------------------------------------------------------
Item == [project : Projects, name : Names, order : Int, isDefault : BOOLEAN,
         closed : BOOLEAN, archived : BOOLEAN]

Reply == [op : {"boot", "project", "create", "patch", "archive", "reset", "copy",
                "import"},
          project : Projects \cup {Absent}, ok : BOOLEAN]

TypeOK ==
    /\ items \in Seq(Item)
    /\ created \subseteq Projects
    /\ reply \in Reply

Init ==
    /\ items = <<>>
    /\ created = {}
    /\ reply = [op |-> "boot", project |-> Absent, ok |-> TRUE]

-----------------------------------------------------------------------------
(* Queries                                                                 *)

Of(p) == {i \in DOMAIN items : items[i].project = p}
Active(p) == {i \in Of(p) : ~items[i].archived}
Default(p) == {i \in Of(p) : items[i].isDefault}

\* maxSortOrder: the largest order in the project, 0 when it has no item.
MaxOrder(p) ==
    {o \in {items[i].order : i \in Of(p)} \cup {0} :
        /\ \A i \in Of(p) : items[i].order <= o
        /\ Of(p) = {} \/ \E i \in Of(p) : items[i].order = o}

\* list: ORDER BY sort_order, id.
Precedes(its, i, j) == \/ its[i].order < its[j].order
                       \/ its[i].order = its[j].order /\ i < j

Before(i, j) == Precedes(items, i, j)

\* The enumerations of S that respect `precedes` (one, when it is total).
Listed(S, precedes(_, _)) ==
    {s \in [1..Cardinality(S) -> S] : \A i, j \in DOMAIN s : i < j => precedes(s[i], s[j])}

\* The UNIQUE (project_id, name) constraint lets item i be called n (i = 0: a
\* new row).
NameFree(p, n, i) == \A j \in Of(p) : items[j].name = n => j = i

\* byName of resetToDefaults: a Map built in list order, so that of the items
\* whose names differ in case only, the last one listed is found.
FoundBy(p, n) ==
    {i \in Of(p) : /\ Key[items[i].name] = Key[n]
                   /\ \A j \in Of(p) : Key[items[j].name] = Key[n]
                                       => j = i \/ Before(j, i)}

-----------------------------------------------------------------------------
(* Writes                                                                  *)

NewItem(p, n, o, d, c) ==
    [project |-> p, name |-> n, order |-> o, isDefault |-> d,
     closed |-> c /\ HasClosed, archived |-> FALSE]

Renamed(its, i, n) == IF n = Absent THEN its ELSE [its EXCEPT ![i].name = n]

Reordered(its, i, o) == IF o = Absent THEN its ELSE [its EXCEPT ![i].order = o]

\* clearDefault of the whole project, then setDefault of one item.
WithDefault(its, p, i) ==
    [j \in DOMAIN its |->
        IF its[j].project = p THEN [its[j] EXCEPT !.isDefault = (j = i)] ELSE its[j]]

Closed(its, i, c) == IF c = Absent THEN its ELSE [its EXCEPT ![i].closed = c]

-----------------------------------------------------------------------------
(* Requests                                                                *)

Answer(op, p, ok) == reply' = [op |-> op, project |-> p, ok |-> ok]

Refuse(op, p) == Answer(op, p, FALSE) /\ UNCHANGED <<items, created>>

\* The rows of seedDefaults.
Seeded(p) ==
    [k \in DOMAIN Defaults |->
        NewItem(p, Defaults[k].name, k, Defaults[k].isDefault, Defaults[k].closed)]

\* createProject, in one transaction with seedDefaults.
CreateProject(p) ==
    /\ p \notin created
    /\ Len(items) + Len(Defaults) <= MaxItems
    /\ created' = created \cup {p}
    /\ items' = items \o Seeded(p)
    /\ Answer("project", p, TRUE)

\* createItem: last in the list, never the default.
CreateItem(p, n, c) ==
    /\ p \in created
    /\ Len(items) < MaxItems
    /\ IF NameFree(p, n, 0)
         THEN /\ \E top \in MaxOrder(p) :
                   items' = Append(items, NewItem(p, n, top + 1, FALSE, c))
              /\ Answer("create", p, TRUE)
              /\ UNCHANGED created
         ELSE Refuse("create", p)

\* What renameItem, setDefault and setClosed check on the way through a PATCH.
Fits(p, i, patch) ==
    /\ items[i].project = p
    /\ patch.name # Absent => NameFree(p, patch.name, i)
    /\ patch.isDefault => ~items[i].archived
    /\ patch.closed # Absent => HasClosed

\* PATCH: rename, reorder, setDefault and setClosed in one transaction; the
\* first of them that throws rolls back the others.
PatchItem(p, i, patch) ==
    /\ p \in created
    /\ i \in DOMAIN items
    /\ LET moved == Reordered(Renamed(items, i, patch.name), i, patch.order)
           pointed == IF patch.isDefault THEN WithDefault(moved, p, i) ELSE moved
       IN  IF Fits(p, i, patch)
             THEN /\ items' = Closed(pointed, i, patch.closed)
                  /\ Answer("patch", p, TRUE)
                  /\ UNCHANGED created
             ELSE Refuse("patch", p)

\* Mutant of Archivable: only the last active item is protected.
ArchivableDefaultToo(p, i) ==
    /\ items[i].project = p
    /\ items[i].archived \/ Cardinality(Active(p)) > 1

\* archiveItem: nothing to do for an archived item; refused for the default and
\* for the last active item.
Archivable(p, i) ==
    /\ items[i].project = p
    /\ \/ items[i].archived
       \/ ~items[i].isDefault /\ Cardinality(Active(p)) > 1

\* DELETE archives.
ArchiveItem(p, i) ==
    /\ p \in created
    /\ i \in DOMAIN items
    /\ IF Archivable(p, i)
         THEN /\ items' = [items EXCEPT ![i].archived = TRUE]
              /\ Answer("archive", p, TRUE)
              /\ UNCHANGED created
         ELSE Refuse("archive", p)

\* Mutant of Missing: the archived items are not listed.
MissingActive(p) ==
    {k \in DOMAIN Defaults :
        \A i \in Active(p) : Key[items[i].name] # Key[Defaults[k].name]}

\* The default names that no item of the project has, in any case.
Missing(p) ==
    {k \in DOMAIN Defaults : \A i \in Of(p) : Key[items[i].name] # Key[Defaults[k].name]}

\* Mutant of Restored: archived items are left alone.
RestoredNever(p) == items

\* The items found for a default name are unarchived.
Restored(p) ==
    [i \in DOMAIN items |->
        IF \E k \in DOMAIN Defaults : i \in FoundBy(p, Defaults[k].name)
          THEN [items[i] EXCEPT !.archived = FALSE] ELSE items[i]]

\* The items reset makes the default when the project has no active default:
\* the first listed of those called like the default of DEFAULTS_BY_KIND.
Repointed(its, p) ==
    LET active == {i \in DOMAIN its : its[i].project = p /\ ~its[i].archived}
        named == {i \in active : \E k \in DOMAIN Defaults :
                     Defaults[k].isDefault /\ Key[its[i].name] = Key[Defaults[k].name]}
        first == {i \in named : \A j \in named \ {i} : Precedes(its, i, j)}
    IN  IF \E i \in active : its[i].isDefault THEN {its}
        ELSE IF first = {} THEN {its} ELSE {WithDefault(its, p, i) : i \in first}

\* The rows for the missing defaults ks.
Recreated(p, ks) ==
    [j \in DOMAIN ks |->
        NewItem(p, Defaults[ks[j]].name, ks[j], FALSE, Defaults[ks[j]].closed)]

\* POST reset: restore or create every default name.
ResetToDefaults(p) ==
    /\ p \in created
    /\ Len(items) + Cardinality(Missing(p)) <= MaxItems
    /\ \E ks \in Listed(Missing(p), <) :
         items' \in Repointed(Restored(p) \o Recreated(p, ks), p)
    /\ Answer("reset", p, TRUE)
    /\ UNCHANGED created

\* The active items of src whose names the target has in no case.
Copied(src, p) ==
    {i \in Active(src) : \A j \in Of(p) : Key[items[j].name] # Key[items[i].name]}

\* Their rows in p, after the last.
Pasted(p, is, top) ==
    [j \in DOMAIN is |->
        NewItem(p, items[is[j]].name, top + j, FALSE, items[is[j]].closed)]

\* POST copy-from: append them in the order of src.
CopyFromProject(src, p) ==
    /\ p \in created
    /\ IF src = p THEN Refuse("copy", p)
       ELSE /\ Len(items) + Cardinality(Copied(src, p)) <= MaxItems
            /\ \E is \in Listed(Copied(src, p), Before), top \in MaxOrder(p) :
                 items' = items \o Pasted(p, is, top)
            /\ Answer("copy", p, TRUE)
            /\ UNCHANGED created

\* findOrCreateMetadata in scripts/import-issues.js: an item with the name in
\* some case, unarchived when it is archived, or else a new one.
ImportName(p, n) ==
    /\ p \in created
    /\ LET same == {i \in Of(p) : Key[items[i].name] = Key[n]}
       IN  \/ \E i \in same : items' = [items EXCEPT ![i].archived = FALSE]
           \/ /\ same = {}
              /\ Len(items) < MaxItems
              /\ \E top \in MaxOrder(p) :
                   items' = Append(items, NewItem(p, n, top + 1, FALSE, FALSE))
    /\ Answer("import", p, TRUE)
    /\ UNCHANGED created

-----------------------------------------------------------------------------
Next ==
    \E p \in Projects :
        \/ CreateProject(p)
        \/ \E n \in Names, c \in BOOLEAN : CreateItem(p, n, c)
        \/ \E i \in 1..MaxItems, patch \in Patches : PatchItem(p, i, patch)
        \/ \E i \in 1..MaxItems : ArchiveItem(p, i)
        \/ ResetToDefaults(p)
        \/ \E src \in created : CopyFromProject(src, p)
        \/ \E n \in Names : ImportName(p, n)

Spec == Init /\ [][Next]_vars

-----------------------------------------------------------------------------
(* Properties                                                              *)

\* Exactly one default per kind and project, and it is never archived (so that
\* createIssue always finds the status it falls back to), through rename,
\* archive, reset, copy and import in any order.
OneActiveDefault ==
    /\ TypeOK
    /\ \A p \in created : \E d \in Active(p) : Default(p) = {d}

\* Reset, copy and import compare names in lower case and the UNIQUE constraint
\* as they are written: none of them inserts a row the constraint would refuse
\* (the transaction would fail with an error no handler expects).
NamesUnique ==
    \A i, j \in DOMAIN items :
        items[i].project = items[j].project /\ items[i].name = items[j].name => i = j

\* After a reset every default name is usable again, and nothing else about
\* the items the project already had has changed: not even its default.
Restores ==
    reply'.op = "reset" =>
      /\ \A k \in DOMAIN Defaults : \E i \in DOMAIN items' :
            /\ items'[i].project = reply'.project
            /\ ~items'[i].archived
            /\ Key[items'[i].name] = Key[Defaults[k].name]
      /\ \A i \in DOMAIN items :
            items'[i] \in {items[i], [items[i] EXCEPT !.archived = FALSE]}

\* Whenever a project is reset.
ResetRestores == [][Restores]_vars

=============================================================================
